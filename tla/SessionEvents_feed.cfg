\* Five scripts, one row that cannot be written, a channel for one message. The system stops when the dashboard has the final status.
SPECIFICATION FairSpec
CONSTANTS
    Capacity = 1
    Scripts <- FiveScripts
    MaxFaults = 1
CHECK_DEADLOCK FALSE
INVARIANTS
    TypeOK
    ViewFaithful
    FinalViewComplete
    PairingAgrees
    DraftSuperseded
PROPERTIES
    ViewSettles
