\* A run of two stages, two abort requests for it, a failed statement or dropped handler, two crashes. The system stops when the run is settled.
SPECIFICATION Spec
CONSTANTS
    r1 = r1
    r2 = r2
    a1 = a1
    a2 = a2
    Runs = {r1}
    Stages = 2
    Cap = 1
    Handlers = {a1, a2}
    Target <- BothAbortFirst
    Deliverers <- AllDeliver
    MaxFaults = 1
    MaxCrashes = 2
CHECK_DEADLOCK FALSE
INVARIANTS
    TypeOK
    NoZombieRun
    NoZombieSession
    CompletedMeansDelivered
    LiveTaskAbortable
    AuditTruthful
    AuditCloses
PROPERTIES
    VerdictsAreFinal
    Contract
