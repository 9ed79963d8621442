\* One run, one abort request, nothing fails. The system stops when the run is settled.
SPECIFICATION Spec
CONSTANTS
    r1 = r1
    r2 = r2
    a1 = a1
    a2 = a2
    Runs = {r1}
    Stages = 1
    Cap = 1
    Handlers = {a1}
    Target <- FirstAborted
    Deliverers <- AllDeliver
    MaxFaults = 0
    MaxCrashes = 0
CHECK_DEADLOCK FALSE
INVARIANTS
    StreamEndsWithSession
