\* Two runs compete for one slot; the first may be aborted; one crash. The system stops when every run is settled.
SPECIFICATION FairSpec
CONSTANTS
    r1 = r1
    r2 = r2
    a1 = a1
    a2 = a2
    Runs = {r1, r2}
    Stages = 1
    Cap = 1
    Handlers = {a1}
    Target <- FirstAborted
    Deliverers <- SecondDelivers
    MaxFaults = 0
    MaxCrashes = 1
CHECK_DEADLOCK FALSE
INVARIANTS
    SlotAccounting
    LiveWithinCap
PROPERTIES
    DispatchedOnce
    RunsSettle
    WaitersProceed
