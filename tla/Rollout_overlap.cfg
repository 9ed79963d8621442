\* Two deployments, the old one serves until the new one answers. The system stops when nothing is left to do.
SPECIFICATION Spec
CONSTANTS
    r1 = r1
    r2 = r2
    Last = 2
    Files = 1
    Needs <- Single
    ResetPlans <- NoReset
    Modes <- OnlyOverlap
    Runs = {r1}
    MaxRetries = 0
    MaxCrashes = 0
    MaxFaults = 0
CHECK_DEADLOCK FALSE
INVARIANTS
    NoZombieRow
