\* Two deployments, three files, one run, one crash, one failed statement, one of them may reset the schema. The system stops when nothing is left to do.
SPECIFICATION FairSpec
CONSTANTS
    r1 = r1
    r2 = r2
    Last = 2
    Files = 3
    Needs <- OnTheFirst
    ResetPlans <- AtMostOne
    Modes <- BothModes
    Runs = {r1}
    MaxRetries = 5
    MaxCrashes = 1
    MaxFaults = 1
CHECK_DEADLOCK FALSE
INVARIANTS
    TypeOK
    RecordedIffPresent
    ServesMigrated
    OrphansReclaimed
PROPERTIES
    VerdictsSurvive
    ComesUp
