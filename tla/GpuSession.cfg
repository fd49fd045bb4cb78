CONSTANTS
    Singles = {s1}
    Benchmarks = {bench}
    MaxBoxes = 2
    MaxScripts = 3
SPECIFICATION FairSpec
INVARIANTS
    LeaksHaveACause
    CleanExit
    BootsOwnScript
PROPERTY LeaksReclaimed
CHECK_DEADLOCK FALSE
