CONSTANTS
    Singles = {}
    Benchmarks = {bench}
    MaxBoxes = 2
    MaxScripts = 2
SPECIFICATION Spec
INVARIANT BenchmarkCleanExit
CHECK_DEADLOCK FALSE
