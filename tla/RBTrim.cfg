\* Deterministic target, untrimmed (4 bytes) and trimmed (9 bytes) entries,
\* two calls, two splices; the testcase is re-read from its file each call.
SPECIFICATION Spec
CONSTANTS
    QLens = {4, 9}
    Keys = {{1}, {3}, {2, 4}, {9}}
    Flaky = FALSE
    CacheKeeps = FALSE
    UseSplicing = TRUE
    TargetLen = 9
    MaxSplices = 2
    MaxCalls = 2
    RunWithShadow = TRUE
    TrimStartSteps = 16
    TrimEndSteps = 1024
    TrimMinBytes = 4
INVARIANTS TypeOK TrimKeepsBranch
PROPERTY TrimTerminates
CHECK_DEADLOCK FALSE
