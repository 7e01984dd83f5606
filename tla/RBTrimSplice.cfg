\* Second splice iteration after a rare-branch trim, testcase re-read each call.
SPECIFICATION Spec
CONSTANTS
    QLens = {9}
    Keys = {{1}, {3}}
    Flaky = FALSE
    CacheKeeps = FALSE
    UseSplicing = TRUE
    TargetLen = 9
    MaxSplices = 2
    MaxCalls = 1
    RunWithShadow = FALSE
    TrimStartSteps = 16
    TrimEndSteps = 1024
    TrimMinBytes = 4
INVARIANT FuzzedFromInput
CHECK_DEADLOCK FALSE
