SPECIFICATION FairSpec
CONSTANTS
    Rate = 1
    Cost = 1
    Capacity = 1
    Window = 1
    Bulk <- MCBulk
    SessionStart = 1
    SessionEnd = 3
    Padding = 1
    WindowSize = 3
    IncludeTelemetry = TRUE
    MaxWindows = 9
    MaxRetries = 1
    MaxRuns = 2
    FaultKinds <- MCFaults
    MaxFaults = 1
INVARIANTS
    TypeOK
    WithinBucket
    StatusIsHonest
    NothingSkipped
    FlagsAreTrue
PROPERTIES
    RunEnds
CHECK_DEADLOCK FALSE
