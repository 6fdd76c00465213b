SPECIFICATION FairSpec
CONSTANTS
    r1 = r1
    r2 = r2
    NoRun = NoRun
    Calls <- MCCalls
    Samples <- MCSamples
    Others <- MCOthers
    Span = 2
    MaxRequests = 3
    FaultKinds <- MCFaults
    MaxFaults = 1
    Discipline = "stop"
INVARIANTS
    TypeOK
    OneReplay
    PublishesInOrder
    FinishedIsComplete
    PauseHolds
    StatusIsTrue
PROPERTIES
    StopReturns
    ReplayEnds
CHECK_DEADLOCK FALSE
