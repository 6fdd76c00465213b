SPECIFICATION Spec
CONSTANTS
    r1 = r1
    r2 = r2
    NoRun = NoRun
    Calls <- MCCalls
    Samples <- MCSamples
    Others <- MCOthers
    Span = 2
    MaxRequests = 1
    FaultKinds <- ConnectFaults
    MaxFaults = 1
    Discipline = "stop"
INVARIANTS
    RefusedOnlyWhileRunning
CHECK_DEADLOCK FALSE
