SPECIFICATION Spec
CONSTANTS
    r1 = r1
    r2 = r2
    NoRun = NoRun
    Calls <- MCCalls
    Samples <- MCSamples
    Others <- MCOthers
    Span = 2
    MaxRequests = 1
    FaultKinds <- NoFaults
    MaxFaults = 0
    Discipline = "await"
INVARIANTS
    SeekIsForThisRun
CHECK_DEADLOCK FALSE
