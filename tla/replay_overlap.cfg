SPECIFICATION Spec
CONSTANTS
    r1 = r1
    r2 = r2
    NoRun = NoRun
    Calls <- MCCalls
    Samples <- MCSamples
    Others <- MCOthers
    Span = 2
    MaxRequests = 0
    FaultKinds <- NoFaults
    MaxFaults = 0
    Discipline = "await"
INVARIANTS
    EmitHasProducer
CHECK_DEADLOCK FALSE
