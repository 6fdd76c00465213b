SPECIFICATION FairSpec
CONSTANTS
    Sessions = {1, 2}
    Clients = {0, 1, 2}
    Channels <- MCChannels
    Urgent = "race_control"
    Events <- MCEvents
    QueueSize = 1
    MaxDrivers = 1
    MaxBatch = 2
    MaxEvents = 2
    MaxSockets = 2
    MaxLosses = 1
    OtherMessages <- MCOther
INVARIANTS
    TypeOK
    NothingForgotten
    NeverStranded
    BrokenByLossOnly
PROPERTIES
    FanoutFlows
    ShowsTheSelection
CHECK_DEADLOCK FALSE
