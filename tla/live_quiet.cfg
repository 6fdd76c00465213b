SPECIFICATION FairSpec
CONSTANTS
    Sessions = {1, 2}
    Clients = {1}
    Channels <- MCChannels
    Urgent = "race_control"
    Events <- MCEvents
    QueueSize = 1
    MaxDrivers = 1
    MaxBatch = 1
    MaxEvents = 2
    MaxSockets = 1
    MaxLosses = 0
    OtherMessages <- MCOther
PROPERTIES
    QuietIsNotConnected
CHECK_DEADLOCK FALSE
