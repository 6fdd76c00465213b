SPECIFICATION FairSpec
CONSTANTS
    p1 = p1
    p2 = p2
    t1 = t1
    bad = bad
    l1 = l1
    meta = meta
    car = car
    laps = laps
    NoTable = NoTable
    Partitions <- MCPartitions
    Records <- MCRecords
    Poison <- MCPoison
    Tables <- MCTables
    TableOf <- MCTableOf
    HomeOf <- MCHomeOf
    GroupOf <- MCGroupOf
    FaultKinds <- MCFaults
    MaxFaults = 2
    MaxPoll = 2
    MaxLog <- LiveMaxLog
    BatchSize = 2
PROPERTIES
    CatchesUp
    EverythingSettles
    StopTerminates
