SPECIFICATION Spec
CONSTANTS
    p1 = p1
    p2 = p2
    t1 = t1
    bad = bad
    l1 = l1
    meta = meta
    car = car
    laps = laps
    NoTable = NoTable
    Partitions <- MCPartitions
    Records <- MCRecords
    Poison <- MCPoison
    Tables <- MCTables
    TableOf <- MCTableOf
    HomeOf <- MCHomeOf
    GroupOf <- MCGroupOf
    FaultKinds <- CrashFaults
    MaxFaults = 1
    MaxPoll = 2
    MaxLog <- MCMaxLog
    BatchSize = 2
INVARIANT CrashOnlyReplays
