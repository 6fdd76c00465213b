---- MODULE MCProcessor ----
EXTENDS Processor, TLC
CONSTANTS p1, p2, t1, bad, l1, meta, car, laps

MCPartitions == {p1, p2}
MCRecords    == {t1, bad, l1, meta}
MCPoison     == {bad}
MCTables     == {car, laps}
MCTableOf    == t1 :> car @@ bad :> NoTable @@ l1 :> laps @@ meta :> NoTable
MCHomeOf     == t1 :> p1 @@ bad :> p1 @@ l1 :> p2 @@ meta :> p2
MCGroupOf    == p1 :> Telemetry @@ p2 :> Timing
MCMaxLog     == p1 :> 2 @@ p2 :> 1
LiveMaxLog   == p1 :> 2 @@ p2 :> 0
MCFaults     == AllFaults
CrashFaults  == {"crash"}
StopFaults   == {"stop"}
====
