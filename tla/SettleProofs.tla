----------------------------- MODULE SettleProofs -----------------------------
(***************************************************************************)
(* What a caught-up consumer shows of a driver is what reading every event *)
(* once would show, and every number it shows is one that upstream sent.   *)
(***************************************************************************)
EXTENDS SessionFeedProofs, WellFoundedInduction

\* Induction up to n: a set with 0 and with the successor of each of its
\* numbers below n has them all.
LEMMA UpTo ==
    ASSUME NEW n \in Nat, NEW T, 0 \in T,
           \A i \in 0..(n - 1) : i \in T => i + 1 \in T
    PROVE  \A i \in 0..n : i \in T
<1> DEFINE Out == {i \in 0..n : i \notin T}
           R   == OpToRel(<, Nat)
<1> SUFFICES ASSUME Out # {}
             PROVE  FALSE
  OBVIOUS
<1>1. IsWellFoundedOn(R, Nat) /\ R = {pair \in Nat \X Nat : pair[1] < pair[2]}
  BY NatLessThanWellFounded DEF OpToRel
<1> HIDE DEF R
<1>2. PICK m \in Out : \A k \in Out : ~ (<<k, m>> \in R)
  <2>1. Out \in SUBSET Nat
    OBVIOUS
  <2> HIDE DEF Out
  <2> QED
    BY <1>1, <2>1, WFMin
<1>3. m \in 1..n /\ m \notin T
  BY <1>2
<1>4. m - 1 \notin Out
  <2>1. <<m - 1, m>> \in R
    BY <1>1, <1>3
  <2> QED
    BY <1>2, <2>1
<1>5. m - 1 \in 0..(n - 1) /\ (m - 1) + 1 = m
  BY <1>3
<1> QED
  BY <1>3, <1>4, <1>5

-----------------------------------------------------------------------------
(* Fields that keep the last value they were given *)

DriverTopics == {"telemetry", "position", "timing"}

Overwritten == {"position", "gap_to_leader", "interval", "laps_down", "last_lap_time", "car", "xy"}

\* The topic whose events give a field its value.
Home(f) == CASE f = "car" -> "telemetry"
             [] f = "xy"  -> "position"
             [] OTHER     -> "timing"

\* Whether an event gives it one, and which.
Writes(f, e) ==
    \/ f = "car" /\ e.type = "car_telemetry"
    \/ f = "xy" /\ e.type = "position"
    \/ f = "last_lap_time" /\ e.type = "lap" /\ e.payload.lap_duration # None
    \/ f \in {"position", "interval", "laps_down"} /\ e.type = "timing" /\ e.payload[f] # None
    \/ /\ f = "gap_to_leader" /\ e.type = "timing"
       /\ e.payload.laps_down # None \/ e.payload.gap_to_leader # None

Value(f, e) ==
    CASE f \in {"car", "xy"}     -> e.payload
      [] f = "last_lap_time"     -> e.payload.lap_duration
      [] f = "gap_to_leader"     -> IF e.payload.laps_down # None THEN None ELSE e.payload.gap_to_leader
      [] OTHER                   -> e.payload[f]

\* Readings, places on the track, places in the race and laps, as the fields
\* take them.
LEMMA FieldApplied ==
    ASSUME NEW d \in DriverStates, NEW e \in DriverEvents, NEW f \in Overwritten
    PROVE  AppliedToDriver(d, e)[f] = IF Writes(f, e) THEN Value(f, e) ELSE d[f]
<1>1. CASE e \in CarEvents
  <2>1. AppliedToDriver(d, e) = ApplyTelemetry(d, e) /\ e.type = "car_telemetry"
    BY <1>1 DEF CarEvents, AppliedToDriver
  <2>2. ApplyTelemetry(d, e)[f] = IF f = "car" THEN e.payload ELSE d[f]
    BY DEF ApplyTelemetry, DriverStates, Overwritten
  <2> QED
    BY <2>1, <2>2 DEF Writes, Value
<1>2. CASE e \in PlaceEvents
  <2>1. AppliedToDriver(d, e) = ApplyPosition(d, e) /\ e.type = "position"
    BY <1>2 DEF PlaceEvents, AppliedToDriver
  <2>2. ApplyPosition(d, e)[f] = IF f = "xy" THEN e.payload ELSE d[f]
    BY DEF ApplyPosition, DriverStates, Overwritten
  <2> QED
    BY <2>1, <2>2 DEF Writes, Value
<1>3. CASE e \in TimingEvents
  <2> DEFINE p == e.payload
  <2>1. AppliedToDriver(d, e) = ApplyTiming(d, e) /\ e.type = "timing"
    BY <1>3 DEF TimingEvents, AppliedToDriver
  <2>2. ApplyTiming(d, e)[f] =
          CASE f = "position"      -> Given(p.position, d.position)
            [] f = "gap_to_leader" -> GapAfter(d, p)
            [] f = "interval"      -> Given(p.interval, d.interval)
            [] f = "laps_down"     -> Given(p.laps_down, d.laps_down)
            [] OTHER               -> d[f]
    BY DEF ApplyTiming, DriverStates, Overwritten
  <2> QED
    BY <2>1, <2>2 DEF Writes, Value, Given, GapAfter, Overwritten
<1>4. CASE e \in LapEvents
  <2>1. AppliedToDriver(d, e) = ApplyLap(d, e) /\ e.type = "lap" /\ e.payload \in LapPayloads
    BY <1>4 DEF LapEvents, AppliedToDriver
  <2>2. LapTimes(d, e.payload)[f] =
          IF f = "last_lap_time" /\ e.payload.lap_duration # None THEN e.payload.lap_duration ELSE d[f]
    BY DEF LapTimes, DriverStates, Overwritten
  <2>3. DOMAIN LapTimes(d, e.payload) = DOMAIN d
    BY DEF LapTimes, DriverStates
  <2>4. ApplyLap(d, e)[f] = LapTimes(d, e.payload)[f]
    <3> DEFINE x == LapTimes(d, e.payload)
    <3>1. f \in DOMAIN x
      BY <2>3 DEF DriverStates, Overwritten
    <3> HIDE DEF x
    <3>2. ApplyLap(d, e) = [x EXCEPT
            !.last_sectors = IF StartsLap(d, e.payload) THEN d.current_sectors ELSE @,
            !.current_sectors = IF ContinuesLap(d, e.payload) THEN Merged(@, e.payload.sectors) ELSE e.payload.sectors,
            !.current_lap = Highest(@, e.payload.lap_number),
            !.best_sectors = [s \in Sectors |-> Lowest(@[s], e.payload.sectors[s])],
            !.last_update = Highest(@, e.at)]
      BY DEF ApplyLap, x
    <3>3. f \notin {"last_sectors", "current_sectors", "current_lap", "best_sectors", "last_update"}
      BY DEF Overwritten
    <3> QED
      BY <3>1, <3>2, <3>3 DEF x
  <2> QED
    BY <2>1, <2>2, <2>4 DEF Writes, Value
<1> QED
  BY <1>1, <1>2, <1>3, <1>4 DEF DriverEvents

\* v is what the field is left with by some reading of the entries of seq past
\* lo that reached h, and has read those up to pos since: the initial value, or
\* that of an entry w that nothing read later overwrites.
LastGiven(f, v, seq, lo, h, pos) ==
    \/ v = NewDriver[f] /\ \A i \in (lo + 1)..pos : ~ Writes(f, seq[i])
    \/ \E w \in (lo + 1)..h : /\ Writes(f, seq[w]) /\ v = Value(f, seq[w])
                              /\ \A i \in (w + 1)..pos : ~ Writes(f, seq[i])

Later(a, b) == IF a < b THEN b ELSE a

\* The next entry is read.
LEMMA LatestNext ==
    ASSUME NEW f, NEW v, NEW seq, NEW lo \in Nat, NEW h \in Nat, NEW pos \in lo..h,
           LastGiven(f, v, seq, lo, h, pos)
    PROVE  LastGiven(f, IF Writes(f, seq[pos + 1]) THEN Value(f, seq[pos + 1]) ELSE v,
                  seq, lo, Later(h, pos + 1), pos + 1)
<1> DEFINE h2 == Later(h, pos + 1)
<1>1. h2 \in Nat /\ h2 >= h /\ h2 >= pos + 1
  BY DEF Later
<1> HIDE DEF h2
<1>2. CASE Writes(f, seq[pos + 1])
  <2>1. pos + 1 \in (lo + 1)..h2
    BY <1>1
  <2>2. \A i \in ((pos + 1) + 1)..(pos + 1) : ~ Writes(f, seq[i])
    OBVIOUS
  <2> QED
    BY <1>2, <2>1, <2>2 DEF LastGiven, h2
<1>3. CASE ~ Writes(f, seq[pos + 1])
  <2>1. CASE v = NewDriver[f] /\ \A i \in (lo + 1)..pos : ~ Writes(f, seq[i])
    <3>1. \A i \in (lo + 1)..(pos + 1) : ~ Writes(f, seq[i])
      BY <1>3, <2>1
    <3> QED
      BY <1>3, <2>1, <3>1 DEF LastGiven
  <2>2. ASSUME NEW w \in (lo + 1)..h, Writes(f, seq[w]), v = Value(f, seq[w]),
               \A i \in (w + 1)..pos : ~ Writes(f, seq[i])
        PROVE  LastGiven(f, v, seq, lo, h2, pos + 1)
    <3>1. w \in (lo + 1)..h2 /\ \A i \in (w + 1)..(pos + 1) : ~ Writes(f, seq[i])
      BY <1>1, <1>3, <2>2
    <3> QED
      BY <2>2, <3>1 DEF LastGiven
  <2> QED
    BY <1>3, <2>1, <2>2 DEF LastGiven, h2
<1> QED
  BY <1>2, <1>3

\* Entries are to be read again.
LEMMA LatestBack ==
    ASSUME NEW f, NEW v, NEW seq, NEW lo \in Nat, NEW h \in Nat, NEW pos \in Nat,
           LastGiven(f, v, seq, lo, h, pos), NEW back \in Nat, back <= pos
    PROVE  LastGiven(f, v, seq, lo, h, back)
<1>1. \A a \in Nat : \A i \in (a + 1)..back : i \in (a + 1)..pos
  OBVIOUS
<1> QED
  BY <1>1 DEF LastGiven

\* What was not read yet does not matter.
LEMMA LatestSame ==
    ASSUME NEW f, NEW v, NEW seq, NEW lo \in Nat, NEW h \in Nat, NEW pos \in lo..h,
           LastGiven(f, v, seq, lo, h, pos),
           NEW longer, \A i \in 1..h : longer[i] = seq[i]
    PROVE  LastGiven(f, v, longer, lo, h, pos)
<1>1. \A a \in lo..h : \A i \in (a + 1)..pos : i \in 1..h
  OBVIOUS
<1>2. \A w \in (lo + 1)..h : w \in 1..h /\ w \in lo..h
  OBVIOUS
<1> QED
  BY <1>1, <1>2 DEF LastGiven

\* Once everything has been read, one value is left.
LEMMA LatestOne ==
    ASSUME NEW f, NEW v, NEW u, NEW seq, NEW lo \in Nat, NEW n \in Nat,
           LastGiven(f, v, seq, lo, n, n), LastGiven(f, u, seq, lo, n, n)
    PROVE  v = u
<1>1. CASE \A i \in (lo + 1)..n : ~ Writes(f, seq[i])
  BY <1>1 DEF LastGiven
<1>2. CASE \E i \in (lo + 1)..n : Writes(f, seq[i])
  <2>1. PICK w \in (lo + 1)..n : /\ Writes(f, seq[w]) /\ v = Value(f, seq[w])
                                 /\ \A i \in (w + 1)..n : ~ Writes(f, seq[i])
    BY <1>2 DEF LastGiven
  <2>2. PICK x \in (lo + 1)..n : /\ Writes(f, seq[x]) /\ u = Value(f, seq[x])
                                 /\ \A i \in (x + 1)..n : ~ Writes(f, seq[i])
    BY <1>2 DEF LastGiven
  <2>3. w = x
    <3>1. ~ (w < x) /\ ~ (x < w)
      BY <2>1, <2>2
    <3> QED
      BY <3>1
  <2> QED
    BY <2>1, <2>2, <2>3
<1> QED
  BY <1>1, <1>2

-----------------------------------------------------------------------------
(* The best lap and its number *)

IsTimed(e) == e.type = "lap" /\ e.payload.lap_duration # None

\* The timed laps among the entries past lo up to m.
Timed(seq, lo, m) == {i \in (lo + 1)..m : IsTimed(seq[i])}

\* The best of them, and the number of the first one that was that fast.
BestAt(seq, lo, m, best, number) ==
    \/ Timed(seq, lo, m) = {} /\ best = None /\ number = None
    \/ \E k \in Timed(seq, lo, m) :
          /\ best = seq[k].payload.lap_duration
          /\ number = seq[k].payload.lap_number
          /\ \A i \in Timed(seq, lo, m) : best <= seq[i].payload.lap_duration
          /\ \A i \in Timed(seq, lo, m) : i < k => best # seq[i].payload.lap_duration

\* The timed laps of a partition have durations and numbers.
LapsTyped(seq, n) ==
    \A i \in 1..n : IsTimed(seq[i]) => /\ seq[i].payload.lap_duration \in Int
                                       /\ seq[i].payload.lap_number \in Int

BetterTime(best, e)           == IF IsTimed(e) THEN Lowest(best, e.payload.lap_duration) ELSE best
BetterNumber(best, number, e) ==
    IF IsTimed(e) /\ Lowest(best, e.payload.lap_duration) # best THEN e.payload.lap_number ELSE number

\* What an event makes of the best and its number.
LEMMA BestApplied ==
    ASSUME NEW d \in DriverStates, NEW e \in DriverEvents
    PROVE  LET n == AppliedToDriver(d, e)
           IN  /\ n.best_lap_time = BetterTime(d.best_lap_time, e)
               /\ n.best_lap_number = BetterNumber(d.best_lap_time, d.best_lap_number, e)
<1> DEFINE n == AppliedToDriver(d, e)
<1>1. CASE e \notin LapEvents
  <2>1. e.type # "lap"
    BY <1>1 DEF DriverEvents, CarEvents, PlaceEvents, TimingEvents
  <2>2. n.best_lap_time = d.best_lap_time
    BY <2>1, EventApplied DEF SameLaps
  <2>3. n.best_lap_number = d.best_lap_number
    <3>1. \/ n = ApplyTelemetry(d, e)
          \/ n = ApplyPosition(d, e)
          \/ n = ApplyTiming(d, e)
      BY <1>1 DEF DriverEvents, CarEvents, PlaceEvents, TimingEvents, AppliedToDriver
    <3> QED
      BY <3>1 DEF ApplyTelemetry, ApplyPosition, ApplyTiming, DriverStates
  <2> QED
    BY <2>1, <2>2, <2>3 DEF BetterTime, BetterNumber, IsTimed
<1>2. CASE e \in LapEvents
  <2> DEFINE p == e.payload
             x == LapTimes(d, p)
  <2>1. n = ApplyLap(d, e) /\ e.type = "lap" /\ p \in LapPayloads
    BY <1>2 DEF LapEvents, AppliedToDriver
  <2>2. n.best_lap_time = Lowest(d.best_lap_time, p.lap_duration)
    BY <2>1, EventApplied DEF LapTaken
  <2>3. /\ DOMAIN x = DOMAIN d
        /\ x.best_lap_number = IF p.lap_duration # None /\ Lowest(d.best_lap_time, p.lap_duration) # d.best_lap_time
                               THEN p.lap_number ELSE d.best_lap_number
    BY DEF LapTimes, DriverStates
  <2>4. n.best_lap_number = x.best_lap_number
    <3>1. "best_lap_number" \in DOMAIN x
      BY <2>3 DEF DriverStates
    <3>2. ApplyLap(d, e) = [x EXCEPT
            !.last_sectors = IF StartsLap(d, p) THEN d.current_sectors ELSE @,
            !.current_sectors = IF ContinuesLap(d, p) THEN Merged(@, p.sectors) ELSE p.sectors,
            !.current_lap = Highest(@, p.lap_number),
            !.best_sectors = [s \in Sectors |-> Lowest(@[s], p.sectors[s])],
            !.last_update = Highest(@, e.at)]
      BY DEF ApplyLap
    <3> HIDE DEF x
    <3> QED
      BY <2>1, <3>1, <3>2
  <2>5. Lowest(d.best_lap_time, None) = d.best_lap_time
    BY DEF Lowest
  <2> QED
    BY <2>1, <2>2, <2>3, <2>4, <2>5 DEF BetterTime, BetterNumber, IsTimed
<1> QED
  BY <1>1, <1>2

\* The next entry is read.
LEMMA BestNext ==
    ASSUME NEW seq, NEW lo \in Nat, NEW h \in Nat, NEW pos \in lo..h, NEW best, NEW number,
           BestAt(seq, lo, h, best, number), LapsTyped(seq, Later(h, pos + 1))
    PROVE  LET e == seq[pos + 1]
           IN  BestAt(seq, lo, Later(h, pos + 1), BetterTime(best, e), BetterNumber(best, number, e))
<1> DEFINE e     == seq[pos + 1]
           dur   == e.payload.lap_duration
           h2    == Later(h, pos + 1)
           after == BestAt(seq, lo, h2, BetterTime(best, e), BetterNumber(best, number, e))
<1>1. IsTimed(e) => dur \in Int /\ e.payload.lap_number \in Int
  BY DEF LapsTyped, Later
<1>2. \A i \in Timed(seq, lo, h) : i \in (lo + 1)..h /\ seq[i].payload.lap_duration \in Int
  BY DEF LapsTyped, Timed, Later
<1>3. CASE pos < h
  <2>1. h2 = h
    BY <1>3 DEF Later
  <2>2. IsTimed(e) => pos + 1 \in Timed(seq, lo, h)
    BY <1>3 DEF Timed
  <2>3. IsTimed(e) => best # None /\ best \in Int /\ best <= dur
    BY <1>2, <2>2, MappersAssumption DEF BestAt
  <2>4. BetterTime(best, e) = best /\ BetterNumber(best, number, e) = number
    BY <1>1, <2>3 DEF BetterTime, BetterNumber, Lowest
  <2> QED
    BY <2>1, <2>4
<1>4. CASE pos = h
  <2>1. h2 = h + 1 /\ pos + 1 = h + 1
    BY <1>4 DEF Later
  <2>2. CASE ~ IsTimed(e)
    <3>1. Timed(seq, lo, h + 1) = Timed(seq, lo, h)
      BY <1>4, <2>2 DEF Timed
    <3> QED
      BY <2>1, <2>2, <3>1 DEF BestAt, BetterTime, BetterNumber
  <2>3. CASE IsTimed(e)
    <3>1. Timed(seq, lo, h + 1) = Timed(seq, lo, h) \union {h + 1}
      BY <1>4, <2>3 DEF Timed
    <3>2. seq[h + 1].payload.lap_duration = dur /\ seq[h + 1].payload.lap_number = e.payload.lap_number
      BY <1>4
    <3>3. dur \in Int /\ dur # None /\ \A i \in Timed(seq, lo, h) : i < h + 1 /\ i # h + 1
      BY <1>1, <1>2, <2>3, MappersAssumption
    <3>4. CASE Timed(seq, lo, h) = {}
      <4>1. best = None
        BY <3>4 DEF BestAt
      <4>2. BetterTime(best, e) = dur /\ BetterNumber(best, number, e) = e.payload.lap_number
        BY <2>3, <3>3, <4>1 DEF BetterTime, BetterNumber, Lowest
      <4> QED
        BY <2>1, <3>1, <3>2, <3>3, <3>4, <4>2 DEF BestAt
    <3>5. CASE Timed(seq, lo, h) # {}
      <4>1. PICK k \in Timed(seq, lo, h) :
              /\ best = seq[k].payload.lap_duration
              /\ number = seq[k].payload.lap_number
              /\ \A i \in Timed(seq, lo, h) : best <= seq[i].payload.lap_duration
              /\ \A i \in Timed(seq, lo, h) : i < k => best # seq[i].payload.lap_duration
        BY <3>5 DEF BestAt
      <4>2. best \in Int /\ best # None
        BY <1>2, <4>1, MappersAssumption
      <4>3. CASE dur < best
        <5>1. BetterTime(best, e) = dur /\ BetterNumber(best, number, e) = e.payload.lap_number
          BY <2>3, <3>3, <4>2, <4>3 DEF BetterTime, BetterNumber, Lowest
        <5>2. \A i \in Timed(seq, lo, h) : dur <= seq[i].payload.lap_duration /\ dur # seq[i].payload.lap_duration
          BY <1>2, <3>3, <4>1, <4>2, <4>3
        <5>3. \A i \in Timed(seq, lo, h + 1) : dur <= seq[i].payload.lap_duration
          BY <3>1, <3>2, <3>3, <5>2
        <5>4. \A i \in Timed(seq, lo, h + 1) : i < h + 1 => dur # seq[i].payload.lap_duration
          BY <3>1, <3>3, <5>2
        <5>5. h + 1 \in Timed(seq, lo, h + 1)
          BY <3>1
        <5> QED
          BY <2>1, <3>2, <5>1, <5>3, <5>4, <5>5 DEF BestAt
      <4>4. CASE ~ (dur < best)
        <5>1. BetterTime(best, e) = best /\ BetterNumber(best, number, e) = number
          BY <2>3, <3>3, <4>2, <4>4 DEF BetterTime, BetterNumber, Lowest
        <5>2. \A i \in Timed(seq, lo, h + 1) : best <= seq[i].payload.lap_duration
          BY <3>1, <3>2, <3>3, <4>1, <4>2, <4>4
        <5>3. \A i \in Timed(seq, lo, h + 1) : i < k => best # seq[i].payload.lap_duration
          <6>1. k \in (lo + 1)..h
            BY <1>2, <4>1
          <6> QED
            BY <3>1, <4>1, <6>1
        <5>4. k \in Timed(seq, lo, h + 1)
          BY <3>1, <4>1
        <5> QED
          BY <2>1, <4>1, <5>1, <5>2, <5>3, <5>4 DEF BestAt
      <4> QED
        BY <4>3, <4>4
    <3> QED
      BY <3>4, <3>5
  <2> QED
    BY <2>2, <2>3
<1> QED
  BY <1>3, <1>4

\* What was not read yet does not matter.
LEMMA TimedSame ==
    ASSUME NEW seq, NEW lo \in Nat, NEW h \in Nat, NEW longer, \A i \in 1..h : longer[i] = seq[i]
    PROVE  \A a \in Nat, m \in 0..h : Timed(longer, a, m) = Timed(seq, a, m)
BY DEF Timed

LEMMA BestSame ==
    ASSUME NEW seq, NEW lo \in Nat, NEW h \in Nat, NEW longer, \A i \in 1..h : longer[i] = seq[i],
           NEW m \in 0..h, NEW best, NEW number, BestAt(seq, lo, m, best, number)
    PROVE  BestAt(longer, lo, m, best, number)
<1>1. Timed(longer, lo, m) = Timed(seq, lo, m)
  BY TimedSame
<1>2. \A i \in Timed(seq, lo, m) : longer[i] = seq[i]
  BY DEF Timed
<1> QED
  BY <1>1, <1>2 DEF BestAt

\* There is one best and one first lap that set it.
LEMMA BestOne ==
    ASSUME NEW seq, NEW lo \in Nat, NEW m \in Nat, LapsTyped(seq, m),
           NEW best, NEW number, BestAt(seq, lo, m, best, number),
           NEW best2, NEW number2, BestAt(seq, lo, m, best2, number2)
    PROVE  best = best2 /\ number = number2
<1>1. CASE Timed(seq, lo, m) = {}
  BY <1>1 DEF BestAt
<1>2. CASE Timed(seq, lo, m) # {}
  <2>1. PICK k \in Timed(seq, lo, m) :
          /\ best = seq[k].payload.lap_duration
          /\ number = seq[k].payload.lap_number
          /\ \A i \in Timed(seq, lo, m) : best <= seq[i].payload.lap_duration
          /\ \A i \in Timed(seq, lo, m) : i < k => best # seq[i].payload.lap_duration
    BY <1>2 DEF BestAt
  <2>2. PICK j \in Timed(seq, lo, m) :
          /\ best2 = seq[j].payload.lap_duration
          /\ number2 = seq[j].payload.lap_number
          /\ \A i \in Timed(seq, lo, m) : best2 <= seq[i].payload.lap_duration
          /\ \A i \in Timed(seq, lo, m) : i < j => best2 # seq[i].payload.lap_duration
    BY <1>2 DEF BestAt
  <2>3. best \in Int /\ best2 \in Int /\ j \in Nat /\ k \in Nat
    BY <2>1, <2>2 DEF Timed, LapsTyped
  <2>4. best = best2
    BY <2>1, <2>2, <2>3
  <2>5. j = k
    <3>1. ~ (j < k) /\ ~ (k < j)
      BY <2>1, <2>2, <2>4
    <3> QED
      BY <2>3, <3>1
  <2> QED
    BY <2>1, <2>2, <2>4, <2>5
<1> QED
  BY <1>1, <1>2

-----------------------------------------------------------------------------
(* The highlight of the last timed lap *)

Marks(best, number, p) ==
    \/ best = None
    \/ p.lap_duration < best
    \/ p.lap_number = number /\ p.lap_duration = best

\* v is the mark of the last timed lap w, set when the best was that of the
\* entries up to some m: at least those before w, as w was read at its turn.
MarkAt(v, seq, lo, h, pos) ==
    \/ v = None /\ Timed(seq, lo, pos) = {}
    \/ \E w \in Timed(seq, lo, h) : \E m \in (w - 1)..h, best \in Known, number \in Known :
          /\ BestAt(seq, lo, m, best, number)
          /\ v = Marks(best, number, seq[w].payload)
          /\ Timed(seq, w, pos) = {}

NewMark(v, best, number, e) == IF IsTimed(e) THEN Marks(best, number, e.payload) ELSE v

\* What an event makes of the mark.
LEMMA MarkApplied ==
    ASSUME NEW d \in DriverStates, NEW e \in DriverEvents
    PROVE  AppliedToDriver(d, e).was_personal_best
             = NewMark(d.was_personal_best, d.best_lap_time, d.best_lap_number, e)
<1>1. CASE e.type = "lap"
  BY <1>1, EventApplied DEF LapTaken, NewMark, IsTimed, IsPersonalBest, Marks
<1>2. CASE e.type # "lap"
  BY <1>2, EventApplied DEF SameLaps, NewMark, IsTimed
<1> QED
  BY <1>1, <1>2

\* The next entry is read.
LEMMA MarkNext ==
    ASSUME NEW v, NEW seq, NEW lo \in Nat, NEW h \in Nat, NEW pos \in lo..h,
           MarkAt(v, seq, lo, h, pos),
           NEW best \in Known, NEW number \in Known, BestAt(seq, lo, h, best, number)
    PROVE  MarkAt(NewMark(v, best, number, seq[pos + 1]), seq, lo, Later(h, pos + 1), pos + 1)
<1> DEFINE e  == seq[pos + 1]
           h2 == Later(h, pos + 1)
<1>1. h2 \in Nat /\ h2 >= h /\ h2 >= pos + 1
  BY DEF Later
<1> HIDE DEF h2
<1>2. CASE IsTimed(e)
  <2>1. pos + 1 \in Timed(seq, lo, h2)
    BY <1>1, <1>2 DEF Timed
  <2>2. h \in ((pos + 1) - 1)..h2
    BY <1>1
  <2>3. Timed(seq, pos + 1, pos + 1) = {}
    BY DEF Timed
  <2>4. NewMark(v, best, number, e) = Marks(best, number, e.payload)
    BY <1>2 DEF NewMark
  <2> QED
    BY <2>1, <2>2, <2>3, <2>4 DEF MarkAt, h2
<1>3. CASE ~ IsTimed(e)
  <2>1. \A a \in Nat : Timed(seq, a, pos) = {} => Timed(seq, a, pos + 1) = {}
    BY <1>3 DEF Timed
  <2>2. NewMark(v, best, number, e) = v
    BY <1>3 DEF NewMark
  <2>3. CASE v = None /\ Timed(seq, lo, pos) = {}
    BY <2>1, <2>2, <2>3 DEF MarkAt
  <2>4. ASSUME NEW w \in Timed(seq, lo, h), NEW m \in (w - 1)..h, NEW b \in Known, NEW k \in Known,
               BestAt(seq, lo, m, b, k), v = Marks(b, k, seq[w].payload), Timed(seq, w, pos) = {}
        PROVE  MarkAt(v, seq, lo, h2, pos + 1)
    <3>1. w \in Nat /\ w \in Timed(seq, lo, h2) /\ m \in (w - 1)..h2
      BY <1>1 DEF Timed
    <3>2. Timed(seq, w, pos + 1) = {}
      BY <2>1, <2>4, <3>1
    <3> QED
      BY <2>4, <3>1, <3>2 DEF MarkAt
  <2> QED
    BY <2>2, <2>3, <2>4 DEF MarkAt, h2
<1> QED
  BY <1>2, <1>3

\* Entries are to be read again.
LEMMA MarkBack ==
    ASSUME NEW v, NEW seq, NEW lo \in Nat, NEW h \in Nat, NEW pos \in Nat,
           MarkAt(v, seq, lo, h, pos), NEW back \in Nat, back <= pos
    PROVE  MarkAt(v, seq, lo, h, back)
<1>1. \A a \in Nat : Timed(seq, a, pos) = {} => Timed(seq, a, back) = {}
  BY DEF Timed
<1>2. \A w \in Timed(seq, lo, h) : w \in Nat
  BY DEF Timed
<1> QED
  BY <1>1, <1>2 DEF MarkAt

\* What was not read yet does not matter.
LEMMA MarkSame ==
    ASSUME NEW v, NEW seq, NEW lo \in Nat, NEW h \in Nat, NEW pos \in lo..h,
           MarkAt(v, seq, lo, h, pos), NEW longer, \A i \in 1..h : longer[i] = seq[i]
    PROVE  MarkAt(v, longer, lo, h, pos)
<1>1. \A a \in Nat, m \in 0..h : Timed(longer, a, m) = Timed(seq, a, m)
  BY TimedSame
<1>2. CASE v = None /\ Timed(seq, lo, pos) = {}
  <2>1. pos \in 0..h /\ Timed(longer, lo, pos) = {}
    BY <1>1, <1>2
  <2> QED
    BY <1>2, <2>1, Zenon DEF MarkAt
<1>3. ASSUME NEW w \in Timed(seq, lo, h), NEW m \in (w - 1)..h, NEW b \in Known, NEW k \in Known,
             BestAt(seq, lo, m, b, k), v = Marks(b, k, seq[w].payload), Timed(seq, w, pos) = {}
      PROVE  MarkAt(v, longer, lo, h, pos)
  <2>1. w \in 1..h /\ m \in 0..h /\ longer[w] = seq[w]
    BY DEF Timed
  <2>2. w \in Timed(longer, lo, h) /\ Timed(longer, w, pos) = {}
    BY <1>1, <1>3, <2>1
  <2>3. BestAt(longer, lo, m, b, k)
    BY <1>3, <2>1, BestSame
  <2>4. v = Marks(b, k, longer[w].payload)
    BY <1>3, <2>1
  <2> QED
    BY <2>2, <2>3, <2>4, Zenon DEF MarkAt
<1>4. \/ v = None /\ Timed(seq, lo, pos) = {}
      \/ \E w \in Timed(seq, lo, h) : \E m \in (w - 1)..h, best \in Known, number \in Known :
            /\ BestAt(seq, lo, m, best, number)
            /\ v = Marks(best, number, seq[w].payload)
            /\ Timed(seq, w, pos) = {}
  BY DEF MarkAt
<1> QED
  BY <1>2, <1>3, <1>4

\* Once everything has been read, a mark set at a second reading of the last
\* timed lap is the one set at the first.
LEMMA MarkAgain ==
    ASSUME NEW seq, NEW lo \in Nat, NEW n \in Nat, LapsTyped(seq, n),
           NEW w \in Timed(seq, lo, n), Timed(seq, w, n) = {},
           NEW m \in (w - 1)..n, NEW best, NEW number, BestAt(seq, lo, m, best, number)
    PROVE  \E b, k : /\ BestAt(seq, lo, w, b, k)
                     /\ Marks(best, number, seq[w].payload) <=> Marks(b, k, seq[w].payload)
<1>1. w \in (lo + 1)..n /\ IsTimed(seq[w]) /\ w \in Nat
  BY DEF Timed
<1>2. CASE m >= w
  <2>1. Timed(seq, lo, m) = Timed(seq, lo, w)
    <3>1. \A i \in (w + 1)..m : ~ IsTimed(seq[i])
      BY <1>1 DEF Timed
    <3> QED
      BY <1>1, <1>2, <3>1 DEF Timed
  <2>2. BestAt(seq, lo, w, best, number)
    BY <2>1 DEF BestAt
  <2> QED
    BY <2>2
<1>3. CASE m = w - 1
  <2> DEFINE p == seq[w].payload
             b1 == BetterTime(best, seq[w])
             k1 == BetterNumber(best, number, seq[w])
  <2>1. m \in Nat /\ m \in lo..m /\ m + 1 = w /\ Later(m, m + 1) = w
    BY <1>1, <1>3 DEF Later
  <2>2. LapsTyped(seq, w) /\ p.lap_duration \in Int /\ p.lap_number \in Int
    BY <1>1 DEF LapsTyped
  <2>3. BestAt(seq, lo, w, b1, k1)
    BY <2>1, <2>2, BestNext
  <2>4. best = None \/ best \in Int
    BY <1>1, <1>3 DEF BestAt, Timed, LapsTyped
  <2>5. /\ b1 = Lowest(best, p.lap_duration)
        /\ k1 = IF Lowest(best, p.lap_duration) # best THEN p.lap_number ELSE number
    BY <1>1 DEF BetterTime, BetterNumber
  <2> HIDE DEF b1, k1, p
  <2>6. Marks(best, number, p) <=> Marks(b1, k1, p)
    BY <2>2, <2>4, <2>5, MappersAssumption DEF Marks, Lowest
  <2>7. Marks(best, number, seq[w].payload) <=> Marks(b1, k1, seq[w].payload)
    BY <2>6 DEF p
  <2> HIDE DEF p
  <2> QED
    BY <2>3, <2>7, Zenon
<1>4. m >= w \/ m = w - 1
  BY <1>1
<1> QED
  BY <1>2, <1>3, <1>4

LEMMA MarkOne ==
    ASSUME NEW seq, NEW lo \in Nat, NEW n \in Nat, LapsTyped(seq, n),
           NEW v, MarkAt(v, seq, lo, n, n), NEW u, MarkAt(u, seq, lo, n, n)
    PROVE  v = u
<1>1. CASE Timed(seq, lo, n) = {}
  BY <1>1 DEF MarkAt
<1>2. CASE Timed(seq, lo, n) # {}
  <2> DEFINE Set(z, w) == \E m \in (w - 1)..n, best \in Known, number \in Known :
                            /\ BestAt(seq, lo, m, best, number)
                            /\ z = Marks(best, number, seq[w].payload)
                            /\ Timed(seq, w, n) = {}
  <2>0. PICK w \in Timed(seq, lo, n) : Set(v, w)
    BY <1>2 DEF MarkAt
  <2>x. PICK x \in Timed(seq, lo, n) : Set(u, x)
    BY <1>2 DEF MarkAt
  <2>1. PICK m \in (w - 1)..n, best \in Known, number \in Known :
          /\ BestAt(seq, lo, m, best, number)
          /\ v = Marks(best, number, seq[w].payload)
          /\ Timed(seq, w, n) = {}
    BY <2>0
  <2>2. PICK m2 \in (x - 1)..n, best2 \in Known, number2 \in Known :
          /\ BestAt(seq, lo, m2, best2, number2)
          /\ u = Marks(best2, number2, seq[x].payload)
          /\ Timed(seq, x, n) = {}
    BY <2>x
  <2>3. w = x
    BY <2>1, <2>2 DEF Timed
  <2>4. PICK b, k : /\ BestAt(seq, lo, w, b, k)
                    /\ Marks(best, number, seq[w].payload) <=> Marks(b, k, seq[w].payload)
    BY <2>1, MarkAgain
  <2>5. PICK b2, k2 : /\ BestAt(seq, lo, w, b2, k2)
                      /\ Marks(best2, number2, seq[w].payload) <=> Marks(b2, k2, seq[w].payload)
    BY <2>2, <2>3, MarkAgain
  <2>6. b = b2 /\ k = k2
    <3>1. w \in Nat /\ LapsTyped(seq, w)
      BY DEF Timed, LapsTyped
    <3> QED
      BY <2>4, <2>5, <3>1, BestOne
  <2>7. Marks(best, number, seq[w].payload) <=> Marks(best2, number2, seq[x].payload)
    BY <2>3, <2>4, <2>5, <2>6
  <2>8. Marks(best, number, seq[w].payload) \in BOOLEAN /\ Marks(best2, number2, seq[x].payload) \in BOOLEAN
    BY DEF Marks
  <2> QED
    BY <2>1, <2>2, <2>7, <2>8
<1> QED
  BY <1>1, <1>2

-----------------------------------------------------------------------------
(* What a reading of a driver's three topics shows *)

\* A driver's topics: the entries of each, all of them events of this driver.
TracksOf(d) ==
    {L \in [DriverTopics -> Seq(DriverEvents)] :
        \A t \in DriverTopics : \A i \in 1..Len(L[t]) :
            TopicOf(L[t][i].type) = t /\ L[t][i].driver = d}

Offsets == [DriverTopics -> Nat]

\* A reading that began past lo, reached h, and has read up to pos since.
Reading(L, lo, h, pos) ==
    /\ lo \in Offsets /\ h \in Offsets /\ pos \in Offsets
    /\ \A t \in DriverTopics : lo[t] <= pos[t] /\ pos[t] <= h[t] /\ h[t] <= Len(L[t])

Entered(L, lo, h) == UNION {{L[t][i] : i \in (lo[t] + 1)..h[t]} : t \in DriverTopics}

Shows(x, L, lo, h, pos, d) ==
    /\ x \in DriverStates
    /\ \A f \in Overwritten :
          LastGiven(f, x[f], L[Home(f)], lo[Home(f)], h[Home(f)], pos[Home(f)])
    /\ BestAt(L["timing"], lo["timing"], h["timing"], x.best_lap_time, x.best_lap_number)
    /\ MarkAt(x.was_personal_best, L["timing"], lo["timing"], h["timing"], pos["timing"])
    /\ DriverFits(x, Entered(L, lo, h), d)
    /\ IsGreatest(x.last_update, {e.at : e \in Entered(L, lo, h)})

LEMMA HomeIs ==
    ASSUME NEW f
    PROVE  Home(f) \in DriverTopics
BY DEF Home, DriverTopics

\* A field is written by events of its own topic only, and laps are timing events.
LEMMA WritesAtHome ==
    ASSUME NEW f, NEW e
    PROVE  /\ Writes(f, e) => TopicOf(e.type) = Home(f)
           /\ e.type = "lap" => TopicOf(e.type) = "timing"
BY DEF Writes, TopicOf, Home

LEMMA TrackLaps ==
    ASSUME NEW d, NEW L \in TracksOf(d)
    PROVE  LapsTyped(L["timing"], Len(L["timing"]))
<1>1. L["timing"] \in Seq(DriverEvents)
  BY DEF TracksOf, DriverTopics
<1>2. ASSUME NEW e \in DriverEvents, IsTimed(e)
      PROVE  e.payload.lap_duration \in Int /\ e.payload.lap_number \in Int
  BY <1>2 DEF IsTimed, DriverEvents, CarEvents, PlaceEvents, TimingEvents, LapEvents, LapPayloads, Known
<1> QED
  BY <1>1, <1>2 DEF LapsTyped

\* Nothing has been read.
LEMMA ShowsNew ==
    ASSUME NEW d \in Drivers, NEW L, NEW lo \in Offsets
    PROVE  Shows(NewDriver, L, lo, lo, lo, d)
<1>1. \A t \in DriverTopics : lo[t] \in Nat /\ (lo[t] + 1)..lo[t] = {}
  BY DEF Offsets
<1>2. Entered(L, lo, lo) = {}
  BY <1>1 DEF Entered
<1>3. \A f \in Overwritten : LastGiven(f, NewDriver[f], L[Home(f)], lo[Home(f)], lo[Home(f)], lo[Home(f)])
  BY <1>1, HomeIs DEF LastGiven
<1>4. "timing" \in DriverTopics
  BY DEF DriverTopics
<1>5. Timed(L["timing"], lo["timing"], lo["timing"]) = {}
  BY <1>1, <1>4 DEF Timed
<1>6. NewDriver \in DriverStates /\ NewSession.drivers[d] = NewDriver
  BY NewSessionType DEF NewSession, SessionStates
<1>7. DriverFits(NewDriver, {}, d)
  BY <1>6, NewFits DEF Fits
<1>8. /\ NewDriver.best_lap_time = None /\ NewDriver.best_lap_number = None
      /\ NewDriver.was_personal_best = None /\ NewDriver.last_update = None
  BY DEF NewDriver
<1>9. IsGreatest(None, {e.at : e \in {}})
  BY DEF IsGreatest
<1> QED
  BY <1>2, <1>3, <1>5, <1>6, <1>7, <1>8, <1>9 DEF Shows, BestAt, MarkAt

\* The entries a reading has entered, once it has read the next one of a topic.
LEMMA EnteredNext ==
    ASSUME NEW L, NEW lo, NEW h, NEW pos, Reading(L, lo, h, pos), NEW t \in DriverTopics
    PROVE  Entered(L, lo, [h EXCEPT ![t] = Later(h[t], pos[t] + 1)])
             = Entered(L, lo, h) \union {L[t][pos[t] + 1]}
<1> DEFINE h2 == [h EXCEPT ![t] = Later(h[t], pos[t] + 1)]
           Of(g, s) == {L[s][i] : i \in (lo[s] + 1)..g[s]}
<1>1. \A s \in DriverTopics \ {t} : h2[s] = h[s]
  BY DEF Reading, Offsets
<1>2. h2[t] = Later(h[t], pos[t] + 1)
  BY DEF Reading, Offsets
<1>3. lo[t] \in Nat /\ h[t] \in Nat /\ pos[t] \in Nat /\ lo[t] <= pos[t] /\ pos[t] <= h[t]
  BY DEF Reading, Offsets
<1> HIDE DEF h2
<1>4. (lo[t] + 1)..h2[t] = ((lo[t] + 1)..h[t]) \union {pos[t] + 1}
  BY <1>2, <1>3 DEF Later
<1>5. Of(h2, t) = Of(h, t) \union {L[t][pos[t] + 1]}
  BY <1>4
<1>6. \A s \in DriverTopics \ {t} : Of(h2, s) = Of(h, s)
  BY <1>1
<1>7. Entered(L, lo, h2) = UNION {Of(h2, s) : s \in DriverTopics}
  BY DEF Entered
<1>8. Entered(L, lo, h) = UNION {Of(h, s) : s \in DriverTopics}
  BY DEF Entered
<1> HIDE DEF Of
<1>9. UNION {Of(h2, s) : s \in DriverTopics} = (UNION {Of(h, s) : s \in DriverTopics}) \union {L[t][pos[t] + 1]}
  BY <1>5, <1>6
<1> QED
  BY <1>7, <1>8, <1>9 DEF h2

LEMMA EnteredAre ==
    ASSUME NEW d, NEW L \in TracksOf(d), NEW lo, NEW h, NEW pos, Reading(L, lo, h, pos)
    PROVE  Entered(L, lo, h) \in SUBSET DriverEvents
<1>1. ASSUME NEW t \in DriverTopics, NEW i \in (lo[t] + 1)..h[t]
      PROVE  L[t][i] \in DriverEvents
  <2>1. L[t] \in Seq(DriverEvents)
    BY DEF TracksOf
  <2>2. i \in 1..Len(L[t])
    BY <1>1, <2>1 DEF Reading, Offsets
  <2> QED
    BY <2>1, <2>2
<1> QED
  BY <1>1 DEF Entered

\* The next entry of one topic is read.
LEMMA ShowsNext ==
    ASSUME NEW d, NEW L \in TracksOf(d), NEW lo, NEW h, NEW pos, Reading(L, lo, h, pos),
           NEW x, Shows(x, L, lo, h, pos, d),
           NEW t \in DriverTopics, pos[t] < Len(L[t])
    PROVE  LET h2   == [h EXCEPT ![t] = Later(h[t], pos[t] + 1)]
               pos2 == [pos EXCEPT ![t] = pos[t] + 1]
           IN  /\ Reading(L, lo, h2, pos2)
               /\ Shows(AppliedToDriver(x, L[t][pos[t] + 1]), L, lo, h2, pos2, d)
<1> DEFINE h2   == [h EXCEPT ![t] = Later(h[t], pos[t] + 1)]
           pos2 == [pos EXCEPT ![t] = pos[t] + 1]
           e    == L[t][pos[t] + 1]
           y    == AppliedToDriver(x, e)
           E    == Entered(L, lo, h)
<1>1. /\ \A s \in DriverTopics \ {t} : h2[s] = h[s] /\ pos2[s] = pos[s]
      /\ h2[t] = Later(h[t], pos[t] + 1) /\ pos2[t] = pos[t] + 1
  BY DEF Reading, Offsets
<1>2. \A s \in DriverTopics : /\ lo[s] \in Nat /\ h[s] \in Nat /\ pos[s] \in lo[s]..h[s]
                              /\ h[s] <= Len(L[s]) /\ Len(L[s]) \in Nat
  BY DEF Reading, Offsets, TracksOf
<1>3. L[t] \in Seq(DriverEvents) /\ pos[t] + 1 \in 1..Len(L[t])
  BY <1>2 DEF TracksOf
<1>4. e \in DriverEvents /\ TopicOf(e.type) = t /\ e.driver = d
  BY <1>3 DEF TracksOf
<1>5. x \in DriverStates
  BY DEF Shows
<1>6. h2 \in Offsets /\ pos2 \in Offsets /\ h2[t] \in Nat /\ h2[t] <= Len(L[t]) /\ pos2[t] <= h2[t]
  BY <1>1, <1>2, <1>3 DEF Reading, Offsets, Later
<1>7. Reading(L, lo, h2, pos2)
  <2>1. \A s \in DriverTopics \ {t} : lo[s] <= pos2[s] /\ pos2[s] <= h2[s] /\ h2[s] <= Len(L[s])
    BY <1>1, <1>2
  <2>2. lo[t] <= pos2[t]
    BY <1>1, <1>2
  <2> QED
    BY <1>6, <2>1, <2>2 DEF Reading
<1>8. Entered(L, lo, h2) = E \union {e}
  BY EnteredNext
<1>9. E \in SUBSET DriverEvents /\ E \in SUBSET FeedEvents
  BY EnteredAre DEF FeedEvents
<1> HIDE DEF h2, pos2, e, E
<1>10. /\ y \in DriverStates /\ y.last_update = Highest(x.last_update, e.at)
       /\ e.type = "lap" => e \in LapEvents /\ LapTaken(x, e.payload, y)
       /\ e.type # "lap" => SameLaps(x, y)
  BY <1>4, <1>5, EventApplied DEF DriverEvents, CarEvents, PlaceEvents, TimingEvents
<1>11. ASSUME NEW f \in Overwritten
       PROVE  LastGiven(f, y[f], L[Home(f)], lo[Home(f)], h2[Home(f)], pos2[Home(f)])
  <2>1. y[f] = IF Writes(f, e) THEN Value(f, e) ELSE x[f]
    BY <1>4, <1>5, FieldApplied
  <2>2. LastGiven(f, x[f], L[Home(f)], lo[Home(f)], h[Home(f)], pos[Home(f)]) /\ Home(f) \in DriverTopics
    BY HomeIs DEF Shows
  <2> HIDE DEF y
  <2>3. CASE Home(f) = t
    <3>1. LastGiven(f, IF Writes(f, e) THEN Value(f, e) ELSE x[f], L[t], lo[t], Later(h[t], pos[t] + 1), pos[t] + 1)
      BY <1>2, <2>2, <2>3, LatestNext DEF e
    <3> QED
      BY <1>1, <2>1, <2>3, <3>1
  <2>4. CASE Home(f) # t
    <3>1. ~ Writes(f, e)
      BY <1>4, <2>4, WritesAtHome
    <3>2. h2[Home(f)] = h[Home(f)] /\ pos2[Home(f)] = pos[Home(f)]
      BY <1>1, <2>2, <2>4
    <3> QED
      BY <2>1, <2>2, <3>1, <3>2
  <2> QED
    BY <2>3, <2>4
<1>12. /\ BestAt(L["timing"], lo["timing"], h2["timing"], y.best_lap_time, y.best_lap_number)
       /\ MarkAt(y.was_personal_best, L["timing"], lo["timing"], h2["timing"], pos2["timing"])
  <2>1. /\ y.best_lap_time = BetterTime(x.best_lap_time, e)
        /\ y.best_lap_number = BetterNumber(x.best_lap_time, x.best_lap_number, e)
        /\ y.was_personal_best = NewMark(x.was_personal_best, x.best_lap_time, x.best_lap_number, e)
    BY <1>4, <1>5, BestApplied, MarkApplied
  <2>2. /\ BestAt(L["timing"], lo["timing"], h["timing"], x.best_lap_time, x.best_lap_number)
        /\ MarkAt(x.was_personal_best, L["timing"], lo["timing"], h["timing"], pos["timing"])
        /\ x.best_lap_time \in Known /\ x.best_lap_number \in Known
    BY <1>5 DEF Shows, DriverStates
  <2> HIDE DEF y
  <2>3. CASE t = "timing"
    <3>1. LapsTyped(L[t], Later(h[t], pos[t] + 1))
      <4>1. LapsTyped(L[t], Len(L[t]))
        BY <2>3, TrackLaps
      <4> QED
        BY <1>1, <1>2, <1>6, <4>1 DEF LapsTyped
    <3>2. BestAt(L[t], lo[t], Later(h[t], pos[t] + 1), BetterTime(x.best_lap_time, e),
                 BetterNumber(x.best_lap_time, x.best_lap_number, e))
      BY <1>2, <2>2, <2>3, <3>1, BestNext DEF e
    <3>3. MarkAt(NewMark(x.was_personal_best, x.best_lap_time, x.best_lap_number, e), L[t], lo[t],
                 Later(h[t], pos[t] + 1), pos[t] + 1)
      BY <1>2, <2>2, <2>3, MarkNext DEF e
    <3> QED
      BY <1>1, <2>1, <2>3, <3>2, <3>3
  <2>4. CASE t # "timing"
    <3>1. ~ IsTimed(e)
      BY <1>4, <2>4, WritesAtHome DEF IsTimed
    <3>2. h2["timing"] = h["timing"] /\ pos2["timing"] = pos["timing"]
      BY <1>1, <2>4 DEF DriverTopics
    <3> QED
      BY <2>1, <2>2, <3>1, <3>2 DEF BetterTime, BetterNumber, NewMark
  <2> QED
    BY <2>3, <2>4
<1>13. DriverFits(y, E \union {e}, d)
  <2>1. DriverFits(x, E, d)
    BY DEF Shows, E
  <2>2. CASE e.type = "lap"
    BY <1>4, <1>5, <1>9, <1>10, <2>1, <2>2, LapFitsDriver
  <2>3. CASE e.type # "lap"
    BY <1>10, <2>1, <2>3, OthersFitDriver
  <2> QED
    BY <2>2, <2>3
<1>14. IsGreatest(y.last_update, {a.at : a \in E \union {e}})
  <2>1. e.at \in Int /\ e.at \in Known /\ e.at # None /\ x.last_update \in Known
    BY <1>4, <1>5, MappersAssumption
       DEF DriverEvents, CarEvents, PlaceEvents, TimingEvents, LapEvents, DriverStates, Known
  <2>2. IsGreatest(x.last_update, {a.at : a \in E}) /\ {a.at : a \in E} \in SUBSET Int
    BY <1>9 DEF Shows, E, DriverEvents, CarEvents, PlaceEvents, TimingEvents, LapEvents
  <2>3. {a.at : a \in E \union {e}} = {a.at : a \in E} \union ({e.at} \ {None})
    BY <2>1
  <2> DEFINE S == {a.at : a \in E}
  <2>4. IsGreatest(Highest(x.last_update, e.at), S \union ({e.at} \ {None}))
    <3> HIDE DEF S
    <3>1. IsGreatest(x.last_update, S) /\ S \in SUBSET Int
      BY <2>2 DEF S
    <3> QED
      BY <2>1, <3>1, GreatestOf
  <2> QED
    BY <1>10, <2>3, <2>4, Zenon
<1> HIDE DEF y
<1>15. Shows(y, L, lo, h2, pos2, d)
  BY <1>8, <1>10, <1>11, <1>12, <1>13, <1>14 DEF Shows
<1> QED
  BY <1>7, <1>15 DEF h2, pos2, e, y

\* Entries are to be read again.
LEMMA ShowsBack ==
    ASSUME NEW d, NEW L \in TracksOf(d), NEW lo, NEW h, NEW pos, Reading(L, lo, h, pos),
           NEW x, Shows(x, L, lo, h, pos, d),
           NEW back \in Offsets, \A t \in DriverTopics : lo[t] <= back[t] /\ back[t] <= pos[t]
    PROVE  Reading(L, lo, h, back) /\ Shows(x, L, lo, h, back, d)
<1>1. \A t \in DriverTopics : lo[t] \in Nat /\ h[t] \in Nat /\ pos[t] \in Nat /\ back[t] \in Nat /\ pos[t] <= h[t]
  BY DEF Reading, Offsets
<1>2. Reading(L, lo, h, back)
  <2>1. \A t \in DriverTopics : back[t] <= h[t]
    BY <1>1
  <2> QED
    BY <2>1 DEF Reading
<1>3. ASSUME NEW f \in Overwritten
      PROVE  LastGiven(f, x[f], L[Home(f)], lo[Home(f)], h[Home(f)], back[Home(f)])
  <2>1. LastGiven(f, x[f], L[Home(f)], lo[Home(f)], h[Home(f)], pos[Home(f)]) /\ Home(f) \in DriverTopics
    BY HomeIs DEF Shows
  <2> QED
    BY <1>1, <2>1, LatestBack
<1>4. MarkAt(x.was_personal_best, L["timing"], lo["timing"], h["timing"], back["timing"])
  <2>1. MarkAt(x.was_personal_best, L["timing"], lo["timing"], h["timing"], pos["timing"])
    BY DEF Shows
  <2>2. "timing" \in DriverTopics
    BY DEF DriverTopics
  <2> QED
    BY <1>1, <2>1, <2>2, MarkBack
<1> QED
  BY <1>2, <1>3, <1>4 DEF Shows

\* More has been published since.
LEMMA ShowsSame ==
    ASSUME NEW d, NEW L \in TracksOf(d), NEW lo, NEW h, NEW pos, Reading(L, lo, h, pos),
           NEW x, Shows(x, L, lo, h, pos, d),
           NEW M \in TracksOf(d),
           \A t \in DriverTopics : /\ Len(L[t]) <= Len(M[t])
                                   /\ \A i \in 1..Len(L[t]) : M[t][i] = L[t][i]
    PROVE  Reading(M, lo, h, pos) /\ Shows(x, M, lo, h, pos, d)
<1>1. \A t \in DriverTopics : /\ lo[t] \in Nat /\ h[t] \in Nat /\ pos[t] \in lo[t]..h[t]
                              /\ h[t] <= Len(L[t]) /\ Len(L[t]) \in Nat /\ Len(M[t]) \in Nat
  BY DEF Reading, Offsets, TracksOf
<1>2. \A t \in DriverTopics : h[t] <= Len(M[t]) /\ \A i \in 1..h[t] : M[t][i] = L[t][i]
  BY <1>1
<1>3. Reading(M, lo, h, pos)
  BY <1>2 DEF Reading
<1>4. \A t \in DriverTopics : \A i \in (lo[t] + 1)..h[t] : M[t][i] = L[t][i]
  <2>1. \A t \in DriverTopics : \A i \in (lo[t] + 1)..h[t] : i \in 1..h[t]
    BY <1>1
  <2> QED
    BY <1>2, <2>1
<1>5. Entered(M, lo, h) = Entered(L, lo, h)
  <2> DEFINE Of(N, t) == {N[t][i] : i \in (lo[t] + 1)..h[t]}
  <2>1. \A t \in DriverTopics : Of(M, t) = Of(L, t)
    BY <1>4
  <2>2. Entered(M, lo, h) = UNION {Of(M, t) : t \in DriverTopics}
    BY DEF Entered
  <2>3. Entered(L, lo, h) = UNION {Of(L, t) : t \in DriverTopics}
    BY DEF Entered
  <2> HIDE DEF Of
  <2>4. {Of(M, t) : t \in DriverTopics} = {Of(L, t) : t \in DriverTopics}
    BY <2>1
  <2> QED
    BY <2>2, <2>3, <2>4
<1>6. ASSUME NEW f \in Overwritten
      PROVE  LastGiven(f, x[f], M[Home(f)], lo[Home(f)], h[Home(f)], pos[Home(f)])
  <2>1. LastGiven(f, x[f], L[Home(f)], lo[Home(f)], h[Home(f)], pos[Home(f)]) /\ Home(f) \in DriverTopics
    BY HomeIs DEF Shows
  <2> QED
    BY <1>1, <1>2, <2>1, LatestSame
<1>7. /\ BestAt(M["timing"], lo["timing"], h["timing"], x.best_lap_time, x.best_lap_number)
      /\ MarkAt(x.was_personal_best, M["timing"], lo["timing"], h["timing"], pos["timing"])
  <2>1. /\ BestAt(L["timing"], lo["timing"], h["timing"], x.best_lap_time, x.best_lap_number)
        /\ MarkAt(x.was_personal_best, L["timing"], lo["timing"], h["timing"], pos["timing"])
    BY DEF Shows
  <2>2. "timing" \in DriverTopics
    BY DEF DriverTopics
  <2>3. h["timing"] \in 0..h["timing"]
    BY <1>1, <2>2
  <2> QED
    BY <1>1, <1>2, <2>1, <2>2, <2>3, BestSame, MarkSame
<1> QED
  BY <1>3, <1>5, <1>6, <1>7 DEF Shows

\* There is one extreme.
LEMMA OneExtreme ==
    ASSUME NEW S \in SUBSET Int, NEW a, NEW b
    PROVE  /\ IsLeast(a, S) /\ IsLeast(b, S) => a = b
           /\ IsGreatest(a, S) /\ IsGreatest(b, S) => a = b
<1>1. CASE S = {}
  BY <1>1 DEF IsLeast, IsGreatest
<1>2. CASE S # {}
  <2>1. IsLeast(a, S) /\ IsLeast(b, S) => a \in Int /\ b \in Int /\ a <= b /\ b <= a
    BY <1>2 DEF IsLeast
  <2>2. IsGreatest(a, S) /\ IsGreatest(b, S) => a \in Int /\ b \in Int /\ a <= b /\ b <= a
    BY <1>2 DEF IsGreatest
  <2> QED
    BY <2>1, <2>2
<1> QED
  BY <1>1, <1>2

\* Two readings that have read everything show the same.
LEMMA ShowsOne ==
    ASSUME NEW d, NEW L \in TracksOf(d), NEW lo \in Offsets, NEW n \in Offsets,
           \A t \in DriverTopics : n[t] = Len(L[t]) /\ lo[t] <= n[t],
           NEW x, Shows(x, L, lo, n, n, d), NEW y, Shows(y, L, lo, n, n, d)
    PROVE  Displayed(x) = Displayed(y)
<1> DEFINE E == Entered(L, lo, n)
<1>1. Reading(L, lo, n, n)
  BY DEF Reading, Offsets
<1>2. E \in SUBSET DriverEvents /\ E \in SUBSET FeedEvents
  BY <1>1, EnteredAre DEF FeedEvents
<1>3. "timing" \in DriverTopics /\ lo["timing"] \in Nat /\ n["timing"] \in Nat
  BY DEF DriverTopics, Offsets
<1>4. LapsTyped(L["timing"], n["timing"])
  BY <1>3, TrackLaps
<1>5. ASSUME NEW f \in Overwritten
      PROVE  x[f] = y[f]
  <2>1. Home(f) \in DriverTopics /\ lo[Home(f)] \in Nat /\ n[Home(f)] \in Nat
    BY HomeIs DEF Offsets
  <2>2. /\ LastGiven(f, x[f], L[Home(f)], lo[Home(f)], n[Home(f)], n[Home(f)])
        /\ LastGiven(f, y[f], L[Home(f)], lo[Home(f)], n[Home(f)], n[Home(f)])
    BY DEF Shows
  <2> QED
    BY <2>1, <2>2, LatestOne
<1>6. x.best_lap_time = y.best_lap_time /\ x.best_lap_number = y.best_lap_number
  <2>1. /\ BestAt(L["timing"], lo["timing"], n["timing"], x.best_lap_time, x.best_lap_number)
        /\ BestAt(L["timing"], lo["timing"], n["timing"], y.best_lap_time, y.best_lap_number)
    BY DEF Shows
  <2> QED
    BY <1>3, <1>4, <2>1, BestOne
<1>7. x.was_personal_best = y.was_personal_best
  <2>1. /\ MarkAt(x.was_personal_best, L["timing"], lo["timing"], n["timing"], n["timing"])
        /\ MarkAt(y.was_personal_best, L["timing"], lo["timing"], n["timing"], n["timing"])
    BY DEF Shows
  <2> QED
    BY <1>3, <1>4, <2>1, MarkOne
<1>8. x.last_update = y.last_update
  <2> DEFINE S == {a.at : a \in E}
  <2>1. S \in SUBSET Int
    BY <1>2 DEF DriverEvents, CarEvents, PlaceEvents, TimingEvents, LapEvents
  <2>2. IsGreatest(x.last_update, S) /\ IsGreatest(y.last_update, S)
    BY DEF Shows
  <2> HIDE DEF S
  <2> QED
    BY <2>1, <2>2, OneExtreme
<1>9. x.current_lap = y.current_lap /\ x.best_sectors = y.best_sectors
  <2> HIDE DEF E
  <2>1. DriverFits(x, E, d) /\ DriverFits(y, E, d)
    BY DEF Shows, E
  <2>2. LapNumbersIn(E, d) \in SUBSET Int /\ \A s \in Sectors : SectorTimesIn(E, d, s) \in SUBSET Int
    BY <1>2, LapSets
  <2>3. x.current_lap = y.current_lap
    BY <2>1, <2>2, OneExtreme DEF DriverFits
  <2>4. \A s \in Sectors : x.best_sectors[s] = y.best_sectors[s]
    BY <2>1, <2>2, OneExtreme DEF DriverFits
  <2>5. x.best_sectors \in [Sectors -> Known] /\ y.best_sectors \in [Sectors -> Known]
    BY DEF Shows, DriverStates, PerSector
  <2> QED
    BY <2>3, <2>4, <2>5
<1>10. /\ DOMAIN x = Overwritten \union {"current_lap", "best_lap_time", "best_lap_number",
                "was_personal_best", "best_sectors", "last_update",
                "current_sectors", "last_sectors", "telemetry_samples"}
       /\ DOMAIN y = DOMAIN x
  BY DEF Shows, DriverStates, Overwritten
<1>11. \A f \in DOMAIN x \ {"current_sectors", "last_sectors", "telemetry_samples"} : x[f] = y[f]
  BY <1>5, <1>6, <1>7, <1>8, <1>9, <1>10
<1> QED
  BY <1>10, <1>11 DEF Displayed

-----------------------------------------------------------------------------
(* Reading every entry once *)

LEMMA UpFrom ==
    ASSUME NEW from \in Nat, NEW n \in Nat, from <= n, NEW T, from \in T,
           \A i \in from..(n - 1) : i \in T => i + 1 \in T
    PROVE  \A i \in from..n : i \in T
<1> DEFINE U == {i \in Nat : i < from} \union T
<1>1. 0 \in U
  <2>1. 0 < from \/ 0 = from
    OBVIOUS
  <2> QED
    BY <2>1
<1>2. ASSUME NEW i \in 0..(n - 1), i \in U
      PROVE  i + 1 \in U
  <2>1. CASE i + 1 < from
    BY <2>1
  <2>2. CASE i + 1 = from
    BY <2>2
  <2>3. CASE i >= from
    <3>1. i \in from..(n - 1) /\ ~ (i < from)
      BY <2>3
    <3> QED
      BY <1>2, <3>1
  <2> QED
    BY <2>1, <2>2, <2>3
<1>3. \A i \in 0..n : i \in U
  <2> HIDE DEF U
  <2> QED
    BY <1>1, <1>2, UpTo
<1>4. \A i \in from..n : i \in 0..n /\ ~ (i < from)
  OBVIOUS
<1> QED
  BY <1>3, <1>4

\* ReadFrom is what its steps leave, one entry after the other.
LEMMA EntryByEntry ==
    ASSUME NEW d, NEW entries, Len(entries) \in Nat, NEW from \in Nat, from <= Len(entries)
    PROVE  \E after : /\ after[from] = d
                      /\ \A i \in (from + 1)..Len(entries) :
                            after[i] = AppliedToDriver(after[i - 1], entries[i])
                      /\ ReadFrom(d, entries, from) = after[Len(entries)]
<1> DEFINE n == Len(entries)
           Body(g) == [i \in from..n |-> IF i = from THEN d ELSE AppliedToDriver(g[i - 1], entries[i])]
           all == CHOOSE g : g = Body(g)
           Upto(m) == \E g : /\ g[from] = d
                             /\ \A i \in (from + 1)..m : g[i] = AppliedToDriver(g[i - 1], entries[i])
           T == {m \in Nat : Upto(m)}
<1>1. from \in T
  <2> DEFINE g == [i \in {from} |-> d]
  <2>1. g[from] = d /\ \A i \in (from + 1)..from : g[i] = AppliedToDriver(g[i - 1], entries[i])
    OBVIOUS
  <2> HIDE DEF g
  <2> QED
    BY <2>1
<1>2. ASSUME NEW m \in from..(n - 1), m \in T
      PROVE  m + 1 \in T
  <2>1. PICK g : /\ g[from] = d
                 /\ \A i \in (from + 1)..m : g[i] = AppliedToDriver(g[i - 1], entries[i])
    BY <1>2
  <2> DEFINE h == [i \in from..(m + 1) |-> IF i <= m THEN g[i] ELSE AppliedToDriver(g[m], entries[m + 1])]
  <2>2. h[from] = d
    BY <1>2, <2>1
  <2>3. ASSUME NEW i \in (from + 1)..(m + 1)
        PROVE  h[i] = AppliedToDriver(h[i - 1], entries[i])
    <3>1. m \in Nat /\ i - 1 \in from..(m + 1) /\ i \in from..(m + 1) /\ i - 1 <= m
      BY <1>2
    <3>2. h[i - 1] = g[i - 1]
      BY <3>1
    <3>3. CASE i <= m
      <4>1. i \in (from + 1)..m /\ h[i] = g[i]
        BY <3>1, <3>3
      <4> QED
        BY <2>1, <3>2, <4>1
    <3>4. CASE i = m + 1
      <4>1. h[i] = AppliedToDriver(g[m], entries[m + 1]) /\ i - 1 = m
        BY <3>1, <3>4
      <4> QED
        BY <3>2, <3>4, <4>1
    <3> QED
      BY <3>1, <3>3, <3>4
  <2>4. \A i \in (from + 1)..(m + 1) : h[i] = AppliedToDriver(h[i - 1], entries[i])
    BY <2>3
  <2>5. m + 1 \in Nat
    BY <1>2
  <2> HIDE DEF h
  <2> QED
    BY <2>2, <2>4, <2>5
<1>3. n \in T
  <2> HIDE DEF T
  <2>1. \A i \in from..n : i \in T
    BY <1>1, <1>2, UpFrom
  <2> QED
    BY <2>1
<1>4. PICK g : /\ g[from] = d
               /\ \A i \in (from + 1)..n : g[i] = AppliedToDriver(g[i - 1], entries[i])
  BY <1>3
<1>5. \E f : f = Body(f)
  <2> DEFINE f == [i \in from..n |-> g[i]]
  <2>1. ASSUME NEW i \in from..n
        PROVE  g[i] = IF i = from THEN d ELSE AppliedToDriver(f[i - 1], entries[i])
    <3>1. CASE i = from
      BY <1>4, <3>1
    <3>2. CASE i # from
      <4>1. i \in (from + 1)..n /\ i - 1 \in from..n
        BY <3>2
      <4>2. f[i - 1] = g[i - 1]
        BY <4>1
      <4> QED
        BY <1>4, <3>2, <4>1, <4>2
    <3> QED
      BY <3>1, <3>2
  <2>2. f = Body(f)
    BY <2>1, Zenon
  <2> QED
    BY <2>2
<1>6. all = Body(all)
  <2> HIDE DEF Body
  <2> QED
    BY <1>5
<1>7. ReadFrom(d, entries, from) = all[n]
  BY DEF ReadFrom
<1> HIDE DEF all
<1>8. \A i \in from..n : all[i] = IF i = from THEN d ELSE AppliedToDriver(all[i - 1], entries[i])
  <2>1. \A f : f = Body(f) => \A i \in from..n : f[i] = Body(f)[i]
    OBVIOUS
  <2> QED
    BY <1>6, Zenon
<1>9. from \in from..n /\ \A i \in (from + 1)..n : i \in from..n /\ i # from
  OBVIOUS
<1>10. all[from] = d /\ \A i \in (from + 1)..n : all[i] = AppliedToDriver(all[i - 1], entries[i])
  BY <1>8, <1>9
<1> QED
  BY <1>7, <1>10

\* A topic that had not been begun is read to its end.
LEMMA ShowsRead ==
    ASSUME NEW d, NEW L \in TracksOf(d), NEW lo, NEW h, Reading(L, lo, h, h),
           NEW x, Shows(x, L, lo, h, h, d), NEW t \in DriverTopics, h[t] = lo[t]
    PROVE  LET end == [h EXCEPT ![t] = Len(L[t])]
           IN  /\ Reading(L, lo, end, end)
               /\ Shows(ReadFrom(x, L[t], lo[t]), L, lo, end, end, d)
<1> DEFINE n == Len(L[t])
           to(i) == [h EXCEPT ![t] = i]
<1>1. lo[t] \in Nat /\ n \in Nat /\ lo[t] <= n /\ h \in [DriverTopics -> Nat]
  BY DEF Reading, Offsets, TracksOf
<1>2. PICK after : /\ after[lo[t]] = x
                   /\ \A i \in (lo[t] + 1)..n : after[i] = AppliedToDriver(after[i - 1], L[t][i])
                   /\ ReadFrom(x, L[t], lo[t]) = after[n]
  <2>1. Len(L[t]) \in Nat /\ lo[t] \in Nat /\ lo[t] <= Len(L[t])
    BY <1>1
  <2> DEFINE all == L[t]
             from == lo[t]
  <2>2. \E after : /\ after[from] = x
                   /\ \A i \in (from + 1)..Len(all) : after[i] = AppliedToDriver(after[i - 1], all[i])
                   /\ ReadFrom(x, all, from) = after[Len(all)]
    <3> HIDE DEF all, from
    <3>1. Len(all) \in Nat /\ from \in Nat /\ from <= Len(all)
      BY <2>1 DEF all, from
    <3> QED
      BY <3>1, EntryByEntry
  <2> QED
    BY <2>2
<1> DEFINE T == {i \in Nat : Reading(L, lo, to(i), to(i)) /\ Shows(after[i], L, lo, to(i), to(i), d)}
<1>3. lo[t] \in T
  <2>1. to(lo[t]) = h
    BY <1>1
  <2> QED
    BY <1>1, <1>2, <2>1
<1>4. ASSUME NEW i \in lo[t]..(n - 1), i \in T
      PROVE  i + 1 \in T
  <2> DEFINE at == to(i)
  <2>1. at[t] = i /\ i \in Nat /\ i < n /\ i + 1 \in (lo[t] + 1)..n /\ (i + 1) - 1 = i
    BY <1>1
  <2>2. Later(i, i + 1) = i + 1
    BY <2>1 DEF Later
  <2>3. [at EXCEPT ![t] = i + 1] = to(i + 1)
    BY <1>1
  <2>4. Reading(L, lo, at, at) /\ Shows(after[i], L, lo, at, at, d)
    BY <1>4
  <2> HIDE DEF at
  <2>5. LET h2   == [at EXCEPT ![t] = Later(at[t], at[t] + 1)]
            pos2 == [at EXCEPT ![t] = at[t] + 1]
        IN  /\ Reading(L, lo, h2, pos2)
            /\ Shows(AppliedToDriver(after[i], L[t][at[t] + 1]), L, lo, h2, pos2, d)
    BY <2>1, <2>4, ShowsNext
  <2>6. after[i + 1] = AppliedToDriver(after[i], L[t][i + 1])
    BY <1>2, <2>1
  <2> HIDE DEF to
  <2>7. Reading(L, lo, to(i + 1), to(i + 1)) /\ Shows(after[i + 1], L, lo, to(i + 1), to(i + 1), d)
    BY <2>1, <2>2, <2>3, <2>5, <2>6
  <2> QED
    BY <2>1, <2>7
<1>5. n \in T
  <2> HIDE DEF T
  <2>1. \A i \in lo[t]..n : i \in T
    BY <1>1, <1>3, <1>4, UpFrom
  <2> QED
    BY <1>1, <2>1
<1> QED
  BY <1>2, <1>5

-----------------------------------------------------------------------------
(* The feed *)

\* What a driver's three partitions hold of F: the log, or offsets.
Track(F, d) == [t \in DriverTopics |-> F[<<t, d>>]]

\* The entries of the three partitions are events of the driver.
LEMMA TracksAre ==
    ASSUME FeedTypeInv, NEW d \in Drivers
    PROVE  /\ Track(log, d) \in TracksOf(d)
           /\ Track(begun, d) \in Offsets /\ Track(committed, d) \in Offsets /\ Track(position, d) \in Offsets
<1>1. \A t \in DriverTopics : <<t, d>> \in Partitions
  BY DEF DriverTopics, Partitions
<1>2. ASSUME NEW t \in DriverTopics
      PROVE  /\ log[<<t, d>>] \in Seq(DriverEvents)
             /\ \A i \in 1..Len(log[<<t, d>>]) :
                   TopicOf(log[<<t, d>>][i].type) = t /\ log[<<t, d>>][i].driver = d
  <2> DEFINE seq == log[<<t, d>>]
  <2>1. seq \in Seq(FeedEvents) /\ \A i \in 1..Len(seq) : PartitionFor(seq[i]) = <<t, d>>
    BY <1>1 DEF FeedTypeInv
  <2> HIDE DEF seq
  <2>2. ASSUME NEW e \in FeedEvents, PartitionFor(e) = <<t, d>>
        PROVE  e \in DriverEvents /\ TopicOf(e.type) = t /\ e.driver = d
    <3>1. TopicOf(e.type) = t /\ t # "session"
      BY <2>2 DEF PartitionFor, DriverTopics
    <3>2. e.driver = d
      BY <2>2, <3>1 DEF PartitionFor
    <3>3. e \notin SessionEvents
      BY <3>1 DEF TopicOf, SessionEvents, WeatherEvents, FlagEvents, MetaEvents
    <3> QED
      BY <3>1, <3>2, <3>3 DEF FeedEvents
  <2>3. \A i \in 1..Len(seq) : seq[i] \in DriverEvents /\ TopicOf(seq[i].type) = t /\ seq[i].driver = d
    BY <2>1, <2>2
  <2>4. seq \in Seq(DriverEvents)
    BY <2>1, <2>3
  <2> QED
    BY <2>3, <2>4 DEF seq
<1>3. Track(log, d) \in TracksOf(d)
  BY <1>2 DEF Track, TracksOf
<1> QED
  BY <1>1, <1>3 DEF Track, Offsets, FeedTypeInv

\* Each driver's state is what some reading shows: one that began where this
\* process began, and that has read up to the consumer's positions again.
SettleInv ==
    \A d \in Drivers : \E h :
        /\ Reading(Track(log, d), Track(begun, d), h, Track(position, d))
        /\ Shows(state.drivers[d], Track(log, d), Track(begun, d), h, Track(position, d), d)

LEMMA BeginsSettled ==
    ASSUME FeedTypeInv, begun = position, state = NewSession
    PROVE  SettleInv
<1> SUFFICES ASSUME NEW d \in Drivers
             PROVE  LET at == Track(position, d)
                    IN  /\ Reading(Track(log, d), at, at, at)
                        /\ Shows(state.drivers[d], Track(log, d), at, at, at, d)
  BY DEF SettleInv
<1>1. Track(position, d) \in Offsets
  BY TracksAre
<1>2. state.drivers[d] = NewDriver
  BY DEF NewSession
<1>3. \A t \in DriverTopics : Track(position, d)[t] <= Len(Track(log, d)[t])
  BY DEF Track, FeedTypeInv, DriverTopics, Partitions
<1>4. \A t \in DriverTopics : Track(position, d)[t] <= Track(position, d)[t]
  BY <1>1 DEF Offsets
<1> QED
  BY <1>1, <1>2, <1>3, <1>4, ShowsNew DEF Reading

DriversTracked == \A d \in Drivers : Track(log, d) \in TracksOf(d)

LEMMA AllTracked == FeedTypeInv => DriversTracked
BY TracksAre DEF DriversTracked

\* The same, of the next state.
LEMMA TracksNext ==
    ASSUME FeedTypeInv', NEW d \in Drivers
    PROVE  Track(log, d)' \in TracksOf(d)
<1>1. DriversTracked'
  BY AllTracked, PTL
<1> QED
  BY <1>1 DEF DriversTracked, Track, TracksOf

\* More is published.
LEMMA PublishSettles ==
    ASSUME FeedTypeInv, FeedTypeInv', SettleInv, NEW raw \in Raws, Publish(raw)
    PROVE  SettleInv'
<1> SUFFICES ASSUME NEW d \in Drivers
             PROVE  \E h : /\ Reading(Track(log, d), Track(begun, d), h, Track(position, d))'
                           /\ Shows(state'.drivers[d], Track(log, d)', Track(begun, d)', h, Track(position, d)', d)
  BY DEF SettleInv
<1> DEFINE L   == Track(log, d)
           M   == Track(log', d)
           lo  == Track(begun, d)
           pos == Track(position, d)
<1>1. begun' = begun /\ position' = position /\ state' = state
  BY DEF Publish, consumerVars
<1>2. L \in TracksOf(d) /\ M \in TracksOf(d)
  BY TracksAre, TracksNext DEF Track
<1>3. \A t \in DriverTopics : Len(L[t]) <= Len(M[t]) /\ \A i \in 1..Len(L[t]) : M[t][i] = L[t][i]
  <2>1. \A t \in DriverTopics : <<t, d>> \in Partitions
    BY DEF DriverTopics, Partitions
  <2> QED
    BY <2>1, PublishAppends DEF Track
<1>4. PICK h : Reading(L, lo, h, pos) /\ Shows(state.drivers[d], L, lo, h, pos, d)
  BY DEF SettleInv
<1> HIDE DEF L, M, lo, pos
<1>5. Reading(M, lo, h, pos) /\ Shows(state.drivers[d], M, lo, h, pos, d)
  BY <1>2, <1>3, <1>4, ShowsSame
<1> QED
  BY <1>1, <1>5 DEF M, lo, pos, Track

\* A session's partition says nothing of a driver's state.
LEMMA ApplySettles ==
    ASSUME FeedTypeInv, SettleInv, NEW p \in Partitions, ApplyNext(p)
    PROVE  SettleInv'
<1> DEFINE e == log[p][position[p] + 1]
<1>1. log' = log /\ begun' = begun /\ state' = Apply(state, e) /\ e \in FeedEvents
  BY ApplyAdds DEF ApplyNext
<1>2. position' = [position EXCEPT ![p] = position[p] + 1] /\ position[p] + 1 <= Len(log[p])
  BY DEF ApplyNext
<1>3. position \in [Partitions -> Nat] /\ state \in SessionStates /\ log[p] \in Seq(FeedEvents)
  BY DEF FeedTypeInv
<1>4. PartitionFor(e) = p
  BY <1>2, <1>3 DEF FeedTypeInv
<1> SUFFICES ASSUME NEW d \in Drivers
             PROVE  \E h : /\ Reading(Track(log, d), Track(begun, d), h, Track(position', d))
                           /\ Shows(Apply(state, e).drivers[d], Track(log, d), Track(begun, d), h, Track(position', d), d)
  BY <1>1 DEF SettleInv, Track
<1> DEFINE L   == Track(log, d)
           lo  == Track(begun, d)
           pos == Track(position, d)
<1>5. L \in TracksOf(d) /\ pos \in Offsets
  BY TracksAre
<1>6. PICK h : Reading(L, lo, h, pos) /\ Shows(state.drivers[d], L, lo, h, pos, d)
  BY DEF SettleInv
<1>7. ASSUME NEW t \in DriverTopics, p = <<t, d>>
      PROVE  \E g : /\ Reading(L, lo, g, Track(position', d))
                    /\ Shows(Apply(state, e).drivers[d], L, lo, g, Track(position', d), d)
  <2>1. e \in DriverEvents /\ e.driver = d
    <3>1. TopicOf(e.type) = t /\ t # "session"
      BY <1>4, <1>7 DEF PartitionFor, DriverTopics
    <3>2. e.driver = d
      BY <1>4, <1>7, <3>1 DEF PartitionFor
    <3>3. e \notin SessionEvents
      BY <3>1 DEF TopicOf, SessionEvents, WeatherEvents, FlagEvents, MetaEvents
    <3> QED
      BY <1>1, <3>2, <3>3 DEF FeedEvents
  <2>2. Apply(state, e).drivers[d] = AppliedToDriver(state.drivers[d], e)
    BY <1>3, <2>1, DriverEventApplied
  <2>3. e = L[t][pos[t] + 1] /\ pos[t] < Len(L[t])
    BY <1>2, <1>3, <1>7 DEF Track
  <2>4. Track(position', d) = [pos EXCEPT ![t] = pos[t] + 1]
    <3>1. \A s \in DriverTopics : <<s, d>> \in Partitions
      BY DEF DriverTopics, Partitions
    <3>2. \A s \in DriverTopics : position'[<<s, d>>] = IF s = t THEN position[p] + 1 ELSE position[<<s, d>>]
      BY <1>2, <1>3, <1>7, <3>1
    <3> QED
      BY <1>7, <3>2 DEF Track
  <2> HIDE DEF e, L, lo, pos
  <2>5. LET h2   == [h EXCEPT ![t] = Later(h[t], pos[t] + 1)]
            pos2 == [pos EXCEPT ![t] = pos[t] + 1]
        IN  /\ Reading(L, lo, h2, pos2)
            /\ Shows(AppliedToDriver(state.drivers[d], L[t][pos[t] + 1]), L, lo, h2, pos2, d)
    BY <1>5, <1>6, <2>3, ShowsNext
  <2> QED
    BY <2>2, <2>3, <2>4, <2>5
<1>8. ASSUME \A t \in DriverTopics : p # <<t, d>>
      PROVE  \E g : /\ Reading(L, lo, g, Track(position', d))
                    /\ Shows(Apply(state, e).drivers[d], L, lo, g, Track(position', d), d)
  <2>1. Track(position', d) = pos
    BY <1>2, <1>3, <1>8 DEF Track
  <2>2. Apply(state, e).drivers[d] = state.drivers[d]
    <3>1. CASE e \in SessionEvents
      BY <1>3, <3>1, SessionApplied
    <3>2. CASE e \in DriverEvents
      <4>1. TopicOf(e.type) \in DriverTopics
        BY <3>2 DEF DriverEvents, CarEvents, PlaceEvents, TimingEvents, LapEvents, TopicOf, DriverTopics
      <4>2. p = <<TopicOf(e.type), e.driver>>
        BY <1>4, <4>1 DEF PartitionFor, DriverTopics
      <4>3. e.driver # d
        BY <1>8, <4>1, <4>2
      <4> QED
        BY <1>3, <3>2, <4>3, DriverEventApplied
    <3> QED
      BY <1>1, <3>1, <3>2 DEF FeedEvents
  <2> QED
    BY <1>6, <2>1, <2>2
<1> QED
  BY <1>7, <1>8

\* A group's partitions are read again from what it had committed.
LEMMA RebalanceSettles ==
    ASSUME FeedTypeInv, SettleInv, NEW part, Rebalance(part)
    PROVE  SettleInv'
<1>1. log' = log /\ begun' = begun /\ state' = state
  BY DEF Rebalance
<1>2. position' = [p \in Partitions |-> IF p \in part THEN committed[p] ELSE position[p]]
  BY DEF Rebalance
<1> SUFFICES ASSUME NEW d \in Drivers
             PROVE  \E h : /\ Reading(Track(log, d), Track(begun, d), h, Track(position', d))
                           /\ Shows(state.drivers[d], Track(log, d), Track(begun, d), h, Track(position', d), d)
  BY <1>1 DEF SettleInv, Track
<1> DEFINE L    == Track(log, d)
           lo   == Track(begun, d)
           pos  == Track(position, d)
           back == Track(position', d)
<1>3. L \in TracksOf(d)
  BY TracksAre
<1>4. PICK h : Reading(L, lo, h, pos) /\ Shows(state.drivers[d], L, lo, h, pos, d)
  BY DEF SettleInv
<1>5. \A t \in DriverTopics : back[t] \in Nat /\ lo[t] <= back[t] /\ back[t] <= pos[t]
  <2>1. \A p \in Partitions : position'[p] \in Nat /\ begun[p] <= position'[p] /\ position'[p] <= position[p]
    BY <1>2 DEF FeedTypeInv
  <2>2. \A t \in DriverTopics : <<t, d>> \in Partitions
    BY DEF DriverTopics, Partitions
  <2> QED
    BY <2>1, <2>2 DEF Track
<1>6. back \in Offsets
  BY <1>5 DEF Track, Offsets
<1> HIDE DEF L, lo, pos, back
<1>7. Reading(L, lo, h, back) /\ Shows(state.drivers[d], L, lo, h, back, d)
  BY <1>3, <1>4, <1>5, <1>6, ShowsBack
<1> QED
  BY <1>7 DEF L, lo, back

\* Every step leaves each driver's state what a reading shows.
LEMMA StepSettles == FeedTypeInv /\ FeedTypeInv' /\ SettleInv /\ [Next]_vars => SettleInv'
<1> SUFFICES ASSUME FeedTypeInv, FeedTypeInv', SettleInv, [Next]_vars
             PROVE  SettleInv'
  OBVIOUS
<1>1. ASSUME NEW raw \in Raws, Publish(raw)
      PROVE  SettleInv'
  BY <1>1, PublishSettles
<1>2. ASSUME NEW p \in Partitions, ApplyNext(p)
      PROVE  SettleInv'
  BY <1>2, ApplySettles
<1>3. ASSUME NEW part, Rebalance(part)
      PROVE  SettleInv'
  BY <1>3, RebalanceSettles
<1>4. ASSUME Restart
      PROVE  SettleInv'
  <2>1. (FeedTypeInv /\ begun = position /\ state = NewSession => SettleInv)'
    BY BeginsSettled, PTL
  <2>2. begun' = position' /\ state' = NewSession
    BY <1>4 DEF Restart
  <2>3. NewSession' = NewSession
    BY DEF NewSession
  <2> QED
    BY <2>1, <2>2, <2>3
<1>5. ASSUME UNCHANGED <<log, begun, position, state>>
      PROVE  SettleInv'
  BY <1>5 DEF SettleInv, Track
<1> QED
  BY <1>1, <1>2, <1>3, <1>4, <1>5 DEF Next, Commit, Store, vars

\* ReadOnce shows what is in the log.
LEMMA ReadOnceShows ==
    ASSUME FeedTypeInv, NEW d \in Drivers
    PROVE  Shows(ReadOnce(d), Track(log, d), Track(begun, d),
                 [t \in DriverTopics |-> Len(log[<<t, d>>])],
                 [t \in DriverTopics |-> Len(log[<<t, d>>])], d)
<1> DEFINE L  == Track(log, d)
           lo == Track(begun, d)
           x1 == ReadFrom(NewDriver, L["telemetry"], lo["telemetry"])
           x2 == ReadFrom(x1, L["position"], lo["position"])
           x3 == ReadFrom(x2, L["timing"], lo["timing"])
           h1 == [lo EXCEPT !["telemetry"] = Len(L["telemetry"])]
           h2 == [h1 EXCEPT !["position"] = Len(L["position"])]
           h3 == [h2 EXCEPT !["timing"] = Len(L["timing"])]
<1>1. L \in TracksOf(d) /\ lo \in Offsets
  BY TracksAre
<1>2. \A t \in DriverTopics : lo[t] \in Nat /\ lo[t] <= Len(L[t]) /\ Len(L[t]) \in Nat
  <2>1. \A t \in DriverTopics : <<t, d>> \in Partitions
    BY DEF DriverTopics, Partitions
  <2>2. \A p \in Partitions : begun[p] \in Nat /\ Len(log[p]) \in Nat /\ begun[p] <= Len(log[p])
    BY DEF FeedTypeInv
  <2> QED
    BY <2>1, <2>2 DEF Track
<1>3. ReadOnce(d) = x3
  BY DEF ReadOnce, Track, DriverTopics
<1>4. [t \in DriverTopics |-> Len(log[<<t, d>>])] = h3
  BY DEF Track, DriverTopics
<1> HIDE DEF L, lo
<1>5. Reading(L, lo, lo, lo) /\ Shows(NewDriver, L, lo, lo, lo, d)
  BY <1>1, <1>2, ShowsNew DEF Reading
<1>6. "telemetry" \in DriverTopics /\ "position" \in DriverTopics /\ "timing" \in DriverTopics
  BY DEF DriverTopics
<1>7. Reading(L, lo, h1, h1) /\ Shows(x1, L, lo, h1, h1, d)
  BY <1>1, <1>5, <1>6, ShowsRead
<1>8. h1["position"] = lo["position"] /\ h2["timing"] = lo["timing"]
  BY <1>1 DEF Offsets, DriverTopics
<1> HIDE DEF x1, h1
<1>9. Reading(L, lo, h2, h2) /\ Shows(x2, L, lo, h2, h2, d)
  BY <1>1, <1>6, <1>7, <1>8, ShowsRead
<1> HIDE DEF x2, h2
<1>10. Reading(L, lo, h3, h3) /\ Shows(x3, L, lo, h3, h3, d)
  BY <1>1, <1>6, <1>8, <1>9, ShowsRead
<1> QED
  BY <1>3, <1>4, <1>10 DEF L, lo

\* SettlesOnTheLog: a consumer that has caught up shows of each driver what
\* reading every event exactly once, since it began, would show.
THEOREM SettlesOnce == Spec => []SettlesOnTheLog
<1>1. Init => SettleInv
  <2>1. Init => begun = position /\ state = NewSession
    BY DEF Init
  <2> QED
    BY <2>1, InitTyped, BeginsSettled
<1>2. FeedTypeInv /\ SettleInv => SettlesOnTheLog
  <2> SUFFICES ASSUME FeedTypeInv, SettleInv, CaughtUp, NEW d \in Drivers
               PROVE  Displayed(state.drivers[d]) = Displayed(ReadOnce(d))
    BY DEF SettlesOnTheLog
  <2> DEFINE L  == Track(log, d)
             lo == Track(begun, d)
             n  == [t \in DriverTopics |-> Len(log[<<t, d>>])]
  <2>1. L \in TracksOf(d) /\ lo \in Offsets /\ Track(position, d) \in Offsets
    BY TracksAre
  <2>2. PICK h : Reading(L, lo, h, Track(position, d)) /\ Shows(state.drivers[d], L, lo, h, Track(position, d), d)
    BY DEF SettleInv
  <2>3. Track(position, d) = n
    BY DEF CaughtUp, Track, DriverTopics, Partitions
  <2>4. \A t \in DriverTopics : n[t] = Len(L[t])
    BY DEF Track
  <2>5. Shows(ReadOnce(d), L, lo, n, n, d)
    BY ReadOnceShows
  <2> HIDE DEF n, L, lo
  <2>6. n \in Offsets /\ h = n
    <3>1. \A t \in DriverTopics : h[t] \in Nat /\ n[t] \in Nat /\ n[t] <= h[t] /\ h[t] <= n[t]
      BY <2>2, <2>3, <2>4 DEF Reading, Offsets
    <3>2. h \in [DriverTopics -> Nat] /\ n \in [DriverTopics -> Nat]
      BY <2>1, <2>2, <2>3 DEF Reading, Offsets
    <3>3. \A t \in DriverTopics : h[t] = n[t]
      BY <3>1
    <3> QED
      BY <3>2, <3>3 DEF Offsets
  <2>7. \A t \in DriverTopics : lo[t] <= n[t]
    BY <2>1, <2>2, <2>3, <2>6 DEF Reading, Offsets
  <2> QED
    BY <2>1, <2>2, <2>3, <2>4, <2>5, <2>6, <2>7, ShowsOne
<1> QED
  BY <1>1, <1>2, StepSettles, Typed, PTL DEF Spec

-----------------------------------------------------------------------------
(* Nothing on the tower is invented *)

\* v is a count of laps, and n that count, or one where it gives none.
LapsDownIs(v, n) == v = Laps(n) \/ (v = SomeLap /\ n = 1)

\* The record raw says of its driver what the event e says.
SaidBy(raw, e) ==
    /\ WholePart(raw.driver_number, e.driver)
    /\ e.type = "car_telemetry" =>
          /\ raw.endpoint = "car_data"
          /\ \A c \in DOMAIN CarLimits : e.payload[c] # None =>
                InLimits(e.payload[c], CarLimits[c]) /\ WholePart(raw.car[c], e.payload[c])
    /\ e.type = "position" =>
          /\ raw.endpoint = "location"
          /\ SameNumber(raw.x, e.payload.x) /\ SameNumber(raw.y, e.payload.y)
          /\ e.payload # [x |-> 0, y |-> 0]
    /\ e.type = "timing" =>
          /\ e.payload.position # None =>
                /\ raw.endpoint = "position"
                /\ InLimits(e.payload.position, <<1, 30>>) /\ WholePart(raw.position, e.payload.position)
          /\ e.payload.gap_to_leader # None =>
                raw.endpoint = "intervals" /\ SameNumber(raw.gap_to_leader, e.payload.gap_to_leader)
          /\ e.payload.laps_down # None =>
                raw.endpoint = "intervals" /\ LapsDownIs(raw.gap_to_leader, e.payload.laps_down)
    /\ e.type = "lap" =>
          /\ raw.endpoint = "laps"
          /\ e.payload.lap_duration # None =>
                e.payload.lap_duration > 0 /\ SameNumber(raw.lap_duration, e.payload.lap_duration)

\* An integer is the whole part of what it is read from, a float the same number.
LEMMA ReadAsIs ==
    ASSUME NEW v \in JsonValues
    PROVE  /\ AsInt(v) # None => WholePart(v, AsInt(v)) /\ AsInt(v) \in Int
           /\ AsFloat(v) # None => SameNumber(v, AsFloat(v)) /\ AsFloat(v) \in Int
           /\ GapLaps(v) # None => LapsDownIs(v, GapLaps(v))
<1>1. v.n \in Int
  BY ReadsAre
<1>2. ASSUME AsInt(v) # None
      PROVE  WholePart(v, AsInt(v)) /\ AsInt(v) \in Int
  <2>1. v.kind \in Numbers /\ AsInt(v) = Truncated(v.n)
    BY <1>2 DEF AsInt, Numbers
  <2>2. CASE v.n >= 0
    <3>1. AsInt(v) = v.n \div 10
      BY <2>1, <2>2 DEF Truncated
    <3>2. v.n \div 10 \in Int /\ 0 <= v.n \div 10
          /\ 10 * (v.n \div 10) <= v.n /\ v.n < 10 * (v.n \div 10) + 10
      BY <1>1, <2>2
    <3> QED
      BY <2>1, <3>1, <3>2 DEF WholePart
  <2>3. CASE ~(v.n >= 0)
    <3> DEFINE m == -v.n
               q == m \div 10
    <3>1. AsInt(v) = -q
      BY <2>1, <2>3 DEF Truncated
    <3>2. m \in Int /\ m > 0 /\ v.n = -m
      BY <1>1, <2>3
    <3> HIDE DEF m
    <3>3. q \in Int /\ 0 <= q /\ 10 * q <= m /\ m < 10 * q + 10
      BY <3>2
    <3> HIDE DEF q
    <3>4. -q \in Int /\ -q <= 0 /\ 10 * (-q) - 10 < v.n /\ v.n <= 10 * (-q)
      BY <3>2, <3>3
    <3> QED
      BY <2>1, <3>1, <3>4 DEF WholePart
  <2> QED
    BY <2>2, <2>3
<1>3. AsFloat(v) # None => SameNumber(v, AsFloat(v)) /\ AsFloat(v) \in Int
  BY <1>1 DEF AsFloat, SameNumber
<1>4. GapLaps(v) # None => LapsDownIs(v, GapLaps(v))
  BY DEF JsonValues, Numbers, GapLaps, LapsDownIs, Laps, SomeLap
<1> QED
  BY <1>2, <1>3, <1>4

\* What a driver's record is mapped to, the record says.
LEMMA MappedSays ==
    ASSUME NEW raw \in Raws, MappedRecord(raw) \in DriverEvents
    PROVE  Mapped(raw) = MappedRecord(raw) /\ SaidBy(raw, MappedRecord(raw))
<1> DEFINE e == MappedRecord(raw)
<1> USE FeedAssumption
<1>1. e.type \in {"car_telemetry", "position", "timing", "lap"} /\ e.driver \in Int
  BY SessionAssumption DEF DriverEvents, CarEvents, PlaceEvents, TimingEvents, LapEvents
<1>2. Rejected.type \notin {"car_telemetry", "position", "timing", "lap"}
  BY DEF Rejected
<1>3. CASE raw.endpoint = "car_data"
  <2>1. raw \in [endpoint : {"car_data"}, date : JsonValues, driver_number : JsonValues,
                 car : [DOMAIN CarLimits -> JsonValues]]
    BY <1>3 DEF IsRecord
  <2>2. e = MapCarTelemetry(raw) /\ Mapped(raw) = e
    BY <1>3 DEF MappedRecord, Mapped
  <2>3. /\ e.type = "car_telemetry" /\ e.driver = AsInt(raw.driver_number) /\ HasDriver(raw)
        /\ \A c \in DOMAIN CarLimits :
              e.payload[c] = WithinOrNone(AsInt(raw.car[c]), CarLimits[c][1], CarLimits[c][2])
    BY <1>1, <1>2, <2>2 DEF MapCarTelemetry, Event
  <2>4. \A c \in DOMAIN CarLimits : e.payload[c] # None =>
          InLimits(e.payload[c], CarLimits[c]) /\ WholePart(raw.car[c], e.payload[c])
    BY <2>1, <2>3, ReadAsIs DEF WithinOrNone, InLimits
  <2>5. WholePart(raw.driver_number, e.driver)
    BY <2>1, <2>3, ReadAsIs DEF HasDriver
  <2> QED
    BY <1>3, <2>2, <2>3, <2>4, <2>5 DEF SaidBy
<1>4. CASE raw.endpoint = "location"
  <2>1. raw \in [endpoint : {"location"}, date : JsonValues, driver_number : JsonValues,
                 x : JsonValues, y : JsonValues]
    BY <1>4 DEF IsRecord
  <2>2. e = MapLocation(raw) /\ Mapped(raw) = e
    BY <1>4 DEF MappedRecord, Mapped
  <2>3. /\ e.type = "position" /\ e.driver = AsInt(raw.driver_number) /\ HasDriver(raw)
        /\ e.payload = [x |-> AsFloat(raw.x), y |-> AsFloat(raw.y)]
        /\ AsFloat(raw.x) # None /\ AsFloat(raw.y) # None
        /\ ~ (AsFloat(raw.x) = 0 /\ AsFloat(raw.y) = 0)
    BY <1>1, <1>2, <2>2 DEF MapLocation, Event
  <2>4. WholePart(raw.driver_number, e.driver)
    BY <2>1, <2>3, ReadAsIs DEF HasDriver
  <2>5. SameNumber(raw.x, e.payload.x) /\ SameNumber(raw.y, e.payload.y) /\ e.payload # [x |-> 0, y |-> 0]
    BY <2>1, <2>3, ReadAsIs
  <2> QED
    BY <1>4, <2>2, <2>3, <2>4, <2>5 DEF SaidBy
<1>5. CASE raw.endpoint = "laps"
  <2>1. raw \in [endpoint : {"laps"}, date : JsonValues, driver_number : JsonValues,
                 lap_number : JsonValues, lap_duration : JsonValues,
                 sectors : [Sectors -> JsonValues]]
    BY <1>5 DEF IsRecord
  <2>2. e = MapLap(raw) /\ Mapped(raw) = e
    BY <1>5 DEF MappedRecord, Mapped
  <2>3. /\ e.type = "lap" /\ e.driver = AsInt(raw.driver_number) /\ HasDriver(raw)
        /\ e.payload.lap_duration = Positive(AsFloat(raw.lap_duration))
    BY <1>1, <1>2, <2>2 DEF MapLap, Event
  <2>4. WholePart(raw.driver_number, e.driver)
    BY <2>1, <2>3, ReadAsIs DEF HasDriver
  <2>5. e.payload.lap_duration # None =>
          e.payload.lap_duration > 0 /\ SameNumber(raw.lap_duration, e.payload.lap_duration)
    BY <2>1, <2>3, ReadAsIs DEF Positive
  <2> QED
    BY <1>5, <2>2, <2>3, <2>4, <2>5 DEF SaidBy
<1>6. CASE raw.endpoint = "position"
  <2>1. raw \in [endpoint : {"position"}, date : JsonValues, driver_number : JsonValues,
                 position : JsonValues]
    BY <1>6 DEF IsRecord
  <2>2. e = MapPosition(raw) /\ Mapped(raw) = e
    BY <1>6 DEF MappedRecord, Mapped
  <2>3. /\ e.type = "timing" /\ e.driver = AsInt(raw.driver_number) /\ HasDriver(raw)
        /\ e.payload = TimingPayload(WithinOrNone(AsInt(raw.position), 1, 30), None, None, None)
    BY <1>1, <1>2, <2>2 DEF MapPosition, Event
  <2>4. WholePart(raw.driver_number, e.driver)
    BY <2>1, <2>3, ReadAsIs DEF HasDriver
  <2>5. /\ e.payload.position # None =>
              InLimits(e.payload.position, <<1, 30>>) /\ WholePart(raw.position, e.payload.position)
        /\ e.payload.gap_to_leader = None /\ e.payload.laps_down = None
    BY <2>1, <2>3, ReadAsIs DEF WithinOrNone, TimingPayload, InLimits
  <2> QED
    BY <1>6, <2>2, <2>3, <2>4, <2>5 DEF SaidBy
<1>7. CASE raw.endpoint = "intervals"
  <2>1. raw \in [endpoint : {"intervals"}, date : JsonValues, driver_number : JsonValues,
                 gap_to_leader : JsonValues, interval : JsonValues]
    BY <1>7 DEF IsRecord
  <2>2. e = MapInterval(raw) /\ Mapped(raw) = e
    BY <1>7 DEF MappedRecord, Mapped
  <2>3. /\ e.type = "timing" /\ e.driver = AsInt(raw.driver_number) /\ HasDriver(raw)
        /\ e.payload = TimingPayload(None, GapSeconds(raw.gap_to_leader), GapSeconds(raw.interval),
                                     GapLaps(raw.gap_to_leader))
    BY <1>1, <1>2, <2>2 DEF MapInterval, Event
  <2>4. WholePart(raw.driver_number, e.driver)
    BY <2>1, <2>3, ReadAsIs DEF HasDriver
  <2>5. /\ e.payload.position = None
        /\ e.payload.gap_to_leader = AsFloat(raw.gap_to_leader)
        /\ e.payload.laps_down = GapLaps(raw.gap_to_leader)
    BY <2>3 DEF TimingPayload, GapSeconds
  <2>6. /\ e.payload.gap_to_leader # None => SameNumber(raw.gap_to_leader, e.payload.gap_to_leader)
        /\ e.payload.laps_down # None => LapsDownIs(raw.gap_to_leader, e.payload.laps_down)
    BY <2>1, <2>5, ReadAsIs
  <2> QED
    BY <1>7, <2>2, <2>3, <2>4, <2>5, <2>6 DEF SaidBy
<1>8. CASE raw.endpoint \in {"weather", "race_control", "sessions"}
  <2>1. e.type \in {"weather", "race_control", "session_meta", "rejected"}
    BY <1>8 DEF MappedRecord, Mapped, MapWeather, MapRaceControl, MapSessionMeta, Event, Rejected
  <2> QED
    BY <1>1, <2>1
<1> QED
  BY <1>3, <1>4, <1>5, <1>6, <1>7, <1>8 DEF IsRecord

\* Every entry of the log is what a record was mapped to.
FromUpstream ==
    \A p \in Partitions : \A i \in 1..Len(log[p]) : \E raw \in Raws : MappedRecord(raw) = log[p][i]

LEMMA PublishFromUpstream ==
    ASSUME FeedTypeInv, FromUpstream, NEW raw \in Raws, Publish(raw)
    PROVE  FromUpstream'
<1> DEFINE e == MappedRecord(raw)
<1>1. log' = [log EXCEPT ![PartitionFor(e)] = Append(@, e)] /\ e # Rejected /\ e.driver \in Someone
  BY DEF Publish, Someone
<1>2. e \in FeedEvents
  BY <1>1, MappedType
<1>3. PartitionFor(e) \in Partitions
  BY <1>2, PartitionExists
<1> SUFFICES ASSUME NEW p \in Partitions, NEW i \in 1..Len(log'[p])
             PROVE  \E r \in Raws : MappedRecord(r) = log'[p][i]
  BY DEF FromUpstream
<1>4. log[p] \in Seq(FeedEvents) /\ log \in [Partitions -> Seq(FeedEvents)]
  BY DEF FeedTypeInv
<1> HIDE DEF e
<1>5. CASE p = PartitionFor(e)
  <2>1. log'[p] = Append(log[p], e)
    BY <1>1, <1>3, <1>4, <1>5
  <2>2. CASE i = Len(log[p]) + 1
    <3>1. log'[p][i] = e
      BY <1>4, <2>1, <2>2
    <3> QED
      BY <3>1 DEF e
  <2>3. CASE i # Len(log[p]) + 1
    <3>1. i \in 1..Len(log[p]) /\ log'[p][i] = log[p][i]
      BY <1>2, <1>4, <2>1, <2>3
    <3> QED
      BY <3>1 DEF FromUpstream
  <2> QED
    BY <2>2, <2>3
<1>6. CASE p # PartitionFor(e)
  <2>1. log'[p] = log[p]
    BY <1>1, <1>3, <1>4, <1>6
  <2> QED
    BY <2>1 DEF FromUpstream
<1> QED
  BY <1>5, <1>6

LEMMA StepFromUpstream == FeedTypeInv /\ FromUpstream /\ [Next]_vars => FromUpstream'
<1>1. log' = log /\ FromUpstream => FromUpstream'
  BY DEF FromUpstream
<1> QED
  BY <1>1, PublishFromUpstream
     DEF Next, ApplyNext, Commit, Rebalance, Store, Restart, vars

\* An entry of a driver's topic was sent by a record of this driver.
LEMMA EntrySent ==
    ASSUME FeedTypeInv, FromUpstream, NEW d \in Drivers, NEW t \in DriverTopics,
           NEW w \in 1..Len(Track(log, d)[t])
    PROVE  LET e == Track(log, d)[t][w]
           IN  /\ e.driver = d
               /\ \E raw \in Raws : Mapped(raw) = e /\ Mapped(raw) \in Published /\ SaidBy(raw, e)
<1> DEFINE p == <<t, d>>
           e == log[p][w]
<1>1. p \in Partitions /\ Track(log, d)[t] = log[p]
  BY DEF DriverTopics, Partitions, Track
<1>2. e \in DriverEvents /\ e.driver = d
  BY <1>1, TracksAre DEF TracksOf
<1>3. PICK raw \in Raws : MappedRecord(raw) = e
  BY <1>1 DEF FromUpstream
<1>4. e \in Published
  BY <1>1 DEF Published
<1> QED
  BY <1>1, <1>2, <1>3, <1>4, MappedSays

\* A field that keeps the last value it was given has none, or one that an
\* entry of its topic gave it.
LEMMA GivenBy ==
    ASSUME FeedTypeInv, SettleInv, NEW d \in Drivers, NEW f \in Overwritten
    PROVE  \/ state.drivers[d][f] = NewDriver[f]
           \/ \E w \in 1..Len(Track(log, d)[Home(f)]) :
                 LET e == Track(log, d)[Home(f)][w]
                 IN  Writes(f, e) /\ state.drivers[d][f] = Value(f, e)
<1> DEFINE L   == Track(log, d)
           lo  == Track(begun, d)
           pos == Track(position, d)
<1>1. PICK h : Reading(L, lo, h, pos) /\ Shows(state.drivers[d], L, lo, h, pos, d)
  BY DEF SettleInv
<1>2. L \in TracksOf(d)
  BY TracksAre
<1> HIDE DEF L, lo, pos
<1>3. Home(f) \in DriverTopics
  BY HomeIs
<1>4. \A w \in (lo[Home(f)] + 1)..h[Home(f)] : w \in 1..Len(L[Home(f)])
  BY <1>1, <1>2, <1>3 DEF Reading, Offsets, TracksOf
<1>5. LastGiven(f, state.drivers[d][f], L[Home(f)], lo[Home(f)], h[Home(f)], pos[Home(f)])
  BY <1>1 DEF Shows
<1> QED
  BY <1>4, <1>5 DEF LastGiven, L

LEMMA BestGivenBy ==
    ASSUME FeedTypeInv, SettleInv, NEW d \in Drivers, state.drivers[d].best_lap_time # None
    PROVE  \E w \in 1..Len(Track(log, d)["timing"]) :
              LET e == Track(log, d)["timing"][w]
              IN  IsTimed(e) /\ state.drivers[d].best_lap_time = e.payload.lap_duration
<1> DEFINE L   == Track(log, d)
           lo  == Track(begun, d)
           pos == Track(position, d)
<1>1. PICK h : Reading(L, lo, h, pos) /\ Shows(state.drivers[d], L, lo, h, pos, d)
  BY DEF SettleInv
<1>2. L \in TracksOf(d)
  BY TracksAre
<1> HIDE DEF L, lo, pos
<1>3. "timing" \in DriverTopics
  BY DEF DriverTopics
<1>4. \A w \in (lo["timing"] + 1)..h["timing"] : w \in 1..Len(L["timing"])
  BY <1>1, <1>2, <1>3 DEF Reading, Offsets, TracksOf
<1>5. PICK k \in Timed(L["timing"], lo["timing"], h["timing"]) :
        state.drivers[d].best_lap_time = L["timing"][k].payload.lap_duration
  BY <1>1 DEF Shows, BestAt
<1>6. k \in 1..Len(L["timing"]) /\ IsTimed(L["timing"][k])
  BY <1>4 DEF Timed
<1> QED
  BY <1>5, <1>6 DEF L

\* NothingInvented: every number on a driver's line is one that a published
\* record of this driver carries, an integer its whole part, and the ones that
\* have limits are inside them.
THEOREM NothingIsInvented == Spec => []NothingInvented
<1>1. Init => SettleInv /\ FromUpstream
  <2>1. Init => begun = position /\ state = NewSession
    BY DEF Init
  <2>2. Init => FromUpstream
    BY DEF Init, FromUpstream
  <2> QED
    BY <2>1, <2>2, InitTyped, BeginsSettled
<1>2. FeedTypeInv /\ SettleInv /\ FromUpstream => NothingInvented
  <2> SUFFICES ASSUME FeedTypeInv, SettleInv, FromUpstream, NEW d \in state.seen
               PROVE  LET s == state.drivers[d]
                          Sent(endpoint) == {raw \in Raws : /\ raw.endpoint = endpoint
                                                           /\ WholePart(raw.driver_number, d)
                                                           /\ Mapped(raw) \in Published}
                      IN  /\ \A c \in DOMAIN CarLimits : s.car[c] # None =>
                                /\ InLimits(s.car[c], CarLimits[c])
                                /\ \E raw \in Sent("car_data") : WholePart(raw.car[c], s.car[c])
                          /\ s.xy # None =>
                                /\ s.xy # [x |-> 0, y |-> 0]
                                /\ \E raw \in Sent("location") : SameNumber(raw.x, s.xy.x) /\ SameNumber(raw.y, s.xy.y)
                          /\ s.position # None =>
                                /\ InLimits(s.position, <<1, 30>>)
                                /\ \E raw \in Sent("position") : WholePart(raw.position, s.position)
                          /\ s.gap_to_leader # None =>
                                \E raw \in Sent("intervals") : SameNumber(raw.gap_to_leader, s.gap_to_leader)
                          /\ s.laps_down # None =>
                                \E raw \in Sent("intervals") : LapsDownIs(raw.gap_to_leader, s.laps_down)
                          /\ s.best_lap_time # None =>
                                /\ s.best_lap_time > 0
                                /\ \E raw \in Sent("laps") : SameNumber(raw.lap_duration, s.best_lap_time)
    BY DEF NothingInvented, LapsDownIs
  <2> DEFINE s == state.drivers[d]
             L == Track(log, d)
             Sent(endpoint) == {raw \in Raws : /\ raw.endpoint = endpoint
                                              /\ WholePart(raw.driver_number, d)
                                              /\ Mapped(raw) \in Published}
  <2>1. d \in Drivers
    BY DEF FeedTypeInv, SessionStates
  <2>2. ASSUME NEW t \in DriverTopics, NEW w \in 1..Len(L[t])
        PROVE  \E raw \in Raws : SaidBy(raw, L[t][w]) /\ raw \in Sent(raw.endpoint)
    BY <2>1, <2>2, EntrySent DEF SaidBy
  <2>3. ASSUME NEW f \in Overwritten, s[f] # NewDriver[f]
        PROVE  \E w \in 1..Len(L[Home(f)]), raw \in Raws :
                  /\ Writes(f, L[Home(f)][w]) /\ s[f] = Value(f, L[Home(f)][w])
                  /\ SaidBy(raw, L[Home(f)][w]) /\ raw \in Sent(raw.endpoint)
    <3>1. PICK w \in 1..Len(L[Home(f)]) : Writes(f, L[Home(f)][w]) /\ s[f] = Value(f, L[Home(f)][w])
      BY <2>1, <2>3, GivenBy
    <3>2. Home(f) \in DriverTopics
      BY HomeIs
    <3> QED
      BY <2>2, <3>1, <3>2
  <2> HIDE DEF L
  <2>4. ASSUME NEW c \in DOMAIN CarLimits, s.car[c] # None
        PROVE  /\ InLimits(s.car[c], CarLimits[c])
               /\ \E raw \in Sent("car_data") : WholePart(raw.car[c], s.car[c])
    <3>1. s.car # NewDriver.car
      BY <2>4 DEF NewDriver, NoCar
    <3> QED
      BY <2>3, <2>4, <3>1 DEF Overwritten, Writes, Value, SaidBy
  <2>5. ASSUME s.xy # None
        PROVE  /\ s.xy # [x |-> 0, y |-> 0]
               /\ \E raw \in Sent("location") : SameNumber(raw.x, s.xy.x) /\ SameNumber(raw.y, s.xy.y)
    <3>1. s.xy # NewDriver.xy
      BY <2>5 DEF NewDriver
    <3> QED
      BY <2>3, <2>5, <3>1 DEF Overwritten, Writes, Value, SaidBy
  <2>6. ASSUME s.position # None
        PROVE  /\ InLimits(s.position, <<1, 30>>)
               /\ \E raw \in Sent("position") : WholePart(raw.position, s.position)
    <3>1. s.position # NewDriver.position
      BY <2>6 DEF NewDriver
    <3> QED
      BY <2>3, <2>6, <3>1 DEF Overwritten, Writes, Value, SaidBy
  <2>7. ASSUME s.gap_to_leader # None
        PROVE  \E raw \in Sent("intervals") : SameNumber(raw.gap_to_leader, s.gap_to_leader)
    <3>1. s.gap_to_leader # NewDriver.gap_to_leader
      BY <2>7 DEF NewDriver
    <3> QED
      BY <2>3, <2>7, <3>1 DEF Overwritten, Writes, Value, SaidBy
  <2>8. ASSUME s.laps_down # None
        PROVE  \E raw \in Sent("intervals") : LapsDownIs(raw.gap_to_leader, s.laps_down)
    <3>1. s.laps_down # NewDriver.laps_down
      BY <2>8 DEF NewDriver
    <3> QED
      BY <2>3, <2>8, <3>1 DEF Overwritten, Writes, Value, SaidBy
  <2>9. ASSUME s.best_lap_time # None
        PROVE  /\ s.best_lap_time > 0
               /\ \E raw \in Sent("laps") : SameNumber(raw.lap_duration, s.best_lap_time)
    <3>1. PICK w \in 1..Len(L["timing"]) :
            IsTimed(L["timing"][w]) /\ s.best_lap_time = L["timing"][w].payload.lap_duration
      BY <2>1, <2>9, BestGivenBy DEF L
    <3>2. PICK raw \in Raws : SaidBy(raw, L["timing"][w]) /\ raw \in Sent(raw.endpoint)
      BY <2>2 DEF DriverTopics
    <3> QED
      BY <3>1, <3>2 DEF IsTimed, SaidBy
  <2> QED
    BY <2>4, <2>5, <2>6, <2>7, <2>8, <2>9
<1> QED
  BY <1>1, <1>2, StepSettles, StepFromUpstream, Typed, PTL DEF Spec
=============================================================================
