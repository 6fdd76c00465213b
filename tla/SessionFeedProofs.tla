-------------------------- MODULE SessionFeedProofs --------------------------
(***************************************************************************)
(* What a consumer derives stays typed, never steps back, and is what the  *)
(* events it has applied make it, whatever is delivered again.             *)
(***************************************************************************)
EXTENDS SessionFeed, TLAPS

Known    == Int \union {None}
Someone  == Drivers \union {None}
PerSector == [Sectors -> Known]

-----------------------------------------------------------------------------
(* The types of events and of the derived state *)

LapPayloads == [lap_number : Int, lap_duration : Known, sectors : PerSector]

CarEvents == [type : {"car_telemetry"}, at : Int, driver : Drivers,
              payload : [DOMAIN CarLimits -> Known]]
PlaceEvents == [type : {"position"}, at : Int, driver : Drivers, payload : [x : Int, y : Int]]
TimingEvents == [type : {"timing"}, at : Int, driver : Drivers,
                 payload : [position : Known, gap_to_leader : Known, interval : Known,
                            laps_down : Known]]
LapEvents == [type : {"lap"}, at : Int, driver : Drivers, payload : LapPayloads]
WeatherEvents == [type : {"weather"}, at : Int, driver : {None},
                  payload : [air_temperature : Known, track_temperature : Known,
                             rainfall : Known]]
FlagEvents == [type : {"race_control"}, at : Int, driver : Someone,
               payload : [message : STRING, lap_number : Known]]
MetaEvents == [type : {"session_meta"}, at : Int, driver : {None}, payload : [total_laps : Known]]

DriverEvents  == CarEvents \union PlaceEvents \union TimingEvents \union LapEvents
SessionEvents == WeatherEvents \union FlagEvents \union MetaEvents
FeedEvents    == DriverEvents \union SessionEvents

DriverStates ==
    [position : Known, gap_to_leader : Known, interval : Known, laps_down : Known,
     current_lap : Known, last_lap_time : Known, best_lap_time : Known,
     best_lap_number : Known, was_personal_best : BOOLEAN \union {None},
     current_sectors : PerSector, last_sectors : PerSector, best_sectors : PerSector,
     car : [DOMAIN CarLimits -> Known], xy : [x : Int, y : Int] \union {None},
     last_update : Known, telemetry_samples : Nat]

SessionStates ==
    [seen : SUBSET Drivers, drivers : [Drivers -> DriverStates],
     session_best_lap : Known, session_best_lap_driver : Someone,
     session_best_sectors : PerSector, session_best_sector_drivers : [Sectors -> Someone],
     current_lap : Known, total_laps : Known,
     air_temperature : Known, track_temperature : Known, rainfall : Known,
     last_event_at : Known, events_applied : Nat]

\* What a JSON value is read as.
LEMMA ReadsAre ==
    ASSUME NEW v \in JsonValues
    PROVE  /\ v.n \in Int
           /\ AsInt(v) \in Int \union {None}
           /\ AsFloat(v) \in Int \union {None}
           /\ v.kind = "laps" => v.n \in Nat
<1>1. v.n \in Int /\ (v.kind = "laps" => v.n \in Nat)
  BY DEF JsonValues, Numbers
<1>2. Truncated(v.n) \in Int
  BY <1>1 DEF Truncated
<1> QED
  BY <1>1, <1>2 DEF AsInt, AsFloat

\* A record that is mapped and is of this session's drivers becomes an event.
LEMMA MappedType ==
    ASSUME NEW raw \in Raws, MappedRecord(raw) # Rejected,
           MappedRecord(raw).driver \in Someone
    PROVE  MappedRecord(raw) \in FeedEvents
<1> DEFINE e == MappedRecord(raw)
<1> USE FeedAssumption, SessionAssumption, MappersAssumption
    DEF Known, Someone, Event, FeedEvents, DriverEvents,
        SessionEvents, Dated, HasDriver, MappedRecord, Mapped
<1>0. \A v \in JsonValues :
         /\ v.n \in Int
         /\ AsInt(v) \in Known
         /\ AsFloat(v) \in Known
         /\ v.kind = "laps" => v.n \in Nat
  BY ReadsAre
<1>1. CASE raw.endpoint = "car_data"
  <2>1. raw \in [endpoint : {"car_data"}, date : JsonValues, driver_number : JsonValues,
                 car : [DOMAIN CarLimits -> JsonValues]]
    BY <1>1 DEF IsRecord
  <2>2. e = MapCarTelemetry(raw)
    BY <1>1
  <2> QED
    BY <1>0, <2>1, <2>2 DEF MapCarTelemetry, CarEvents, WithinOrNone
<1>2. CASE raw.endpoint = "location"
  <2>1. raw \in [endpoint : {"location"}, date : JsonValues, driver_number : JsonValues,
                 x : JsonValues, y : JsonValues]
    BY <1>2 DEF IsRecord
  <2>2. e = MapLocation(raw)
    BY <1>2
  <2> QED
    BY <1>0, <2>1, <2>2 DEF MapLocation, PlaceEvents
<1>3. CASE raw.endpoint = "laps"
  <2>1. raw \in [endpoint : {"laps"}, date : JsonValues, driver_number : JsonValues,
                 lap_number : JsonValues, lap_duration : JsonValues,
                 sectors : [Sectors -> JsonValues]]
    BY <1>3 DEF IsRecord
  <2>2. e = MapLap(raw)
    BY <1>3
  <2> QED
    BY <1>0, <2>1, <2>2 DEF MapLap, LapEvents, LapPayloads, PerSector, Positive
<1>4. CASE raw.endpoint = "position"
  <2>1. raw \in [endpoint : {"position"}, date : JsonValues, driver_number : JsonValues,
                 position : JsonValues]
    BY <1>4 DEF IsRecord
  <2>2. e = MapPosition(raw)
    BY <1>4
  <2> QED
    BY <1>0, <2>1, <2>2 DEF MapPosition, TimingEvents, TimingPayload, WithinOrNone
<1>5. CASE raw.endpoint = "intervals"
  <2>1. raw \in [endpoint : {"intervals"}, date : JsonValues, driver_number : JsonValues,
                 gap_to_leader : JsonValues, interval : JsonValues]
    BY <1>5 DEF IsRecord
  <2>2. e = MapInterval(raw)
    BY <1>5
  <2> QED
    BY <1>0, <2>1, <2>2 DEF MapInterval, TimingEvents, TimingPayload, GapSeconds, GapLaps
<1>6. CASE raw.endpoint = "weather"
  <2>1. raw \in [endpoint : {"weather"}, date : JsonValues, driver_number : JsonValues,
                 air_temperature : JsonValues, track_temperature : JsonValues,
                 rainfall : JsonValues]
    BY <1>6 DEF IsRecord
  <2>2. e = MapWeather(raw)
    BY <1>6
  <2> QED
    BY <1>0, <2>1, <2>2 DEF MapWeather, WeatherEvents, WithinOrNone
<1>7. CASE raw.endpoint = "race_control"
  <2>1. raw \in [endpoint : {"race_control"}, date : JsonValues, driver_number : JsonValues,
                 lap_number : JsonValues, message : STRING]
    BY <1>7 DEF IsRecord
  <2>2. e = MapRaceControl(raw)
    BY <1>7
  <2> QED
    BY <1>0, <2>1, <2>2 DEF MapRaceControl, FlagEvents
<1>8. CASE raw.endpoint = "sessions"
  <2>1. raw \in [endpoint : {"sessions"}, date : JsonValues, driver_number : JsonValues]
    BY <1>8 DEF IsRecord
  <2>2. e = MapSessionMeta(raw, TotalLaps)
    BY <1>8
  <2> QED
    BY <1>0, <2>1, <2>2 DEF MapSessionMeta, MetaEvents
<1> QED
  BY <1>1, <1>2, <1>3, <1>4, <1>5, <1>6, <1>7, <1>8 DEF IsRecord

\* An event goes to a partition there is.
LEMMA PartitionExists ==
    ASSUME NEW e \in FeedEvents
    PROVE  PartitionFor(e) \in Partitions
BY DEF FeedEvents, DriverEvents, SessionEvents, CarEvents, PlaceEvents, TimingEvents, LapEvents,
       WeatherEvents, FlagEvents, MetaEvents, PartitionFor, TopicOf, Partitions

\* max and min where nothing may be known.
LEMMA ExtremeTypes ==
    ASSUME NEW a \in Known, NEW b \in Known
    PROVE  Highest(a, b) \in Known /\ Lowest(a, b) \in Known /\ Given(a, b) \in Known
BY DEF Known, Highest, Lowest, Given

\* What only laps change, and what a lap with payload p makes of it.
SameLaps(d, n) ==
    /\ n.current_lap = d.current_lap
    /\ n.best_lap_time = d.best_lap_time
    /\ n.best_sectors = d.best_sectors
    /\ n.last_lap_time = d.last_lap_time
    /\ n.was_personal_best = d.was_personal_best

LapTaken(d, p, n) ==
    /\ n.current_lap = Highest(d.current_lap, p.lap_number)
    /\ n.best_lap_time = Lowest(d.best_lap_time, p.lap_duration)
    /\ \A s \in Sectors : n.best_sectors[s] = Lowest(d.best_sectors[s], p.sectors[s])
    /\ IF p.lap_duration = None
       THEN n.last_lap_time = d.last_lap_time /\ n.was_personal_best = d.was_personal_best
       ELSE n.last_lap_time = p.lap_duration /\ n.was_personal_best = IsPersonalBest(d, p)

\* What a reading of the car makes of a driver's state.
LEMMA TelemetryApplied ==
    ASSUME NEW d \in DriverStates, NEW e \in CarEvents
    PROVE  /\ ApplyTelemetry(d, e) \in DriverStates
           /\ ApplyTelemetry(d, e).last_update = Highest(d.last_update, e.at)
           /\ SameLaps(d, ApplyTelemetry(d, e))
<1> DEFINE d1 == [d EXCEPT !.car = e.payload]
           d2 == [d1 EXCEPT !.telemetry_samples = @ + 1]
           d3 == [d2 EXCEPT !.last_update = Highest(d.last_update, e.at)]
<1>1. e.at \in Known /\ e.payload \in [DOMAIN CarLimits -> Known]
  BY DEF CarEvents, Known
<1>2. Highest(d.last_update, e.at) \in Known
  BY <1>1, ExtremeTypes DEF DriverStates
<1>3. d1 \in DriverStates
  BY <1>1 DEF DriverStates
<1>4. d2 \in DriverStates
  <2> HIDE DEF d1
  <2> QED
    BY <1>3 DEF DriverStates
<1>5. d3 \in DriverStates /\ d3.last_update = Highest(d.last_update, e.at)
  <2> HIDE DEF d2
  <2> QED
    BY <1>4, <1>2 DEF DriverStates
<1>6. SameLaps(d, d3)
  BY DEF DriverStates, SameLaps
<1>7. d3 = ApplyTelemetry(d, e)
  BY DEF ApplyTelemetry
<1> QED
  BY <1>5, <1>6, <1>7

\* What a place on the track makes of it.
LEMMA PlaceApplied ==
    ASSUME NEW d \in DriverStates, NEW e \in PlaceEvents
    PROVE  /\ ApplyPosition(d, e) \in DriverStates
           /\ ApplyPosition(d, e).last_update = Highest(d.last_update, e.at)
           /\ SameLaps(d, ApplyPosition(d, e))
<1> DEFINE d1 == [d EXCEPT !.xy = e.payload]
           d2 == [d1 EXCEPT !.last_update = Highest(d.last_update, e.at)]
<1>1. e.at \in Known /\ e.payload \in [x : Int, y : Int]
  BY DEF PlaceEvents, Known
<1>2. Highest(d.last_update, e.at) \in Known
  BY <1>1, ExtremeTypes DEF DriverStates
<1>3. d1 \in DriverStates
  BY <1>1 DEF DriverStates
<1>4. d2 \in DriverStates /\ d2.last_update = Highest(d.last_update, e.at)
  <2> HIDE DEF d1
  <2> QED
    BY <1>3, <1>2 DEF DriverStates
<1>5. SameLaps(d, d2)
  BY DEF DriverStates, SameLaps
<1>6. d2 = ApplyPosition(d, e)
  BY DEF ApplyPosition
<1> QED
  BY <1>4, <1>5, <1>6

\* What a place in the race and its gaps make of it.
LEMMA TimingApplied ==
    ASSUME NEW d \in DriverStates, NEW e \in TimingEvents
    PROVE  /\ ApplyTiming(d, e) \in DriverStates
           /\ ApplyTiming(d, e).last_update = Highest(d.last_update, e.at)
           /\ SameLaps(d, ApplyTiming(d, e))
<1> DEFINE p  == e.payload
           d1 == [d EXCEPT !.position = Given(p.position, @)]
           d2 == [d1 EXCEPT !.gap_to_leader = GapAfter(d, p)]
           d3 == [d2 EXCEPT !.interval = Given(p.interval, d.interval)]
           d4 == [d3 EXCEPT !.laps_down = Given(p.laps_down, d.laps_down)]
           d5 == [d4 EXCEPT !.last_update = Highest(d.last_update, e.at)]
<1>1. /\ e.at \in Known
      /\ p \in [position : Known, gap_to_leader : Known, interval : Known, laps_down : Known]
  BY DEF TimingEvents, Known
<1>2. /\ Highest(d.last_update, e.at) \in Known
      /\ Given(p.position, d.position) \in Known
      /\ GapAfter(d, p) \in Known
      /\ Given(p.interval, d.interval) \in Known
      /\ Given(p.laps_down, d.laps_down) \in Known
  BY <1>1, ExtremeTypes DEF DriverStates, GapAfter, Known
<1>3. d1 \in DriverStates
  BY <1>2 DEF DriverStates
<1>4. d2 \in DriverStates
  <2> HIDE DEF d1
  <2> QED
    BY <1>2, <1>3 DEF DriverStates
<1>5. d3 \in DriverStates
  <2> HIDE DEF d2
  <2> QED
    BY <1>2, <1>4 DEF DriverStates
<1>6. d4 \in DriverStates
  <2> HIDE DEF d3
  <2> QED
    BY <1>2, <1>5 DEF DriverStates
<1>7. d5 \in DriverStates /\ d5.last_update = Highest(d.last_update, e.at)
  <2> HIDE DEF d4
  <2> QED
    BY <1>2, <1>6 DEF DriverStates
<1>8. SameLaps(d, d5)
  BY DEF DriverStates, SameLaps
<1>9. d5 = ApplyTiming(d, e)
  BY DEF ApplyTiming
<1> QED
  BY <1>7, <1>8, <1>9

\* What a lap time makes of it.
LEMMA TimesTaken ==
    ASSUME NEW d \in DriverStates, NEW p \in LapPayloads
    PROVE  LET n == LapTimes(d, p)
           IN  /\ n \in DriverStates
               /\ n.best_lap_time = Lowest(d.best_lap_time, p.lap_duration)
               /\ n.current_lap = d.current_lap
               /\ n.best_sectors = d.best_sectors
               /\ n.current_sectors = d.current_sectors
               /\ n.last_sectors = d.last_sectors
               /\ n.last_update = d.last_update
               /\ IF p.lap_duration = None
                  THEN n.last_lap_time = d.last_lap_time /\ n.was_personal_best = d.was_personal_best
                  ELSE n.last_lap_time = p.lap_duration /\ n.was_personal_best = IsPersonalBest(d, p)
<1>1. CASE p.lap_duration = None
  BY <1>1 DEF LapTimes, Lowest, LapPayloads
<1>2. CASE p.lap_duration # None
  <2> DEFINE number == IF Lowest(d.best_lap_time, p.lap_duration) # d.best_lap_time
                       THEN p.lap_number ELSE d.best_lap_number
             d1 == [d EXCEPT !.last_lap_time = p.lap_duration]
             d2 == [d1 EXCEPT !.best_lap_time = Lowest(d.best_lap_time, p.lap_duration)]
             d3 == [d2 EXCEPT !.best_lap_number = number]
             d4 == [d3 EXCEPT !.was_personal_best = IsPersonalBest(d, p)]
  <2>1. /\ p.lap_duration \in Known
        /\ Lowest(d.best_lap_time, p.lap_duration) \in Known
        /\ number \in Known
        /\ IsPersonalBest(d, p) \in BOOLEAN
    BY ExtremeTypes DEF DriverStates, LapPayloads, Known, IsPersonalBest
  <2> HIDE DEF number
  <2>2. d1 \in DriverStates /\ d1.last_lap_time = p.lap_duration
    BY <2>1 DEF DriverStates
  <2>3. d2 \in DriverStates /\ d2.best_lap_time = Lowest(d.best_lap_time, p.lap_duration)
        /\ d2.last_lap_time = p.lap_duration
    <3> HIDE DEF d1
    <3> QED
      BY <2>1, <2>2 DEF DriverStates
  <2>4. d3 \in DriverStates /\ d3.best_lap_time = Lowest(d.best_lap_time, p.lap_duration)
        /\ d3.last_lap_time = p.lap_duration
    <3> HIDE DEF d2
    <3> QED
      BY <2>1, <2>3 DEF DriverStates
  <2>5. /\ d4 \in DriverStates
        /\ d4.best_lap_time = Lowest(d.best_lap_time, p.lap_duration)
        /\ d4.last_lap_time = p.lap_duration
        /\ d4.was_personal_best = IsPersonalBest(d, p)
    <3> HIDE DEF d3
    <3> QED
      BY <2>1, <2>4 DEF DriverStates
  <2>6. /\ d4.current_lap = d.current_lap /\ d4.best_sectors = d.best_sectors
        /\ d4.current_sectors = d.current_sectors /\ d4.last_sectors = d.last_sectors
        /\ d4.last_update = d.last_update
    BY DEF DriverStates
  <2>7. d4 = LapTimes(d, p)
    BY <1>2 DEF LapTimes, number
  <2> QED
    BY <1>2, <2>5, <2>6, <2>7
<1> QED
  BY <1>1, <1>2

\* What a lap makes of it.
LEMMA LapApplied ==
    ASSUME NEW d \in DriverStates, NEW e \in LapEvents
    PROVE  /\ ApplyLap(d, e) \in DriverStates
           /\ ApplyLap(d, e).last_update = Highest(d.last_update, e.at)
           /\ LapTaken(d, e.payload, ApplyLap(d, e))
<1> DEFINE p  == e.payload
           d0 == LapTimes(d, p)
           now == IF ContinuesLap(d, p) THEN Merged(d.current_sectors, p.sectors) ELSE p.sectors
           bests == [s \in Sectors |-> Lowest(d.best_sectors[s], p.sectors[s])]
           before == IF StartsLap(d, p) THEN d.current_sectors ELSE d.last_sectors
           d1 == [d0 EXCEPT !.last_sectors = before]
           d2 == [d1 EXCEPT !.current_sectors = now]
           d3 == [d2 EXCEPT !.current_lap = Highest(d.current_lap, p.lap_number)]
           d4 == [d3 EXCEPT !.best_sectors = bests]
           d5 == [d4 EXCEPT !.last_update = Highest(d.last_update, e.at)]
<1>1. e.at \in Known /\ p \in LapPayloads
  BY DEF LapEvents, Known
<1>2. /\ d0 \in DriverStates
      /\ d0.best_lap_time = Lowest(d.best_lap_time, p.lap_duration)
      /\ d0.current_lap = d.current_lap
      /\ d0.best_sectors = d.best_sectors
      /\ d0.current_sectors = d.current_sectors
      /\ d0.last_sectors = d.last_sectors
      /\ d0.last_update = d.last_update
      /\ IF p.lap_duration = None
         THEN d0.last_lap_time = d.last_lap_time /\ d0.was_personal_best = d.was_personal_best
         ELSE d0.last_lap_time = p.lap_duration /\ d0.was_personal_best = IsPersonalBest(d, p)
  BY <1>1, TimesTaken
<1>3. Highest(d.last_update, e.at) \in Known /\ Highest(d.current_lap, p.lap_number) \in Known
  BY <1>1, ExtremeTypes DEF DriverStates, LapPayloads, Known
<1>4. bests \in PerSector /\ \A s \in Sectors : bests[s] = Lowest(d.best_sectors[s], p.sectors[s])
  BY <1>1, ExtremeTypes DEF DriverStates, LapPayloads, PerSector
<1>5. now \in PerSector /\ before \in PerSector
  BY <1>1, ExtremeTypes DEF DriverStates, LapPayloads, PerSector, Merged
<1> HIDE DEF now, bests, before, d0
<1>6. d1 \in DriverStates
  BY <1>2, <1>5 DEF DriverStates
<1>7. d2 \in DriverStates
  <2> HIDE DEF d1
  <2> QED
    BY <1>5, <1>6 DEF DriverStates
<1>8. d3 \in DriverStates /\ d3.current_lap = Highest(d.current_lap, p.lap_number)
  <2> HIDE DEF d2
  <2> QED
    BY <1>3, <1>7 DEF DriverStates
<1>9. /\ d4 \in DriverStates
      /\ d4.current_lap = Highest(d.current_lap, p.lap_number)
      /\ d4.best_sectors = bests
  <2> HIDE DEF d3
  <2> QED
    BY <1>4, <1>8 DEF DriverStates
<1>10. /\ d5 \in DriverStates
       /\ d5.last_update = Highest(d.last_update, e.at)
       /\ d5.current_lap = Highest(d.current_lap, p.lap_number)
       /\ d5.best_sectors = bests
  <2> HIDE DEF d4
  <2> QED
    BY <1>3, <1>9 DEF DriverStates
<1>11. /\ d5.best_lap_time = d0.best_lap_time
       /\ d5.last_lap_time = d0.last_lap_time
       /\ d5.was_personal_best = d0.was_personal_best
  BY <1>2 DEF DriverStates
<1>12. d5 = ApplyLap(d, e)
  BY <1>2 DEF ApplyLap, now, bests, before, d0
<1> HIDE DEF d5
<1> QED
  BY <1>2, <1>4, <1>10, <1>11, <1>12 DEF LapTaken

\* What an event of a driver makes of it.
LEMMA EventApplied ==
    ASSUME NEW d \in DriverStates, NEW e \in DriverEvents
    PROVE  LET n == AppliedToDriver(d, e)
           IN  /\ n \in DriverStates
               /\ n.last_update = Highest(d.last_update, e.at)
               /\ e.type = "lap" => LapTaken(d, e.payload, n)
               /\ e.type # "lap" => SameLaps(d, n)
<1>1. CASE e \in CarEvents
  <2>1. AppliedToDriver(d, e) = ApplyTelemetry(d, e) /\ e.type # "lap"
    BY <1>1 DEF CarEvents, AppliedToDriver
  <2> QED
    BY <1>1, <2>1, TelemetryApplied
<1>2. CASE e \in PlaceEvents
  <2>1. AppliedToDriver(d, e) = ApplyPosition(d, e) /\ e.type # "lap"
    BY <1>2 DEF PlaceEvents, AppliedToDriver
  <2> QED
    BY <1>2, <2>1, PlaceApplied
<1>3. CASE e \in TimingEvents
  <2>1. AppliedToDriver(d, e) = ApplyTiming(d, e) /\ e.type # "lap"
    BY <1>3 DEF TimingEvents, AppliedToDriver
  <2> QED
    BY <1>3, <2>1, TimingApplied
<1>4. CASE e \in LapEvents
  <2>1. AppliedToDriver(d, e) = ApplyLap(d, e) /\ e.type = "lap"
    BY <1>4 DEF LapEvents, AppliedToDriver
  <2> QED
    BY <1>4, <2>1, LapApplied
<1> QED
  BY <1>1, <1>2, <1>3, <1>4 DEF DriverEvents

-----------------------------------------------------------------------------
(* SessionState.apply *)

\* What only laps change of a session, and what a lap of driver i makes of it
\* whose state is then d.
SameBests(st, n) ==
    /\ n.session_best_lap = st.session_best_lap
    /\ n.session_best_lap_driver = st.session_best_lap_driver
    /\ n.session_best_sectors = st.session_best_sectors
    /\ n.current_lap = st.current_lap

BestsTaken(st, i, d, n) ==
    /\ n.session_best_lap = Lowest(st.session_best_lap, d.best_lap_time)
    /\ n.session_best_lap_driver =
          IF Beats(st.session_best_lap, d.best_lap_time) THEN i ELSE st.session_best_lap_driver
    /\ \A s \in Sectors :
          n.session_best_sectors[s] = Lowest(st.session_best_sectors[s], d.best_sectors[s])
    /\ n.current_lap = Highest(st.current_lap, d.current_lap)

\* Counting an event changes nothing else.
LEMMA EventCounted ==
    ASSUME NEW st \in SessionStates, NEW e \in FeedEvents
    PROVE  LET n == Counted(st, e)
           IN  n \in SessionStates /\ n.drivers = st.drivers /\ SameBests(st, n)
<1> DEFINE n1 == [st EXCEPT !.events_applied = @ + 1]
           n2 == [n1 EXCEPT !.last_event_at = Highest(st.last_event_at, e.at)]
<1>1. e.at \in Known
  BY DEF FeedEvents, DriverEvents, SessionEvents, CarEvents, PlaceEvents, TimingEvents,
         LapEvents, WeatherEvents, FlagEvents, MetaEvents, Known
<1>2. Highest(st.last_event_at, e.at) \in Known
  BY <1>1, ExtremeTypes DEF SessionStates
<1>3. n1 \in SessionStates
  BY DEF SessionStates
<1>4. n2 \in SessionStates
  <2> HIDE DEF n1
  <2> QED
    BY <1>2, <1>3 DEF SessionStates
<1>5. n2.drivers = st.drivers /\ SameBests(st, n2)
  BY DEF SessionStates, SameBests
<1>6. n2 = Counted(st, e)
  BY DEF Counted
<1> QED
  BY <1>4, <1>5, <1>6

\* Weather leaves the drivers alone.
LEMMA WeatherTaken ==
    ASSUME NEW st \in SessionStates, NEW e \in WeatherEvents
    PROVE  LET n == ApplyWeather(st, e.payload)
           IN  n \in SessionStates /\ n.drivers = st.drivers /\ SameBests(st, n)
<1> DEFINE p  == e.payload
           n1 == [st EXCEPT !.air_temperature = Given(p.air_temperature, @)]
           n2 == [n1 EXCEPT !.track_temperature = Given(p.track_temperature, st.track_temperature)]
           n3 == [n2 EXCEPT !.rainfall = Given(p.rainfall, st.rainfall)]
<1>1. /\ Given(p.air_temperature, st.air_temperature) \in Known
      /\ Given(p.track_temperature, st.track_temperature) \in Known
      /\ Given(p.rainfall, st.rainfall) \in Known
  BY ExtremeTypes DEF SessionStates, WeatherEvents
<1>2. n1 \in SessionStates
  BY <1>1 DEF SessionStates
<1>3. n2 \in SessionStates
  <2> HIDE DEF n1
  <2> QED
    BY <1>1, <1>2 DEF SessionStates
<1>4. n3 \in SessionStates
  <2> HIDE DEF n2
  <2> QED
    BY <1>1, <1>3 DEF SessionStates
<1>5. n3.drivers = st.drivers /\ SameBests(st, n3)
  BY DEF SessionStates, SameBests
<1>6. n3 = ApplyWeather(st, p)
  BY DEF ApplyWeather
<1> QED
  BY <1>4, <1>5, <1>6

\* So does everything else that is of no driver.
LEMMA SessionApplied ==
    ASSUME NEW st \in SessionStates, NEW e \in SessionEvents
    PROVE  LET n == Apply(st, e)
           IN  n \in SessionStates /\ n.drivers = st.drivers /\ SameBests(st, n)
<1> DEFINE c == Counted(st, e)
<1>1. c \in SessionStates /\ c.drivers = st.drivers /\ SameBests(st, c)
  BY EventCounted DEF FeedEvents
<1> HIDE DEF c
<1>2. CASE e \in WeatherEvents
  <2>1. Apply(st, e) = ApplyWeather(c, e.payload)
    BY <1>2 DEF WeatherEvents, Apply, c
  <2> QED
    BY <1>1, <1>2, <2>1, WeatherTaken DEF SameBests
<1>3. CASE e \in FlagEvents
  <2>1. Apply(st, e) = c
    BY <1>3 DEF FlagEvents, Apply, c
  <2> QED
    BY <1>1, <2>1
<1>4. CASE e \in MetaEvents
  <2> DEFINE n == [c EXCEPT !.total_laps = Given(e.payload.total_laps, @)]
  <2>1. Apply(st, e) = n
    BY <1>4 DEF MetaEvents, Apply, c
  <2>2. Given(e.payload.total_laps, c.total_laps) \in Known
    BY <1>1, <1>4, ExtremeTypes DEF SessionStates, MetaEvents
  <2>3. n \in SessionStates
    BY <1>1, <2>2 DEF SessionStates
  <2>4. n.drivers = c.drivers /\ SameBests(c, n)
    BY <1>1 DEF SessionStates, SameBests
  <2> HIDE DEF n
  <2> QED
    BY <1>1, <2>1, <2>3, <2>4 DEF SameBests
<1> QED
  BY <1>2, <1>3, <1>4 DEF SessionEvents

\* A driver's event is applied to the driver.
LEMMA DriverApplied ==
    ASSUME NEW st \in SessionStates, NEW e \in DriverEvents
    PROVE  LET n == WithDriver(st, e)
           IN  /\ n \in SessionStates
               /\ n.drivers[e.driver] = AppliedToDriver(st.drivers[e.driver], e)
               /\ \A d \in Drivers \ {e.driver} : n.drivers[d] = st.drivers[d]
               /\ SameBests(st, n)
<1> DEFINE i  == e.driver
           ds == [st.drivers EXCEPT ![i] = AppliedToDriver(@, e)]
           n1 == [st EXCEPT !.seen = @ \union {i}]
           n2 == [n1 EXCEPT !.drivers = ds]
<1>1. i \in Drivers
  BY DEF DriverEvents, CarEvents, PlaceEvents, TimingEvents, LapEvents
<1>2. st.drivers \in [Drivers -> DriverStates] /\ st.seen \union {i} \in SUBSET Drivers
  BY <1>1 DEF SessionStates
<1>3. AppliedToDriver(st.drivers[i], e) \in DriverStates
  BY <1>1, <1>2, EventApplied
<1>4. /\ ds \in [Drivers -> DriverStates]
      /\ ds[i] = AppliedToDriver(st.drivers[i], e)
      /\ \A d \in Drivers \ {i} : ds[d] = st.drivers[d]
  BY <1>1, <1>2, <1>3
<1> HIDE DEF ds
<1>5. n1 \in SessionStates /\ n1.drivers = st.drivers
  BY <1>2 DEF SessionStates
<1>6. n2 \in SessionStates /\ n2.drivers = ds
  <2> HIDE DEF n1
  <2> QED
    BY <1>4, <1>5 DEF SessionStates
<1>7. SameBests(st, n2)
  BY DEF SessionStates, SameBests
<1>8. n2 = WithDriver(st, e)
  BY <1>5 DEF WithDriver, ds
<1> HIDE DEF n2
<1> QED
  BY <1>4, <1>6, <1>7, <1>8

\* The session's bests follow those of the driver whose lap it was.
LEMMA BestsUpdated ==
    ASSUME NEW st \in SessionStates, NEW i \in Drivers
    PROVE  LET n == UpdateSessionBests(st, i)
           IN  /\ n \in SessionStates
               /\ n.drivers = st.drivers
               /\ BestsTaken(st, i, st.drivers[i], n)
<1> DEFINE d == st.drivers[i]
           holder == IF Beats(st.session_best_lap, d.best_lap_time) THEN i
                     ELSE st.session_best_lap_driver
           best == IF Beats(st.session_best_lap, d.best_lap_time) THEN d.best_lap_time
                   ELSE st.session_best_lap
           holders == [s \in Sectors |-> IF Beats(st.session_best_sectors[s], d.best_sectors[s])
                                         THEN i ELSE st.session_best_sector_drivers[s]]
           bests == [s \in Sectors |-> IF Beats(st.session_best_sectors[s], d.best_sectors[s])
                                       THEN d.best_sectors[s] ELSE st.session_best_sectors[s]]
           n1 == [st EXCEPT !.session_best_lap_driver = holder]
           n2 == [n1 EXCEPT !.session_best_lap = best]
           n3 == [n2 EXCEPT !.session_best_sector_drivers = holders]
           n4 == [n3 EXCEPT !.session_best_sectors = bests]
           n5 == [n4 EXCEPT !.current_lap = Highest(st.current_lap, d.current_lap)]
<1>1. d \in DriverStates
  BY DEF SessionStates
<1>2. holder \in Someone /\ best \in Known /\ best = Lowest(st.session_best_lap, d.best_lap_time)
  BY <1>1 DEF SessionStates, DriverStates, Someone, Beats, Lowest
<1>3. holders \in [Sectors -> Someone]
  BY <1>1 DEF SessionStates, Someone
<1>4. /\ bests \in PerSector
      /\ \A s \in Sectors :
            bests[s] = Lowest(st.session_best_sectors[s], d.best_sectors[s])
  BY <1>1 DEF SessionStates, DriverStates, PerSector, Beats, Lowest
<1>5. Highest(st.current_lap, d.current_lap) \in Known
  BY <1>1, ExtremeTypes DEF SessionStates, DriverStates
<1> HIDE DEF best, holders, bests
<1>6. n1 \in SessionStates
  <2> HIDE DEF holder
  <2> QED
    BY <1>2 DEF SessionStates
<1>7. n2 \in SessionStates /\ n2.session_best_lap = best
  <2> HIDE DEF n1
  <2> QED
    BY <1>2, <1>6 DEF SessionStates
<1>8. n3 \in SessionStates /\ n3.session_best_lap = best
  <2> HIDE DEF n2
  <2> QED
    BY <1>3, <1>7 DEF SessionStates
<1>9. /\ n4 \in SessionStates
      /\ n4.session_best_lap = best
      /\ n4.session_best_sectors = bests
  <2> HIDE DEF n3
  <2> QED
    BY <1>4, <1>8 DEF SessionStates
<1>10. /\ n5 \in SessionStates
       /\ n5.session_best_lap = best
       /\ n5.session_best_sectors = bests
       /\ n5.current_lap = Highest(st.current_lap, d.current_lap)
  <2> HIDE DEF n4
  <2> QED
    BY <1>5, <1>9 DEF SessionStates
<1>11. n5.drivers = st.drivers /\ n5.session_best_lap_driver = holder
  <2> HIDE DEF holder
  <2> QED
    BY DEF SessionStates
<1>12. n5 = UpdateSessionBests(st, i)
  BY DEF UpdateSessionBests, best, holders, bests
<1> HIDE DEF n5
<1> QED
  BY <1>2, <1>4, <1>10, <1>11, <1>12 DEF BestsTaken

\* Both together.
LEMMA DriverEventApplied ==
    ASSUME NEW st \in SessionStates, NEW e \in DriverEvents
    PROVE  LET i == e.driver
               n == Apply(st, e)
           IN  /\ i \in Drivers /\ n \in SessionStates
               /\ n.drivers[i] = AppliedToDriver(st.drivers[i], e)
               /\ \A d \in Drivers \ {i} : n.drivers[d] = st.drivers[d]
               /\ e.type = "lap" => BestsTaken(st, i, n.drivers[i], n)
               /\ e.type # "lap" => SameBests(st, n)
<1> DEFINE i == e.driver
           c == Counted(st, e)
           w == WithDriver(c, e)
<1>1. i \in Drivers
  BY DEF DriverEvents, CarEvents, PlaceEvents, TimingEvents, LapEvents
<1>2. c \in SessionStates /\ c.drivers = st.drivers /\ SameBests(st, c)
  BY EventCounted DEF FeedEvents
<1> HIDE DEF c
<1>3. /\ w \in SessionStates
      /\ w.drivers[i] = AppliedToDriver(st.drivers[i], e)
      /\ \A d \in Drivers \ {i} : w.drivers[d] = st.drivers[d]
      /\ SameBests(st, w)
  BY <1>2, DriverApplied DEF SameBests
<1>4. Apply(st, e) = IF e.type = "lap" THEN UpdateSessionBests(w, i) ELSE w
  BY DEF Apply, c, DriverEvents, CarEvents, PlaceEvents, TimingEvents, LapEvents
<1> HIDE DEF w
<1>5. CASE e.type = "lap"
  <2>1. LET n == UpdateSessionBests(w, i)
        IN  n \in SessionStates /\ n.drivers = w.drivers /\ BestsTaken(w, i, w.drivers[i], n)
    BY <1>1, <1>3, BestsUpdated
  <2> QED
    BY <1>1, <1>3, <1>4, <1>5, <2>1 DEF BestsTaken, SameBests
<1>6. CASE e.type # "lap"
  BY <1>1, <1>3, <1>4, <1>6
<1> QED
  BY <1>5, <1>6

-----------------------------------------------------------------------------
(* Types *)

FeedTypeInv ==
    /\ log \in [Partitions -> Seq(FeedEvents)]
    /\ \A p \in Partitions : \A i \in 1..Len(log[p]) : PartitionFor(log[p][i]) = p
    /\ committed \in [Partitions -> Nat]
    /\ position \in [Partitions -> Nat]
    /\ begun \in [Partitions -> Nat]
    /\ \A p \in Partitions :
          begun[p] <= committed[p] /\ committed[p] <= position[p] /\ position[p] <= Len(log[p])
    /\ state \in SessionStates
    /\ applied \subseteq Partitions \X Nat
    /\ \A entry \in applied : entry[2] \in 1..Len(log[entry[1]])
    /\ unstored \subseteq applied
    /\ redeliveries \in 0..MaxRedeliveries

\* A session nobody has seen an event of.
LEMMA NewSessionType == NewSession \in SessionStates
<1>1. None \in Known /\ None \in Someone /\ NoSectors \in PerSector
  BY DEF Known, Someone, NoSectors, PerSector
<1>2. NewDriver \in DriverStates
  BY <1>1 DEF NewDriver, DriverStates, NoCar
<1> QED
  BY <1>1, <1>2 DEF NewSession, SessionStates, NoSectors

\* The session's state stays one whatever event is applied.
LEMMA ApplyType ==
    ASSUME NEW st \in SessionStates, NEW e \in FeedEvents
    PROVE  Apply(st, e) \in SessionStates
BY SessionApplied, DriverEventApplied DEF FeedEvents

\* The first state is of the right type.
LEMMA InitTyped == Init => FeedTypeInv
BY NewSessionType, FeedAssumption DEF Init, FeedTypeInv, Nowhere

\* An event that is published is the last of its partition, and moves no other.
LEMMA PublishAppends ==
    ASSUME FeedTypeInv, NEW raw \in Raws, Publish(raw)
    PROVE  /\ log' \in [Partitions -> Seq(FeedEvents)]
           /\ \A p \in Partitions : /\ Len(log[p]) <= Len(log'[p])
                                    /\ \A i \in 1..Len(log[p]) : log'[p][i] = log[p][i]
                                    /\ \A i \in 1..Len(log'[p]) : PartitionFor(log'[p][i]) = p
<1> DEFINE e == MappedRecord(raw)
           q == PartitionFor(e)
<1>1. e \in FeedEvents /\ q \in Partitions
  <2>1. e \in FeedEvents
    BY MappedType DEF Publish, Someone
  <2> QED
    BY <2>1, PartitionExists
<1>2. log' = [log EXCEPT ![q] = Append(@, e)]
  BY DEF Publish
<1> HIDE DEF e
<1>3. log[q] \in Seq(FeedEvents) /\ Append(log[q], e) \in Seq(FeedEvents)
  BY <1>1 DEF FeedTypeInv
<1>4. ASSUME NEW p \in Partitions
      PROVE  /\ Len(log[p]) <= Len(log'[p])
             /\ \A i \in 1..Len(log[p]) : log'[p][i] = log[p][i]
             /\ \A i \in 1..Len(log'[p]) : PartitionFor(log'[p][i]) = p
  BY <1>1, <1>2, <1>3, <1>4 DEF FeedTypeInv
<1> QED
  BY <1>1, <1>2, <1>3, <1>4 DEF FeedTypeInv

\* Every step keeps the types.
LEMMA StepTyped == FeedTypeInv /\ [Next]_vars => FeedTypeInv'
<1> SUFFICES ASSUME FeedTypeInv, [Next]_vars
             PROVE  FeedTypeInv'
  OBVIOUS
<1> USE DEF FeedTypeInv
<1>1. ASSUME NEW raw \in Raws, Publish(raw)
      PROVE  FeedTypeInv'
  <2>1. /\ log' \in [Partitions -> Seq(FeedEvents)]
        /\ \A p \in Partitions : /\ Len(log[p]) <= Len(log'[p])
                                 /\ \A i \in 1..Len(log[p]) : log'[p][i] = log[p][i]
                                 /\ \A i \in 1..Len(log'[p]) : PartitionFor(log'[p][i]) = p
    BY <1>1, PublishAppends
  <2>2. UNCHANGED <<consumerVars, rows>>
    BY <1>1 DEF Publish
  <2>3. \A p \in Partitions : Len(log[p]) \in Nat /\ Len(log'[p]) \in Nat
    BY <2>1
  <2> QED
    BY <2>1, <2>2, <2>3 DEF consumerVars
<1>2. ASSUME NEW p \in Partitions, ApplyNext(p)
      PROVE  FeedTypeInv'
  <2>1. log[p] \in Seq(FeedEvents) /\ position[p] + 1 \in 1..Len(log[p])
    BY <1>2 DEF ApplyNext
  <2>2. Apply(state, log[p][position[p] + 1]) \in SessionStates
    BY <2>1, ApplyType
  <2> QED
    BY <1>2, <2>1, <2>2 DEF ApplyNext
<1>3. ASSUME NEW part \in {Telemetry, Timing}, Commit(part)
      PROVE  FeedTypeInv'
  BY <1>3 DEF Commit
<1>4. ASSUME NEW part \in {Telemetry, Timing}, Rebalance(part)
      PROVE  FeedTypeInv'
  <2>1. redeliveries' \in 0..MaxRedeliveries
    BY <1>4, FeedAssumption DEF Rebalance
  <2> QED
    BY <1>4, <2>1 DEF Rebalance
<1>5. ASSUME NEW entry \in unstored, Store(entry)
      PROVE  FeedTypeInv'
  BY <1>5 DEF Store
<1>6. ASSUME Restart
      PROVE  FeedTypeInv'
  <2>1. redeliveries' \in 0..MaxRedeliveries
    BY <1>6, FeedAssumption DEF Restart
  <2> QED
    BY <1>6, <2>1, NewSessionType DEF Restart
<1>7. CASE UNCHANGED vars
  BY <1>7 DEF vars
<1> QED
  BY <1>1, <1>2, <1>3, <1>4, <1>5, <1>6, <1>7 DEF Next

\* The invariant of the types.
LEMMA Typed == Spec => []FeedTypeInv
BY InitTyped, StepTyped, PTL DEF Spec

\* TypeOK: offsets stay ordered, every event is in the partition of its driver,
\* and what is held for the database was applied.
THEOREM FeedTypeCorrect == Spec => []TypeOK
<1>1. FeedTypeInv => TypeOK
  BY DEF FeedTypeInv, TypeOK, SessionStates
<1> QED
  BY <1>1, Typed, PTL

\* NeverBackwards (state.py:202-203): freshness, lap counters and bests only
\* move forward, whatever is delivered late or twice.
THEOREM NeverStepsBack == Spec => NeverBackwards
<1>1. ASSUME FeedTypeInv, [Next]_vars
      PROVE  [ \/ \A d \in Drivers :
                   /\ AtLeast(state'.drivers[d].last_update, state.drivers[d].last_update)
                   /\ AtLeast(state'.drivers[d].current_lap, state.drivers[d].current_lap)
                   /\ AtMost(state'.drivers[d].best_lap_time, state.drivers[d].best_lap_time)
               \/ state' = NewSession ]_vars
  <2>1. ASSUME NEW d \in Drivers
        PROVE  /\ state.drivers[d] \in DriverStates
               /\ state.drivers[d].last_update \in Known
               /\ state.drivers[d].current_lap \in Known
               /\ state.drivers[d].best_lap_time \in Known
    BY <1>1 DEF FeedTypeInv, SessionStates, DriverStates
  <2>2. ASSUME NEW p \in Partitions, ApplyNext(p), NEW d \in Drivers
        PROVE  /\ AtLeast(state'.drivers[d].last_update, state.drivers[d].last_update)
               /\ AtLeast(state'.drivers[d].current_lap, state.drivers[d].current_lap)
               /\ AtMost(state'.drivers[d].best_lap_time, state.drivers[d].best_lap_time)
    <3> DEFINE e == log[p][position[p] + 1]
    <3>1. e \in FeedEvents /\ state' = Apply(state, e) /\ state \in SessionStates
      BY <1>1, <2>2 DEF FeedTypeInv, ApplyNext
    <3> HIDE DEF e
    <3>2. CASE e \in SessionEvents
      <4>1. state'.drivers = state.drivers
        BY <3>1, <3>2, SessionApplied
      <4> QED
        BY <2>1, <4>1 DEF AtLeast, AtMost, Known
    <3>3. CASE e \in DriverEvents /\ d # e.driver
      <4>1. state'.drivers[d] = state.drivers[d]
        BY <3>1, <3>3, <2>2, DriverEventApplied
      <4> QED
        BY <2>1, <4>1 DEF AtLeast, AtMost, Known
    <3>4. CASE e \in DriverEvents /\ d = e.driver
      <4> DEFINE was == state.drivers[d]
                 is  == state'.drivers[d]
      <4>1. is = AppliedToDriver(was, e)
        BY <3>1, <3>4, DriverEventApplied
      <4>2. was \in DriverStates
        BY <2>1
      <4> HIDE DEF was, is
      <4>3. /\ is.last_update = Highest(was.last_update, e.at)
            /\ e.type = "lap" => LapTaken(was, e.payload, is)
            /\ e.type # "lap" => SameLaps(was, is)
        BY <4>1, <4>2, <3>4, EventApplied
      <4>4. e.at \in Known /\ (e.type = "lap" => e.payload.lap_number \in Known
                                               /\ e.payload.lap_duration \in Known)
        BY <3>4 DEF DriverEvents, CarEvents, PlaceEvents, TimingEvents, LapEvents, LapPayloads, Known
      <4>5. was.last_update \in Known /\ was.current_lap \in Known /\ was.best_lap_time \in Known
        BY <4>2 DEF DriverStates
      <4>6. AtLeast(is.last_update, was.last_update)
        BY <4>3, <4>4, <4>5, MappersAssumption DEF AtLeast, Highest, Known
      <4>7. AtLeast(is.current_lap, was.current_lap) /\ AtMost(is.best_lap_time, was.best_lap_time)
        BY <4>3, <4>4, <4>5, MappersAssumption
           DEF AtLeast, AtMost, Highest, Lowest, Known, LapTaken, SameLaps
      <4> QED
        BY <4>6, <4>7 DEF was, is
    <3> QED
      BY <3>1, <3>2, <3>3, <3>4 DEF FeedEvents
  <2>3. CASE UNCHANGED state
    BY <2>1, <2>3 DEF AtLeast, AtMost, Known
  <2>4. CASE Restart
    BY <2>4 DEF Restart
  <2>5. CASE UNCHANGED vars
    BY <2>5
  <2> QED
    BY <1>1, <2>2, <2>3, <2>4, <2>5
       DEF Next, Publish, Commit, Rebalance, Store, consumerVars
<1> QED
  BY <1>1, Typed, PTL DEF Spec, NeverBackwards

-----------------------------------------------------------------------------
(* Bests are the extremes of what was applied *)

\* LapTimesOf and its kin, of any set of events.
LapsIn(E, d)           == {e \in E : e.type = "lap" /\ e.driver = d}
LapTimesIn(E, d)       == {e.payload.lap_duration : e \in LapsIn(E, d)} \ {None}
SectorTimesIn(E, d, s) == {e.payload.sectors[s] : e \in LapsIn(E, d)} \ {None}
LapNumbersIn(E, d)     == {e.payload.lap_number : e \in LapsIn(E, d)}

DriverFits(x, E, d) ==
    /\ IsLeast(x.best_lap_time, LapTimesIn(E, d))
    /\ \A s \in Sectors : IsLeast(x.best_sectors[s], SectorTimesIn(E, d, s))
    /\ IsGreatest(x.current_lap, LapNumbersIn(E, d))

SessionFits(st, E) ==
    /\ IsLeast(st.session_best_lap, UNION {LapTimesIn(E, d) : d \in Drivers})
    /\ \A s \in Sectors :
          IsLeast(st.session_best_sectors[s], UNION {SectorTimesIn(E, d, s) : d \in Drivers})
    /\ IsGreatest(st.current_lap, UNION {LapNumbersIn(E, d) : d \in Drivers})

HolderHolds(st) ==
    st.session_best_lap # None =>
        /\ st.session_best_lap_driver \in Drivers
        /\ st.session_best_lap = st.drivers[st.session_best_lap_driver].best_lap_time

Fits(st, E) ==
    (\A d \in Drivers : DriverFits(st.drivers[d], E, d)) /\ SessionFits(st, E) /\ HolderHolds(st)

\* One more value, which may be unknown.
LEMMA LeastOf ==
    ASSUME NEW best \in Known, NEW S \in SUBSET Int, IsLeast(best, S), NEW n \in Known
    PROVE  IsLeast(Lowest(best, n), S \union ({n} \ {None}))
BY MappersAssumption DEF IsLeast, Lowest, Known

\* One more value of which the greatest is kept.
LEMMA GreatestOf ==
    ASSUME NEW best \in Known, NEW S \in SUBSET Int, IsGreatest(best, S), NEW n \in Known
    PROVE  IsGreatest(Highest(best, n), S \union ({n} \ {None}))
BY MappersAssumption DEF IsGreatest, Highest, Known

\* A driver's new best is new to the session only if the lap is.
LEMMA Through ==
    ASSUME NEW all \in Known, NEW own \in Known, NEW n \in Known
    PROVE  /\ (own # None => all # None /\ all <= own)
                => Lowest(all, Lowest(own, n)) = Lowest(all, n)
           /\ (own # None => all # None /\ own <= all)
                => Highest(all, Highest(own, n)) = Highest(all, n)
BY MappersAssumption DEF Lowest, Highest, Known

\* What the laps of a set of events are known by.
LEMMA LapSets ==
    ASSUME NEW E \in SUBSET FeedEvents, NEW d
    PROVE  /\ LapTimesIn(E, d) \in SUBSET Int
           /\ \A s \in Sectors : SectorTimesIn(E, d, s) \in SUBSET Int
           /\ LapNumbersIn(E, d) \in SUBSET Int
<1>1. LapsIn(E, d) \subseteq LapEvents
  BY DEF LapsIn, FeedEvents, DriverEvents, SessionEvents, CarEvents, PlaceEvents, TimingEvents,
         LapEvents, WeatherEvents, FlagEvents, MetaEvents
<1> QED
  BY <1>1 DEF LapTimesIn, SectorTimesIn, LapNumbersIn, LapEvents, LapPayloads, PerSector, Known

\* A lap of driver d adds to these sets of d what it knows.
LEMMA LapAdds ==
    ASSUME NEW E \in SUBSET FeedEvents, NEW e \in LapEvents
    PROVE  LET d == e.driver
               p == e.payload
           IN  /\ LapTimesIn(E \union {e}, d) = LapTimesIn(E, d) \union ({p.lap_duration} \ {None})
               /\ \A s \in Sectors : SectorTimesIn(E \union {e}, d, s)
                                      = SectorTimesIn(E, d, s) \union ({p.sectors[s]} \ {None})
               /\ LapNumbersIn(E \union {e}, d) = LapNumbersIn(E, d) \union ({p.lap_number} \ {None})
<1>1. e.type = "lap" /\ e.payload.lap_number # None
  BY MappersAssumption DEF LapEvents, LapPayloads
<1>2. LapsIn(E \union {e}, e.driver) = LapsIn(E, e.driver) \union {e}
  BY <1>1 DEF LapsIn
<1> QED
  BY <1>1, <1>2 DEF LapTimesIn, SectorTimesIn, LapNumbersIn

\* Other events and other drivers' laps add nothing.
LEMMA OthersAddNothing ==
    ASSUME NEW E, NEW e, NEW d, ~ (e.type = "lap" /\ e.driver = d)
    PROVE  /\ LapTimesIn(E \union {e}, d) = LapTimesIn(E, d)
           /\ \A s \in Sectors : SectorTimesIn(E \union {e}, d, s) = SectorTimesIn(E, d, s)
           /\ LapNumbersIn(E \union {e}, d) = LapNumbersIn(E, d)
<1>1. LapsIn(E \union {e}, d) = LapsIn(E, d)
  BY DEF LapsIn
<1> QED
  BY <1>1 DEF LapTimesIn, SectorTimesIn, LapNumbersIn

\* A driver's bests fit after a lap.
LEMMA LapFitsDriver ==
    ASSUME NEW x \in DriverStates, NEW n \in DriverStates, NEW E \in SUBSET FeedEvents,
           NEW e \in LapEvents, DriverFits(x, E, e.driver), LapTaken(x, e.payload, n)
    PROVE  DriverFits(n, E \union {e}, e.driver)
<1> DEFINE d == e.driver
           p == e.payload
<1>1. /\ p.lap_duration \in Known /\ p.lap_number \in Known
      /\ \A s \in Sectors : p.sectors[s] \in Known
      /\ x.best_lap_time \in Known /\ x.current_lap \in Known
      /\ \A s \in Sectors : x.best_sectors[s] \in Known
  BY DEF LapEvents, LapPayloads, PerSector, DriverStates, Known
<1>2. IsLeast(n.best_lap_time, LapTimesIn(E \union {e}, d))
  <2> DEFINE S == LapTimesIn(E, d)
  <2>1. S \in SUBSET Int /\ LapTimesIn(E \union {e}, d) = S \union ({p.lap_duration} \ {None})
    BY LapSets, LapAdds
  <2>2. IsLeast(x.best_lap_time, S) /\ n.best_lap_time = Lowest(x.best_lap_time, p.lap_duration)
    BY DEF DriverFits, LapTaken
  <2> HIDE DEF S
  <2> QED
    BY <1>1, <2>1, <2>2, LeastOf
<1>3. ASSUME NEW s \in Sectors
      PROVE  IsLeast(n.best_sectors[s], SectorTimesIn(E \union {e}, d, s))
  <2> DEFINE S == SectorTimesIn(E, d, s)
  <2>1. S \in SUBSET Int /\ SectorTimesIn(E \union {e}, d, s) = S \union ({p.sectors[s]} \ {None})
    BY LapSets, LapAdds
  <2>2. IsLeast(x.best_sectors[s], S) /\ n.best_sectors[s] = Lowest(x.best_sectors[s], p.sectors[s])
    BY DEF DriverFits, LapTaken
  <2>3. x.best_sectors[s] \in Known /\ p.sectors[s] \in Known
    BY <1>1
  <2> HIDE DEF S
  <2> QED
    BY <2>1, <2>2, <2>3, LeastOf
<1>4. IsGreatest(n.current_lap, LapNumbersIn(E \union {e}, d))
  <2> DEFINE S == LapNumbersIn(E, d)
  <2>1. S \in SUBSET Int /\ LapNumbersIn(E \union {e}, d) = S \union ({p.lap_number} \ {None})
    BY LapSets, LapAdds
  <2>2. IsGreatest(x.current_lap, S) /\ n.current_lap = Highest(x.current_lap, p.lap_number)
    BY DEF DriverFits, LapTaken
  <2> HIDE DEF S
  <2> QED
    BY <1>1, <2>1, <2>2, GreatestOf
<1> QED
  BY <1>2, <1>3, <1>4 DEF DriverFits

\* A driver's bests fit after an event that is none of the driver's laps.
LEMMA OthersFitDriver ==
    ASSUME NEW x, NEW n, NEW E, NEW e, NEW d, ~ (e.type = "lap" /\ e.driver = d),
           DriverFits(x, E, d), n = x \/ SameLaps(x, n)
    PROVE  DriverFits(n, E \union {e}, d)
BY OthersAddNothing DEF DriverFits, SameLaps

\* What all drivers' laps are known by, before and after a lap.
LEMMA AllLapsAdd ==
    ASSUME NEW E \in SUBSET FeedEvents, NEW e \in LapEvents
    PROVE  /\ UNION {LapTimesIn(E \union {e}, d) : d \in Drivers}
                = (UNION {LapTimesIn(E, d) : d \in Drivers}) \union ({e.payload.lap_duration} \ {None})
           /\ \A s \in Sectors :
                UNION {SectorTimesIn(E \union {e}, d, s) : d \in Drivers}
                = (UNION {SectorTimesIn(E, d, s) : d \in Drivers}) \union ({e.payload.sectors[s]} \ {None})
           /\ UNION {LapNumbersIn(E \union {e}, d) : d \in Drivers}
                = (UNION {LapNumbersIn(E, d) : d \in Drivers}) \union ({e.payload.lap_number} \ {None})
<1> DEFINE i == e.driver
           p == e.payload
<1>1. i \in Drivers
  BY DEF LapEvents
<1>2. \A d \in Drivers \ {i} :
         /\ LapTimesIn(E \union {e}, d) = LapTimesIn(E, d)
         /\ LapNumbersIn(E \union {e}, d) = LapNumbersIn(E, d)
         /\ \A s \in Sectors : SectorTimesIn(E \union {e}, d, s) = SectorTimesIn(E, d, s)
  BY OthersAddNothing
<1>3. /\ LapTimesIn(E \union {e}, i) = LapTimesIn(E, i) \union ({p.lap_duration} \ {None})
      /\ \A s \in Sectors : SectorTimesIn(E \union {e}, i, s)
                             = SectorTimesIn(E, i, s) \union ({p.sectors[s]} \ {None})
      /\ LapNumbersIn(E \union {e}, i) = LapNumbersIn(E, i) \union ({p.lap_number} \ {None})
  BY LapAdds
<1> HIDE DEF i, p
<1>4. UNION {LapTimesIn(E \union {e}, d) : d \in Drivers}
        = (UNION {LapTimesIn(E, d) : d \in Drivers}) \union ({p.lap_duration} \ {None})
  BY <1>1, <1>2, <1>3
<1>5. ASSUME NEW s \in Sectors
      PROVE  UNION {SectorTimesIn(E \union {e}, d, s) : d \in Drivers}
               = (UNION {SectorTimesIn(E, d, s) : d \in Drivers}) \union ({p.sectors[s]} \ {None})
  <2>1. \A d \in Drivers \ {i} : SectorTimesIn(E \union {e}, d, s) = SectorTimesIn(E, d, s)
    BY <1>2
  <2>2. SectorTimesIn(E \union {e}, i, s) = SectorTimesIn(E, i, s) \union ({p.sectors[s]} \ {None})
    BY <1>3
  <2> QED
    BY <1>1, <2>1, <2>2
<1>6. UNION {LapNumbersIn(E \union {e}, d) : d \in Drivers}
        = (UNION {LapNumbersIn(E, d) : d \in Drivers}) \union ({p.lap_number} \ {None})
  BY <1>1, <1>2, <1>3
<1> QED
  BY <1>4, <1>5, <1>6 DEF p

\* The session's bests fit after a lap.
LEMMA LapFitsSession ==
    ASSUME NEW st \in SessionStates, NEW n \in SessionStates, NEW E \in SUBSET FeedEvents,
           NEW e \in LapEvents, Fits(st, E),
           LapTaken(st.drivers[e.driver], e.payload, n.drivers[e.driver]),
           BestsTaken(st, e.driver, n.drivers[e.driver], n)
    PROVE  SessionFits(n, E \union {e})
<1> DEFINE i == e.driver
           p == e.payload
           x == st.drivers[i]
           y == n.drivers[i]
<1>1. /\ i \in Drivers
      /\ p.lap_duration \in Known /\ p.lap_number \in Known
      /\ \A s \in Sectors : p.sectors[s] \in Known
  BY DEF LapEvents, LapPayloads, PerSector, Known
<1>2. /\ st.session_best_lap \in Known /\ st.current_lap \in Known
      /\ \A s \in Sectors : st.session_best_sectors[s] \in Known
  BY DEF SessionStates, PerSector
<1>3. /\ x.best_lap_time \in Known /\ x.current_lap \in Known
      /\ \A s \in Sectors : x.best_sectors[s] \in Known
  BY <1>1 DEF SessionStates, DriverStates, PerSector
<1>4. DriverFits(x, E, i) /\ SessionFits(st, E)
  BY <1>1 DEF Fits
<1>5. LapTaken(x, p, y) /\ BestsTaken(st, i, y, n)
  OBVIOUS
<1> HIDE DEF i, p, x, y
<1>6. IsLeast(n.session_best_lap, UNION {LapTimesIn(E \union {e}, d) : d \in Drivers})
  <2> DEFINE S == UNION {LapTimesIn(E, d) : d \in Drivers}
             b == st.session_best_lap
  <2>1. S \in SUBSET Int /\ LapTimesIn(E, i) \subseteq S
    BY <1>1, LapSets
  <2>2. IsLeast(b, S) /\ IsLeast(x.best_lap_time, LapTimesIn(E, i))
    BY <1>4 DEF SessionFits, DriverFits
  <2>3. n.session_best_lap = Lowest(b, Lowest(x.best_lap_time, p.lap_duration))
    BY <1>5 DEF LapTaken, BestsTaken
  <2>4. UNION {LapTimesIn(E \union {e}, d) : d \in Drivers} = S \union ({p.lap_duration} \ {None})
    BY AllLapsAdd DEF p
  <2>5. b \in Known
    BY <1>2
  <2> HIDE DEF S, b
  <2>6. x.best_lap_time # None => b # None /\ b <= x.best_lap_time
    BY <2>1, <2>2, <1>3, <2>5, MappersAssumption DEF IsLeast, Known
  <2>7. n.session_best_lap = Lowest(b, p.lap_duration)
    BY <1>1, <1>3, <2>3, <2>5, <2>6, Through
  <2>8. IsLeast(Lowest(b, p.lap_duration), S \union ({p.lap_duration} \ {None}))
    BY <1>1, <2>1, <2>2, <2>5, LeastOf
  <2> QED
    BY <2>4, <2>7, <2>8
<1>7. ASSUME NEW s \in Sectors
      PROVE  IsLeast(n.session_best_sectors[s],
                     UNION {SectorTimesIn(E \union {e}, d, s) : d \in Drivers})
  <2> DEFINE S == UNION {SectorTimesIn(E, d, s) : d \in Drivers}
             b == st.session_best_sectors[s]
             o == x.best_sectors[s]
             m == p.sectors[s]
  <2>1. S \in SUBSET Int /\ SectorTimesIn(E, i, s) \subseteq S
    BY <1>1, LapSets
  <2>2. IsLeast(b, S) /\ IsLeast(o, SectorTimesIn(E, i, s))
    BY <1>4 DEF SessionFits, DriverFits
  <2>3. n.session_best_sectors[s] = Lowest(b, Lowest(o, m))
    BY <1>5 DEF LapTaken, BestsTaken
  <2>4. UNION {SectorTimesIn(E \union {e}, d, s) : d \in Drivers} = S \union ({m} \ {None})
    BY AllLapsAdd DEF p
  <2>5. b \in Known /\ o \in Known /\ m \in Known
    BY <1>1, <1>2, <1>3
  <2> HIDE DEF S, b, o, m
  <2>6. o # None => b # None /\ b <= o
    BY <2>1, <2>2, <2>5, MappersAssumption DEF IsLeast, Known
  <2>7. n.session_best_sectors[s] = Lowest(b, m)
    BY <2>3, <2>5, <2>6, Through
  <2>8. IsLeast(Lowest(b, m), S \union ({m} \ {None}))
    BY <2>1, <2>2, <2>5, LeastOf
  <2> QED
    BY <2>4, <2>7, <2>8
<1>8. IsGreatest(n.current_lap, UNION {LapNumbersIn(E \union {e}, d) : d \in Drivers})
  <2> DEFINE S == UNION {LapNumbersIn(E, d) : d \in Drivers}
             b == st.current_lap
  <2>1. S \in SUBSET Int /\ LapNumbersIn(E, i) \subseteq S
    BY <1>1, LapSets
  <2>2. IsGreatest(b, S) /\ IsGreatest(x.current_lap, LapNumbersIn(E, i))
    BY <1>4 DEF SessionFits, DriverFits
  <2>3. n.current_lap = Highest(b, Highest(x.current_lap, p.lap_number))
    BY <1>5 DEF LapTaken, BestsTaken
  <2>4. UNION {LapNumbersIn(E \union {e}, d) : d \in Drivers} = S \union ({p.lap_number} \ {None})
    BY AllLapsAdd DEF p
  <2>5. b \in Known
    BY <1>2
  <2> HIDE DEF S, b
  <2>6. x.current_lap # None => b # None /\ x.current_lap <= b
    BY <2>1, <2>2, <1>3, <2>5, MappersAssumption DEF IsGreatest, Known
  <2>7. n.current_lap = Highest(b, p.lap_number)
    BY <1>1, <1>3, <2>3, <2>5, <2>6, Through
  <2>8. IsGreatest(Highest(b, p.lap_number), S \union ({p.lap_number} \ {None}))
    BY <1>1, <2>1, <2>2, <2>5, GreatestOf
  <2> QED
    BY <2>4, <2>7, <2>8
<1> QED
  BY <1>6, <1>7, <1>8 DEF SessionFits

\* The holder still holds: a best that is not beaten can only be tied.
LEMMA HolderAfterLap ==
    ASSUME NEW st \in SessionStates, NEW n \in SessionStates, NEW E \in SUBSET FeedEvents,
           NEW e \in LapEvents, Fits(st, E),
           LapTaken(st.drivers[e.driver], e.payload, n.drivers[e.driver]),
           \A d \in Drivers \ {e.driver} : n.drivers[d] = st.drivers[d],
           BestsTaken(st, e.driver, n.drivers[e.driver], n)
    PROVE  HolderHolds(n)
<1> DEFINE i == e.driver
           x == st.drivers[i].best_lap_time
           y == n.drivers[i].best_lap_time
           b == st.session_best_lap
           h == st.session_best_lap_driver
           m == e.payload.lap_duration
<1>1. i \in Drivers /\ x \in Known /\ y \in Known /\ b \in Known /\ m \in Known
  BY DEF LapEvents, LapPayloads, SessionStates, DriverStates
<1>2. /\ y = Lowest(x, m)
      /\ n.session_best_lap = Lowest(b, y)
      /\ n.session_best_lap_driver = IF Beats(b, y) THEN i ELSE h
  BY DEF LapTaken, BestsTaken
<1>3. b # None => h \in Drivers /\ b = st.drivers[h].best_lap_time
  BY DEF Fits, HolderHolds
<1>4. CASE Beats(b, y)
  BY <1>1, <1>2, <1>4 DEF Beats, Lowest, HolderHolds
<1>5. CASE ~ Beats(b, y) /\ h = i
  <2>1. n.session_best_lap = b /\ n.session_best_lap_driver = i
    BY <1>1, <1>2, <1>5 DEF Beats, Lowest
  <2>2. b # None => b = x
    BY <1>3, <1>5
  <2>3. b # None => y = b
    BY <1>1, <1>2, <1>5, <2>2, MappersAssumption DEF Beats, Lowest, Known
  <2> QED
    BY <1>1, <2>1, <2>3 DEF HolderHolds
<1>6. CASE ~ Beats(b, y) /\ h # i
  <2>1. n.session_best_lap = b /\ n.session_best_lap_driver = h
    BY <1>1, <1>2, <1>6 DEF Beats, Lowest
  <2>2. b # None => h \in Drivers /\ n.drivers[h] = st.drivers[h]
    BY <1>3, <1>6
  <2> QED
    BY <1>3, <2>1, <2>2 DEF HolderHolds
<1> QED
  BY <1>4, <1>5, <1>6

-----------------------------------------------------------------------------
(* Every step keeps the bests *)

\* An event of the log that is applied.
LEMMA ApplyFits ==
    ASSUME NEW st \in SessionStates, NEW E \in SUBSET FeedEvents, NEW e \in FeedEvents, Fits(st, E)
    PROVE  Fits(Apply(st, e), E \union {e})
<1> DEFINE n == Apply(st, e)
<1>1. st.drivers \in [Drivers -> DriverStates] /\ n \in SessionStates
  BY ApplyType DEF SessionStates
<1>2. CASE e.type # "lap"
  <2>1. /\ SameBests(st, n)
        /\ \A d \in Drivers : n.drivers[d] = st.drivers[d] \/ SameLaps(st.drivers[d], n.drivers[d])
    <3>1. CASE e \in SessionEvents
      BY <3>1, SessionApplied
    <3>2. CASE e \in DriverEvents
      <4>1. /\ e.driver \in Drivers
            /\ n.drivers[e.driver] = AppliedToDriver(st.drivers[e.driver], e)
            /\ \A d \in Drivers \ {e.driver} : n.drivers[d] = st.drivers[d]
            /\ SameBests(st, n)
        BY <1>2, <3>2, DriverEventApplied
      <4>2. SameLaps(st.drivers[e.driver], n.drivers[e.driver])
        BY <1>1, <1>2, <3>2, <4>1, EventApplied
      <4> QED
        BY <4>1, <4>2
    <3> QED
      BY <3>1, <3>2 DEF FeedEvents
  <2> HIDE DEF n
  <2>2. \A d \in Drivers : DriverFits(n.drivers[d], E \union {e}, d)
    BY <1>2, <2>1, OthersFitDriver DEF Fits
  <2>3. \A d \in Drivers : /\ LapTimesIn(E \union {e}, d) = LapTimesIn(E, d)
                          /\ LapNumbersIn(E \union {e}, d) = LapNumbersIn(E, d)
                          /\ \A s \in Sectors : SectorTimesIn(E \union {e}, d, s) = SectorTimesIn(E, d, s)
    BY <1>2, OthersAddNothing
  <2>4. SessionFits(n, E \union {e})
    <3>1. /\ {LapTimesIn(E \union {e}, d) : d \in Drivers} = {LapTimesIn(E, d) : d \in Drivers}
          /\ {LapNumbersIn(E \union {e}, d) : d \in Drivers} = {LapNumbersIn(E, d) : d \in Drivers}
      BY <2>3
    <3>2. ASSUME NEW s \in Sectors
          PROVE  {SectorTimesIn(E \union {e}, d, s) : d \in Drivers}
                   = {SectorTimesIn(E, d, s) : d \in Drivers}
      BY <2>3
    <3> QED
      BY <2>1, <3>1, <3>2 DEF Fits, SessionFits, SameBests
  <2>5. HolderHolds(n)
    BY <2>1 DEF Fits, HolderHolds, SameBests, SameLaps
  <2> QED
    BY <2>2, <2>4, <2>5 DEF Fits, n
<1>3. CASE e.type = "lap"
  <2>1. e \in LapEvents
    BY <1>3 DEF FeedEvents, DriverEvents, SessionEvents, CarEvents, PlaceEvents, TimingEvents,
                LapEvents, WeatherEvents, FlagEvents, MetaEvents
  <2>2. /\ e.driver \in Drivers
        /\ n.drivers[e.driver] = AppliedToDriver(st.drivers[e.driver], e)
        /\ \A d \in Drivers \ {e.driver} : n.drivers[d] = st.drivers[d]
        /\ BestsTaken(st, e.driver, n.drivers[e.driver], n)
    BY <1>3, <2>1, DriverEventApplied DEF DriverEvents
  <2>3. LapTaken(st.drivers[e.driver], e.payload, n.drivers[e.driver])
    BY <1>1, <1>3, <2>1, <2>2, EventApplied DEF DriverEvents
  <2> HIDE DEF n
  <2>4. n.drivers[e.driver] \in DriverStates /\ st.drivers[e.driver] \in DriverStates
    BY <1>1, <2>2 DEF SessionStates
  <2>5. DriverFits(n.drivers[e.driver], E \union {e}, e.driver)
    BY <2>1, <2>2, <2>3, <2>4, LapFitsDriver DEF Fits
  <2>6. \A d \in Drivers \ {e.driver} : DriverFits(n.drivers[d], E \union {e}, d)
    BY <2>2, OthersFitDriver DEF Fits
  <2>7. SessionFits(n, E \union {e})
    BY <1>1, <2>1, <2>2, <2>3, LapFitsSession
  <2>8. HolderHolds(n)
    BY <1>1, <2>1, <2>2, <2>3, HolderAfterLap
  <2> QED
    BY <2>5, <2>6, <2>7, <2>8 DEF Fits, n
<1> QED
  BY <1>2, <1>3

\* Nothing is known of a session nobody has seen an event of.
LEMMA NewFits == Fits(NewSession, {})
<1>1. \A d : LapsIn({}, d) = {}
  BY DEF LapsIn
<1>2. \A d : /\ LapTimesIn({}, d) = {} /\ LapNumbersIn({}, d) = {}
             /\ \A s \in Sectors : SectorTimesIn({}, d, s) = {}
  BY <1>1 DEF LapTimesIn, LapNumbersIn, SectorTimesIn
<1>3. /\ NewSession.session_best_lap = None /\ NewSession.current_lap = None
      /\ \A s \in Sectors : NewSession.session_best_sectors[s] = None
      /\ \A d \in Drivers : NewSession.drivers[d] = NewDriver
  BY DEF NewSession, NoSectors
<1>4. /\ NewDriver.best_lap_time = None /\ NewDriver.current_lap = None
      /\ \A s \in Sectors : NewDriver.best_sectors[s] = None
  BY DEF NewDriver, NoSectors
<1>5. /\ UNION {LapTimesIn({}, d) : d \in Drivers} = {}
      /\ UNION {LapNumbersIn({}, d) : d \in Drivers} = {}
      /\ \A s \in Sectors : UNION {SectorTimesIn({}, d, s) : d \in Drivers} = {}
  BY <1>2
<1> QED
  BY <1>2, <1>3, <1>4, <1>5 DEF Fits, DriverFits, SessionFits, HolderHolds, IsLeast, IsGreatest

\* The events behind the entries applied.
LEMMA AppliedAre ==
    ASSUME FeedTypeInv
    PROVE  AppliedEvents \in SUBSET FeedEvents
BY DEF FeedTypeInv, AppliedEvents, EventAt

\* Publishing changes nothing of what was applied.
LEMMA PublishKeepsApplied ==
    ASSUME FeedTypeInv, NEW raw \in Raws, Publish(raw), NEW entry \in applied
    PROVE  EventAt(entry)' = EventAt(entry)
<1>1. entry[1] \in Partitions /\ entry[2] \in 1..Len(log[entry[1]])
  BY DEF FeedTypeInv
<1> QED
  BY <1>1, PublishAppends DEF EventAt

\* Applying an entry adds its event.
LEMMA ApplyAdds ==
    ASSUME FeedTypeInv, NEW p \in Partitions, ApplyNext(p)
    PROVE  /\ log[p][position[p] + 1] \in FeedEvents
           /\ state' = Apply(state, log[p][position[p] + 1])
           /\ AppliedEvents' = AppliedEvents \union {log[p][position[p] + 1]}
<1>1. log' = log /\ applied' = applied \union {<<p, position[p] + 1>>}
  BY DEF ApplyNext
<1>2. \A entry : EventAt(entry)' = EventAt(entry)
  BY <1>1 DEF EventAt
<1>3. EventAt(<<p, position[p] + 1>>) = log[p][position[p] + 1]
  BY DEF EventAt
<1>4. AppliedEvents' = {EventAt(entry) : entry \in applied \union {<<p, position[p] + 1>>}}
  BY <1>1, <1>2 DEF AppliedEvents
<1>5. log[p] \in Seq(FeedEvents) /\ position[p] + 1 \in 1..Len(log[p])
  BY DEF ApplyNext, FeedTypeInv
<1>6. log[p][position[p] + 1] \in FeedEvents
  BY <1>5
<1>7. state' = Apply(state, log[p][position[p] + 1])
  BY DEF ApplyNext
<1> QED
  BY <1>3, <1>4, <1>6, <1>7 DEF AppliedEvents

BestsInv == Fits(state, AppliedEvents)

\* Every step keeps the bests extreme.
LEMMA StepFits == FeedTypeInv /\ BestsInv /\ [Next]_vars => BestsInv'
<1> SUFFICES ASSUME FeedTypeInv, BestsInv, [Next]_vars
             PROVE  BestsInv'
  OBVIOUS
<1> USE DEF BestsInv
<1>1. ASSUME NEW raw \in Raws, Publish(raw)
      PROVE  BestsInv'
  <2>1. state' = state /\ applied' = applied
    BY <1>1 DEF Publish, consumerVars
  <2>2. \A entry \in applied : EventAt(entry)' = EventAt(entry)
    BY <1>1, PublishKeepsApplied
  <2>3. AppliedEvents' = AppliedEvents
    BY <2>1, <2>2 DEF AppliedEvents
  <2> QED
    BY <2>1, <2>3
<1>2. ASSUME NEW p \in Partitions, ApplyNext(p)
      PROVE  BestsInv'
  <2> DEFINE e == log[p][position[p] + 1]
  <2>1. e \in FeedEvents /\ state' = Apply(state, e) /\ AppliedEvents' = AppliedEvents \union {e}
    BY <1>2, ApplyAdds
  <2>2. state \in SessionStates /\ AppliedEvents \in SUBSET FeedEvents /\ Fits(state, AppliedEvents)
    BY AppliedAre DEF FeedTypeInv
  <2> HIDE DEF e
  <2>3. Fits(Apply(state, e), AppliedEvents \union {e})
    BY <2>1, <2>2, ApplyFits
  <2> QED
    BY <2>1, <2>3
<1>3. ASSUME NEW part \in {Telemetry, Timing}, Commit(part) \/ Rebalance(part)
      PROVE  BestsInv'
  <2>1. state' = state /\ applied' = applied /\ log' = log
    BY <1>3 DEF Commit, Rebalance
  <2> QED
    BY <2>1 DEF AppliedEvents, EventAt
<1>4. ASSUME NEW entry \in unstored, Store(entry)
      PROVE  BestsInv'
  <2>1. state' = state /\ applied' = applied /\ log' = log
    BY <1>4 DEF Store
  <2> QED
    BY <2>1 DEF AppliedEvents, EventAt
<1>5. ASSUME Restart
      PROVE  BestsInv'
  <2>1. state' = NewSession /\ AppliedEvents' = {}
    BY <1>5 DEF Restart, AppliedEvents
  <2> QED
    BY <2>1, NewFits
<1>6. CASE UNCHANGED vars
  BY <1>6 DEF vars, AppliedEvents, EventAt
<1> QED
  BY <1>1, <1>2, <1>3, <1>4, <1>5, <1>6 DEF Next

\* BestsAreExtremes (state.py:139-193, 249-287): every best and lap counter is the extreme of
\* what this process has applied, however often and in whatever order.
THEOREM BestsStayExtremes == Spec => []BestsAreExtremes
<1>1. Init => BestsInv
  BY NewFits DEF Init, BestsInv, AppliedEvents
<1>2. BestsInv => BestsAreExtremes
  BY DEF BestsInv, Fits, DriverFits, SessionFits, HolderHolds, BestsAreExtremes, LapTimesIn,
         SectorTimesIn, LapNumbersIn, LapsIn, LapTimesOf, SectorTimesOf, LapNumbersOf, LapsOf
<1> QED
  BY <1>1, <1>2, Typed, StepFits, PTL DEF Spec

-----------------------------------------------------------------------------
(* The highlight *)

Highlighted(x) ==
    /\ x.was_personal_best = None <=> x.last_lap_time = None
    /\ x.was_personal_best = TRUE => x.last_lap_time = x.best_lap_time
    /\ x.was_personal_best = FALSE => x.last_lap_time >= x.best_lap_time

\* A lap puts it on exactly when its time is the best.
LEMMA LapHighlights ==
    ASSUME NEW x \in DriverStates, NEW p \in LapPayloads, NEW n \in DriverStates,
           Highlighted(x), LapTaken(x, p, n)
    PROVE  Highlighted(n)
<1>1. /\ x.best_lap_time \in Known /\ x.last_lap_time \in Known
      /\ p.lap_duration \in Known
  BY DEF DriverStates, LapPayloads
<1>2. n.best_lap_time = Lowest(x.best_lap_time, p.lap_duration)
  BY DEF LapTaken
<1>3. CASE p.lap_duration = None
  <2>1. n.last_lap_time = x.last_lap_time /\ n.was_personal_best = x.was_personal_best
    BY <1>3 DEF LapTaken
  <2>2. n.best_lap_time = x.best_lap_time
    BY <1>2, <1>3 DEF Lowest
  <2> QED
    BY <2>1, <2>2 DEF Highlighted
<1>4. CASE p.lap_duration # None
  <2>1. n.last_lap_time = p.lap_duration /\ n.was_personal_best = IsPersonalBest(x, p)
    BY <1>4 DEF LapTaken
  <2>2. IsPersonalBest(x, p) => p.lap_duration = n.best_lap_time
    BY <1>1, <1>2, <1>4, MappersAssumption DEF IsPersonalBest, Lowest, Known
  <2>3. ~ IsPersonalBest(x, p) => p.lap_duration >= n.best_lap_time
    BY <1>1, <1>2, <1>4, MappersAssumption DEF IsPersonalBest, Lowest, Known
  <2>4. IsPersonalBest(x, p) \in BOOLEAN
    BY DEF IsPersonalBest
  <2>5. n.was_personal_best # None /\ n.last_lap_time # None
    BY <1>4, <2>1, <2>4, MappersAssumption
  <2>6. CASE IsPersonalBest(x, p)
    <3>1. n.was_personal_best = TRUE
      BY <2>1, <2>6
    <3> QED
      BY <2>1, <2>2, <2>5, <2>6, <3>1 DEF Highlighted
  <2>7. CASE ~ IsPersonalBest(x, p)
    <3>1. n.was_personal_best = FALSE
      BY <2>1, <2>7
    <3> QED
      BY <2>1, <2>3, <2>5, <2>7, <3>1 DEF Highlighted
  <2> QED
    BY <2>6, <2>7
<1> QED
  BY <1>3, <1>4

\* Every step keeps every driver's highlight true.
LEMMA StepHighlights ==
    FeedTypeInv /\ HighlightIsTrue /\ [Next]_vars => HighlightIsTrue'
<1> SUFFICES ASSUME FeedTypeInv, HighlightIsTrue, [Next]_vars, NEW d \in Drivers
             PROVE  Highlighted(state'.drivers[d])
  BY DEF HighlightIsTrue, Highlighted
<1>1. Highlighted(state.drivers[d]) /\ state \in SessionStates /\ state.drivers[d] \in DriverStates
  BY DEF HighlightIsTrue, Highlighted, FeedTypeInv, SessionStates
<1>2. ASSUME NEW p \in Partitions, ApplyNext(p)
      PROVE  Highlighted(state'.drivers[d])
  <2> DEFINE e == log[p][position[p] + 1]
  <2>1. e \in FeedEvents /\ state' = Apply(state, e)
    BY <1>2, ApplyAdds
  <2> HIDE DEF e
  <2>2. CASE e \in SessionEvents \/ (e \in DriverEvents /\ d # e.driver)
    <3>1. state'.drivers[d] = state.drivers[d]
      BY <1>1, <2>1, <2>2, SessionApplied, DriverEventApplied
    <3> QED
      BY <1>1, <3>1
  <2>3. CASE e \in DriverEvents /\ d = e.driver
    <3> DEFINE x == state.drivers[d]
               n == state'.drivers[d]
    <3>1. n = AppliedToDriver(x, e)
      BY <1>1, <2>1, <2>3, DriverEventApplied
    <3>2. x \in DriverStates /\ Highlighted(x)
      BY <1>1
    <3> HIDE DEF x, n
    <3>3. /\ n \in DriverStates
          /\ e.type = "lap" => LapTaken(x, e.payload, n)
          /\ e.type # "lap" => SameLaps(x, n)
      BY <2>3, <3>1, <3>2, EventApplied
    <3>4. e.type = "lap" => e.payload \in LapPayloads
      BY <2>3 DEF DriverEvents, CarEvents, PlaceEvents, TimingEvents, LapEvents
    <3>5. CASE e.type = "lap"
      BY <3>2, <3>3, <3>4, <3>5, LapHighlights DEF n
    <3>6. CASE e.type # "lap"
      <4>1. Highlighted(n)
        BY <3>2, <3>3, <3>6 DEF SameLaps, Highlighted
      <4> QED
        BY <4>1 DEF n
    <3> QED
      BY <3>5, <3>6
  <2> QED
    BY <2>1, <2>2, <2>3 DEF FeedEvents
<1>3. CASE Restart
  <2>1. state'.drivers[d] = NewDriver
    BY <1>3 DEF Restart, NewSession
  <2>2. NewDriver.was_personal_best = None /\ NewDriver.last_lap_time = None
    BY DEF NewDriver
  <2> QED
    BY <2>1, <2>2, MappersAssumption DEF Highlighted
<1>4. CASE state' = state
  BY <1>1, <1>4
<1> QED
  BY <1>2, <1>3, <1>4 DEF Next, Publish, Commit, Rebalance, Store, consumerVars, vars

\* HighlightIsTrue (state.py:181-195): the personal best is marked exactly while
\* the last timed lap is the driver's best or ties it, however often read.
THEOREM HighlightStaysTrue == Spec => []HighlightIsTrue
<1>1. Init => HighlightIsTrue
  <2>1. NewDriver.was_personal_best = None /\ NewDriver.last_lap_time = None
    BY DEF NewDriver
  <2> QED
    <3>1. ASSUME Init
          PROVE  \A d \in Drivers : state.drivers[d] = NewDriver
      BY <3>1 DEF Init, NewSession
    <3> QED
      BY <2>1, <3>1, MappersAssumption DEF HighlightIsTrue
<1> QED
  BY <1>1, Typed, StepHighlights, PTL DEF Spec

-----------------------------------------------------------------------------
(* The rows of laps *)

LapRowsTyped == \A k \in DOMAIN rows : k[1] = "lap" => rows[k] \in LapPayloads

RowsInv == LapRowsTyped /\ StoredLapsKeepWhatIsKnown

\* A key says which table it is of.
LEMMA KeyType ==
    ASSUME NEW e
    PROVE  NaturalKey(e)[1] = e.type
BY DEF NaturalKey

\* Completing a row of a lap forgets nothing and takes what is new.
LEMMA Coalesces ==
    ASSUME NEW old \in LapPayloads, NEW p \in LapPayloads
    PROVE  LET n == LapCoalesced(old, p)
           IN  /\ n \in LapPayloads
               /\ old.lap_duration # None \/ p.lap_duration # None => n.lap_duration # None
               /\ \A s \in Sectors : old.sectors[s] # None \/ p.sectors[s] # None
                                     => n.sectors[s] # None
<1> DEFINE n1 == [old EXCEPT !.lap_duration = Given(p.lap_duration, @)]
           n2 == [n1 EXCEPT !.sectors = Merged(old.sectors, p.sectors)]
<1>1. Given(p.lap_duration, old.lap_duration) \in Known /\ Merged(old.sectors, p.sectors) \in PerSector
  BY ExtremeTypes DEF LapPayloads, PerSector, Merged
<1>2. n1 \in LapPayloads /\ n1.lap_duration = Given(p.lap_duration, old.lap_duration)
  BY <1>1 DEF LapPayloads
<1>3. /\ n2 \in LapPayloads
      /\ n2.lap_duration = Given(p.lap_duration, old.lap_duration)
      /\ n2.sectors = Merged(old.sectors, p.sectors)
  <2> HIDE DEF n1
  <2> QED
    BY <1>1, <1>2 DEF LapPayloads
<1>4. n2 = LapCoalesced(old, p)
  BY DEF LapCoalesced, LapPayloads
<1> HIDE DEF n2
<1> QED
  BY <1>3, <1>4 DEF Given, Merged

Knows(k, e) ==
    /\ k \in DOMAIN rows
    /\ e.payload.lap_duration # None => rows[k].lap_duration # None
    /\ \A s \in Sectors : e.payload.sectors[s] # None => rows[k].sectors[s] # None

\* Writing an entry keeps the rows typed, and what every lap's row knows.
LEMMA StoreKeepsRows ==
    ASSUME FeedTypeInv, LapRowsTyped, NEW entry \in unstored, Store(entry)
    PROVE  /\ LapRowsTyped'
           /\ EventAt(entry).type = "lap" => Knows(NaturalKey(EventAt(entry)), EventAt(entry))'
           /\ \A e \in FeedEvents : e.type = "lap" /\ Knows(NaturalKey(e), e)
                                       => Knows(NaturalKey(e), e)'
<1> DEFINE w == EventAt(entry)
           key == NaturalKey(w)
<1>1. w \in FeedEvents
  BY DEF FeedTypeInv, EventAt
<1>2. key[1] = w.type
  BY KeyType
<1>3. w.type = "lap" => w.payload \in LapPayloads
  BY <1>1 DEF FeedEvents, DriverEvents, SessionEvents, CarEvents, PlaceEvents, TimingEvents,
              LapEvents, WeatherEvents, FlagEvents, MetaEvents
<1>4. w' = w
  BY DEF Store, EventAt
<1>5. /\ DOMAIN rows' = DOMAIN rows \union {key}
      /\ \A k \in DOMAIN rows \ {key} : rows'[k] = rows[k]
      /\ key \notin DOMAIN rows => rows'[key] = w.payload
      /\ key \in DOMAIN rows /\ w.type = "lap" => rows'[key] = LapCoalesced(rows[key], w.payload)
      /\ key \in DOMAIN rows /\ w.type # "lap" => rows'[key] = rows[key]
  BY DEF Store, Upserted
<1> HIDE DEF w, key
<1>6. ASSUME w.type = "lap", key \in DOMAIN rows
      PROVE  /\ rows[key] \in LapPayloads /\ rows'[key] \in LapPayloads
             /\ rows[key].lap_duration # None \/ w.payload.lap_duration # None
                   => rows'[key].lap_duration # None
             /\ \A s \in Sectors : rows[key].sectors[s] # None \/ w.payload.sectors[s] # None
                                  => rows'[key].sectors[s] # None
  <2>1. rows[key] \in LapPayloads
    BY <1>2, <1>6 DEF LapRowsTyped
  <2> QED
    BY <1>3, <1>5, <1>6, <2>1, Coalesces
<1>7. LapRowsTyped'
  BY <1>2, <1>3, <1>5, <1>6 DEF LapRowsTyped
<1>8. w.type = "lap" => Knows(key, w)'
  BY <1>4, <1>5, <1>6 DEF Knows, key
<1>9. ASSUME NEW e \in FeedEvents, e.type = "lap", Knows(NaturalKey(e), e)
      PROVE  Knows(NaturalKey(e), e)'
  <2> DEFINE k == NaturalKey(e)
  <2>1. k[1] = "lap" /\ k \in DOMAIN rows
    BY <1>9, KeyType DEF Knows
  <2> HIDE DEF k
  <2>2. CASE k # key
    BY <1>5, <1>9, <2>1, <2>2 DEF Knows, k
  <2>3. CASE k = key
    BY <1>2, <1>5, <1>6, <1>9, <2>1, <2>3 DEF Knows, k
  <2> QED
    BY <2>2, <2>3
<1> QED
  BY <1>7, <1>8, <1>9 DEF w, key

\* Every step keeps them; only writing changes a row, only applying an entry
\* adds to what must be in one, and it is then still to be written.
LEMMA StepRows == FeedTypeInv /\ RowsInv /\ [Next]_vars => RowsInv'
<1> SUFFICES ASSUME FeedTypeInv, RowsInv, [Next]_vars
             PROVE  RowsInv'
  OBVIOUS
<1>1. LapRowsTyped /\ \A entry \in applied \ unstored :
                        EventAt(entry).type = "lap" => Knows(NaturalKey(EventAt(entry)), EventAt(entry))
  BY DEF RowsInv, StoredLapsKeepWhatIsKnown, Events, Knows
<1>2. ASSUME LapRowsTyped',
             \A entry \in (applied \ unstored)' :
                EventAt(entry)'.type = "lap" => Knows(NaturalKey(EventAt(entry)), EventAt(entry))'
      PROVE  RowsInv'
  BY <1>2 DEF RowsInv, StoredLapsKeepWhatIsKnown, Events, Knows
<1>3. ASSUME rows' = rows,
             \A entry \in (applied \ unstored)' :
                /\ EventAt(entry)' = EventAt(entry)
                /\ EventAt(entry).type = "lap" => entry \in applied \ unstored
      PROVE  RowsInv'
  <2>1. LapRowsTyped'
    BY <1>1, <1>3 DEF LapRowsTyped
  <2>2. ASSUME NEW entry \in (applied \ unstored)', EventAt(entry)'.type = "lap"
        PROVE  Knows(NaturalKey(EventAt(entry)), EventAt(entry))'
    BY <1>1, <1>3, <2>2 DEF Knows
  <2> QED
    BY <1>2, <2>1, <2>2
<1>4. ASSUME NEW raw \in Raws, Publish(raw)
      PROVE  RowsInv'
  <2>1. applied' = applied /\ unstored' = unstored /\ rows' = rows
    BY <1>4 DEF Publish, consumerVars
  <2>2. \A entry \in applied : EventAt(entry)' = EventAt(entry)
    BY <1>4, PublishKeepsApplied
  <2> QED
    BY <1>3, <2>1, <2>2
<1>5. ASSUME NEW p \in Partitions, ApplyNext(p)
      PROVE  RowsInv'
  <2> DEFINE new == <<p, position[p] + 1>>
  <2>1. /\ applied' = applied \union {new} /\ rows' = rows /\ log' = log
        /\ unstored' = IF Stored(EventAt(new)) THEN unstored \union {new} ELSE unstored
    BY <1>5 DEF ApplyNext, EventAt
  <2>2. \A entry : EventAt(entry)' = EventAt(entry)
    BY <2>1 DEF EventAt
  <2>3. EventAt(new).type = "lap" => new \in unstored'
    BY <2>1 DEF Stored
  <2> QED
    BY <1>3, <2>1, <2>2, <2>3
<1>6. ASSUME NEW part \in {Telemetry, Timing}, Commit(part) \/ Rebalance(part)
      PROVE  RowsInv'
  <2>1. log' = log /\ applied' = applied /\ unstored' = unstored /\ rows' = rows
    BY <1>6 DEF Commit, Rebalance
  <2> QED
    BY <1>3, <2>1 DEF EventAt
<1>7. ASSUME NEW entry \in unstored, Store(entry)
      PROVE  RowsInv'
  <2>1. log' = log /\ applied' = applied /\ unstored' = unstored \ {entry}
    BY <1>7 DEF Store
  <2>2. \A x : EventAt(x)' = EventAt(x)
    BY <2>1 DEF EventAt
  <2>3. \A x \in applied : EventAt(x) \in FeedEvents
    BY DEF FeedTypeInv, EventAt
  <2>4. /\ LapRowsTyped'
        /\ EventAt(entry).type = "lap" => Knows(NaturalKey(EventAt(entry)), EventAt(entry))'
        /\ \A e \in FeedEvents : e.type = "lap" /\ Knows(NaturalKey(e), e) => Knows(NaturalKey(e), e)'
    BY <1>1, <1>7, StoreKeepsRows
  <2>5. ASSUME NEW x \in applied \ (unstored \ {entry}), EventAt(x).type = "lap"
        PROVE  Knows(NaturalKey(EventAt(x)), EventAt(x))'
    <3>1. CASE x = entry
      BY <2>4, <2>5, <3>1
    <3>2. CASE x # entry
      <4> DEFINE e == EventAt(x)
      <4>1. e \in FeedEvents /\ e.type = "lap" /\ Knows(NaturalKey(e), e) /\ e' = e
        BY <1>1, <2>2, <2>3, <2>5, <3>2
      <4> HIDE DEF e
      <4>2. Knows(NaturalKey(e), e)'
        BY <2>4, <4>1 DEF Knows
      <4> QED
        BY <4>2 DEF e
    <3> QED
      BY <3>1, <3>2
  <2> QED
    BY <1>2, <2>1, <2>2, <2>4, <2>5
<1>8. CASE Restart
  <2>1. applied' = {} /\ rows' = rows
    BY <1>8 DEF Restart
  <2> QED
    BY <1>3, <2>1
<1>9. CASE UNCHANGED vars
  <2>1. log' = log /\ applied' = applied /\ unstored' = unstored /\ rows' = rows
    BY <1>9 DEF vars
  <2> QED
    BY <1>3, <2>1 DEF EventAt
<1> QED
  BY <1>4, <1>5, <1>6, <1>7, <1>8, <1>9 DEF Next

\* StoredLapsKeepWhatIsKnown (writer.py:61-64): in whatever order the versions
\* of a lap are written, and again, the row knows what any of them knew.
THEOREM StoredLapsStayKnown == Spec => []StoredLapsKeepWhatIsKnown
<1>1. Init => RowsInv
  BY DEF Init, RowsInv, LapRowsTyped, StoredLapsKeepWhatIsKnown, Events
<1>2. RowsInv => StoredLapsKeepWhatIsKnown
  BY DEF RowsInv
<1> QED
  BY <1>1, <1>2, Typed, StepRows, PTL DEF Spec
=============================================================================
