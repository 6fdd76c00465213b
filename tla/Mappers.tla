------------------------------- MODULE Mappers -------------------------------
(***************************************************************************)
(* ingestion/mappers.py and the schemas it builds: what becomes of one     *)
(* OpenF1 record.  A JSON value is a record [kind, n]: a number, a string   *)
(* that reads as one, a string "+n LAP", or something that is no number.    *)
(* Numbers are counted in tenths, so that they may have a fraction.         *)
(***************************************************************************)
EXTENDS Integers

CONSTANT None     \* Python's None

ASSUME MappersAssumption == None \notin Int /\ None \notin BOOLEAN

Numbers == {"number", "numeral"}

\* Only a number and a count of laps carry one.
JsonValues ==
    [kind : Numbers, n : Int] \union
    [kind : {"laps"}, n : Nat] \union
    [kind : {"lap", "null", "text", "nan", "inf"}, n : {0}]

Num(n)     == [kind |-> "number", n |-> n]       \* n tenths
Numeral(n) == [kind |-> "numeral", n |-> n]      \* the same in quotes
Laps(n)    == [kind |-> "laps", n |-> n]         \* "+2 LAPS"
SomeLap    == [kind |-> "lap", n |-> 0]          \* "LAP" without digits
Null       == [kind |-> "null", n |-> 0]
Text       == [kind |-> "text", n |-> 0]
NaN        == [kind |-> "nan", n |-> 0]
Infinity   == [kind |-> "inf", n |-> 0]

\* int(): towards zero.
Truncated(n) == IF n >= 0 THEN n \div 10 ELSE -((-n) \div 10)

\* _int drops the fraction of a number, but a string must be an integer's; of an
\* infinity int() raises OverflowError, which _int does not catch: see Breaks.
AsInt(v) ==
    IF v.kind = "number" \/ (v.kind = "numeral" /\ v.n % 10 = 0) THEN Truncated(v.n) ELSE None
Breaks(v)  == v.kind = "inf"

\* _float, in tenths.
AsFloat(v) == IF v.kind \in Numbers THEN v.n ELSE None

\* Mutant: an out-of-range reading is clamped.
Clamped(n, low, high) ==
    IF n = None THEN None ELSE IF n < low THEN low ELSE IF n > high THEN high ELSE n

\* _clamp_or_none, _bounded_float
WithinOrNone(n, low, high) == IF n # None /\ low <= n /\ n <= high THEN n ELSE None

Positive(n) == IF n # None /\ n > 0 THEN n ELSE None

\* _parse_gap: seconds and laps down, at most one of them known.
GapSeconds(v) == AsFloat(v)
GapLaps(v)    == CASE v.kind = "laps" -> v.n
                   [] v.kind = "lap"  -> 1
                   [] OTHER           -> None

-----------------------------------------------------------------------------
(* The event types and where they are published. *)

CarLimits == [speed |-> <<0, 400>>, throttle |-> <<0, 100>>, brake |-> <<0, 100>>,
              n_gear |-> <<0, 8>>, rpm |-> <<0, 20000>>, drs |-> <<0, 14>>]

Sectors == {"s1", "s2", "s3"}

TopicOf(type) == CASE type = "car_telemetry"      -> "telemetry"
                   [] type = "position"           -> "position"
                   [] type \in {"timing", "lap"}  -> "timing"
                   [] OTHER                       -> "session"

\* session:driver selects the partition; the session topic has only one.
PartitionFor(e) ==
    <<TopicOf(e.type), IF TopicOf(e.type) = "session" THEN None ELSE e.driver>>

\* The key of the table an event's row goes to.
NaturalKey(e) ==
    CASE e.type = "lap"          -> <<e.type, e.driver, e.payload.lap_number, e.at>>
      [] e.type = "race_control" -> <<e.type, e.at, e.payload.message>>
      [] e.type = "weather"      -> <<e.type, e.at>>
      [] OTHER                   -> <<e.type, e.driver, e.at>>

\* No event: the record is counted as dropped.
Rejected == [type |-> "rejected"]

Event(type, raw, payload) ==
    [type |-> type, at |-> raw.date.n, payload |-> payload,
     driver |-> IF type \in {"weather", "session_meta"} THEN None ELSE AsInt(raw.driver_number)]

Dated(raw)     == raw.date.kind = "number"
HasDriver(raw) == AsInt(raw.driver_number) # None

-----------------------------------------------------------------------------
(* What the endpoints answer with. *)

IsRecord(r) ==
    \/ r \in [endpoint : {"car_data"}, date : JsonValues, driver_number : JsonValues,
              car : [DOMAIN CarLimits -> JsonValues]]
    \/ r \in [endpoint : {"location"}, date : JsonValues, driver_number : JsonValues,
              x : JsonValues, y : JsonValues]
    \/ r \in [endpoint : {"laps"}, date : JsonValues, driver_number : JsonValues,
              lap_number : JsonValues, lap_duration : JsonValues,
              sectors : [Sectors -> JsonValues]]
    \/ r \in [endpoint : {"position"}, date : JsonValues, driver_number : JsonValues,
              position : JsonValues]
    \/ r \in [endpoint : {"intervals"}, date : JsonValues, driver_number : JsonValues,
              gap_to_leader : JsonValues, interval : JsonValues]
    \/ r \in [endpoint : {"weather"}, date : JsonValues, driver_number : JsonValues,
              air_temperature : JsonValues, track_temperature : JsonValues,
              rainfall : JsonValues]
    \/ r \in [endpoint : {"race_control"}, date : JsonValues, driver_number : JsonValues,
              lap_number : JsonValues, message : STRING]
    \/ r \in [endpoint : {"sessions"}, date : JsonValues, driver_number : JsonValues]

-----------------------------------------------------------------------------
(* One mapper per endpoint. *)

MapCarTelemetry(raw) ==
    IF Dated(raw) /\ HasDriver(raw) /\ \A c \in DOMAIN CarLimits : ~Breaks(raw.car[c])
    THEN Event("car_telemetry", raw,
               [c \in DOMAIN CarLimits |->
                  WithinOrNone(AsInt(raw.car[c]), CarLimits[c][1], CarLimits[c][2])])
    ELSE Rejected

MapLocation(raw) ==
    LET x == AsFloat(raw.x)
        y == AsFloat(raw.y)
    IN  IF Dated(raw) /\ HasDriver(raw) /\ x # None /\ y # None /\ ~(x = 0 /\ y = 0)
        THEN Event("position", raw, [x |-> x, y |-> y])
        ELSE Rejected

MapLap(raw) ==
    LET number == AsInt(raw.lap_number)
    IN  IF Dated(raw) /\ HasDriver(raw) /\ number # None /\ number >= 1
        THEN Event("lap", raw,
                   [lap_number   |-> number,
                    lap_duration |-> Positive(AsFloat(raw.lap_duration)),
                    sectors      |-> [s \in Sectors |-> Positive(AsFloat(raw.sectors[s]))]])
        ELSE Rejected

TimingPayload(position, gap, interval, laps) ==
    [position |-> position, gap_to_leader |-> gap, interval |-> interval, laps_down |-> laps]

\* /position, the classification
MapPosition(raw) ==
    IF Dated(raw) /\ HasDriver(raw) /\ ~Breaks(raw.position)
    THEN Event("timing", raw,
               TimingPayload(WithinOrNone(AsInt(raw.position), 1, 30), None, None, None))
    ELSE Rejected

MapInterval(raw) ==
    IF Dated(raw) /\ HasDriver(raw)
    THEN Event("timing", raw,
               TimingPayload(None, GapSeconds(raw.gap_to_leader), GapSeconds(raw.interval),
                             GapLaps(raw.gap_to_leader)))
    ELSE Rejected

MapWeather(raw) ==
    IF Dated(raw) /\ ~Breaks(raw.rainfall)
    THEN Event("weather", raw,
               [air_temperature   |-> AsFloat(raw.air_temperature),
                track_temperature |-> AsFloat(raw.track_temperature),
                rainfall          |-> WithinOrNone(AsInt(raw.rainfall), 0, 1)])
    ELSE Rejected

\* A message names a driver or not; a negative lap does not pass the schema.
MapRaceControl(raw) ==
    LET lap == AsInt(raw.lap_number)
    IN  IF /\ Dated(raw)
           /\ raw.message # ""
           /\ \A v \in {raw.lap_number, raw.driver_number} : ~Breaks(v)
           /\ lap # None => lap >= 0
        THEN Event("race_control", raw, [message |-> raw.message, lap_number |-> lap])
        ELSE Rejected

\* The /sessions record, at the head of the stream; without a date it gets the clock's.
MapSessionMeta(raw, totalLaps) ==
    IF raw.date.kind \in {"number", "null"}
    THEN Event("session_meta", raw, [total_laps |-> totalLaps])
    ELSE Rejected

\* MAPPERS, and what map_many makes of a single record.
Mapped(raw) ==
    CASE raw.endpoint = "car_data"     -> MapCarTelemetry(raw)
      [] raw.endpoint = "location"     -> MapLocation(raw)
      [] raw.endpoint = "laps"         -> MapLap(raw)
      [] raw.endpoint = "position"     -> MapPosition(raw)
      [] raw.endpoint = "intervals"    -> MapInterval(raw)
      [] raw.endpoint = "weather"      -> MapWeather(raw)
      [] raw.endpoint = "race_control" -> MapRaceControl(raw)
=============================================================================
