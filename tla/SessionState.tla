----------------------------- MODULE SessionState -----------------------------
(***************************************************************************)
(* domain/state.py: what a consumer knows of one session after applying    *)
(* its events one by one, and how an event becomes a row (db/writer.py).    *)
(* An event is a record [type, driver, at, payload] of Mappers.            *)
(***************************************************************************)
EXTENDS Mappers

CONSTANT Drivers   \* driver numbers of the session

ASSUME SessionAssumption == Drivers \subseteq Int

\* A field a message does not carry keeps its value.
Given(new, old) == IF new # None THEN new ELSE old

\* min and max where None is "not yet known".
Lowest(best, n)   == IF n # None /\ (best = None \/ n < best) THEN n ELSE best
\* Mutant: the last value wins.
Latest(known, n) == Given(n, known)

Highest(known, n) == IF n # None /\ (known = None \/ n > known) THEN n ELSE known

NoSectors == [s \in Sectors |-> None]
NoCar     == [c \in DOMAIN CarLimits |-> None]

\* SectorTimes.merge
Merged(old, new) == [s \in Sectors |-> Given(new[s], old[s])]

NewDriver ==
    [position |-> None, gap_to_leader |-> None, interval |-> None, laps_down |-> None,
     current_lap |-> None, last_lap_time |-> None, best_lap_time |-> None,
     best_lap_number |-> None, was_personal_best |-> None,
     current_sectors |-> NoSectors, last_sectors |-> NoSectors, best_sectors |-> NoSectors,
     car |-> NoCar, xy |-> None, last_update |-> None, telemetry_samples |-> 0]

NewSession ==
    [seen |-> {}, drivers |-> [d \in Drivers |-> NewDriver],
     session_best_lap |-> None, session_best_lap_driver |-> None,
     session_best_sectors |-> NoSectors, session_best_sector_drivers |-> NoSectors,
     current_lap |-> None, total_laps |-> None,
     air_temperature |-> None, track_temperature |-> None, rainfall |-> None,
     last_event_at |-> None, events_applied |-> 0]

-----------------------------------------------------------------------------
(* DriverState.apply_* *)

ApplyTelemetry(d, e) ==
    [d EXCEPT !.car = e.payload,
              !.telemetry_samples = @ + 1,
              !.last_update = Highest(@, e.at)]

ApplyPosition(d, e) ==
    [d EXCEPT !.xy = e.payload, !.last_update = Highest(@, e.at)]

\* A lapped car has no gap in seconds.
GapAfter(d, p) == IF p.laps_down # None THEN None ELSE Given(p.gap_to_leader, d.gap_to_leader)

ApplyTiming(d, e) ==
    LET p == e.payload
    IN  [d EXCEPT !.position = Given(p.position, @),
                  !.gap_to_leader = GapAfter(d, p),
                  !.interval = Given(p.interval, @),
                  !.laps_down = Given(p.laps_down, @),
                  !.last_update = Highest(@, e.at)]

\* Mutant: a lap delivered again is compared with itself.
ComparedAgain(d, p) == d.best_lap_time = None \/ p.lap_duration < d.best_lap_time

\* Mutant: any later version of the best lap keeps the highlight.
SameLapOrFaster(d, p) == ComparedAgain(d, p) \/ p.lap_number = d.best_lap_number

\* Sets the best, or is the lap that holds it, delivered again.
IsPersonalBest(d, p) ==
    \/ d.best_lap_time = None
    \/ p.lap_duration < d.best_lap_time
    \/ p.lap_number = d.best_lap_number /\ p.lap_duration = d.best_lap_time

StartsLap(d, p)     == d.current_lap # None /\ p.lap_number > d.current_lap
ContinuesLap(d, p)  == d.current_lap # None /\ p.lap_number = d.current_lap

LapTimes(d, p) ==
    IF p.lap_duration = None THEN d
    ELSE [d EXCEPT
            !.last_lap_time = p.lap_duration,
            !.best_lap_time = Lowest(@, p.lap_duration),
            !.best_lap_number = IF Lowest(d.best_lap_time, p.lap_duration) # d.best_lap_time
                                THEN p.lap_number ELSE @,
            !.was_personal_best = IsPersonalBest(d, p)]

ApplyLap(d, e) ==
    LET p == e.payload
    IN  [LapTimes(d, p) EXCEPT
            !.last_sectors = IF StartsLap(d, p) THEN d.current_sectors ELSE @,
            !.current_sectors = IF ContinuesLap(d, p) THEN Merged(@, p.sectors) ELSE p.sectors,
            !.current_lap = Highest(@, p.lap_number),
            !.best_sectors = [s \in Sectors |-> Lowest(@[s], p.sectors[s])],
            !.last_update = Highest(@, e.at)]

-----------------------------------------------------------------------------
(* SessionState.apply *)

Counted(st, e) ==
    [st EXCEPT !.events_applied = @ + 1, !.last_event_at = Highest(@, e.at)]

ApplyWeather(st, p) ==
    [st EXCEPT !.air_temperature = Given(p.air_temperature, @),
               !.track_temperature = Given(p.track_temperature, @),
               !.rainfall = Given(p.rainfall, @)]

AppliedToDriver(d, e) ==
    CASE e.type = "car_telemetry" -> ApplyTelemetry(d, e)
      [] e.type = "position"      -> ApplyPosition(d, e)
      [] e.type = "timing"        -> ApplyTiming(d, e)
      [] e.type = "lap"           -> ApplyLap(d, e)

WithDriver(st, e) ==
    [st EXCEPT !.seen = @ \union {e.driver},
               !.drivers[e.driver] = AppliedToDriver(@, e)]

\* _update_session_bests compares strictly: who set a time first keeps it.
Beats(best, n) == n # None /\ (best = None \/ n < best)

\* After a lap of driver n: the session's bests and its lap counter.
UpdateSessionBests(st, n) ==
    LET d == st.drivers[n]
    IN  [st EXCEPT
           !.session_best_lap_driver =
               IF Beats(st.session_best_lap, d.best_lap_time) THEN n ELSE @,
           !.session_best_lap =
               IF Beats(st.session_best_lap, d.best_lap_time) THEN d.best_lap_time ELSE @,
           !.session_best_sector_drivers = [s \in Sectors |->
               IF Beats(st.session_best_sectors[s], d.best_sectors[s]) THEN n ELSE @[s]],
           !.session_best_sectors = [s \in Sectors |->
               IF Beats(@[s], d.best_sectors[s]) THEN d.best_sectors[s] ELSE @[s]],
           !.current_lap = Highest(@, d.current_lap)]

Apply(st, e) ==
    CASE e.type = "weather"      -> ApplyWeather(Counted(st, e), e.payload)
      [] e.type = "session_meta" -> [Counted(st, e) EXCEPT !.total_laps = Given(e.payload.total_laps, @)]
      [] e.type = "race_control" -> Counted(st, e)
      [] e.type = "lap"          -> UpdateSessionBests(WithDriver(Counted(st, e), e), e.driver)
      [] OTHER                   -> WithDriver(Counted(st, e), e)

-----------------------------------------------------------------------------
(* The row of an event, and the statement that writes it. *)

Stored(e) == e.type # "session_meta"

\* Mutant: ON CONFLICT DO UPDATE without COALESCE.
LapOverwritten(old, p) == p

\* COALESCE(EXCLUDED, laps) for every column of a lap.
LapCoalesced(old, p) ==
    [old EXCEPT !.lap_duration = Given(p.lap_duration, @),
                !.sectors = Merged(@, p.sectors)]

\* ON CONFLICT: laps are completed, everything else keeps its first row.
Upserted(rows, e) ==
    LET k == NaturalKey(e)
    IN  [x \in DOMAIN rows \union {k} |->
           IF x # k THEN rows[x]
           ELSE IF k \notin DOMAIN rows THEN e.payload
           ELSE IF e.type = "lap" THEN LapCoalesced(rows[k], e.payload)
           ELSE rows[k]]
=============================================================================
