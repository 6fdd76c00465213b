----------------------------- MODULE SessionFeed -----------------------------
(***************************************************************************)
(* From OpenF1 records to what the tower shows and what the database keeps:*)
(* records are mapped and published, the processor's two consumers apply   *)
(* the events in the order of each partition and buffer their rows, and the*)
(* rows are written in an order of their own, several flushes being in     *)
(* flight.  A consumer may read events twice, and the process may restart  *)
(* without what it derived.                                                *)
(***************************************************************************)
EXTENDS SessionState, FiniteSets, SequencesExt

CONSTANTS
    Raws,            \* the records upstream may answer with
    TotalLaps,       \* what session metadata says of the number of laps
    MaxEvents,       \* bound of the model: events ever published
    MaxRedeliveries  \* bound of the model: rebalances and restarts

ASSUME FeedAssumption ==
    /\ \A raw \in Raws : IsRecord(raw)
    /\ TotalLaps \in Int \union {None}
    /\ MaxEvents \in Nat
    /\ MaxRedeliveries \in Nat

Partitions ==
    ({"telemetry", "position", "timing"} \X Drivers) \union {<<"session", None>>}

\* The two consumers of the processor share its state and its writer.
Telemetry == {p \in Partitions : p[1] \in {"telemetry", "position"}}
Timing    == Partitions \ Telemetry

VARIABLES
    log,          \* partition -> sequence of events (broker)
    committed,    \* partition -> entries the group has committed (broker)
    position,     \* partition -> entries read
    begun,        \* partition -> where this process began to read
    state,        \* the SessionState of this process
    applied,      \* entries <<partition, offset>> this process has applied
    unstored,     \* those whose rows it holds in memory
    rows,         \* natural key -> row (database)
    redeliveries  \* rebalances and restarts so far

vars == <<log, committed, position, begun, state, applied, unstored, rows, redeliveries>>
consumerVars == <<committed, position, begun, state, applied, unstored, redeliveries>>

EventAt(entry) == log[entry[1]][entry[2]]

\* The events published so far.
Published == UNION {{log[p][i] : i \in 1..Len(log[p])} : p \in Partitions}

Nowhere == [p \in Partitions |-> 0]

Init ==
    /\ log = [p \in Partitions |-> <<>>]
    /\ committed = Nowhere
    /\ position = Nowhere
    /\ begun = Nowhere
    /\ state = NewSession
    /\ applied = {}
    /\ unstored = {}
    /\ rows = [k \in {} |-> None]
    /\ redeliveries = 0

MappedRecord(raw) ==
    IF raw.endpoint = "sessions" THEN MapSessionMeta(raw, TotalLaps) ELSE Mapped(raw)

\* map_many and send_many: a record that cannot be mapped costs only itself.
Publish(raw) ==
    LET e == MappedRecord(raw)
    IN  /\ e # Rejected
        /\ e.driver \in Drivers \union {None}
        /\ Cardinality(UNION {{<<p, i>> : i \in 1..Len(log[p])} : p \in Partitions}) < MaxEvents
        /\ log' = [log EXCEPT ![PartitionFor(e)] = Append(@, e)]
        /\ UNCHANGED <<consumerVars, rows>>

\* _handle_batch for one event: derive, then hand the row to the writer.
ApplyNext(p) ==
    LET i == position[p] + 1
        e == log[p][i]
    IN  /\ i <= Len(log[p])
        /\ state' = Apply(state, e)
        /\ position' = [position EXCEPT ![p] = i]
        /\ applied' = applied \union {<<p, i>>}
        /\ unstored' = IF Stored(e) THEN unstored \union {<<p, i>>} ELSE unstored
        /\ UNCHANGED <<log, committed, begun, rows, redeliveries>>

Commit(part) ==
    /\ committed' = [p \in Partitions |-> IF p \in part THEN position[p] ELSE committed[p]]
    /\ UNCHANGED <<log, position, begun, state, applied, unstored, rows, redeliveries>>

\* Two flushes in flight commit in either order.
Store(entry) ==
    /\ entry \in unstored
    /\ rows' = Upserted(rows, EventAt(entry))
    /\ unstored' = unstored \ {entry}
    /\ UNCHANGED <<log, committed, position, begun, state, applied, redeliveries>>

\* A group rejoins: everything past the committed offsets is read again.
Rebalance(part) ==
    /\ redeliveries < MaxRedeliveries
    /\ redeliveries' = redeliveries + 1
    /\ position' = [p \in Partitions |-> IF p \in part THEN committed[p] ELSE position[p]]
    /\ UNCHANGED <<log, committed, begun, state, applied, unstored, rows>>

\* Mutant: the rows a process held survive it.
RestartKeepsRows ==
    /\ redeliveries < MaxRedeliveries
    /\ redeliveries' = redeliveries + 1
    /\ position' = committed
    /\ begun' = committed
    /\ state' = NewSession
    /\ applied' = {}
    /\ UNCHANGED <<log, committed, unstored, rows>>

\* A new process: no state is rebuilt from the database.
Restart ==
    /\ redeliveries < MaxRedeliveries
    /\ redeliveries' = redeliveries + 1
    /\ position' = committed
    /\ begun' = committed
    /\ state' = NewSession
    /\ applied' = {}
    /\ unstored' = {}
    /\ UNCHANGED <<log, committed, rows>>

Next ==
    \/ \E raw \in Raws : Publish(raw)
    \/ \E p \in Partitions : ApplyNext(p)
    \/ \E part \in {Telemetry, Timing} : Commit(part) \/ Rebalance(part)
    \/ \E entry \in unstored : Store(entry)
    \/ Restart

Spec == Init /\ [][Next]_vars

-----------------------------------------------------------------------------
(* Properties *)

AppliedEvents == {EventAt(entry) : entry \in applied}

LapsOf(d) == {e \in AppliedEvents : e.type = "lap" /\ e.driver = d}

\* Durations of d's laps, and of one sector of them, that are known.
LapTimesOf(d)       == {e.payload.lap_duration : e \in LapsOf(d)} \ {None}
SectorTimesOf(d, s) == {e.payload.sectors[s] : e \in LapsOf(d)} \ {None}
LapNumbersOf(d)     == {e.payload.lap_number : e \in LapsOf(d)}

IsLeast(n, S)    == IF S = {} THEN n = None ELSE n \in S /\ \A m \in S : n <= m
IsGreatest(n, S) == IF S = {} THEN n = None ELSE n \in S /\ \A m \in S : m <= n

\* Types of the broker's and the consumer's variables.
TypeOK ==
    /\ DOMAIN log = Partitions
    /\ \A p \in Partitions : /\ committed[p] \in 0..Len(log[p])
                             /\ position[p] \in 0..Len(log[p])
                             /\ begun[p] \in 0..committed[p]
                             /\ \A i \in 1..Len(log[p]) : PartitionFor(log[p][i]) = p
    /\ state.seen \subseteq Drivers
    /\ unstored \subseteq applied
    /\ redeliveries \in 0..MaxRedeliveries

\* Each driver's and the session's bests and lap counters are the extremes of
\* what this process has applied, whatever was read twice and in whatever
\* order the partitions were read; the holder of a session best holds it.
BestsAreExtremes ==
    /\ \A d \in Drivers :
          /\ IsLeast(state.drivers[d].best_lap_time, LapTimesOf(d))
          /\ \A s \in Sectors : IsLeast(state.drivers[d].best_sectors[s], SectorTimesOf(d, s))
          /\ IsGreatest(state.drivers[d].current_lap, LapNumbersOf(d))
    /\ IsLeast(state.session_best_lap, UNION {LapTimesOf(d) : d \in Drivers})
    /\ IsGreatest(state.current_lap, UNION {LapNumbersOf(d) : d \in Drivers})
    /\ \A s \in Sectors :
          IsLeast(state.session_best_sectors[s], UNION {SectorTimesOf(d, s) : d \in Drivers})
    /\ state.session_best_lap # None =>
          /\ state.session_best_lap_driver \in Drivers
          /\ state.session_best_lap
                = state.drivers[state.session_best_lap_driver].best_lap_time

\* The personal-best highlight (state.py:190-195): it is on exactly while the
\* last timed lap equals the best, except that a second lap may only tie it.
HighlightIsTrue ==
    \A d \in Drivers :
        LET s == state.drivers[d]
        IN  /\ s.was_personal_best = None <=> s.last_lap_time = None
            /\ s.was_personal_best = TRUE => s.last_lap_time = s.best_lap_time
            /\ s.was_personal_best = FALSE => s.last_lap_time >= s.best_lap_time

\* A driver's state after the entries of a partition past the offset `from`.
ReadFrom(d, entries, from) ==
    LET after[i \in from..Len(entries)] ==
            IF i = from THEN d ELSE AppliedToDriver(after[i - 1], entries[i])
    IN  after[Len(entries)]

\* What one consumer that reads every entry once since `begun` shows of d.
ReadOnce(d) ==
    LET read(s, topic) == ReadFrom(s, log[<<topic, d>>], begun[<<topic, d>>])
    IN  read(read(read(NewDriver, "telemetry"), "position"), "timing")

\* Without the sectors: an older lap read again after a newer one replaces
\* current_sectors (state.py:163-179), so they depend on how often it was read.
Displayed(s) ==
    [f \in DOMAIN s \ {"current_sectors", "last_sectors", "telemetry_samples"} |-> s[f]]

CaughtUp == \A p \in Partitions : position[p] = Len(log[p])

\* At-least-once delivery does not show: once the consumer has caught up, a
\* driver's line is the one that reading every event exactly once since this
\* process began would give.  What it missed from before, state.py:29-30 has it
\* query from the database; the code does not (service.py:199-206).
SettlesOnTheLog ==
    CaughtUp => \A d \in Drivers : Displayed(state.drivers[d]) = Displayed(ReadOnce(d))

Events(entries) == {EventAt(entry) : entry \in entries}

\* writer.py:61-64: laps are published as they progress and flushes overtake
\* each other, yet whatever some written version of a lap knew is in its row.
StoredLapsKeepWhatIsKnown ==
    \A e \in {x \in Events(applied \ unstored) : x.type = "lap"} :
        /\ NaturalKey(e) \in DOMAIN rows
        /\ e.payload.lap_duration # None => rows[NaturalKey(e)].lap_duration # None
        /\ \A s \in Sectors : e.payload.sectors[s] # None => rows[NaturalKey(e)].sectors[s] # None

\* v is a number, and n what is left of it without its fraction.
WholePart(v, n) ==
    /\ v.kind \in Numbers
    /\ \/ 0 <= n /\ 10 * n <= v.n /\ v.n < 10 * n + 10
       \/ n <= 0 /\ 10 * n - 10 < v.n /\ v.n <= 10 * n

SameNumber(v, n) == v.kind \in Numbers /\ v.n = n

InLimits(n, limits) == limits[1] <= n /\ n <= limits[2]

\* state.py:73-75: a number on the tower is one that upstream sent for this
\* car, and a possible one: no reading outside the limits of its channel, no
\* clamped one, and no car parked at the origin.  Integer fields lack
\* the fraction of what was sent (mappers.py:78), so a speed of 400.9 is shown as
\* 400 although the limit is 400, and "LAP" without a number counts as one lap
\* (mappers.py:342).
NothingInvented ==
    \A d \in state.seen :
        LET s == state.drivers[d]
            Sent(endpoint) == {raw \in Raws : /\ raw.endpoint = endpoint
                                             /\ WholePart(raw.driver_number, d)
                                             /\ Mapped(raw) \in Published}
        IN  /\ \A c \in DOMAIN CarLimits : s.car[c] # None =>
                  /\ InLimits(s.car[c], CarLimits[c])
                  /\ \E raw \in Sent("car_data") : WholePart(raw.car[c], s.car[c])
            /\ s.xy # None =>
                  /\ s.xy # [x |-> 0, y |-> 0]
                  /\ \E raw \in Sent("location") :
                        SameNumber(raw.x, s.xy.x) /\ SameNumber(raw.y, s.xy.y)
            /\ s.position # None =>
                  /\ InLimits(s.position, <<1, 30>>)
                  /\ \E raw \in Sent("position") : WholePart(raw.position, s.position)
            /\ s.gap_to_leader # None =>
                  \E raw \in Sent("intervals") : SameNumber(raw.gap_to_leader, s.gap_to_leader)
            /\ s.laps_down # None =>
                  \E raw \in Sent("intervals") :
                        \/ raw.gap_to_leader = Laps(s.laps_down)
                        \/ raw.gap_to_leader = SomeLap /\ s.laps_down = 1
            /\ s.best_lap_time # None =>
                  /\ s.best_lap_time > 0
                  /\ \E raw \in Sent("laps") : SameNumber(raw.lap_duration, s.best_lap_time)

AtLeast(new, old) == old # None => new # None /\ new >= old
AtMost(new, old)  == old # None => new # None /\ new <= old

\* state.py:202-203: freshness never steps back, nor do lap counters and bests,
\* while events arrive late and twice.  Only a new process starts over.
NeverBackwards ==
    [][ \/ \A d \in Drivers :
             /\ AtLeast(state'.drivers[d].last_update, state.drivers[d].last_update)
             /\ AtLeast(state'.drivers[d].current_lap, state.drivers[d].current_lap)
             /\ AtMost(state'.drivers[d].best_lap_time, state.drivers[d].best_lap_time)
        \/ state' = NewSession ]_vars
=============================================================================
