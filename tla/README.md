# RaceStream in TLA+

RaceStream ingests Formula 1 timing data from OpenF1, writes it to Redpanda
topics, derives race state from it, stores it in TimescaleDB, replays stored
sessions, and pushes snapshots and events to browsers over WebSockets.  This
directory models the part of it whose correctness depends on the order of
events: who has an event when, what a committed offset means, and what a crash,
a slow database or a stop in the wrong moment does.

## The system

| Component | Code | State | Operations | Hard behaviour |
|---|---|---|---|---|
| Event consumer | `services/common/.../kafka/consumer.py` | fetch position and committed offset per partition, the batch at hand, `_stop_event`, `_resume_event`, `stats` | `start`, `stop` (15 s), `pause`, `resume`, the loop poll, decode, handle, commit | commit with no arguments, rebalance in mid-iteration, answers lost, cancellation at any await |
| Dead-letter path | `kafka/producer.py` | the producer's send buffer | `send_to_dlq`, `flush`, `stop` | delivery failures nobody sees |
| Telemetry writer | `common/.../db/writer.py` | `_buffers`, `stats.pending`, rows swapped out by each `flush` in flight, the periodic task | `add`, `flush`, `_periodic_flush`, `start`, `stop` | several flushes in flight, one table failing, cancellation while writing |
| Stream processor | `services/processor` | two consumers, one writer, one process | `start`, `_handle_batch`, `stop`, restart | two groups share the writer; commits run ahead of the database |
| Mappers | `ingestion/.../mappers.py`, `common/.../schemas` | none | one mapper per OpenF1 endpoint | nulls, NaN and infinities, readings out of range, a car parked at the origin, gaps in laps |
| Derived session state | `common/.../domain/state.py`, the lap upsert of `writer.py` | per session and driver: position, laps, sectors, bests; the lap rows | `apply_*`, `leaderboard` | redelivery and reordering, sparse versions of one lap, flushes that overtake each other |
| Replay engine | `services/replay` | task, state, speed, seek, producer | `start`, `pause`, `resume`, `seek`, `set_speed`, `stop`, `_run` | commands between the awaits of a start or a chunk |
| Live hub | `services/api/.../hub.py`, `routers/live.py` | connections with bounded queues, session states, two consumers, broadcast loops | `connect`, `enqueue`, `_send_loop`, `on_events`, broadcasts | slow clients, replies past the queue, filters changed half-way, a restart that forgets |
| Browser hook | `frontend/src/hooks/useLiveStream.ts` | a socket and the ones it replaced, a reconnect timer, the last snapshot | `connect`, `onclose`, `scheduleReconnect`, `reconnectNow`, `subscribe` | late callbacks of an old socket, effects run twice, re-subscription at every render |
| Ingestion | `services/ingestion` | session row and report, token bucket | `ingest_session`, `chunk_windows`, `RateLimiter.acquire`, `get` | an exception at any step, bursts, retries, a shorter last window, runs after runs |
| Everything else | REST queries, settings, metrics, screens, benchmark | none, or none that outlives a call | | |

How they interact: ingestion and replay produce to the topics; the processor's
two consumer groups (telemetry, timing) read them, derive lap state and hand
rows to the writer; the hub has consumers of its own that start at the latest
offset, derives the same state again and fans it out.  All of a service runs on
one asyncio event loop, so code between two awaits that can suspend is atomic;
services share only the broker and the database.

What makes each of them correct: the **consumer** commits no offset past an
entry its handler has not taken and never moves backwards; the **writer**
stores or counts every row it was given, in bounded memory; the **processor**
loses nothing without a trace, catches up after any fault, and stops when
asked; the **state** is the same whatever is delivered twice, and shows nothing
upstream did not send; the **replay** publishes a session's samples once, in
order, from one task; the **hub** waits for no client, and the newest state of a
session a client follows is sent or still to be sent; the **hook** always has a
socket or a timer that will make one, and ends up showing the newest state of
the session it selected; **ingestion** asks for everything once, within the
rate limit, and what it records about a session is true of the run that records it.

## What is modelled

| Module | Models | Read it for |
|---|---|---|
| `Topics` | partitions, records, poison, which table a record's row goes to, consumer groups | the vocabulary and the assumptions about the constants |
| `EventConsumer` | `consumer.py`, the dead-letter producer, the broker as the code uses it | one action per stretch of `_run` between two awaits, one per lifecycle call |
| `TelemetryWriter` | `writer.py` and the hypertables | `Add`, `SwapOut` (the head of `flush`), one action per table's transaction |
| `Processor` | `processor/service.py`, `main.py` | the composition, the process lifecycle, faults, `Next`, fairness and all properties |
| `EventFate` | nothing in particular: the promise | publish, take, settle, acknowledge |
| `MCProcessor` | the TLC instance | the constants the configurations use |
| `Replay` | `replay/engine.py`, and the routes of `replay/main.py` | the run's task, the calls that come in at its awaits, what a client must not do |
| `MCReplay` | its TLC instance | two runs of a recording with a chunk of one event, one of two and a gap |
| `Mappers` | `mappers.py` and the payload schemas | what a record of each endpoint becomes, and when it is rejected |
| `SessionState` | `domain/state.py`, the row of an event, the statement that writes it | `apply_*` field by field, `Upserted` |
| `SessionFeed` | the processor's path from topic to state and rows | what redelivery, restart and reordered writes do to both |
| `MCSessionFeed` | its TLC instance | seventeen upstream records |
| `RateLimiter` | the class of that name in `openf1.py` | the token bucket in integer units |
| `Ingestion` | `ingestion/service.py`, `openf1.py`, `metadata.py` | one run request by request; composes `RateLimiter` |
| `MCIngestion` | its TLC instance | |
| `LiveHub` | `hub.py`, `routers/live.py` | fanout, bounded queues, subscriptions, replies |
| `LiveStream` | `useLiveStream.ts` as `Dashboard.tsx` uses it | composes the hub with a browser and another client that never reads |
| `MCLive` | their TLC instance | |
| `ProcessorProofs`, `FateProofs`, `EventFateProofs` | | theorems of the processor and its abstract specification |
| `SessionFeedProofs`, `SettleProofs` | | theorems of the derived state and the rows |
| `ReplayProofs`, `IngestionProofs`, `LiveStreamProofs` | | theorems of the component they name |

State and code correspond as follows.

* `log`, `committed`, `dlq` are the broker and survive a crash, as does `rows`,
  the set of natural keys in the database.  Offsets count from 1: `committed[p]
  = n` says the group has committed past the first `n` entries of `p`.
* `position[p]` is aiokafka's fetch position.  `getmany` advances it (`Fetch`),
  and `commit()` without arguments commits exactly it (`Commit`,
  consumer.py:213-216).  A rebalance puts it back to the committed offset while
  the loop goes on with the batch it holds (`Rebalance`).
* `pc[g]` is where the group's `_run` task is suspended; `batch[g]` is what the
  iteration holds.  A batch that reaches the threshold makes the handler wait in
  the database (`pc[g] = "flush"`): that is the backpressure.
* `buffers`, `pending` and `inflight[t]` are the writer.  `add` and the swap at the
  head of `flush` never suspend, so buffering and swapping out are one action;
  each table's `executemany` is a transaction of its own and an action of its
  own (`WriteTable`, `WriteFails`).  Four tasks can be inside `flush`: the two
  loops, the periodic task, and `stop()` on the main task.
* `phase` is where `start()`/`stop()`/`main_async` are: producers and writer, then
  the telemetry consumer, then the timing consumer; stopped in that order, then the
  writer, then the tail flush.
* `deadLettered` and `dropped` stand for the counters and their entries;
  `vanished` is a history variable: entries whose only copy in memory was
  destroyed by a crash, a cancelled task or an undelivered dead-letter record.
* A fault or operator call spends one of `MaxFaults`, and only kinds in
  `FaultKinds` occur: `crash`, `stop` (SIGTERM), `stopTimeout` (15 s over),
  `kafkaError` (getmany or commit raises; the commit may have taken effect),
  `dlqError`, `dbError` (the transaction may have committed), `derivation`
  (one event of a batch raises), `rebalance`, `pause`.

A record stands for an event with its natural key, so a record produced twice
is the same fact ingested or replayed twice, and the second write is a no-op
(`ON CONFLICT`).

In `Replay`:

* A run is named after the `start()` call that created it, `pc[c]` is where that call or its
  task is, `task` is `self._task`.  The step named "top" is the head of the
  loop of `_run`: it is no await, so nothing else happens while a run is there
  (`Yielded`).
* A time of the session stands for the event recorded then.  `Samples` decide the
  window (`_session_window` looks at three tables), `Others` do not.  `cursor`
  is the local of that name, `chunk` what `_emit` has yet to publish.
* The replay clock and the speed only decide how long a sleep lasts: a sleep may
  end at any step, and `set_speed` has no effect the model could show.
* `pauseEvent`, `stopEvent`, `seekTo` and `producer` are shared by all runs, as in the
  code.  `Woken` is `asyncio.Event.set`: whoever waits is woken, even if the
  event is cleared again before it runs.
* `closing` and `open` keep apart the producer a `finally` is stopping, the one
  the engine has, and those that are really open.
* `Discipline` is what the clients do, not the code.  Under "stop" they await the answer
  of a `stop()` before the next `start()`, even if the replay has reported FINISHED, and
  neither start nor stop while a `start()` is unanswered; the engine's message asks
  running replays for that much ("Stop it first"), the code refuses only a start while
  LOADING or PLAYING.  Under "await" there is one client that waits for each answer
  before its next request, and asks for whatever the engine then accepts.  "none" leaves them free.
* Failures: `connect` (the producer's start, outside the try), `database` (a
  query of a chunk), `broker` (a send), `close` (the producer's stop, in the
  finally), `timeout` (the 10 s of `stop()`, which cancels the task where it is).
* `origin`, `sent`, `overrun`, `seekFor`, `strayed`, `mayStart` are history.

In `Mappers`, `SessionState` and `SessionFeed`:

* A record is what an endpoint may answer with (`IsRecord`): every field is a JSON
  value, a number, a gap in laps, null, text, NaN or an infinity.  `AsInt` and
  `AsFloat` are `_int` and `_float`; an infinity makes `_int` raise (`Breaks`), so the
  record is dropped.  Numbers are counted in tenths, so that they may have a fraction: `_int`
  drops it (`Truncated`) *before* the range is checked, so 400.9 becomes a speed of 400 and -0.5
  one of 0, and takes a number in quotes only if it has none.  A value that is neither
  a number nor a count of laps is one value per kind.
* `state` is the `SessionState` of the processor, `state.drivers[d]` a `DriverState`
  with the fields of the code.  Headlights of a lap, wind, flag and segment
  fields are left out: they are copied and nothing reads them.
* A partition is a topic and a driver (`partition key` of the envelope), or the
  session.  `position` and `committed` are those of `EventConsumer`, without its stages: here
  a group only applies the next entry, commits, rebalances.  `unstored` are the
  rows in the writer's buffers or in flight, `Store` writes any of them, since
  two flushes may commit in either order.  `rows` is what
  `ON CONFLICT DO NOTHING`, or for laps `DO UPDATE ... COALESCE`, has made.
* `ReadOnce` is the reference of `SettlesOnTheLog`: a driver's state after its three topics,
  read one after the other from `begun` to their ends by `ReadFrom`, a recursive function.
* `Restart` forgets the state, the buffers and everything read past the committed
  offset; `begun` is where the new process began.

In `RateLimiter` and `Ingestion`:

* Time is counted in ticks.  A token is `Cost` units, `Rate` units come back per tick:
  all quantities of the bucket are whole numbers.  `spent[a]` (history) is what the last
  `a` ticks took.
* `Plan` is the sequence of requests and local steps of one `ingest_session`;
  `step` is where the run is in it, `attempt` the attempt of `get()`.  `Retryable` is a
  429, 5xx or transport error and is not bounded other than by `MaxRetries`.
  `Caught` says who catches an `OpenF1Error`, and `Ends("raised")` is everything nobody
  catches.
* `published` and `errors` are the report; `row` is the session's row, written at
  two places.  `buffered` is what the producer holds: `send_many` only puts records there, they
  reach the topic or are given up later (`Settles`, then `onTopic` or `lost`), and `Flush` waits
  until nothing is left.
* `asked` (history) counts the calls of `get()` a run makes for each step of its plan.

In `LiveHub` and `LiveStream`:

* A session's derived state is the number of its events that were applied, so
  a snapshot is a session and a number.  `conn[c]` is a `Connection`: `queue` is its bounded queue,
  `held` the frame its send loop is awaiting, `task` where the handler is.
* `Reply` sends past the queue, as the code does, so an older snapshot may still
  be queued behind a newer reply.
* A message that is refused at a later field has already changed the earlier ones
  (`Subscribed`).  A channel list with an object or a list in it ends the handler (`HandlerRaises`).
* A session without events since the API started is unknown to the hub, which answers a
  subscription to it with an id and no drivers, weather or bests (`Bare`, hub.py:321-324).  The
  dashboard reads `state.weather.track_temperature` (Dashboard.tsx:185) when it renders that, and
  nothing catches the error: `Crashes` takes the page down, unless a full snapshot has replaced
  the bare one before the next publish tick.
* A socket is a number; `ref` is `socket.current`.  `up` says whether the connection
  still exists; `OnClose` is the callback, whenever it comes and of whichever
  socket.  The initial states include the effect's double run in development.
* Client 0 is another program that has sent its messages and never reads.

## Runs

The processor's runs use two partitions, one per group, two tables, one record that goes
to each, one poison record and one that has no row (session metadata), in
`MCProcessor`.

| Run | Checks | Bounds |
|---|---|---|
| `processor_safety` | type invariant, `OffsetsOrdered`, `CommitFollowsHandler`, `CommittedAccountedFor`, `MemoryBounded`, `CommittedNeverRegresses`, refinement `FateSpec` | 2 + 1 log entries, batch 2, poll 2, any 2 faults |
| `processor_liveness` | `CatchesUp`, `EverythingSettles`, `StopTerminates` | 2 + 0 log entries, any 2 faults |
| `processor_crash` | violates `CrashOnlyReplays` | 1 crash |
| `processor_stop` | violates `TailReachesDatabase` | 1 stop |
| `replay` | type invariant, `OneReplay`, `PublishesInOrder`, `FinishedIsComplete`, `PauseHolds`, `StatusIsTrue`, `StopReturns`, `ReplayEnds` | 2 starts, any 3 pauses, seeks and stops, any 1 failure, discipline "stop" |
| `replay_connect` | violates `RefusedOnlyWhileRunning` | 1 failure to connect, discipline "stop" |
| `replay_overlap` | violates `EmitHasProducer` | 2 starts, no request, no failure, discipline "await" |
| `replay_seek` | violates `SeekIsForThisRun` | 2 starts, 1 request, no failure, discipline "await" |
| `session_feed` | type invariant, `BestsAreExtremes`, `HighlightIsTrue`, `SettlesOnTheLog`, `StoredLapsKeepWhatIsKnown`, `NothingInvented`, `NeverBackwards` | any 3 events of 17 records, 2 drivers, 1 rebalance or restart |
| `ingestion` | type invariant, `WithinBucket`, `StatusIsHonest`, `NothingSkipped`, `FlagsAreTrue`, `RunEnds` | 1 bulk channel, 2 telemetry windows (a span of 4 in windows of 3), 1 retry, 2 runs, any 1 fault that is not retried |
| `live` | type invariant, `NothingForgotten`, `NeverStranded`, `BrokenByLossOnly`, `FanoutFlows`, `ShowsTheSelection` | 2 sessions, 2 sockets and 1 other client, queue of 1, 2 events in batches of up to 2, 1 loss |
| `live_quiet` | violates `QuietIsNotConnected` | 1 socket, 2 events, no loss |

*Why the bounds are enough.*  A poll of two with a threshold of two gives every
relation between a batch and the threshold: below it, on it, and past it (one
buffered, two added).  Two faults give every pair (a crash during the stop, a
lost commit answer before a rebalance, a failed table during a cancelled
flush).  A third fault at once is left to the proofs, which bound nothing.  Two
groups are all there are, and each holds its own batch while the other flushes.
For safety the theorems remove the bounds altogether; for liveness one active
group suffices, since the other never blocks it.

For the replay, two runs are what an overlap needs.  The recording has an event
on a chunk boundary, two events in one chunk, an empty chunk, and a last one that
is shorter than the span; every event is a place to start at and to seek to.
Three requests are a pause with a seek or a second pause and a stop (resuming is
free).

For the derived state, three events are what its relations need: two versions of a lap
and a lap after them, or a best, its holder and a rival; with a
rebalance each may be read twice, in the order of its partition but not across
partitions.  The records hold a lap published in two halves and corrected, a faster
second lap, an equal time of another driver, readings out of range, one of them by a fraction only, an infinity, a number in quotes, a
parked car, and the forms of a gap.  The theorems remove these bounds for all
the properties of this run.

For ingestion, two windows are a whole one and a shorter one, one retry separates a
request that recovers from one that is given up, and the second run is the one
that finds what the first left.  A single fault is enough as a run has one place to
be interrupted at; retried answers are free.  The bucket of the run holds one
token; the theorem covers every rate, cost and capacity.

For the live path, a queue of one overflows at the second frame, two sockets are
the old and the new one of a reconnect (and of a double mount), and two sessions tell a
snapshot of the wrong session from one of the right one.

*What the passing runs show.*  In the processor the order of offsets and the rule "handled before
committed" survive rebalances, lost answers and restarts.  No entry below a
committed offset is unaccounted for.  Memory stays below one batch per task plus
one poll.  A failed commit, a poison record, a raising poll or a failed
write never stalls a partition; rows never sit in the buffers for ever; a
stop ends, also with a consumer paused.

Clients that keep to the discipline "stop" get from the replay what it promises: one run
at a time, although `finally` is still closing the last producer when the state
is already FINISHED or STOPPED; every event once and in order through chunks, gaps, pauses
and seeks; a pause that lets at most one more event through; a status that is true of
the task unless it raised; an answer to every `stop()`.  The last sample of a session is never
replayed (its window ends there and every query excludes its end), so
`FinishedIsComplete` counts up to the end, excluded.  A pause does not
hold a run that is in a gap, and such a run may report FINISHED while `_pause` is
still cleared.

The derived state survives at-least-once delivery: bests and lap counters are the
extremes of what was applied, the highlight is the last lap's, the line of a
driver settles on what reading every event once *since this process began* would give
(`SettlesOnTheLog`), and every number shown is the whole part (times and gaps: all) of one
that upstream sent, within the limits of its field; only "LAP" without a number is taken for one lap.  A lap row keeps what any written
version of it knew, in whatever order the versions are written.  The sectors are
the exception: an older lap that is read again after a newer one replaces
`current_sectors` (state.py:163-179), so `Displayed` leaves them out.

A run of ingestion makes each of its requests once, or names the windows it left out.  Two
windows meet in an instant that both send as their limit (`date>`, `date<`): with closed limits
it is asked for by both, every other instant of the padded session by one.  A run ends whatever upstream
answers; its status is true of what was fetched, and it records flags only of channels whose
records have left the producer.  `--max-windows` makes the rest of a session no request of the run,
so a truncated session is marked complete.  A run that is interrupted by what nobody
catches leaves `running` in the row until the next one.
`WithinBucket` is the bound the bucket really gives, a full bucket plus what came back.
With the settings of the code (2.5 tokens per second, capacity 2) that allows four
requests within 0.8 s, more than the 3 per second OpenF1 publishes, although
openf1.py:44-45 calls it "slightly under the published limit".

The fanout goes on whatever a client does.  A frame a slow client loses is made up for by
the next tick, or a newer one is queued already.  However sockets, replies and
restarts overlap, the page has a socket or a timer and, once the stream rests,
shows the newest state of its session, or it was taken down by a bare answer; that
happens only if the hub has lost events in a restart (`BrokenByLossOnly`).  That a snapshot never goes
backwards is *not* so: a reply overtakes the queue, and the older frame is sent
after it; the state shown is then repaired by the next answer, as every render subscribes again.

Two precisions came out of the runs.  A commit that fails is not tried again
before the next non-empty poll, so `CatchesUp` is about the position, not the
committed offset.  And an entry may be stored without ever being committed, so
a restart reads it again: at-least-once, made harmless by the natural keys.

*The violations* are statements of the documentation that the code does not
keep.

* `CrashOnlyReplays` (consumer.py:3-4: "Offsets are committed only after a batch
  has been durably handled, so a crash replays the tail of the log").  The
  handler returns when rows are buffered; a crash before the next flush
  loses rows that are already committed.
* `TailReachesDatabase` (service.py:123: "so the tail of a session is not lost").
  `writer.stop()` cancels the periodic task wherever it is.  If it was awaiting
  the database, the rows it had swapped out are in no buffer when the final
  `flush()` runs.
* `RefusedOnlyWhileRunning` (engine.py:279: "is already running. Stop it
  first.").  `_run` awaits the producer's start before its `try`; if that raises
  the state stays LOADING with no task alive, and `stop()` raises the task's
  exception instead of resetting it.
* `EmitHasProducer` (engine.py:489: "assert self._producer is not None").  A run reports
  FINISHED, awaits the stop of its producer and then clears `self._producer`.  A client that
  starts the next replay once it sees FINISHED gets in between: the old run clears the new
  one's producer, and the new one fails at its next sample.  Without any discipline two starts that both
  pass the check, or one while PAUSED, violate `OneReplay` and `EmitHasProducer` as well.
* `SeekIsForThisRun` (engine.py:347: "Takes effect at the next chunk boundary").
  `_seek_to` is never reset, so a seek asked of a replay that has finished moves the next one.
* `QuietIsNotConnected` (useLiveStream.ts:10-11: "An open socket delivering nothing
  is not "live"").  The dashboard passes a new `channels` array at every
  render, the effect subscribes again, and every answer counts as an event: the page
  does not settle on "stale" on a stream that has stopped.

*Disagreements without a run.*  These are in the models, and no run states what the code does not do.

* state.py:26-30 says that state is rebuilt from the stream after a restart and nothing is lost.
  `StreamProcessor._session_state` (service.py:199-206) starts from an empty state and the group
  goes on from its committed offsets: bests, highlights and counters of before are gone (`Restart`,
  `begun`).  All properties of `SessionFeed` are relative to what the process has read.
* 001_schema.sql:37-38 wants the `has_*` flags so that the page can say "telemetry unavailable" from
  fact.  `record_availability` writes those of the last run: a second run with `--skip-telemetry`, or
  one whose channel was refused, sets FALSE although an earlier run's events are on the topic.
* hub.py:321-324 and Dashboard.tsx:185: a page that reconnects to a restarted API before its session's
  next event is taken down by the answer (`Crashes`).
* mappers.py:104-105: "A value outside physical limits is not a measurement, so it becomes `None`".  `_int`
  (mappers.py:69-80) comes first, so one that exceeds a limit by a fraction becomes a plausible reading.
* openf1.py:271-272, 289-290 with 309-329: if upstream reads the limits of a window strictly, an event
  on an instant where two windows meet is fetched by neither.

## Fairness

Weak fairness of each consumer's task, the periodic task, the main task, the
dead-letter producer's sender and the restart.  asyncio runs every task whose
await has completed; an await on the broker or the database completes or raises
(both have timeouts), which is a fault and bounded; Compose restarts the container
(`restart: unless-stopped`).  Nothing obliges anyone to call `resume()`, so the
two progress properties assume `NotLeftPaused`.  `StopTerminates` does not: `stop()`
itself sets the resume event.  No strong fairness is used.

For the replay, weak fairness of each run's task and of the call that waits in
`stop()`; sleeps end, and queries and sends answer or raise.  Requests, and
the timeout that would rescue a stop, are not relied on.  `ReplayEnds`
assumes the replay is not left paused.

For ingestion, weak fairness of the task and of the clock.  A request answers, fails or
times out (httpx has a timeout), and nobody is obliged to start a run.

For the live path, weak fairness of the broadcast tick, of each socket's sender,
handler and callbacks (the page's event loop and the server's), of the reconnect
timer and the staleness timer, and of re-rendering once there is something that
changes at every render: a session is selected or the age of the last event is
displayed.  The other program is under no fairness at all, its sender included: it never
reads, which is what `FanoutFlows` is about.  Connections break and users leave at most as often as
`MaxLosses` and the sockets allow.

## Proofs

TLAPS proves the following for every value of the constants, the bounds of the model included.

**Processor**, for every set of partitions, records and tables, every batch and
poll size, every bound on the log and any number of faults, from the assumptions
named in `Topics`, `EventConsumer` and `TelemetryWriter` (finitely many
partitions; poison has no row; sizes are positive).

* `TypeCorrect`: `Spec => []TypeOK`.  That `pending` stays a natural number needs
  that what is counted is finite, so the inductive form is `TypeInv = TypeOK /\
  Finite`.
* `StagesHold`: `StageInv`, what each stage of a loop and of `stop()` may hold.
  An idle task has nothing in flight (so a swap overwrites nothing), a batch is
  empty outside decode and handle, nothing poisonous reaches the handler, the
  loops are gone when the writer stops, and nothing is buffered during the tail
  flush.
* `OffsetsStayOrdered`, `CommitsFollowHandler`, `CommitsNeverRegress`, from
  `OffsetInv`: a batch consists of log entries of its group's partitions above
  the committed offset.  A rebalance keeps it, which is why the batch is compared with the
  committed offset and not with the position.
* `CommittedEntriesAccountedFor`, from `AccountInv`.  `CommittedAccountedFor` is not
  inductive: a commit jumps to the position, so one must know that everything
  below the *position* of a running loop is accounted for or in its batch.
  The argument is then: once accounted for, always accounted for (`Kept`, one lemma
  per way memory changes), and a step takes from a batch only what it accounts for
  (`AccountFrame`).
* `MemoryStaysBounded`, from `MemoryInv`: a batch is at most one poll.
* `ImplementsFate`: `Spec => FateSpec`, by one lemma per way a step is seen through
  the mapping; the acknowledging step is where `AccountInv` is used.
  `FateAccounted` gives the promise of the abstract specification itself.

**Replay** (`ReplayProofs`), for every recording with at least one sample, every
chunk span, any number of calls, requests and failures, from `ReplayAssumption`.

* `ReplayTypeCorrect`.  That positions are times needs that the window exists: a finite
  set of numbers has a least and a greatest element (`ExtremesExist`, by a
  well-founded order on its subsets).
* `HeldWhilePaused` (`PauseHolds`), from `HeldInv`: a run about to publish has published nothing since the
  pause.  It needs no discipline of the clients.
* `InOrderAlways` (`PublishesInOrder`), from `OrderInv`: what a run has sent is the recording
  up to its cursor, and inside a chunk that plus the chunk's earlier part.  The
  exception is a run at the loop head after an interrupted `_emit`, whose
  cursor has jumped; there the stop flag is still up, because only `start()` lowers it
  and the loop head is no await.  No discipline either.
* Under the discipline "stop": `OneAtATime` (`OneReplay`), from `AloneInv`: a run whose task lives is
  `self._task`, and a call of `start()` that awaits its queries is the only one and
  has no `stop()` beside it.  `StatusStaysTrue`, from
  `StatusInv`, which says for each place of the task what the status is.
  `FinishedMeansComplete`, from all of them: FINISHED
  is only set at the loop head with the stop flag down.
* `ProducerIsOwn`, from `OwnInv`, under any discipline: `Spec /\ []OneReplay => []EmitHasProducer`.
  What violates `EmitHasProducer` in `replay_overlap` is a second run, and nothing else can.

**Derived state** (`SessionFeedProofs`), for every set of drivers and of records that
`IsRecord` admits, any number of events and redeliveries.

* `FeedTypeCorrect`: the mappers only produce events of the schemas' types (`MappedType`),
  and `apply` keeps the state's (`ApplyType`).
* `NeverStepsBack` (`NeverBackwards`) from the types: every update of those fields is a `Highest` or a `Lowest`.
* `BestsStayExtremes` from `Fits(st, E)`: state `st` has the extremes of the set of events
  `E`.  `ApplyFits` shows that applying `e` makes it fit `E \union {e}`, also if `e` was
  in `E`, which is what makes redelivery harmless.
* `HighlightStaysTrue` from `Highlighted`, lap by lap.
* `StoredLapsStayKnown` from `RowsInv`: `COALESCE` never turns a value into null (`Coalesces`).
* `SettlesOnce` (`SettlesOnTheLog`, in `SettleProofs`), from `SettleInv`: each driver's state is what
  *some* reading of its three topics shows (`Shows`), one that began at `begun`, reached an offset
  `h`, and has since read up to `position` again.  `Shows` is not a value but a relation, since
  a state half-way through a second reading is no state of a single one.  A field that is
  overwritten holds what an entry up to `h` gave it that nothing read later overwrites (`LastGiven`);
  the best lap and its number are the first fastest lap up to `h` (`BestAt`);
  the highlight is that of the last timed lap, set against the best of some entries up to `h`, at
  least those before that lap (`MarkAt`); sectors, lap counter and freshness are extremes.  It
  survives the next entry, a rebalance, a longer log and a restart, `ReadOnce` shows it by induction
  along the log (`EntryByEntry`, `ShowsRead`), and once everything has been read only one line can be
  shown (`ShowsOne`).  `MarkAgain` is the step that needs the tie of `IsPersonalBest`: the lap that holds the
  best, read again, gets the mark it had.
* `NothingIsInvented` (`NothingInvented`), from `SettleInv` and `FromUpstream` (every entry of the log is what a
  record was mapped to): what a field holds, an entry gave it, and what the entry says,
  its record says (`MappedSays`), as the whole part of its number (`ReadAsIs`) or for "LAP" as one lap
  (`LapsDownIs`).

**Ingestion** (`IngestionProofs`), for every session span, window size, list of bulk
channels, number of retries, runs and faults, and every bucket.

* `BucketHolds` (`WithinBucket`), from `BucketInv`: what was spent in the last `a` ticks
  and what the bucket holds now sum to at most `Capacity + Rate * a`.
* `FlagsStayTrue`, from `FlagsInv`: what is in the report is buffered or settled, what is settled is on the
  topic or lost, and past the flush nothing is buffered.
* `StatusStaysHonest`, from `HonestInv`: as long as there is no error, every request before the
  current step was answered (`Gathered`).  `PlanShape` says where in the plan the
  recording step is.
* `IngestionTypeCorrect` (`TypeOK`), from `TaskTypeOK`, the layout of the plan and
  the bucket's bounds.
* `ChunksMeet`: an instant of the span lies in one window of `chunk_windows`, or is the limit of two
  adjacent ones.
* `EveryInstantAsked` (`NothingSkipped`), if `max_windows` cuts no window off: with
  `AskedInv`, every step before the current one was asked for once or the gap is reported, and
  `PlanLayout` says which steps are the windows of `ChunksMeet`.  Without the
  hypothesis it is false: `--max-windows` drops the rest of the session and reports nothing.

**Hub and browser** (`LiveStreamProofs`), for any sessions, clients, channels, queue and batch sizes,
whatever the other clients send, any number of sockets, events and losses.

* `NeverLeftStranded` (`NeverStranded`), from `HookInv`.
* `LiveTypeCorrect` (`TypeOK`), from `LiveInv`.  That a queue keeps its bound through a fanout is an induction
  over what the fanout offers (`OneByOne`, `StepsBounded`).
* `NothingIsForgotten` (`NothingForgotten`), from `ForgetInv`: a client that was told an older state of its
  session finds the newest one in its queue or in its sender's hands, or the session is
  dirty.  The last frame a fanout offers is never the one the bounded queue drops
  (`LastOfferStays`), and a connection that follows no session is owed nothing (`FollowsNone`), which is
  what a new subscription starts from.

Induction over the log and over what a fanout offers uses least elements: the induction
theorems of the library take an operator as parameter, which the provers do not instantiate, but
a set of numbers with 0 and with the successor of each of its members has them all
(`UpTo`, from the well-foundedness of `<`).

Only model-checked: everything under fairness (`CatchesUp`, `EverythingSettles`, `StopTerminates`,
`StopReturns`, `ReplayEnds`, `RunEnds`, `FanoutFlows`, `ShowsTheSelection`), as TLAPS has no practical support for
`ENABLED`; the violations; and `BrokenByLossOnly`, whose sum over all sessions is a fold.  Every other invariant
and every action property of the passing runs is a theorem.

## Not modelled, and why

* The pacing of the replay (absolute schedule, speed), and its progress figures.
* Retention: a partition whose committed offset has expired restarts at the earliest one.
* More than one processor instance: `--scale` also splits `timing.v1` over the
  instances, although README.md:198-200 of the repository wants one instance for the
  session-wide aggregation.
* A raising handler: the processor's handler catches everything, and what the
  hub's does is total on decoded events.
* A single bad row fails its table's whole transaction, and the code drops that
  table's part of the batch: `WriteFails` has exactly that granularity.
* Sampled latency rows, lag refresh, metrics and logging: read or write nothing
  a property is about.
* `leaderboard()`, which sorts what is there; the fields of the state that are only
  copied (above).
* Of the protocol, `hello`, `subscribed`, `pong` and `error` frames, which carry no
  state the properties need, and the ping timer.  hub.py:25-26 says a slow client is told how many
  frames it missed; only the statistics endpoint shows that number.
* In the hook, the error state, the decoding of a frame, the list of race-control
  messages and the driver filter, which no caller uses.  `useHealth.ts` polls and keeps no protocol state.
* The limiter's lock and the client's semaphore: requests of a run are sequential,
  so neither is ever contended.
* Consumer groups of the hub: they start at the latest offset and appear as the
  batches they hand over; their loop is the one of `EventConsumer`.
* REST queries, settings, start-up, screens and the benchmark are stateless,
  presentation or measurement.

## Plan

The order was: the processor with its theorems; the replay; the mappers, the
derived state and its feed; ingestion and the limiter; the hub and the browser;
then the theorems of each.  What a further step could add:

1. Several processor instances over one group, to say what `--scale` does to the
   session-wide bests.
2. The replay's clock, to bound how late a sample is published after a pause or
   a change of speed.
3. Ranking arguments for the progress properties: that each fair step of a stop or of a
   run lowers a measure, which is the part of them that needs no `ENABLED`.
