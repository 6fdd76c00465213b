-------------------------------- MODULE Replay --------------------------------
(***************************************************************************)
(* services/replay: the ReplayEngine.  start() awaits its queries and then *)
(* creates a _run task; pause, resume, seek and stop come in at any await  *)
(* of that task, which loads a window of rows, paces and publishes them.   *)
(*                                                                         *)
(* A time of the session stands for the one event recorded at that time;   *)
(* the replay clock and its speeds only decide how long a sleep is, so a   *)
(* sleep may end at any step.  A run is named after the start() call that  *)
(* created it.                                                             *)
(***************************************************************************)
EXTENDS Naturals, Sequences, FiniteSets

CONSTANTS
    Calls,        \* start() calls, each the name of the run it creates
    NoRun,        \* None
    Samples,      \* times of the rows of car_telemetry, positions and timing
    Others,       \* times of the rows of laps, weather and race_control_events
    Span,         \* chunk_span
    MaxRequests,  \* bound of the model: pause, seek and stop requests
    FaultKinds,   \* kinds of failures that may happen
    MaxFaults,    \* bound of the model: how many of them a behaviour has
    Discipline    \* what the clients do, see below

Events == Samples \union Others

ASSUME ReplayAssumption ==
    /\ NoRun \notin Calls
    /\ Samples \subseteq Nat /\ Others \subseteq Nat
    /\ IsFiniteSet(Samples) /\ Samples # {}
    /\ Span \in Nat \ {0}
    /\ MaxRequests \in Nat /\ MaxFaults \in Nat
    /\ Discipline \in {"none", "await", "stop"}

VARIABLES
    state,        \* status.state
    task,         \* self._task
    pauseEvent,   \* self._pause is set, that is, not paused
    stopEvent,    \* self._stop is set
    seekTo,       \* self._seek_to, as a set of at most one time
    producer,     \* self._producer, named after the run that created it
    open,         \* producers that have been started and not stopped
    pc,           \* run -> where its start() call or its task is
    cursor,       \* run -> the replay position, at a chunk boundary
    chunk,        \* run -> loaded events not yet published
    closing,      \* run -> the producer its finally is stopping
    stopping,     \* runs a stop() call is waiting for
    origin,       \* history, run -> where it started or was last moved to
    sent,         \* history, run -> events published since then
    overrun,      \* history, run -> events published since the last pause
    seekFor,      \* history: the run the pending seek was requested on
    strayed,      \* history: runs that took a seek asked of another run
    mayStart,     \* history: nothing was started since the last stop() answered
    requests,     \* how many requests there have been
    faults        \* how many failures there have been

runVars     == <<pc, cursor, chunk, closing>>
engineVars  == <<state, task, pauseEvent, stopEvent, seekTo, producer, open>>
historyVars == <<origin, sent, overrun, seekFor, strayed, mayStart>>
budgetVars  == <<requests, faults>>
vars == <<engineVars, runVars, stopping, historyVars, budgetVars>>

States == {"idle", "loading", "playing", "paused", "finished", "stopped", "failed"}

\* "query" is start() awaiting the window, "created" a task not yet run, "starting"
\* awaits the producer, "top" is the loop head, "load" awaits the rows, "gap"
\* sleeps through an empty chunk, "emit" is the head of _emit's loop, "blocked"
\* waits for resume, "pace" sleeps before it publishes, "close" is in finally,
\* "raised" ended with an exception outside the try.
Steps == {"new", "query", "created", "starting", "top", "load", "gap", "emit", "blocked",
          "pace", "close", "done", "raised"}
Over  == {"new", "query", "done", "raised"}

\* The runs whose task has not ended.
Alive == {c \in Calls : pc[c] \notin Over}

\* The window: first and last row of the three sampled tables.
First == CHOOSE t \in Samples : \A u \in Samples : t <= u
Last  == CHOOSE t \in Samples : \A u \in Samples : u <= t

TypeOK ==
    /\ state \in States
    /\ task \in Calls \union {NoRun}
    /\ pauseEvent \in BOOLEAN
    /\ stopEvent \in BOOLEAN
    /\ seekTo \subseteq Nat
    /\ producer \in Calls \union {NoRun}
    /\ open \subseteq Calls
    /\ pc \in [Calls -> Steps]
    /\ cursor \in [Calls -> Nat]
    /\ chunk \in [Calls -> SUBSET Events]
    /\ closing \in [Calls -> Calls \union {NoRun}]
    /\ stopping \subseteq Calls
    /\ origin \in [Calls -> Nat]
    /\ sent \in [Calls -> Seq(Events)]
    /\ overrun \in [Calls -> Nat]
    /\ seekFor \in Calls \union {NoRun}
    /\ strayed \subseteq Calls
    /\ mayStart \in BOOLEAN
    /\ requests \in 0..MaxRequests
    /\ faults \in 0..MaxFaults

Init ==
    /\ state = "idle"
    /\ task = NoRun
    /\ pauseEvent = TRUE
    /\ stopEvent = FALSE
    /\ seekTo = {}
    /\ producer = NoRun
    /\ open = {}
    /\ pc = [c \in Calls |-> "new"]
    /\ cursor = [c \in Calls |-> 0]
    /\ chunk = [c \in Calls |-> {}]
    /\ closing = [c \in Calls |-> NoRun]
    /\ stopping = {}
    /\ origin = [c \in Calls |-> 0]
    /\ sent = [c \in Calls |-> <<>>]
    /\ overrun = [c \in Calls |-> 0]
    /\ seekFor = NoRun
    /\ strayed = {}
    /\ mayStart = TRUE
    /\ requests = 0
    /\ faults = 0

\* The clients: "none" lets them ask at any time; "await" is one client that asks
\* once its last start() or stop() has been answered; under "stop" starts and stops
\* wait for each other, and nobody starts again before a stop() has answered.
StartPending == \E d \in Calls : pc[d] = "query"
MayStart     == /\ Discipline # "none" => stopping = {} /\ ~ StartPending
                /\ Discipline = "stop" => mayStart
MayStop      == Discipline # "none" => ~ StartPending
MayAsk       == Discipline = "await" => stopping = {} /\ ~ StartPending

\* A client asks for something.
Request == requests < MaxRequests /\ requests' = requests + 1

\* A failure of kind k happens.
Fault(k) == k \in FaultKinds /\ faults < MaxFaults /\ faults' = faults + 1

GoTo(c, step) == pc' = [pc EXCEPT ![c] = step]

\* pc once _pause is set: every task that waits for it is woken.
Woken(p) == [c \in Calls |-> IF p[c] = "blocked" THEN "pace" ELSE p[c]]

-----------------------------------------------------------------------------
(* start() *)

StartCalled(c) ==
    /\ pc[c] = "new"
    /\ state \notin {"playing", "loading"}
    /\ MayStart
    /\ GoTo(c, "query")
    /\ UNCHANGED <<engineVars, cursor, chunk, closing, stopping, historyVars, budgetVars>>

\* The session is not in the database: LookupError.
NoSuchSession(c) ==
    /\ pc[c] = "query"
    /\ GoTo(c, "done")
    /\ UNCHANGED <<engineVars, cursor, chunk, closing, stopping, historyVars, budgetVars>>

\* Mutant: no default for start_at, which is then None.
StartsAnywhere(c) ==
    /\ pc[c] = "query"
    /\ cursor' = [cursor EXCEPT ![c] = NoRun]
    /\ state' = "loading"
    /\ stopEvent' = FALSE
    /\ pauseEvent' = TRUE
    /\ task' = c
    /\ pc' = [Woken(pc) EXCEPT ![c] = "created"]
    /\ mayStart' = FALSE
    /\ UNCHANGED <<seekTo, producer, open, chunk, closing, stopping, origin, sent, overrun,
                   seekFor, strayed, budgetVars>>

\* The queries have answered.  start_at and from_lap name any time.
StartContinues(c) ==
    /\ pc[c] = "query"
    /\ \E at \in {First} \union Events :
          /\ cursor' = [cursor EXCEPT ![c] = at]
          /\ origin' = [origin EXCEPT ![c] = at]
    /\ state' = "loading"
    /\ stopEvent' = FALSE
    /\ pauseEvent' = TRUE
    /\ task' = c
    /\ pc' = [Woken(pc) EXCEPT ![c] = "created"]
    /\ mayStart' = FALSE
    /\ UNCHANGED <<seekTo, producer, open, chunk, closing, stopping, sent, overrun, seekFor,
                   strayed, budgetVars>>

-----------------------------------------------------------------------------
(* Requests *)

Pause ==
    /\ MayAsk
    /\ state = "playing"
    /\ Request
    /\ state' = "paused"
    /\ pauseEvent' = FALSE
    /\ overrun' = [c \in Calls |-> 0]
    /\ UNCHANGED <<task, stopEvent, seekTo, producer, open, runVars, stopping, origin, sent,
                   seekFor, strayed, mayStart, faults>>

Resume ==
    /\ MayAsk
    /\ state = "paused"
    /\ state' = "playing"
    /\ pauseEvent' = TRUE
    /\ pc' = Woken(pc)
    /\ UNCHANGED <<task, stopEvent, seekTo, producer, open, cursor, chunk, closing, stopping,
                   historyVars, budgetVars>>

Seek(to) ==
    /\ MayAsk
    /\ state # "idle"
    /\ Request
    /\ seekTo' = {to}
    /\ seekFor' = task
    /\ UNCHANGED <<state, task, pauseEvent, stopEvent, producer, open, runVars, stopping,
                   origin, sent, overrun, strayed, mayStart, faults>>

Settled(s) == IF s \in {"finished", "failed"} THEN s ELSE "stopped"

\* Mutant: stop() leaves a paused task asleep.
StopUnheard ==
    /\ Request
    /\ MayStop
    /\ task # NoRun
    /\ stopEvent' = TRUE
    /\ stopping' = stopping \union {task}
    /\ UNCHANGED <<state, task, pauseEvent, seekTo, producer, open, runVars, historyVars, faults>>

\* Mutant: stop() does not wait for the task.
StopAtOnce ==
    /\ Request
    /\ MayStop
    /\ stopEvent' = TRUE
    /\ pauseEvent' = TRUE
    /\ pc' = Woken(pc)
    /\ task' = NoRun
    /\ state' = Settled(state)
    /\ mayStart' = TRUE
    /\ UNCHANGED <<seekTo, producer, open, cursor, chunk, closing, stopping, origin, sent,
                   overrun, seekFor, strayed, faults>>

\* stop() up to its wait.  The exception of a task that raised comes out of the
\* wait and ends the call there.
Stop ==
    /\ Request
    /\ MayStop
    /\ stopEvent' = TRUE
    /\ pauseEvent' = TRUE
    /\ pc' = Woken(pc)
    /\ \/ /\ task = NoRun
          /\ state' = Settled(state)
          /\ mayStart' = TRUE
          /\ UNCHANGED stopping
       \/ /\ task # NoRun
          /\ pc[task] # "raised"
          /\ stopping' = stopping \union {task}
          /\ UNCHANGED <<state, mayStart>>
       \/ /\ task # NoRun
          /\ pc[task] = "raised"
          /\ UNCHANGED <<state, stopping, mayStart>>
    /\ UNCHANGED <<task, seekTo, producer, open, cursor, chunk, closing, origin, sent, overrun,
                   seekFor, strayed, faults>>

StopAnswers(c) ==
    /\ c \in stopping
    /\ pc[c] = "done"
    /\ stopping' = stopping \ {c}
    /\ task' = NoRun
    /\ state' = Settled(state)
    /\ mayStart' = TRUE
    /\ UNCHANGED <<pauseEvent, stopEvent, seekTo, producer, open, runVars, origin, sent,
                   overrun, seekFor, strayed, budgetVars>>

\* The task raised while stop() waited for it: the call fails.
StopRaises(c) ==
    /\ c \in stopping
    /\ pc[c] = "raised"
    /\ stopping' = stopping \ {c}
    /\ UNCHANGED <<engineVars, runVars, historyVars, budgetVars>>

-----------------------------------------------------------------------------
(* _run *)

\* The finally clause: stop whatever producer the engine has.
Finally(c) ==
    /\ closing' = [closing EXCEPT ![c] = producer]
    /\ GoTo(c, IF producer = NoRun THEN "done" ELSE "close")

\* Mutant: an exception in the try block leaves the status alone.
FailQuietly(c) ==
    /\ Finally(c)
    /\ UNCHANGED <<state, task, pauseEvent, stopEvent, seekTo, producer, open, cursor, chunk,
                   stopping, historyVars, requests>>

\* An exception in the try block.
Fail(c) ==
    /\ state' = "failed"
    /\ Finally(c)
    /\ UNCHANGED <<task, pauseEvent, stopEvent, seekTo, producer, open, cursor, chunk,
                   stopping, historyVars, requests>>

\* The task runs up to awaiting the producer's start.
RunBegins(c) ==
    /\ pc[c] = "created"
    /\ producer' = c
    /\ GoTo(c, "starting")
    /\ UNCHANGED <<state, task, pauseEvent, stopEvent, seekTo, open, cursor, chunk, closing,
                   stopping, historyVars, budgetVars>>

ProducerStarted(c) ==
    /\ pc[c] = "starting"
    /\ open' = open \union {c}
    /\ state' = "playing"
    /\ GoTo(c, "top")
    /\ UNCHANGED <<task, pauseEvent, stopEvent, seekTo, producer, cursor, chunk, closing,
                   stopping, historyVars, budgetVars>>

\* The broker is down.  This await is before the try.
ProducerFails(c) ==
    /\ pc[c] = "starting"
    /\ Fault("connect")
    /\ GoTo(c, "raised")
    /\ UNCHANGED <<engineVars, cursor, chunk, closing, stopping, historyVars, requests>>

\* Mutant: the end of the loop is taken for the end of the recording.
LoopFinishes(c) ==
    /\ pc[c] = "top"
    /\ cursor[c] >= Last \/ stopEvent
    /\ state' = "finished"
    /\ Finally(c)
    /\ UNCHANGED <<task, pauseEvent, stopEvent, seekTo, producer, open, cursor, chunk,
                   stopping, historyVars, budgetVars>>

\* The loop condition is false.
LoopEnds(c) ==
    /\ pc[c] = "top"
    /\ cursor[c] >= Last \/ stopEvent
    /\ state' = IF stopEvent THEN "stopped" ELSE "finished"
    /\ Finally(c)
    /\ UNCHANGED <<task, pauseEvent, stopEvent, seekTo, producer, open, cursor, chunk,
                   stopping, historyVars, budgetVars>>

\* The loop goes on.
Looping(c) == pc[c] = "top" /\ cursor[c] < Last /\ ~ stopEvent

SeekTaken(c) ==
    /\ Looping(c)
    /\ \E to \in seekTo :
          /\ cursor' = [cursor EXCEPT ![c] = to]
          /\ origin' = [origin EXCEPT ![c] = to]
    /\ seekTo' = {}
    /\ sent' = [sent EXCEPT ![c] = <<>>]
    /\ strayed' = IF seekFor \in {c, NoRun} THEN strayed ELSE strayed \union {c}
    /\ UNCHANGED <<state, task, pauseEvent, stopEvent, producer, open, pc, chunk, closing,
                   stopping, overrun, seekFor, mayStart, budgetVars>>

BeginLoad(c) ==
    /\ Looping(c)
    /\ seekTo = {}
    /\ GoTo(c, "load")
    /\ UNCHANGED <<engineVars, cursor, chunk, closing, stopping, historyVars, budgetVars>>

ChunkEnd(c) == IF cursor[c] + Span < Last THEN cursor[c] + Span ELSE Last

\* Mutant: the queries include the end of their window.
RowsUpTo(c) == {e \in Events : cursor[c] <= e /\ e <= ChunkEnd(c)}

\* The rows of one window of the replay, of every table.
Rows(c) == {e \in Events : cursor[c] <= e /\ e < ChunkEnd(c)}

Loaded(c) ==
    /\ pc[c] = "load"
    /\ \/ /\ Rows(c) = {}
          /\ GoTo(c, "gap")
       \/ /\ Rows(c) # {}
          /\ producer # NoRun
          /\ GoTo(c, "emit")
    /\ chunk' = [chunk EXCEPT ![c] = Rows(c)]
    /\ UNCHANGED <<engineVars, cursor, closing, stopping, historyVars, budgetVars>>

\* The query fails, or _emit's assertion does.
LoadFails(c) ==
    /\ pc[c] = "load"
    /\ \/ Fault("database")
       \/ Rows(c) # {} /\ producer = NoRun /\ UNCHANGED faults
    /\ Fail(c)

\* The cursor moves to the end of the chunk, after a gap or after _emit.
Advance(c) ==
    /\ cursor' = [cursor EXCEPT ![c] = ChunkEnd(c)]
    /\ chunk' = [chunk EXCEPT ![c] = {}]
    /\ GoTo(c, "top")
    /\ UNCHANGED <<engineVars, closing, stopping, historyVars, budgetVars>>

\* Mutant: a gap does not move the cursor.
GapRepeats(c) ==
    /\ pc[c] = "gap"
    /\ GoTo(c, "top")
    /\ UNCHANGED <<engineVars, cursor, chunk, closing, stopping, historyVars, budgetVars>>

GapEnds(c) == pc[c] = "gap" /\ Advance(c)

\* _emit returns at the end of the chunk, or on stop with events left.
EmitReturns(c) ==
    /\ pc[c] = "emit"
    /\ chunk[c] = {} \/ stopEvent
    /\ Advance(c)

Block(c) ==
    /\ pc[c] = "emit"
    /\ chunk[c] # {} /\ ~ stopEvent /\ ~ pauseEvent
    /\ GoTo(c, "blocked")
    /\ UNCHANGED <<engineVars, cursor, chunk, closing, stopping, historyVars, budgetVars>>

\* Mutant: the pause is not looked at between two events.
PaceOn(c) ==
    /\ pc[c] = "emit"
    /\ chunk[c] # {} /\ ~ stopEvent
    /\ GoTo(c, "pace")
    /\ UNCHANGED <<engineVars, cursor, chunk, closing, stopping, historyVars, budgetVars>>

Pace(c) ==
    /\ pc[c] = "emit"
    /\ chunk[c] # {} /\ ~ stopEvent /\ pauseEvent
    /\ GoTo(c, "pace")
    /\ UNCHANGED <<engineVars, cursor, chunk, closing, stopping, historyVars, budgetVars>>

\* The sleep is over, and the next event goes to the engine's producer.
Publish(c) ==
    /\ pc[c] = "pace"
    /\ producer \in open
    /\ \E e \in chunk[c] :
          /\ \A f \in chunk[c] : e <= f
          /\ chunk' = [chunk EXCEPT ![c] = @ \ {e}]
          /\ sent' = [sent EXCEPT ![c] = Append(@, e)]
    /\ overrun' = [overrun EXCEPT ![c] = IF pauseEvent THEN 0 ELSE @ + 1]
    /\ GoTo(c, "emit")
    /\ UNCHANGED <<engineVars, cursor, closing, stopping, origin, seekFor, strayed, mayStart,
                   budgetVars>>

\* send() raises: the broker refuses, or the producer is gone or not started.
PublishFails(c) ==
    /\ pc[c] = "pace"
    /\ \/ producer \in open /\ Fault("broker")
       \/ producer \notin open /\ UNCHANGED faults
    /\ Fail(c)

\* The finally clause ends.
Closed(c) ==
    /\ pc[c] = "close"
    /\ open' = open \ {closing[c]}
    /\ producer' = NoRun
    /\ GoTo(c, "done")
    /\ UNCHANGED <<state, task, pauseEvent, stopEvent, seekTo, cursor, chunk, closing,
                   stopping, historyVars, budgetVars>>

\* The producer cannot be stopped, and the exception leaves the task.
CloseFails(c) ==
    /\ pc[c] = "close"
    /\ Fault("close")
    /\ GoTo(c, "raised")
    /\ UNCHANGED <<engineVars, cursor, chunk, closing, stopping, historyVars, requests>>

\* stop() has waited 10 s: the task is cancelled at the await it is in.
Cancelled(c) ==
    /\ c \in stopping
    /\ Fault("timeout")
    /\ \/ /\ pc[c] \in {"load", "gap", "emit", "blocked", "pace"}
          /\ state' = "stopped"
          /\ Finally(c)
       \/ /\ pc[c] \in {"starting", "close"}
          /\ GoTo(c, "done")
          /\ UNCHANGED <<state, closing>>
    /\ UNCHANGED <<task, pauseEvent, stopEvent, seekTo, producer, open, cursor, chunk,
                   stopping, historyVars, requests>>

-----------------------------------------------------------------------------

\* A task owns the event loop until its next await, and "top" is not one.
Yielded(others) == \A c \in others : pc[c] # "top"

RunStep(c) ==
    /\ Yielded(Calls \ {c})
    /\ \/ RunBegins(c) \/ ProducerStarted(c) \/ ProducerFails(c)
       \/ LoopEnds(c) \/ SeekTaken(c) \/ BeginLoad(c) \/ Loaded(c) \/ LoadFails(c)
       \/ GapEnds(c) \/ EmitReturns(c) \/ Block(c) \/ Pace(c) \/ Publish(c)
       \/ PublishFails(c) \/ Closed(c) \/ CloseFails(c)

\* The call that waits in stop().
StopStep(c) == Yielded(Calls) /\ (StopAnswers(c) \/ StopRaises(c))

\* start() once its queries have answered.
StartStep(c) == Yielded(Calls) /\ (StartContinues(c) \/ NoSuchSession(c))

Requested ==
    \/ \E c \in Calls : StartCalled(c)
    \/ Pause
    \/ Resume
    \/ \E to \in Events : Seek(to)
    \/ Stop

Next ==
    \/ \E c \in Calls : RunStep(c) \/ StopStep(c) \/ StartStep(c)
    \/ Yielded(Calls) /\ Requested
    \/ \E c \in Calls : Yielded(Calls) /\ Cancelled(c)

Spec == Init /\ [][Next]_vars

\* asyncio runs every ready task, sleeps end and awaited calls answer, the
\* database's and the broker's clients having timeouts of their own.  Nobody is
\* obliged to send a request.
Fairness == \A c \in Calls : WF_vars(RunStep(c)) /\ WF_vars(StopStep(c))

FairSpec == Spec /\ Fairness

-----------------------------------------------------------------------------
(* Properties. *)

\* The recorded events of a stretch of time, its end excluded.
Recorded(from, to) == {e \in Events : from <= e /\ e < to}

\* At most one replay feeds the pipeline, although a start() may come right
\* after a stop() and the last run still has a chunk to finish and a producer
\* to close (engine.py:352-362, stop() waits for the task).
OneReplay == \A c, d \in Alive : c = d

\* The events a run has published since it started or was last moved are those
\* of the recording in order, each once and none left out, over any number of
\* chunks, gaps, pauses and seeks (engine.py _load_chunk, _run, _emit).
PublishesInOrder ==
    \A c \in Calls : \A i \in 1..Len(sent[c]) :
        /\ origin[c] <= sent[c][i]
        /\ {sent[c][j] : j \in 1..(i - 1)} = Recorded(origin[c], sent[c][i])

\* A replay that reports FINISHED has published everything from where it was
\* last put to the end of its window (engine.py:464-466); one that was asked to
\* stop while its last chunk was under way does not report that.
FinishedIsComplete ==
    \A c \in Calls :
        task = c /\ state = "finished" =>
            Recorded(origin[c], Last) \subseteq {sent[c][i] : i \in 1..Len(sent[c])}

\* Once paused a run publishes at most the one event it was about to, however
\* pause and resume alternate (engine.py:498-501).
PauseHolds == \A c \in Calls : ~ pauseEvent => overrun[c] <= 1

\* The status is true of the task: while it reports a replay, and no stop() is
\* in progress, that replay's task is alive and is held or not as reported.
\* Except when the task raised outside its try.
StatusIsTrue ==
    stopping = {} /\ (task # NoRun => pc[task] # "raised") =>
        /\ state \in {"loading", "playing", "paused"} => task \in Alive
        /\ state = "paused" => ~ pauseEvent
        /\ state = "playing" => pauseEvent

\* stop() answers, even that of a paused replay (engine.py:353-354).
StopReturns == \A c \in Calls : c \in stopping ~> c \notin stopping

\* A replay comes to its end over every gap, unless it is left paused.
ReplayEnds == []<>pauseEvent => \A c \in Calls : c \in Alive ~> c \notin Alive

-----------------------------------------------------------------------------
(* What the documentation says, and the code does not do. *)

\* "A replay of session ... is already running. Stop it first."
\* (engine.py:279): a start() is refused only while there is one.
RefusedOnlyWhileRunning ==
    state \in {"loading", "playing"} /\ stopping = {} => Alive # {}

\* "assert self._producer is not None" (engine.py:489): a run publishes through
\* the producer it started itself, and nothing has stopped it or replaced it.
EmitHasProducer ==
    \A c \in Calls : pc[c] \in {"emit", "blocked", "pace"} => producer = c /\ c \in open

\* "Jump the replay clock. Takes effect at the next chunk boundary."
\* (engine.py:347): a seek asked while one run was the engine's is not taken by
\* another run.
SeekIsForThisRun == strayed = {}
=============================================================================
