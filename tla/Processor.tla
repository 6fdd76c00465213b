------------------------------ MODULE Processor ------------------------------
(***************************************************************************)
(* processor/service.py: the StreamProcessor process.  Two EventConsumers  *)
(* on one event loop share one TelemetryWriter; the process starts, is     *)
(* stopped by a signal, crashes and is restarted, while the broker and the *)
(* database outlive it.                                                    *)
(***************************************************************************)
EXTENDS EventConsumer, TelemetryWriter

VARIABLES
    phase,        \* where start() / stop() / main_async is
    vanished      \* history: entries whose only copy in memory was destroyed

vars == <<consumerVars, writerVars, phase, vanished>>

\* The kinds of faults and operator calls there are.
AllFaults == {"crash", "stop", "stopTimeout", "kafkaError", "dlqError",
              "dbError", "derivation", "rebalance", "pause"}

Phases == {"down", "startTelemetry", "startTiming", "up",
           "stopTelemetry", "stopTiming", "stopWriter", "tailFlush"}

StartPhase(g) == IF g = Telemetry THEN "startTelemetry" ELSE "startTiming"
StopPhase(g)  == IF g = Telemetry THEN "stopTelemetry" ELSE "stopTiming"

TypeOK ==
    /\ ConsumerTypeOK
    /\ WriterTypeOK
    /\ phase \in Phases
    /\ vanished \subseteq Entries

Init ==
    /\ ConsumerInit
    /\ WriterInit
    /\ phase = "down"
    /\ vanished = {}

-----------------------------------------------------------------------------
(* Lifecycle of the process. *)

\* The process is gone: everything but the broker and the database is reset.
ProcessGone ==
    /\ phase' = "down"
    /\ position' = committed
    /\ pc' = [g \in Groups |-> "none"]
    /\ batch' = [g \in Groups |-> {}]
    /\ stopEvent' = [g \in Groups |-> FALSE]
    /\ resumeEvent' = [g \in Groups |-> TRUE]
    /\ reported' = [g \in Groups |-> "stopped"]
    /\ dlqBuffer' = {}
    /\ buffers' = {}
    /\ pending' = 0
    /\ inflight' = [t \in Tasks |-> {}]
    /\ flushing' = {}
    /\ timer' = FALSE
    /\ UNCHANGED <<log, committed, deadLettered, rows, dropped>>

\* start(): the dead-letter producer and the writer, then each consumer.
Start ==
    /\ phase = "down"
    /\ phase' = "startTelemetry"
    /\ StartWriter
    /\ UNCHANGED <<consumerVars, vanished>>

StartGroup(g) ==
    /\ phase = StartPhase(g)
    /\ phase' = IF g = Telemetry THEN "startTiming" ELSE "up"
    /\ StartConsumer(g)
    /\ UNCHANGED <<writerVars, vanished>>

\* SIGTERM or SIGINT: main_async leaves its wait and calls stop().
Stop ==
    /\ phase = "up"
    /\ Spend("stop")
    /\ phase' = "stopTelemetry"
    /\ UNCHANGED <<brokerVars, position, pc, batch, controlVars, dlqBuffer, deadLettered,
                   writerVars, vanished>>

StopGroup(g) ==
    /\ phase = StopPhase(g)
    /\ ~ stopEvent[g]
    /\ RequestStop(g)
    /\ UNCHANGED <<faults, writerVars, phase, vanished>>

\* The 15 s are over: the loop is cancelled, and with it a flush it awaits,
\* which may hold rows of both groups.
CancelGroup(g) ==
    /\ phase = StopPhase(g)
    /\ CancelTask(g)
    /\ CancelFlush(g)
    /\ vanished' = vanished \union inflight[g]
    /\ UNCHANGED <<buffers, pending, timer, rows, dropped, phase>>

GroupStopped(g) ==
    /\ phase = StopPhase(g)
    /\ FinishStop(g)
    /\ phase' = IF g = Telemetry THEN "stopTiming" ELSE "stopWriter"
    /\ UNCHANGED <<writerVars, vanished>>

\* writer.stop(): what the periodic task was writing is cancelled with it.
StopWriting ==
    /\ phase = "stopWriter"
    /\ phase' = "tailFlush"
    /\ vanished' = vanished \union inflight[Periodic]
    /\ StopWriter
    /\ UNCHANGED consumerVars

\* The tail is flushed; the dead-letter producer flushes as it stops.
Exit ==
    /\ phase = "tailFlush"
    /\ Main \notin flushing
    /\ dlq' = dlq \union dlqBuffer
    /\ ProcessGone
    /\ UNCHANGED <<faults, vanished>>

Crash ==
    /\ phase # "down"
    /\ Spend("crash")
    /\ vanished' = vanished \union InMemory \union dlqBuffer
    /\ ProcessGone
    /\ UNCHANGED dlq

-----------------------------------------------------------------------------
(* _handle_batch: derive, stamp and persist one batch. *)

HandleBatch(g) ==
    /\ pc[g] = "handle"
    /\ \E failed \in SUBSET batch[g] :
          /\ IF failed = {} THEN UNCHANGED faults ELSE Spend("derivation")
          /\ dropped' = dropped \union failed
          /\ Add(g, batch[g] \ failed)
          /\ pc' = [pc EXCEPT ![g] = IF ReachesThreshold(batch[g] \ failed)
                                     THEN "flush" ELSE "commit"]
    /\ batch' = [batch EXCEPT ![g] = {}]
    /\ UNCHANGED <<brokerVars, position, controlVars, dlqBuffer, deadLettered, phase, vanished>>

\* The flush that add() awaited is over and the handler returns.
HandlerReturns(g) ==
    /\ pc[g] = "flush"
    /\ FlushReturns(g)
    /\ pc' = [pc EXCEPT ![g] = "commit"]
    /\ UNCHANGED <<brokerVars, position, batch, controlVars, dlqBuffer, deadLettered, faults,
                   phase, vanished>>

-----------------------------------------------------------------------------
(* The event loop. *)

ConsumerStep(g) ==
    /\ \/ ExitLoop(g) \/ BeginPoll(g) \/ Fetch(g) \/ PollEmpty(g)
       \/ DeadLetter(g) \/ Decoded(g) \/ Commit(g) \/ KafkaError(g) \/ BackoffEnds(g)
    /\ UNCHANGED <<writerVars, phase, vanished>>

WriteStep(t) ==
    /\ \E k \in Tables :
          \/ WriteTable(t, k) /\ UNCHANGED faults
          \/ WriteFails(t, k) /\ Spend("dbError")
    /\ UNCHANGED <<brokerVars, position, pc, batch, controlVars, dlqBuffer, deadLettered,
                   phase, vanished>>

\* The loop of one consumer, its handler included.
GroupTask(g) == ConsumerStep(g) \/ HandleBatch(g) \/ HandlerReturns(g) \/ WriteStep(g)

PeriodicTask ==
    \/ PeriodicFlush /\ UNCHANGED <<consumerVars, phase, vanished>>
    \/ FlushReturns(Periodic) /\ UNCHANGED <<consumerVars, phase, vanished>>
    \/ WriteStep(Periodic)

MainTask ==
    \/ \E g \in Groups : StartGroup(g) \/ StopGroup(g) \/ GroupStopped(g)
    \/ StopWriting
    \/ WriteStep(Main)
    \/ FlushReturns(Main) /\ UNCHANGED <<consumerVars, phase, vanished>>
    \/ Exit

\* The dead-letter producer sends what it buffered, or gives it up silently.
DlqTask == DlqDelivered /\ UNCHANGED <<writerVars, phase, vanished>>

DlqLost ==
    \E e \in dlqBuffer :
        /\ Spend("dlqError")
        /\ dlqBuffer' = dlqBuffer \ {e}
        /\ vanished' = vanished \union {e}
        /\ UNCHANGED <<brokerVars, position, pc, batch, controlVars, deadLettered,
                       writerVars, phase>>

\* What the world outside the process does.
Environment ==
    \/ \E r \in Records : Produce(r) /\ UNCHANGED <<writerVars, phase, vanished>>
    \/ \E g \in Groups :
          \/ (Rebalance(g) \/ Pause(g) \/ Resume(g)) /\ UNCHANGED <<writerVars, phase, vanished>>
          \/ CancelGroup(g)
    \/ Stop
    \/ Crash
    \/ DlqLost

Next ==
    \/ \E g \in Groups : GroupTask(g)
    \/ PeriodicTask
    \/ MainTask
    \/ DlqTask
    \/ Start
    \/ Environment

Spec == Init /\ [][Next]_vars

\* asyncio runs every ready task; Compose restarts the container
\* (restart: unless-stopped).  Nothing obliges an operator to resume.
Fairness ==
    /\ \A g \in Groups : WF_vars(GroupTask(g))
    /\ WF_vars(PeriodicTask)
    /\ WF_vars(MainTask)
    /\ WF_vars(DlqTask)
    /\ WF_vars(Start)

FairSpec == Spec /\ Fairness

-----------------------------------------------------------------------------
(* Properties. *)

\* Offsets only ever run ahead in this order: committed by the group, returned
\* by getmany, written to the log (consumer.py _run, across rebalances,
\* failed commits and restarts).
OffsetsOrdered ==
    \A p \in Partitions :
        /\ committed[p] <= position[p]
        /\ position[p] <= Len(log[p])

\* A batch the loop is still working on is never committed: neither a commit
\* whose answer was lost nor a rebalance in mid-iteration moves the committed
\* offset past an entry the handler has not taken (consumer.py:213).
CommitFollowsHandler ==
    \A g \in Groups : \A e \in batch[g] : committed[PartitionOf(e)] < OffsetOf(e)

\* What became of an entry whose offset its group has committed past.
Stored(e)    == RecordOf(e) \in rows
Counted(e)   == e \in deadLettered \/ e \in dropped
Held(e)      == e \in buffers \/ \E t \in Tasks : e \in inflight[t]
Metadata(e)  == ~ HasRow(e) /\ RecordOf(e) \notin Poison
Accounted(e) == Stored(e) \/ Counted(e) \/ Held(e) \/ Metadata(e) \/ e \in vanished

\* Nothing disappears between the commit and the database without a trace:
\* an entry past the committed offset is stored, counted as dropped or
\* dead-lettered, still in the writer's memory, session metadata, or was in
\* memory when a crash or a cancellation destroyed it.
CommittedAccountedFor == \A e \in CommittedEntries : Accounted(e)

\* Backpressure (consumer.py:67-71, engineering-decisions.md section 7): a
\* writer's memory is bounded by the batch size and the poll size however far
\* the broker is ahead, since a loop in flush() does not poll.
MemoryBounded ==
    /\ pending < BatchSize
    /\ Cardinality(buffers) <= pending
    /\ Cardinality(inflight[Periodic]) < BatchSize
    /\ Cardinality(inflight[Main]) < BatchSize
    /\ \A g \in Groups : Cardinality(inflight[g]) < BatchSize + MaxPoll

\* A group never commits an offset below one it committed before, whatever
\* rebalances, failed commits and restarts do to its position.
CommittedNeverRegresses ==
    [][\A p \in Partitions : committed'[p] >= committed[p]]_vars

\* The processor implements EventFate: no step stores an event that was not in
\* memory, drops one from memory without storing or counting it, or
\* acknowledges one that was never taken.
Published == UNION {{log[p][i] : i \in 1..Len(log[p])} : p \in Partitions}

Fate == INSTANCE EventFate WITH
    NoRow        <- {r \in Records : TableOf[r] = NoTable /\ r \notin Poison},
    published    <- Published,
    held         <- RecordsOf(InMemory),
    stored       <- rows,
    surrendered  <- RecordsOf(deadLettered \union dropped \union vanished),
    acknowledged <- RecordsOf(CommittedEntries)

FateSpec == Fate!Spec

-----------------------------------------------------------------------------
(* Liveness, as long as no consumer is left paused for ever. *)

NotLeftPaused == \A g \in Groups : []<>(resumeEvent[g])

\* One poison record, failed flush, broker error or restart never stalls a
\* partition: every entry written is eventually read.  (The offset need not be
\* committed: a commit that fails is not tried again until more records come.)
CatchesUp ==
    NotLeftPaused =>
        \A p \in Partitions : \A i \in 1..MaxLog[p] :
            Len(log[p]) >= i ~> position[p] >= i

\* A row never sits in the writer for ever (writer.py _periodic_flush): every
\* entry ends stored, counted, read if it is metadata, or, when its offset was
\* committed too early, destroyed.
Settled(p, i) ==
    /\ Len(log[p]) >= i
    /\ LET e == <<p, i, log[p][i]>> IN
       \/ Stored(e) \/ Counted(e)
       \/ position[p] >= i /\ Metadata(e)
       \/ committed[p] >= i /\ e \in vanished

EverythingSettles ==
    NotLeftPaused =>
        \A p \in Partitions : \A i \in 1..MaxLog[p] : Len(log[p]) >= i ~> Settled(p, i)

\* stop() comes to an end, even with a consumer paused (consumer.py:132-133).
StopTerminates == phase = "stopTelemetry" ~> phase = "down"

-----------------------------------------------------------------------------
(* What the documentation says, and the code does not do. *)

\* "Offsets are committed only after a batch has been durably handled, so a
\* crash replays the tail of the log" (consumer.py:3-4): nothing a crash
\* destroys lies below the committed offset.
CrashOnlyReplays ==
    \A e \in CommittedEntries \intersect vanished : Stored(e) \/ Counted(e)

\* "Flushes whatever is buffered, so the tail of a session is not lost"
\* (service.py:123): after a graceful stop every committed entry is stored or
\* counted.
TailReachesDatabase ==
    phase = "down" => \A e \in CommittedEntries : Stored(e) \/ Counted(e) \/ Metadata(e)
=============================================================================
