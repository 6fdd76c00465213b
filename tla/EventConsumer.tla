---------------------------- MODULE EventConsumer ----------------------------
(***************************************************************************)
(* kafka/consumer.py: one EventConsumer per group, its poll / decode /     *)
(* handle / commit loop, the dead-letter producer behind it, and the       *)
(* broker's log and committed offsets as the code uses them.               *)
(*                                                                         *)
(* One action is the code between two awaits that can suspend.  The        *)
(* handler is left to the module that composes this one: it takes a group  *)
(* from "handle" to "commit".                                              *)
(***************************************************************************)
EXTENDS Topics

CONSTANTS
    MaxPoll,      \* settings.max_poll_records
    MaxLog,       \* bound of the model: partition -> entries ever produced
    FaultKinds,   \* kinds of faults and operator calls that may happen
    MaxFaults     \* bound of the model: how many of them a behaviour has

ASSUME ConsumerAssumption ==
    /\ MaxPoll \in Nat \ {0}
    /\ MaxLog \in [Partitions -> Nat]
    /\ MaxFaults \in Nat

VARIABLES
    log,          \* partition -> sequence of records (broker)
    committed,    \* partition -> offsets its group committed (broker)
    dlq,          \* entries on the dead-letter topic (broker)
    position,     \* partition -> entries getmany has returned
    pc,           \* group -> where its _run task is
    batch,        \* group -> entries of the iteration in progress
    stopEvent,    \* group -> _stop_event is set
    resumeEvent,  \* group -> _resume_event is set
    reported,     \* group -> stats.state
    dlqBuffer,    \* entries in the dead-letter producer's send buffer
    deadLettered, \* entries counted as invalid_schema
    faults        \* how many faults have happened

brokerVars   == <<log, committed, dlq>>
controlVars  == <<stopEvent, resumeEvent, reported>>
dlqVars      == <<dlq, dlqBuffer, deadLettered>>
consumerVars == <<log, committed, dlq, position, pc, batch, stopEvent, resumeEvent,
                  reported, dlqBuffer, deadLettered, faults>>

\* "top" is the loop head (awaiting _resume_event), "poll" awaits getmany,
\* "decode" and "handle" and "commit" the stages of an iteration, "flush" a
\* handler awaiting the database, "backoff" the sleep after an exception.
Stages == {"none", "top", "poll", "decode", "handle", "flush", "commit", "backoff", "exited"}

ConsumerTypeOK ==
    /\ log \in [Partitions -> Seq(Records)]
    /\ committed \in [Partitions -> Nat]
    /\ position \in [Partitions -> Nat]
    /\ pc \in [Groups -> Stages]
    /\ batch \in [Groups -> SUBSET Entries]
    /\ stopEvent \in [Groups -> BOOLEAN]
    /\ resumeEvent \in [Groups -> BOOLEAN]
    /\ reported \in [Groups -> {"stopped", "running", "paused", "degraded"}]
    /\ dlq \subseteq Entries
    /\ dlqBuffer \subseteq Entries
    /\ deadLettered \subseteq Entries
    /\ faults \in 0..MaxFaults

ConsumerInit ==
    /\ log = [p \in Partitions |-> <<>>]
    /\ committed = [p \in Partitions |-> 0]
    /\ position = [p \in Partitions |-> 0]
    /\ pc = [g \in Groups |-> "none"]
    /\ batch = [g \in Groups |-> {}]
    /\ stopEvent = [g \in Groups |-> FALSE]
    /\ resumeEvent = [g \in Groups |-> TRUE]
    /\ reported = [g \in Groups |-> "stopped"]
    /\ dlq = {}
    /\ dlqBuffer = {}
    /\ deadLettered = {}
    /\ faults = 0

\* One fault or operator call of kind k happens.
Spend(k) == /\ k \in FaultKinds
            /\ faults < MaxFaults
            /\ faults' = faults + 1

Owned(g) == {p \in Partitions : GroupOf[p] = g}

\* The entries of the log between two offsets of each partition.
Between(low, high) ==
    UNION {{<<p, i, log[p][i]>> : i \in (low[p] + 1)..high[p]} : p \in Partitions}

\* Every entry some group has committed past.
CommittedEntries == Between([p \in Partitions |-> 0], committed)

\* Mutant: auto_offset_reset applies although the group has committed.
AtEarliest(g) == [p \in Partitions |-> IF GroupOf[p] = g THEN 0 ELSE position[p]]

\* Positions restricted to one group's partitions, the others unchanged.
AtCommitted(g) == [p \in Partitions |-> IF GroupOf[p] = g THEN committed[p] ELSE position[p]]

-----------------------------------------------------------------------------
(* Broker and producers of the topics (external). *)

Produce(r) ==
    /\ Len(log[HomeOf[r]]) < MaxLog[HomeOf[r]]
    /\ log' = [log EXCEPT ![HomeOf[r]] = Append(@, r)]
    /\ UNCHANGED <<committed, dlq, position, pc, batch, controlVars, dlqBuffer,
                   deadLettered, faults>>

\* The group rejoins: fetching resumes from the committed offsets.  An
\* iteration in progress goes on with the batch it holds.
Rebalance(g) ==
    /\ pc[g] \notin {"none", "exited"}
    /\ Spend("rebalance")
    /\ position' = AtCommitted(g)
    /\ UNCHANGED <<brokerVars, pc, batch, controlVars, dlqBuffer, deadLettered>>

-----------------------------------------------------------------------------
(* Lifecycle and chaos controls. *)

StartConsumer(g) ==
    /\ pc[g] = "none"
    /\ position' = AtCommitted(g)
    /\ pc' = [pc EXCEPT ![g] = "top"]
    /\ stopEvent' = [stopEvent EXCEPT ![g] = FALSE]
    /\ reported' = [reported EXCEPT ![g] = "running"]
    /\ UNCHANGED <<brokerVars, batch, resumeEvent, dlqBuffer, deadLettered, faults>>

\* stop() up to its wait_for: both events set, so a paused loop wakes up.
RequestStop(g) ==
    /\ stopEvent' = [stopEvent EXCEPT ![g] = TRUE]
    /\ resumeEvent' = [resumeEvent EXCEPT ![g] = TRUE]
    /\ UNCHANGED <<brokerVars, position, pc, batch, reported, dlqBuffer, deadLettered>>

\* wait_for ran into its 15 s timeout: the task is cancelled wherever it is.
CancelTask(g) ==
    /\ stopEvent[g]
    /\ pc[g] \notin {"none", "exited"}
    /\ Spend("stopTimeout")
    /\ pc' = [pc EXCEPT ![g] = "exited"]
    /\ batch' = [batch EXCEPT ![g] = {}]
    /\ UNCHANGED <<brokerVars, position, controlVars, dlqBuffer, deadLettered>>

\* The rest of stop(), once the task has ended.
FinishStop(g) ==
    /\ pc[g] = "exited"
    /\ pc' = [pc EXCEPT ![g] = "none"]
    /\ reported' = [reported EXCEPT ![g] = "stopped"]
    /\ UNCHANGED <<brokerVars, position, batch, stopEvent, resumeEvent, dlqBuffer,
                   deadLettered, faults>>

Pause(g) ==
    /\ pc[g] # "none"
    /\ Spend("pause")
    /\ resumeEvent' = [resumeEvent EXCEPT ![g] = FALSE]
    /\ reported' = [reported EXCEPT ![g] = "paused"]
    /\ UNCHANGED <<brokerVars, position, pc, batch, stopEvent, dlqBuffer, deadLettered>>

Resume(g) ==
    /\ pc[g] # "none"
    /\ ~ resumeEvent[g]
    /\ resumeEvent' = [resumeEvent EXCEPT ![g] = TRUE]
    /\ reported' = [reported EXCEPT ![g] = "running"]
    /\ UNCHANGED <<brokerVars, position, pc, batch, stopEvent, dlqBuffer, deadLettered, faults>>

-----------------------------------------------------------------------------
(* The loop of _run. *)

\* Mutant: the stop event is only tested after the resume event.
ExitAfterResume(g) ==
    /\ pc[g] = "top"
    /\ stopEvent[g]
    /\ resumeEvent[g]
    /\ pc' = [pc EXCEPT ![g] = "exited"]
    /\ UNCHANGED <<brokerVars, position, batch, controlVars, dlqBuffer, deadLettered, faults>>

\* The loop condition, and the second test after the resume event, to
\* which stop() has woken a paused loop.
ExitLoop(g) ==
    /\ pc[g] = "top"
    /\ stopEvent[g]
    /\ pc' = [pc EXCEPT ![g] = "exited"]
    /\ UNCHANGED <<brokerVars, position, batch, controlVars, dlqBuffer, deadLettered, faults>>

BeginPoll(g) ==
    /\ pc[g] = "top"
    /\ resumeEvent[g]
    /\ ~ stopEvent[g]
    /\ pc' = [pc EXCEPT ![g] = "poll"]
    /\ UNCHANGED <<brokerVars, position, batch, controlVars, dlqBuffer, deadLettered, faults>>

\* getmany returns records: at most MaxPoll of them over the group's partitions.
Fetch(g) ==
    /\ pc[g] = "poll"
    /\ \E taken \in [Owned(g) -> 0..MaxPoll] :
          LET upto == [p \in Partitions |-> IF p \in Owned(g) THEN position[p] + taken[p]
                                                             ELSE position[p]]
          IN /\ \A p \in Owned(g) : upto[p] <= Len(log[p])
             /\ Cardinality(Between(position, upto)) \in 1..MaxPoll
             /\ position' = upto
             /\ batch' = [batch EXCEPT ![g] = Between(position, upto)]
    /\ pc' = [pc EXCEPT ![g] = "decode"]
    /\ UNCHANGED <<brokerVars, controlVars, dlqBuffer, deadLettered, faults>>

\* getmany returns nothing within poll_timeout_ms.
PollEmpty(g) ==
    /\ pc[g] = "poll"
    /\ \A p \in Owned(g) : position[p] = Len(log[p])
    /\ pc' = [pc EXCEPT ![g] = "top"]
    /\ UNCHANGED <<brokerVars, position, batch, controlVars, dlqBuffer, deadLettered, faults>>

\* _decode of a poison record: counted, handed to the dead-letter producer
\* (whose failure is swallowed), and taken out of the batch.
DeadLetter(g) ==
    /\ pc[g] = "decode"
    /\ \E e \in batch[g] :
          /\ RecordOf(e) \in Poison
          /\ deadLettered' = deadLettered \union {e}
          /\ batch' = [batch EXCEPT ![g] = @ \ {e}]
          /\ \/ /\ dlqBuffer' = dlqBuffer \union {e}
                /\ UNCHANGED faults
             \/ /\ Spend("dlqError")
                /\ UNCHANGED dlqBuffer
    /\ UNCHANGED <<brokerVars, position, pc, controlVars>>

\* Mutant: the commit comes before the handler.
CommitFirst(g) ==
    /\ pc[g] = "decode"
    /\ \A e \in batch[g] : RecordOf(e) \notin Poison
    /\ pc' = [pc EXCEPT ![g] = "commit"]
    /\ UNCHANGED <<brokerVars, position, batch, controlVars, dlqBuffer, deadLettered, faults>>

\* Every record is decoded.  An all-poison batch goes straight to the commit.
Decoded(g) ==
    /\ pc[g] = "decode"
    /\ \A e \in batch[g] : RecordOf(e) \notin Poison
    /\ pc' = [pc EXCEPT ![g] = IF batch[g] = {} THEN "commit" ELSE "handle"]
    /\ UNCHANGED <<brokerVars, position, batch, controlVars, dlqBuffer, deadLettered, faults>>

\* commit() without arguments commits the current positions.
Commit(g) ==
    /\ pc[g] = "commit"
    /\ committed' = [p \in Partitions |-> IF GroupOf[p] = g THEN position[p] ELSE committed[p]]
    /\ pc' = [pc EXCEPT ![g] = "top"]
    /\ UNCHANGED <<log, dlq, position, batch, controlVars, dlqBuffer, deadLettered, faults>>

\* getmany or commit raises.  A commit whose answer was lost has taken effect.
KafkaError(g) ==
    /\ pc[g] \in {"poll", "commit"}
    /\ Spend("kafkaError")
    /\ \/ UNCHANGED committed
       \/ /\ pc[g] = "commit"
          /\ committed' = [p \in Partitions |->
                             IF GroupOf[p] = g THEN position[p] ELSE committed[p]]
    /\ pc' = [pc EXCEPT ![g] = "backoff"]
    /\ reported' = [reported EXCEPT ![g] = "degraded"]
    /\ UNCHANGED <<log, dlq, position, batch, stopEvent, resumeEvent, dlqBuffer, deadLettered>>

\* Mutant: an exception ends the loop.
LoopDies(g) ==
    /\ pc[g] = "backoff"
    /\ pc' = [pc EXCEPT ![g] = "exited"]
    /\ reported' = [reported EXCEPT ![g] = "degraded"]
    /\ UNCHANGED <<brokerVars, position, batch, stopEvent, resumeEvent, dlqBuffer,
                   deadLettered, faults>>

\* The sleep after an exception ends; the state is set to "running" whatever
\* pause() or stop() did meanwhile.
BackoffEnds(g) ==
    /\ pc[g] = "backoff"
    /\ pc' = [pc EXCEPT ![g] = "top"]
    /\ reported' = [reported EXCEPT ![g] = "running"]
    /\ UNCHANGED <<brokerVars, position, batch, stopEvent, resumeEvent, dlqBuffer,
                   deadLettered, faults>>

-----------------------------------------------------------------------------
(* The dead-letter producer: send() only buffers. *)

DlqDelivered ==
    \E e \in dlqBuffer :
        /\ dlqBuffer' = dlqBuffer \ {e}
        /\ dlq' = dlq \union {e}
        /\ UNCHANGED <<log, committed, position, pc, batch, controlVars, deadLettered, faults>>
=============================================================================
