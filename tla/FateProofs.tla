------------------------------ MODULE FateProofs ------------------------------
(***************************************************************************)
(* The fate of an event, for any instance.  The stream processor loses     *)
(* nothing silently: every entry a group has committed past is accounted   *)
(* for, whatever the faults, and a bounded number is held in memory.       *)
(* It implements EventFate: every step publishes, takes, settles or        *)
(* acknowledges events, or changes nothing an observer can see.            *)
(***************************************************************************)
EXTENDS ProcessorProofs

USE DEF Telemetry, Timing, Groups, Periodic, Main, Tasks
USE DEF TypeInv, TypeOK, ConsumerTypeOK, WriterTypeOK, Finite

-----------------------------------------------------------------------------
(* Once accounted for, an entry stays accounted for. *)

\* The database, the counters and the history only grow.
Lasting ==
    /\ rows \subseteq rows'
    /\ deadLettered \subseteq deadLettered'
    /\ dropped \subseteq dropped'
    /\ vanished \subseteq vanished'

Kept == \A e : Accounted(e) => Accounted(e)'

LEMMA KeptWhenHeldIs ==
    ASSUME Lasting, \A e : Held(e) => Accounted(e)'
    PROVE  Kept
BY DEF Kept, Lasting, Accounted, Stored, Counted, Metadata, HasRow

\* Memory is untouched.
LEMMA KeptWhenUntouched ==
    ASSUME Lasting, UNCHANGED <<buffers, inflight>>
    PROVE  Kept
<1>1. \A e : Held(e) => Accounted(e)'
  BY DEF Held, Accounted
<1> QED
  BY <1>1, KeptWhenHeldIs

\* Adding rows, and the swap a full batch leads to, lose none of them.
LEMMA AddKeeps ==
    ASSUME TypeInv, StageInv, NEW g \in Groups, pc[g] = "handle",
           NEW S \in SUBSET batch[g], Add(g, S), Lasting
    PROVE  /\ Kept
           /\ \A e \in S : HasRow(e) => Held(e)'
<1> DEFINE new == {e \in S : HasRow(e)}
<1>1. inflight[g] = {}
  BY DEF StageInv
<1>2. \A e : Held(e) \/ e \in new => Held(e)'
  <2>1. CASE SwapOut(g, buffers \union new)
    <3>1. inflight' = [inflight EXCEPT ![g] = buffers \union new]
      BY <2>1 DEF SwapOut
    <3>2. inflight'[g] = buffers \union new
      BY <3>1
    <3>3. \A t \in Tasks : inflight[t] \subseteq inflight'[t]
      BY <1>1, <3>1
    <3> QED
      BY <3>2, <3>3 DEF Held
  <2>2. CASE buffers' = buffers \union new /\ UNCHANGED inflight
    BY <2>2 DEF Held
  <2> QED
    BY <2>1, <2>2 DEF Add
<1>3. Kept
  BY <1>2, KeptWhenHeldIs DEF Accounted
<1> QED
  BY <1>2, <1>3

LEMMA WriteKeeps ==
    ASSUME TypeInv, NEW t \in Tasks, WriteStep(t)
    PROVE  Kept
<1>1. PICK k \in Tables : WriteTable(t, k) \/ WriteFails(t, k)
  BY DEF WriteStep
<1>2. /\ inflight' = [inflight EXCEPT ![t] = inflight[t] \ RowsFor(inflight[t], k)]
      /\ buffers' = buffers
  BY <1>1 DEF WriteTable, WriteFails
<1>3. Lasting
  BY <1>1 DEF Lasting, WriteStep, WriteTable, WriteFails
<1>4. ASSUME NEW e \in RowsFor(inflight[t], k) PROVE Accounted(e)'
  <2>1. RecordOf(e) \in RecordsOf(RowsFor(inflight[t], k))
    BY <1>4 DEF RecordsOf
  <2>2. RecordOf(e) \in rows' \/ e \in dropped'
    BY <1>1, <1>4, <2>1 DEF WriteTable, WriteFails
  <2> QED
    BY <2>2 DEF Accounted, Stored, Counted
<1>5. ASSUME NEW e, Held(e), e \notin RowsFor(inflight[t], k) PROVE Held(e)'
  BY <1>2, <1>5 DEF Held
<1>6. \A e : Held(e) => Accounted(e)'
  BY <1>4, <1>5 DEF Accounted
<1> QED
  BY <1>3, <1>6, KeptWhenHeldIs

LEMMA PeriodicKeeps ==
    ASSUME TypeInv, StageInv, PeriodicTask
    PROVE  Kept
<1> USE DEF consumerVars
<1>1. CASE PeriodicFlush /\ UNCHANGED <<consumerVars, phase, vanished>>
  <2>1. inflight[Periodic] = {}
    BY <1>1 DEF PeriodicFlush, StageInv
  <2>2. inflight' = [inflight EXCEPT ![Periodic] = buffers]
    BY <1>1 DEF PeriodicFlush, SwapOut
  <2>3. inflight'[Periodic] = buffers /\ \A t \in Tasks : inflight[t] \subseteq inflight'[t]
    BY <2>1, <2>2
  <2>4. \A e : Held(e) => Accounted(e)'
    BY <2>3 DEF Held, Accounted
  <2>5. Lasting
    BY <1>1 DEF PeriodicFlush, Lasting
  <2> QED
    BY <2>4, <2>5, KeptWhenHeldIs
<1>2. CASE FlushReturns(Periodic) /\ UNCHANGED <<consumerVars, phase, vanished>>
  <2>1. Lasting /\ UNCHANGED <<buffers, inflight>>
    BY <1>2 DEF FlushReturns, Lasting
  <2> QED
    BY <2>1, KeptWhenUntouched
<1> QED
  BY <1>1, <1>2, WriteKeeps DEF PeriodicTask

\* stop() hands the tail to the main task; only what the periodic task was
\* writing is destroyed.
LEMMA StopWritingKeeps ==
    ASSUME TypeInv, StageInv, StopWriting
    PROVE  Kept
<1> USE DEF consumerVars
<1>1. inflight[Main] = {}
  BY DEF StopWriting, StageInv
<1>2. /\ inflight' = [inflight EXCEPT ![Periodic] = {}, ![Main] = buffers]
      /\ vanished' = vanished \union inflight[Periodic]
  BY DEF StopWriting, StopWriter
<1>3. /\ inflight'[Main] = buffers
      /\ \A t \in Tasks : t # Periodic => inflight[t] \subseteq inflight'[t]
  BY <1>1, <1>2
<1>4. \A e : Held(e) => Accounted(e)'
  BY <1>2, <1>3 DEF Held, Accounted
<1>5. Lasting
  BY <1>2 DEF StopWriting, StopWriter, Lasting
<1> QED
  BY <1>4, <1>5, KeptWhenHeldIs

\* Of a process that ends, the history keeps what it held in memory.
LEMMA GoneKeeps ==
    ASSUME TypeInv, StageInv, Exit \/ Crash
    PROVE  Kept
<1>1. Lasting
  BY DEF Exit, Crash, ProcessGone, Lasting
<1>2. CASE Exit
  <2>1. buffers = {} /\ \A t \in Tasks : inflight[t] = {}
    BY <1>2 DEF Exit, StageInv
  <2>2. \A e : ~ Held(e)
    BY <2>1 DEF Held
  <2> QED
    BY <1>1, <2>2, KeptWhenHeldIs
<1>3. CASE Crash
  <2>1. \A e : Held(e) => e \in vanished'
    BY <1>3 DEF Crash, Held, InMemory
  <2> QED
    BY <1>1, <2>1, KeptWhenHeldIs DEF Accounted
<1> QED
  BY <1>2, <1>3

-----------------------------------------------------------------------------
(* The inductive step. *)

\* A step that moves no offset keeps AccountInv if it takes from a batch only
\* what it accounts for.
LEMMA AccountFrame ==
    ASSUME TypeInv, AccountInv, Kept,
           UNCHANGED <<log, committed, position>>,
           \A g \in Groups : pc'[g] \notin {"none", "exited"} =>
              /\ pc[g] \notin {"none", "exited"}
              /\ \A e \in batch[g] : e \in batch'[g] \/ Accounted(e)'
    PROVE  AccountInv'
BY DEF AccountInv, Kept, Owned

LEMMA AccountConsumerStep ==
    ASSUME TypeInv, StageInv, OffsetInv, AccountInv, NEW g \in Groups, ConsumerStep(g)
    PROVE  AccountInv'
<1> USE DEF controlVars, brokerVars, writerVars
<1>1. Kept
  <2>1. Lasting /\ UNCHANGED <<buffers, inflight>>
    BY DEF ConsumerStep, Lasting, ExitLoop, BeginPoll, Fetch, PollEmpty, DeadLetter, Decoded,
           Commit, KafkaError, BackoffEnds
  <2> QED
    BY <2>1, KeptWhenUntouched
<1>2. CASE ExitLoop(g) \/ BeginPoll(g) \/ PollEmpty(g) \/ Decoded(g) \/ BackoffEnds(g)
  BY <1>1, <1>2, AccountFrame DEF ExitLoop, BeginPoll, PollEmpty, Decoded, BackoffEnds
<1>3. CASE DeadLetter(g)
  <2>1. PICK e \in batch[g] : /\ deadLettered' = deadLettered \union {e}
                              /\ batch' = [batch EXCEPT ![g] = @ \ {e}]
    BY <1>3 DEF DeadLetter
  <2>2. Accounted(e)'
    BY <2>1 DEF Accounted, Counted
  <2>3. \A h \in Groups : \A d \in batch[h] : d \in batch'[h] \/ Accounted(d)'
    BY <2>1, <2>2
  <2>4. UNCHANGED <<log, committed, position, pc>>
    BY <1>3 DEF DeadLetter
  <2> QED
    BY <1>1, <2>3, <2>4, AccountFrame
<1>4. CASE Fetch(g)
  <2>1. /\ position' \in [Partitions -> Nat]
        /\ \A p \in Partitions : GroupOf[p] # g => position'[p] = position[p]
        /\ batch' = [batch EXCEPT ![g] = Between(position, position')]
    BY <1>4, FetchSteps
  <2>2. /\ UNCHANGED <<log, committed>>
        /\ batch[g] = {}
        /\ pc[g] = "poll" /\ pc' = [pc EXCEPT ![g] = "decode"]
    BY <1>4 DEF Fetch, StageInv
  <2>3. ASSUME NEW p \in Owned(g), NEW i \in 1..position'[p]
        PROVE  Accounted(<<p, i, log[p][i]>>)' \/ <<p, i, log[p][i]>> \in batch'[g]
    <3>0. p \in Partitions
      BY DEF Owned
    <3>1. /\ position[p] \in Nat /\ position'[p] \in Nat
          /\ i \in Int /\ 1 <= i /\ i <= position'[p]
      BY <2>1, <3>0
    <3>2. CASE i \in 1..position[p]
      <4>1. Accounted(<<p, i, log[p][i]>>)
        BY <2>2, <3>2 DEF AccountInv
      <4> QED
        BY <1>1, <2>2, <4>1 DEF Kept
    <3>3. CASE i \notin 1..position[p]
      <4>1. i \in (position[p] + 1)..position'[p]
        BY <3>1, <3>3
      <4>2. <<p, i, log[p][i]>> \in Between(position, position')
        BY <3>0, <4>1, BetweenElements
      <4> QED
        BY <2>1, <4>2
    <3> QED
      BY <3>2, <3>3
  <2>4. ASSUME NEW h \in Groups, h # g, NEW p \in Owned(h)
        PROVE  position'[p] = position[p] /\ batch'[h] = batch[h] /\ pc'[h] = pc[h]
    BY <2>1, <2>2, <2>4 DEF Owned
  <2> QED
    BY <1>1, <2>2, <2>3, <2>4 DEF AccountInv, Kept
<1>5. ASSUME pc[g] = "commit", UNCHANGED <<log, position, batch>>,
             \/ committed' = [p \in Partitions |->
                                IF GroupOf[p] = g THEN position[p] ELSE committed[p]]
             \/ UNCHANGED committed,
             \A h \in Groups : pc'[h] \notin {"none", "exited"} =>
                                  pc[h] \notin {"none", "exited"}
      PROVE  AccountInv'
  <2>1. batch[g] = {}
    BY <1>5 DEF StageInv
  <2>2. ASSUME NEW p \in Partitions, NEW i \in 1..committed'[p]
        PROVE  Accounted(<<p, i, log[p][i]>>)'
    <3>1. CASE GroupOf[p] = g /\ committed'[p] = position[p]
      BY <1>1, <1>5, <2>1, <3>1 DEF AccountInv, Kept, Owned
    <3>2. CASE committed'[p] = committed[p]
      BY <1>1, <1>5, <3>2 DEF AccountInv, Kept
    <3> QED
      BY <1>5, <3>1, <3>2
  <2> QED
    BY <1>1, <1>5, <2>2 DEF AccountInv, Kept
<1>6. CASE Commit(g)
  BY <1>5, <1>6 DEF Commit
<1>7. CASE KafkaError(g)
  <2>1. CASE pc[g] = "commit"
    BY <1>5, <1>7, <2>1 DEF KafkaError
  <2>2. CASE pc[g] = "poll"
    BY <1>1, <1>7, <2>2, AccountFrame DEF KafkaError
  <2> QED
    BY <1>7, <2>1, <2>2 DEF KafkaError
<1> QED
  BY <1>2, <1>3, <1>4, <1>6, <1>7 DEF ConsumerStep

\* The handler takes every entry of a decoded batch: counted, buffered or
\* without a row.
LEMMA AccountHandlerStep ==
    ASSUME TypeInv, StageInv, AccountInv, NEW g \in Groups, HandleBatch(g)
    PROVE  AccountInv'
<1> USE DEF controlVars, brokerVars
<1>1. PICK failed \in SUBSET batch[g] :
        /\ dropped' = dropped \union failed
        /\ Add(g, batch[g] \ failed)
        /\ pc' = [pc EXCEPT ![g] = IF ReachesThreshold(batch[g] \ failed)
                                   THEN "flush" ELSE "commit"]
  BY DEF HandleBatch
<1>2. /\ pc[g] = "handle"
      /\ batch' = [batch EXCEPT ![g] = {}]
      /\ UNCHANGED <<log, committed, position, deadLettered, vanished>>
  BY DEF HandleBatch
<1>3. Lasting
  BY <1>1, <1>2 DEF Lasting, Add
<1>4. Kept /\ \A e \in batch[g] \ failed : HasRow(e) => Held(e)'
  BY <1>1, <1>2, <1>3, AddKeeps
<1>5. \A e \in batch[g] : RecordOf(e) \notin Poison
  BY <1>2 DEF StageInv
<1>6. \A e \in batch[g] : Accounted(e)'
  BY <1>1, <1>4, <1>5 DEF Accounted, Counted, Metadata, HasRow
<1>7. \A h \in Groups : h # g => batch'[h] = batch[h] /\ pc'[h] = pc[h]
  BY <1>1, <1>2
<1> QED
  BY <1>2, <1>4, <1>6, <1>7, AccountFrame

LEMMA AccountStep ==
    ASSUME TypeInv, StageInv, OffsetInv, AccountInv, [Next]_vars
    PROVE  AccountInv'
<1> USE DEF controlVars, brokerVars, writerVars, consumerVars
<1>1. ASSUME NEW g \in Groups, HandlerReturns(g) PROVE AccountInv'
  <2>1. Kept
    BY <1>1, KeptWhenUntouched DEF HandlerReturns, FlushReturns, Lasting
  <2> QED
    BY <1>1, <2>1, AccountFrame DEF HandlerReturns
<1>2. ASSUME NEW t \in Tasks, WriteStep(t) PROVE AccountInv'
  BY <1>2, WriteKeeps, AccountFrame DEF WriteStep
<1>3. CASE PeriodicTask
  BY <1>2, <1>3, PeriodicKeeps, AccountFrame DEF PeriodicTask
<1>4. ASSUME NEW g \in Groups,
             StartGroup(g) \/ (Rebalance(g) /\ UNCHANGED <<writerVars, phase, vanished>>)
      PROVE  AccountInv'
  <2>1. /\ UNCHANGED <<log, committed, batch>>
        /\ position' = AtCommitted(g)
        /\ \A h \in Groups : h # g => pc'[h] = pc[h]
    BY <1>4 DEF StartGroup, StartConsumer, Rebalance
  <2>2. Kept
    BY <1>4, KeptWhenUntouched DEF StartGroup, StartConsumer, Rebalance, Lasting
  <2>3. /\ \A p \in Owned(g) : position'[p] = committed[p]
        /\ \A h \in Groups : h # g => \A p \in Owned(h) : position'[p] = position[p]
    BY <2>1 DEF Owned, AtCommitted
  <2>4. \A p \in Partitions : \A i \in 1..committed[p] : Accounted(<<p, i, log[p][i]>>)'
    BY <2>1, <2>2 DEF AccountInv, Kept
  <2> QED
    BY <2>1, <2>2, <2>3, <2>4 DEF AccountInv, Kept, Owned
<1>5. ASSUME NEW g \in Groups, StopGroup(g) \/ GroupStopped(g)
      PROVE  AccountInv'
  <2>1. Kept
    BY <1>5, KeptWhenUntouched DEF StopGroup, RequestStop, GroupStopped, FinishStop, Lasting
  <2> QED
    BY <1>5, <2>1, AccountFrame DEF StopGroup, RequestStop, GroupStopped, FinishStop
<1>6. ASSUME NEW g \in Groups, CancelGroup(g) PROVE AccountInv'
  <2>1. /\ inflight' = [inflight EXCEPT ![g] = {}]
        /\ vanished' = vanished \union inflight[g]
        /\ UNCHANGED <<buffers, rows, dropped, deadLettered>>
    BY <1>6 DEF CancelGroup, CancelTask, CancelFlush
  <2>2. \A e : Held(e) => Accounted(e)'
    BY <2>1 DEF Held, Accounted
  <2>3. Kept
    BY <2>1, <2>2, KeptWhenHeldIs DEF Lasting
  <2> QED
    BY <1>6, <2>3, AccountFrame DEF CancelGroup, CancelTask
<1>7. CASE StopWriting
  BY <1>7, StopWritingKeeps, AccountFrame DEF StopWriting
<1>8. CASE FlushReturns(Main) /\ UNCHANGED <<consumerVars, phase, vanished>>
  <2>1. Kept
    BY <1>8, KeptWhenUntouched DEF FlushReturns, Lasting
  <2> QED
    BY <1>8, <2>1, AccountFrame
<1>9. CASE Exit \/ Crash
  <2>1. UNCHANGED <<log, committed>> /\ \A g \in Groups : pc'[g] = "none"
    BY <1>9 DEF Exit, Crash, ProcessGone
  <2> QED
    BY <1>9, <2>1, GoneKeeps DEF AccountInv, Kept
<1>10. CASE DlqTask \/ DlqLost \/ Start \/ Stop
  <2>1. Kept
    BY <1>10, KeptWhenUntouched DEF DlqTask, DlqDelivered, DlqLost, Start, StartWriter, Stop,
                                    Lasting
  <2> QED
    BY <1>10, <2>1, AccountFrame DEF DlqTask, DlqDelivered, DlqLost, Start, Stop
<1>11. ASSUME NEW g \in Groups, Pause(g) \/ Resume(g), UNCHANGED <<writerVars, phase, vanished>>
       PROVE  AccountInv'
  <2>1. Kept
    BY <1>11, KeptWhenUntouched DEF Pause, Resume, Lasting
  <2> QED
    BY <1>11, <2>1, AccountFrame DEF Pause, Resume
<1>12. ASSUME NEW r \in Records, Produce(r), UNCHANGED <<writerVars, phase, vanished>>
       PROVE  AccountInv'
  <2>1. Kept
    BY <1>12, KeptWhenUntouched DEF Produce, Lasting
  <2>2. UNCHANGED <<committed, position, pc, batch>>
    BY <1>12 DEF Produce
  <2>3. ASSUME NEW p \in Partitions, NEW i \in 1..position[p]
        PROVE  log'[p][i] = log[p][i]
    <3>1. position[p] \in Nat /\ Len(log[p]) \in Nat /\ position[p] <= Len(log[p])
      BY DEF OffsetInv, OffsetsOrdered
    <3>2. i \in 1..Len(log[p])
      BY <3>1
    <3> QED
      BY <1>12, <3>2, LogGrows
  <2>4. \A p \in Partitions : \A i \in 1..committed[p] : i \in 1..position[p]
    BY DEF OffsetInv, OffsetsOrdered
  <2> QED
    BY <2>1, <2>2, <2>3, <2>4 DEF AccountInv, Kept, Owned
<1>13. CASE UNCHANGED vars
  <2>1. Kept
    BY <1>13, KeptWhenUntouched DEF vars, Lasting
  <2> QED
    BY <1>13, <2>1, AccountFrame DEF vars
<1> QED
  BY <1>1, <1>2, <1>3, <1>4, <1>5, <1>6, <1>7, <1>8, <1>9, <1>10, <1>11, <1>12, <1>13,
     AccountConsumerStep, AccountHandlerStep DEF Next, GroupTask, MainTask, Environment

\* Below the committed offsets, and below the positions of the running loops,
\* every entry is accounted for or in the batch at hand.
THEOREM AccountHolds == Spec => []AccountInv
<1>1. Init => AccountInv
  BY DEF Init, ConsumerInit, AccountInv
<1> QED
  BY <1>1, AccountStep, TypesStay, StagesHold, OffsetsHold, PTL DEF Spec

\* Nothing disappears between a commit and the database without a trace.
THEOREM CommittedEntriesAccountedFor == Spec => []CommittedAccountedFor
<1>1. TypeInv /\ AccountInv => CommittedAccountedFor
  <2> SUFFICES ASSUME TypeInv, AccountInv, NEW e \in CommittedEntries PROVE Accounted(e)
    BY DEF CommittedAccountedFor
  <2>1. PICK p \in Partitions : \E i \in (0 + 1)..committed[p] : e = <<p, i, log[p][i]>>
    BY BetweenElements DEF CommittedEntries
  <2> QED
    BY <2>1 DEF AccountInv
<1> QED
  BY <1>1, TypesStay, AccountHolds, PTL

-----------------------------------------------------------------------------
(* Backpressure: the writer's memory is bounded by the batch and poll sizes, *)
(* whatever the backlog of the broker.                                       *)

\* A union counts no more than its parts.
LEMMA UnionCount ==
    ASSUME NEW S, NEW T, IsFiniteSet(S), IsFiniteSet(T)
    PROVE  /\ Cardinality(S \union T) \in Nat
           /\ Cardinality(S) \in Nat
           /\ Cardinality(T) \in Nat
           /\ Cardinality(S \union T) <= Cardinality(S) + Cardinality(T)
<1>1. /\ IsFiniteSet(S \union T)
      /\ Cardinality(S \union T) = Cardinality(S) + Cardinality(T) - Cardinality(S \cap T)
  BY FS_Union
<1>2. IsFiniteSet(S \cap T)
  BY FS_Subset
<1>3. /\ Cardinality(S \union T) \in Nat /\ Cardinality(S) \in Nat
      /\ Cardinality(T) \in Nat /\ Cardinality(S \cap T) \in Nat
  BY <1>1, <1>2, FS_CardinalityType
<1> QED
  BY <1>1, <1>3

\* A part counts no more than the whole.
LEMMA PartCount ==
    ASSUME NEW S, IsFiniteSet(S), NEW T, T \subseteq S
    PROVE  /\ Cardinality(T) \in Nat
           /\ Cardinality(S) \in Nat
           /\ Cardinality(T) <= Cardinality(S)
BY FS_Subset, FS_CardinalityType

\* A step that buffers nothing and hands nothing to a flush keeps MemoryInv.
LEMMA MemoryFrame ==
    ASSUME TypeInv, MemoryInv,
           UNCHANGED <<buffers, pending>>,
           \A t \in Tasks : inflight'[t] \subseteq inflight[t],
           \A g \in Groups : batch'[g] \subseteq batch[g]
    PROVE  MemoryInv'
<1>1. \A t \in Tasks : /\ Cardinality(inflight'[t]) \in Nat /\ Cardinality(inflight[t]) \in Nat
                       /\ Cardinality(inflight'[t]) <= Cardinality(inflight[t])
  BY PartCount
<1>2. \A g \in Groups : /\ Cardinality(batch'[g]) \in Nat /\ Cardinality(batch[g]) \in Nat
                        /\ Cardinality(batch'[g]) <= Cardinality(batch[g])
  BY PartCount
<1>3. \A g \in Groups : Cardinality(batch'[g]) <= MaxPoll
  <2> SUFFICES ASSUME NEW g \in Groups PROVE Cardinality(batch'[g]) <= MaxPoll
    OBVIOUS
  <2>1. Cardinality(batch[g]) <= MaxPoll
    BY DEF MemoryInv
  <2> QED
    BY <1>2, <2>1, ConsumerAssumption
<1>4. \A t \in {Periodic, Main} : Cardinality(inflight'[t]) < BatchSize
  <2> SUFFICES ASSUME NEW t \in {Periodic, Main}
               PROVE  Cardinality(inflight'[t]) < BatchSize
    OBVIOUS
  <2>1. Cardinality(inflight[t]) < BatchSize
    BY DEF MemoryInv, MemoryBounded
  <2> QED
    BY <1>1, <2>1, WriterAssumption
<1>5. \A g \in Groups : Cardinality(inflight'[g]) < BatchSize + MaxPoll
  <2> SUFFICES ASSUME NEW g \in Groups PROVE Cardinality(inflight'[g]) < BatchSize + MaxPoll
    OBVIOUS
  <2>1. Cardinality(inflight[g]) < BatchSize + MaxPoll
    BY DEF MemoryInv, MemoryBounded
  <2> QED
    BY <1>1, <2>1, WriterAssumption, ConsumerAssumption
<1> QED
  BY <1>3, <1>4, <1>5 DEF MemoryInv, MemoryBounded

\* The buffered rows fit in one write batch.
LEMMA TailFits ==
    ASSUME TypeInv, MemoryInv
    PROVE  Cardinality(buffers) < BatchSize
<1>1. Cardinality(buffers) \in Nat
  BY FS_CardinalityType
<1>2. Cardinality(buffers) <= pending /\ pending < BatchSize
  BY DEF MemoryInv, MemoryBounded
<1> QED
  BY <1>1, <1>2, WriterAssumption

\* Nothing counts nothing.
LEMMA EmptyFits ==
    /\ Cardinality({}) = 0
    /\ 0 < BatchSize
    /\ 0 < BatchSize + MaxPoll
    /\ 0 <= MaxPoll
BY FS_EmptySet, WriterAssumption, ConsumerAssumption

\* One batch at most is added to less than one write batch.
LEMMA MemoryHandlerStep ==
    ASSUME TypeInv, MemoryInv, NEW g \in Groups, HandleBatch(g)
    PROVE  MemoryInv'
<1>1. PICK failed \in SUBSET batch[g] : Add(g, batch[g] \ failed)
  BY DEF HandleBatch
<1> DEFINE new == {e \in batch[g] \ failed : HasRow(e)}
<1>2. /\ Cardinality(new) \in Nat
      /\ Cardinality(new) <= MaxPoll
      /\ IsFiniteSet(new)
  <2>1. new \subseteq batch[g]
    OBVIOUS
  <2>2. Cardinality(batch[g]) <= MaxPoll
    BY DEF MemoryInv
  <2> QED
    BY <2>1, <2>2, PartCount, FS_Subset, ConsumerAssumption
<1>3. /\ Cardinality(buffers \union new) \in Nat
      /\ Cardinality(buffers) \in Nat
      /\ Cardinality(buffers \union new) <= Cardinality(buffers) + Cardinality(new)
  BY <1>2, UnionCount
<1>4. Cardinality(buffers) <= pending /\ pending < BatchSize
  BY DEF MemoryInv, MemoryBounded
<1>5. \A h \in Groups : Cardinality(batch'[h]) <= MaxPoll
  <2>1. batch' = [batch EXCEPT ![g] = {}]
    BY DEF HandleBatch
  <2>2. \A h \in Groups : batch'[h] = {} \/ batch'[h] = batch[h]
    BY <2>1
  <2> QED
    BY <2>2, EmptyFits DEF MemoryInv
<1>6. CASE ReachesThreshold(batch[g] \ failed) /\ SwapOut(g, buffers \union new)
  <2>1. Cardinality(buffers \union new) < BatchSize + MaxPoll
    BY <1>2, <1>3, <1>4, WriterAssumption, ConsumerAssumption
  <2>2. /\ inflight' = [inflight EXCEPT ![g] = buffers \union new]
        /\ buffers' = {} /\ pending' = 0
    BY <1>6 DEF SwapOut
  <2>3. \A t \in Tasks : t # g => inflight'[t] = inflight[t]
    BY <2>2
  <2>4. inflight'[g] = buffers \union new
    BY <2>2
  <2>5. \A h \in Groups : Cardinality(inflight'[h]) < BatchSize + MaxPoll
    BY <2>1, <2>3, <2>4 DEF MemoryInv, MemoryBounded
  <2>6. Periodic # g /\ Main # g
    OBVIOUS
  <2>7. /\ Cardinality(inflight'[Periodic]) < BatchSize
        /\ Cardinality(inflight'[Main]) < BatchSize
    BY <2>3, <2>6 DEF MemoryInv, MemoryBounded
  <2>8. pending' < BatchSize /\ Cardinality(buffers') <= pending'
    BY <2>2, EmptyFits
  <2> QED
    BY <1>5, <2>5, <2>7, <2>8 DEF MemoryInv, MemoryBounded
<1>7. CASE /\ ~ ReachesThreshold(batch[g] \ failed)
           /\ buffers' = buffers \union new
           /\ pending' = pending + Cardinality(new)
           /\ UNCHANGED <<inflight, flushing>>
  <2>1. pending + Cardinality(new) < BatchSize
    <3>1. ~ (pending + Cardinality(new) >= BatchSize)
      BY <1>7 DEF ReachesThreshold
    <3> QED
      BY <1>2, <3>1, WriterAssumption
  <2>2. Cardinality(buffers') <= pending'
    BY <1>2, <1>3, <1>4, <1>7
  <2> QED
    BY <1>5, <1>7, <2>1, <2>2 DEF MemoryInv, MemoryBounded
<1> QED
  BY <1>1, <1>6, <1>7 DEF Add

LEMMA MemoryStep ==
    ASSUME TypeInv, StageInv, MemoryInv, [Next]_vars
    PROVE  MemoryInv'
<1> USE DEF controlVars, brokerVars, writerVars, consumerVars
<1>1. ASSUME NEW g \in Groups, ConsumerStep(g) PROVE MemoryInv'
  <2>1. CASE ExitLoop(g) \/ BeginPoll(g) \/ PollEmpty(g) \/ Decoded(g) \/ BackoffEnds(g)
    BY <1>1, <2>1, MemoryFrame
       DEF ConsumerStep, ExitLoop, BeginPoll, PollEmpty, Decoded, BackoffEnds
  <2>2. CASE DeadLetter(g)
    <3>1. \A h \in Groups : batch'[h] \subseteq batch[h]
      BY <2>2 DEF DeadLetter
    <3> QED
      BY <1>1, <3>1, MemoryFrame DEF ConsumerStep
  <2>3. CASE Fetch(g)
    <3>1. /\ Cardinality(Between(position, position')) <= MaxPoll
          /\ batch' = [batch EXCEPT ![g] = Between(position, position')]
      BY <2>3, FetchSteps
    <3>2. \A h \in Groups : Cardinality(batch'[h]) <= MaxPoll
      BY <3>1 DEF MemoryInv
    <3> QED
      BY <1>1, <3>2 DEF MemoryInv, MemoryBounded, ConsumerStep
  <2>4. CASE Commit(g) \/ KafkaError(g)
    BY <1>1, <2>4, MemoryFrame DEF ConsumerStep, Commit, KafkaError
  <2> QED
    BY <1>1, <2>1, <2>2, <2>3, <2>4 DEF ConsumerStep
<1>2. ASSUME NEW g \in Groups, HandlerReturns(g) PROVE MemoryInv'
  BY <1>2, MemoryFrame DEF HandlerReturns, FlushReturns
<1>3. ASSUME NEW t \in Tasks, WriteStep(t) PROVE MemoryInv'
  <2>1. PICK k \in Tables : WriteTable(t, k) \/ WriteFails(t, k)
    BY <1>3 DEF WriteStep
  <2>2. /\ inflight' = [inflight EXCEPT ![t] = inflight[t] \ RowsFor(inflight[t], k)]
        /\ UNCHANGED <<buffers, pending, batch>>
    BY <1>3, <2>1 DEF WriteStep, WriteTable, WriteFails
  <2>3. \A u \in Tasks : inflight'[u] \subseteq inflight[u]
    BY <2>2
  <2> QED
    BY <2>2, <2>3, MemoryFrame
<1>4. CASE PeriodicTask
  <2>1. CASE PeriodicFlush /\ UNCHANGED <<consumerVars, phase, vanished>>
    <3>1. /\ inflight' = [inflight EXCEPT ![Periodic] = buffers]
          /\ buffers' = {} /\ pending' = 0 /\ batch' = batch
      BY <2>1 DEF PeriodicFlush, SwapOut
    <3>2. inflight'[Periodic] = buffers /\ \A t \in Tasks : t # Periodic => inflight'[t] = inflight[t]
      BY <3>1
    <3> QED
      BY <3>1, <3>2, TailFits, EmptyFits DEF MemoryInv, MemoryBounded
  <2>2. CASE FlushReturns(Periodic) /\ UNCHANGED <<consumerVars, phase, vanished>>
    BY <2>2, MemoryFrame DEF FlushReturns
  <2> QED
    BY <1>3, <1>4, <2>1, <2>2 DEF PeriodicTask
<1>5. ASSUME NEW g \in Groups, StartGroup(g) \/ StopGroup(g) \/ GroupStopped(g) PROVE MemoryInv'
  BY <1>5, MemoryFrame DEF StartGroup, StartConsumer, StopGroup, RequestStop, GroupStopped,
                           FinishStop
<1>6. CASE StopWriting
  <2>1. /\ inflight' = [inflight EXCEPT ![Periodic] = {}, ![Main] = buffers]
        /\ buffers' = {} /\ pending' = 0 /\ batch' = batch
    BY <1>6 DEF StopWriting, StopWriter
  <2>2. /\ inflight'[Periodic] = {} /\ inflight'[Main] = buffers
        /\ \A g \in Groups : inflight'[g] = inflight[g]
    BY <2>1
  <2>3. /\ Cardinality(inflight'[Periodic]) < BatchSize
        /\ Cardinality(inflight'[Main]) < BatchSize
    BY <2>2, TailFits, EmptyFits
  <2>4. pending' < BatchSize /\ Cardinality(buffers') <= pending'
    BY <2>1, EmptyFits
  <2> QED
    BY <2>1, <2>2, <2>3, <2>4 DEF MemoryInv, MemoryBounded
<1>7. CASE FlushReturns(Main) /\ UNCHANGED <<consumerVars, phase, vanished>>
  BY <1>7, MemoryFrame DEF FlushReturns
<1>8. CASE Exit \/ Crash
  <2>1. /\ buffers' = {} /\ pending' = 0
        /\ \A g \in Groups : batch'[g] = {}
        /\ \A t \in Tasks : inflight'[t] = {}
    BY <1>8 DEF Exit, Crash, ProcessGone
  <2>2. \A t \in Tasks : /\ Cardinality(inflight'[t]) < BatchSize
                          /\ Cardinality(inflight'[t]) < BatchSize + MaxPoll
    BY <2>1, EmptyFits
  <2>3. \A g \in Groups : Cardinality(batch'[g]) <= MaxPoll
    BY <2>1, EmptyFits
  <2>4. pending' < BatchSize /\ Cardinality(buffers') <= pending'
    BY <2>1, EmptyFits
  <2> QED
    BY <2>2, <2>3, <2>4 DEF MemoryInv, MemoryBounded
<1>9. CASE DlqTask \/ DlqLost \/ Start \/ Stop
  BY <1>9, MemoryFrame DEF DlqTask, DlqDelivered, DlqLost, Start, StartWriter, Stop
<1>10. ASSUME NEW g \in Groups, Rebalance(g) \/ Pause(g) \/ Resume(g),
              UNCHANGED <<writerVars, phase, vanished>>
       PROVE  MemoryInv'
  BY <1>10, MemoryFrame DEF Rebalance, Pause, Resume
<1>11. ASSUME NEW r \in Records, Produce(r), UNCHANGED <<writerVars, phase, vanished>>
       PROVE  MemoryInv'
  BY <1>11, MemoryFrame DEF Produce
<1>12. ASSUME NEW g \in Groups, CancelGroup(g) PROVE MemoryInv'
  <2>1. /\ \A t \in Tasks : inflight'[t] \subseteq inflight[t]
        /\ \A h \in Groups : batch'[h] \subseteq batch[h]
    BY <1>12 DEF CancelGroup, CancelTask, CancelFlush
  <2> QED
    BY <1>12, <2>1, MemoryFrame DEF CancelGroup
<1>13. CASE UNCHANGED vars
  BY <1>13, MemoryFrame DEF vars
<1> QED
  BY <1>1, <1>2, <1>3, <1>4, <1>5, <1>6, <1>7, <1>8, <1>9, <1>10, <1>11, <1>12, <1>13,
     MemoryHandlerStep DEF Next, GroupTask, MainTask, Environment

\* The bound, together with what makes it inductive: a batch is one poll.
THEOREM MemoryHolds == Spec => []MemoryInv
<1>1. Init => MemoryInv
  BY EmptyFits DEF Init, ConsumerInit, WriterInit, MemoryInv, MemoryBounded
<1> QED
  BY <1>1, MemoryStep, TypesStay, StagesHold, PTL DEF Spec

\* Memory stays bounded however far the broker is ahead of the processor.
THEOREM MemoryStaysBounded == Spec => []MemoryBounded
<1>1. MemoryInv => MemoryBounded
  BY DEF MemoryInv
<1> QED
  BY <1>1, MemoryHolds, PTL

-----------------------------------------------------------------------------
(* The processor implements EventFate. *)

\* The dead-letter producer holds only what was counted.
DlqInv == dlqBuffer \subseteq deadLettered

\* The state functions the refinement mapping substitutes.
HeldRecords  == RecordsOf(InMemory)
LostEntries  == deadLettered \union dropped \union vanished
LostRecords  == RecordsOf(LostEntries)
Acknowledged == RecordsOf(CommittedEntries)

FateStepOf == [Fate!Next]_(Fate!fateVars)

USE DEF HeldRecords, LostEntries, LostRecords, Acknowledged, FateStepOf

-----------------------------------------------------------------------------
(* The abstract actions, seen through the mapping. *)

LEMMA RecordsOfUnion ==
    ASSUME NEW S, NEW T
    PROVE  RecordsOf(S \union T) = RecordsOf(S) \union RecordsOf(T)
BY DEF RecordsOf

LEMMA RecordsOfPart ==
    ASSUME NEW S, NEW T, S \subseteq T
    PROVE  RecordsOf(S) \subseteq RecordsOf(T)
BY DEF RecordsOf

LEMMA MemoryHeld ==
    ASSUME NEW e
    PROVE  e \in InMemory <=> Held(e)
BY DEF InMemory, Held

\* What was published and acknowledged depends on the log and the offsets only.
LEMMA SameOffsets ==
    ASSUME UNCHANGED <<log, committed>>
    PROVE  UNCHANGED <<Published, Acknowledged>>
BY DEF Published, CommittedEntries, Between, RecordsOf

LEMMA SeenStutter ==
    ASSUME UNCHANGED <<Published, HeldRecords, rows, LostRecords, Acknowledged>>
    PROVE  FateStepOf
BY DEF Fate!fateVars

LEMMA SeenPublish ==
    ASSUME NEW r \in Records, Published' = Published \union {r},
           UNCHANGED <<HeldRecords, rows, LostRecords, Acknowledged>>
    PROVE  FateStepOf
BY DEF Fate!Next, Fate!Publish

LEMMA SeenTake ==
    ASSUME NEW kept \in SUBSET Published, NEW lost \in SUBSET Published,
           HeldRecords' = HeldRecords \union kept,
           LostRecords' = LostRecords \union lost,
           UNCHANGED <<Published, rows, Acknowledged>>
    PROVE  FateStepOf
BY DEF Fate!Next, Fate!Take

LEMMA SeenSettle ==
    ASSUME NEW written \in SUBSET HeldRecords,
           NEW lost \in SUBSET (HeldRecords \union LostRecords),
           HeldRecords' \subseteq HeldRecords,
           HeldRecords \ HeldRecords' \subseteq written \union lost,
           rows' = rows \union written,
           LostRecords' = LostRecords \union lost,
           UNCHANGED <<Published, Acknowledged>>
    PROVE  FateStepOf
<1> DEFINE remaining == HeldRecords'
<1>1. remaining \in SUBSET HeldRecords
  OBVIOUS
<1>2. Fate!Settle(written, lost, remaining)
  BY DEF Fate!Settle
<1> HIDE DEF remaining
<1> QED
  BY <1>1, <1>2 DEF Fate!Next

LEMMA SeenAcknowledge ==
    ASSUME Acknowledged' \subseteq Published,
           Acknowledged \subseteq Acknowledged',
           Acknowledged' \subseteq HeldRecords \union rows \union LostRecords \union
                                   {r \in Records : TableOf[r] = NoTable /\ r \notin Poison},
           UNCHANGED <<Published, HeldRecords, rows, LostRecords>>
    PROVE  FateStepOf
<1> DEFINE done == Acknowledged'
<1>1. Fate!Acknowledge(done)
  BY DEF Fate!Acknowledge
<1> HIDE DEF done
<1>2. done \in SUBSET Published
  BY DEF done
<1> QED
  BY <1>1, <1>2 DEF Fate!Next

\* Entries that leave memory, with the others where they were.
LEMMA MemoryLeaves ==
    ASSUME NEW gone, InMemory \ gone \subseteq InMemory', InMemory' \subseteq InMemory
    PROVE  /\ HeldRecords' \subseteq HeldRecords
           /\ HeldRecords \ HeldRecords' \subseteq RecordsOf(gone)
<1>1. HeldRecords' \subseteq HeldRecords
  BY RecordsOfPart DEF RecordsOf
<1>2. \A e \in InMemory : e \in gone \/ e \in InMemory'
  OBVIOUS
<1>3. HeldRecords \ HeldRecords' \subseteq RecordsOf(gone)
  BY <1>2 DEF RecordsOf
<1> QED
  BY <1>1, <1>3

\* Destroyed entries are settled as lost.
LEMMA SeenDestroyed ==
    ASSUME NEW gone \in SUBSET InMemory, InMemory \ gone \subseteq InMemory',
           InMemory' \subseteq InMemory,
           NEW counted \in SUBSET LostEntries,
           LostEntries' = LostEntries \union gone \union counted,
           UNCHANGED <<log, committed, rows>>
    PROVE  FateStepOf
<1>1. UNCHANGED <<Published, Acknowledged>>
  BY SameOffsets
<1>2. RecordsOf(gone) \in SUBSET (HeldRecords \union LostRecords)
  BY RecordsOfPart
<1>3. LostEntries' = LostEntries \union gone
  OBVIOUS
<1>4. LostRecords' = LostRecords \union RecordsOf(gone)
  BY <1>3, RecordsOfUnion
<1>5. /\ HeldRecords' \subseteq HeldRecords
      /\ HeldRecords \ HeldRecords' \subseteq RecordsOf(gone)
  BY MemoryLeaves
<1>6. {} \in SUBSET HeldRecords /\ rows' = rows \union {}
  OBVIOUS
<1>7. HeldRecords \ HeldRecords' \subseteq {} \union RecordsOf(gone)
  BY <1>5
<1> HIDE DEF HeldRecords, LostRecords, Acknowledged, FateStepOf
<1> QED
  BY <1>1, <1>2, <1>4, <1>5, <1>6, <1>7, SeenSettle

-----------------------------------------------------------------------------
(* Every step is an abstract step. *)

LEMMA DlqStep ==
    ASSUME DlqInv, [Next]_vars
    PROVE  DlqInv'
<1> USE DEF DlqInv, controlVars, brokerVars, writerVars, consumerVars
<1>1. ASSUME NEW g \in Groups, GroupTask(g) PROVE DlqInv'
  <2>1. CASE DeadLetter(g)
    BY <2>1 DEF DeadLetter
  <2>2. CASE ExitLoop(g) \/ BeginPoll(g) \/ Fetch(g) \/ PollEmpty(g) \/ Decoded(g)
             \/ Commit(g) \/ KafkaError(g) \/ BackoffEnds(g)
    BY <2>2 DEF ExitLoop, BeginPoll, Fetch, PollEmpty, Decoded, Commit, KafkaError, BackoffEnds
  <2>3. CASE HandleBatch(g) \/ HandlerReturns(g) \/ WriteStep(g)
    BY <2>3 DEF HandleBatch, HandlerReturns, WriteStep
  <2> QED
    BY <1>1, <2>1, <2>2, <2>3 DEF GroupTask, ConsumerStep
<1>2. CASE PeriodicTask \/ DlqTask \/ Start
  BY <1>2 DEF PeriodicTask, WriteStep, DlqTask, DlqDelivered, Start
<1>3. CASE MainTask
  BY <1>3 DEF MainTask, StartGroup, StartConsumer, StopGroup, RequestStop, GroupStopped,
              FinishStop, StopWriting, WriteStep, Exit, ProcessGone
<1>4. CASE Environment
  BY <1>4 DEF Environment, Produce, Rebalance, Pause, Resume, CancelGroup, CancelTask,
              Stop, Crash, ProcessGone, DlqLost
<1>5. CASE UNCHANGED vars
  BY <1>5 DEF vars
<1> QED
  BY <1>1, <1>2, <1>3, <1>4, <1>5 DEF Next

\* A step that moves no entry stutters.
LEMMA QuietStep ==
    ASSUME UNCHANGED <<log, committed, buffers, inflight, rows, deadLettered, dropped, vanished>>
    PROVE  FateStepOf
<1>1. UNCHANGED <<Published, Acknowledged>>
  BY SameOffsets
<1>2. UNCHANGED <<HeldRecords, LostRecords>>
  BY DEF InMemory
<1> HIDE DEF HeldRecords, LostRecords, Acknowledged, FateStepOf
<1> QED
  BY <1>1, <1>2, SeenStutter

\* A logged entry's record was published.
LEMMA LoggedPublished ==
    ASSUME NEW e, Logged(e)
    PROVE  RecordOf(e) \in Published
<1>1. PICK p \in Partitions : \E i \in 1..Len(log[p]) : e = <<p, i, log[p][i]>>
  BY DEF Logged
<1>2. PICK i \in 1..Len(log[p]) : e = <<p, i, log[p][i]>>
  BY <1>1
<1>3. RecordOf(e) = log[p][i]
  BY <1>2 DEF RecordOf
<1>4. log[p][i] \in {log[p][j] : j \in 1..Len(log[p])}
  OBVIOUS
<1> QED
  BY <1>3, <1>4 DEF Published

LEMMA BatchPublished ==
    ASSUME OffsetInv, NEW g \in Groups, NEW S \in SUBSET batch[g]
    PROVE  RecordsOf(S) \subseteq Published
<1>1. \A e \in S : RecordOf(e) \in Published
  BY LoggedPublished DEF OffsetInv
<1> QED
  BY <1>1 DEF RecordsOf

\* A commit acknowledges entries whose fate AccountInv knows.
LEMMA CommitSeen ==
    ASSUME TypeInv, TypeInv', OffsetInv, OffsetInv', AccountInv',
           \A p \in Partitions : committed'[p] >= committed[p],
           UNCHANGED <<log, buffers, inflight, rows, deadLettered, dropped, vanished>>
    PROVE  FateStepOf
<1>1. UNCHANGED <<Published, HeldRecords, LostRecords>>
  BY DEF Published, InMemory
<1>2. Acknowledged \subseteq Acknowledged'
  <2> SUFFICES ASSUME NEW e \in CommittedEntries PROVE e \in CommittedEntries'
    BY DEF RecordsOf
  <2>1. PICK p \in Partitions : \E i \in (0 + 1)..committed[p] : e = <<p, i, log[p][i]>>
    BY BetweenElements DEF CommittedEntries
  <2>2. PICK i \in (0 + 1)..committed[p] : e = <<p, i, log[p][i]>>
    BY <2>1
  <2>3. committed[p] \in Nat /\ committed'[p] \in Nat /\ committed[p] <= committed'[p]
    OBVIOUS
  <2>4. i \in (0 + 1)..committed'[p]
    BY <2>3
  <2> QED
    BY <2>2, <2>4 DEF CommittedEntries, Between
<1>3. ASSUME NEW e \in CommittedEntries'
      PROVE  /\ RecordOf(e) \in Published
             /\ RecordOf(e) \in HeldRecords \union rows \union LostRecords \union
                                {r \in Records : TableOf[r] = NoTable /\ r \notin Poison}
  <2>1. PICK p \in Partitions : \E i \in (0 + 1)..committed'[p] : e = <<p, i, log[p][i]>>
    BY <1>3 DEF CommittedEntries, Between
  <2>2. PICK i \in (0 + 1)..committed'[p] : e = <<p, i, log[p][i]>>
    BY <2>1
  <2>3. /\ committed'[p] <= Len(log[p]) /\ committed'[p] \in Nat /\ Len(log[p]) \in Nat
        /\ log[p] \in Seq(Records)
    <3>1. committed'[p] <= position'[p] /\ position'[p] <= Len(log[p])
      BY DEF OffsetInv, OffsetsOrdered
    <3>2. committed'[p] \in Nat /\ position'[p] \in Nat
      OBVIOUS
    <3>3. Len(log[p]) \in Nat /\ log[p] \in Seq(Records)
      OBVIOUS
    <3> QED
      BY <3>1, <3>2, <3>3
  <2>4. i \in 1..Len(log[p])
    BY <2>3
  <2>5. Logged(e)
    BY <2>2, <2>4 DEF Logged
  <2>6. RecordOf(e) \in Records
    BY <2>2, <2>3, <2>4 DEF RecordOf
  <2>7. Accounted(e)
    <3>1. Accounted(e)'
      BY <2>2 DEF AccountInv
    <3> QED
      BY <3>1 DEF Accounted, Stored, Counted, Held, Metadata
  <2>8. e \in InMemory => RecordOf(e) \in HeldRecords
    BY DEF RecordsOf
  <2>9. e \in LostEntries => RecordOf(e) \in LostRecords
    BY DEF RecordsOf
  <2>10. Stored(e) \/ Metadata(e) \/ e \in LostEntries \/ e \in InMemory
    BY <2>7, MemoryHeld DEF Accounted, Counted
  <2>11. \/ RecordOf(e) \in rows \/ RecordOf(e) \in HeldRecords \/ RecordOf(e) \in LostRecords
         \/ RecordOf(e) \in {r \in Records : TableOf[r] = NoTable /\ r \notin Poison}
    BY <2>6, <2>8, <2>9, <2>10 DEF Stored, Metadata, HasRow
  <2> QED
    BY <2>5, <2>11, LoggedPublished
<1> HIDE DEF HeldRecords, LostRecords, FateStepOf
<1>4. \A r \in Acknowledged' : \E e \in CommittedEntries' : r = RecordOf(e)
  BY DEF RecordsOf
<1> HIDE DEF Acknowledged
<1>5. /\ Acknowledged' \subseteq Published
      /\ Acknowledged' \subseteq HeldRecords \union rows \union LostRecords \union
                                 {r \in Records : TableOf[r] = NoTable /\ r \notin Poison}
  BY <1>3, <1>4
<1> QED
  BY <1>1, <1>2, <1>5, SeenAcknowledge

LEMMA HandleSeen ==
    ASSUME TypeInv, StageInv, OffsetInv, NEW g \in Groups, HandleBatch(g)
    PROVE  FateStepOf
<1> USE DEF controlVars, brokerVars
<1>1. PICK failed \in SUBSET batch[g] : /\ dropped' = dropped \union failed
                                        /\ Add(g, batch[g] \ failed)
  BY DEF HandleBatch
<1> DEFINE new == {e \in batch[g] \ failed : HasRow(e)}
<1>2. /\ pc[g] = "handle"
      /\ UNCHANGED <<log, committed, deadLettered, vanished, rows>>
  BY <1>1 DEF HandleBatch, Add
<1>3. inflight[g] = {}
  BY <1>2 DEF StageInv
<1>4. InMemory' = InMemory \union new
  <2>1. CASE SwapOut(g, buffers \union new)
    <3>1. /\ inflight' = [inflight EXCEPT ![g] = buffers \union new]
          /\ buffers' = {}
      BY <2>1 DEF SwapOut
    <3>2. /\ inflight'[g] = buffers \union new
          /\ \A t \in Tasks : t # g => inflight'[t] = inflight[t]
      BY <3>1
    <3> HIDE DEF new
    <3>3. \A e : Held(e)' <=> Held(e) \/ e \in new
      BY <1>3, <3>1, <3>2 DEF Held
    <3>4. \A e : e \in InMemory' <=> Held(e)'
      BY DEF InMemory, Held
    <3> QED
      BY <3>3, <3>4, MemoryHeld
  <2>2. CASE buffers' = buffers \union new /\ UNCHANGED inflight
    BY <2>2 DEF InMemory
  <2> QED
    BY <1>1, <2>1, <2>2 DEF Add
<1>5. HeldRecords' = HeldRecords \union RecordsOf(new)
  BY <1>4, RecordsOfUnion
<1>6. LostEntries' = LostEntries \union failed
  BY <1>1, <1>2
<1>7. LostRecords' = LostRecords \union RecordsOf(failed)
  BY <1>6, RecordsOfUnion
<1>8. RecordsOf(new) \in SUBSET Published /\ RecordsOf(failed) \in SUBSET Published
  BY BatchPublished
<1>9. UNCHANGED <<Published, Acknowledged>>
  BY <1>2, SameOffsets
<1> HIDE DEF HeldRecords, LostRecords, Acknowledged, FateStepOf, new
<1> QED
  BY <1>2, <1>5, <1>7, <1>8, <1>9, SeenTake

LEMMA DeadLetterSeen ==
    ASSUME TypeInv, OffsetInv, NEW g \in Groups, DeadLetter(g),
           UNCHANGED <<writerVars, phase, vanished>>
    PROVE  FateStepOf
<1> USE DEF controlVars, brokerVars, writerVars
<1>1. PICK e \in batch[g] : deadLettered' = deadLettered \union {e}
  BY DEF DeadLetter
<1>2. UNCHANGED <<log, committed, buffers, inflight, rows, dropped, vanished>>
  BY DEF DeadLetter
<1>3. LostEntries' = LostEntries \union {e}
  BY <1>1, <1>2
<1>4. LostRecords' = LostRecords \union RecordsOf({e})
  BY <1>3, RecordsOfUnion
<1>5. RecordsOf({e}) \in SUBSET Published
  BY BatchPublished
<1>6. UNCHANGED <<Published, Acknowledged, HeldRecords>>
  BY <1>2, SameOffsets DEF InMemory
<1>7. {} \in SUBSET Published /\ HeldRecords' = HeldRecords \union {}
  BY <1>6
<1> HIDE DEF HeldRecords, LostRecords, Acknowledged, FateStepOf
<1> QED
  BY <1>2, <1>4, <1>5, <1>6, <1>7, SeenTake

LEMMA WriteSeen ==
    ASSUME TypeInv, NEW t \in Tasks, WriteStep(t)
    PROVE  FateStepOf
<1> USE DEF controlVars, brokerVars
<1>1. PICK k \in Tables : WriteTable(t, k) \/ WriteFails(t, k)
  BY DEF WriteStep
<1> DEFINE gone == RowsFor(inflight[t], k)
<1>2. /\ inflight' = [inflight EXCEPT ![t] = inflight[t] \ gone]
      /\ buffers' = buffers
      /\ UNCHANGED <<log, committed, deadLettered, vanished>>
  BY <1>1 DEF WriteStep, WriteTable, WriteFails
<1>3. gone \subseteq inflight[t]
  BY DEF RowsFor
<1>4. PICK written \in {{}, RecordsOf(gone)}, lost \in SUBSET gone :
        /\ rows' = rows \union written
        /\ dropped' = dropped \union lost
        /\ RecordsOf(gone) \subseteq written \union RecordsOf(lost)
  <2>1. CASE WriteTable(t, k)
    <3>1. rows' = rows \union RecordsOf(gone) /\ dropped' = dropped \union {}
      BY <2>1 DEF WriteTable
    <3> QED
      BY <3>1
  <2>2. CASE WriteFails(t, k)
    <3>1. /\ dropped' = dropped \union gone
          /\ rows' = rows \union {} \/ rows' = rows \union RecordsOf(gone)
      BY <2>2 DEF WriteFails
    <3> QED
      BY <3>1
  <2> QED
    BY <1>1, <2>1, <2>2
<1> HIDE DEF gone
<1>5. /\ inflight'[t] = inflight[t] \ gone
      /\ \A u \in Tasks : u # t => inflight'[u] = inflight[u]
  BY <1>2
<1>6. /\ InMemory \ gone \subseteq InMemory'
      /\ InMemory' \subseteq InMemory
      /\ gone \subseteq InMemory
  <2>1. \A e : Held(e) /\ e \notin gone => Held(e)'
    BY <1>2, <1>5 DEF Held
  <2>2. \A e : Held(e)' => Held(e)
    BY <1>2, <1>5 DEF Held
  <2>3. \A e : e \in InMemory' <=> Held(e)'
    BY DEF InMemory, Held
  <2>4. \A e \in gone : Held(e)
    BY <1>3 DEF Held
  <2> QED
    BY <2>1, <2>2, <2>3, <2>4, MemoryHeld
<1>7. /\ HeldRecords' \subseteq HeldRecords
      /\ HeldRecords \ HeldRecords' \subseteq RecordsOf(gone)
  BY <1>6, MemoryLeaves
<1>8. /\ written \in SUBSET HeldRecords
      /\ RecordsOf(lost) \in SUBSET (HeldRecords \union LostRecords)
  BY <1>4, <1>6, RecordsOfPart DEF RecordsOf
<1>9. LostEntries' = LostEntries \union lost
  BY <1>2, <1>4
<1>10. LostRecords' = LostRecords \union RecordsOf(lost)
  BY <1>9, RecordsOfUnion
<1>11. UNCHANGED <<Published, Acknowledged>>
  BY <1>2, SameOffsets
<1> HIDE DEF HeldRecords, LostRecords, LostEntries, Acknowledged, FateStepOf
<1>12. HeldRecords \ HeldRecords' \subseteq written \union RecordsOf(lost)
  BY <1>4, <1>7
<1> QED
  BY <1>4, <1>7, <1>8, <1>10, <1>11, <1>12, SeenSettle

\* Swapping rows out moves them within memory.
LEMMA PeriodicSeen ==
    ASSUME TypeInv, StageInv, PeriodicFlush, UNCHANGED <<consumerVars, phase, vanished>>
    PROVE  FateStepOf
<1>1. inflight[Periodic] = {}
  BY DEF PeriodicFlush, StageInv
<1>2. /\ inflight' = [inflight EXCEPT ![Periodic] = buffers]
      /\ buffers' = {}
      /\ UNCHANGED <<log, committed, rows, deadLettered, dropped, vanished>>
  BY DEF PeriodicFlush, SwapOut, consumerVars
<1>3. /\ inflight'[Periodic] = buffers
      /\ \A t \in Tasks : t # Periodic => inflight'[t] = inflight[t]
  BY <1>2
<1>4. \A e : Held(e)' <=> Held(e)
  BY <1>1, <1>2, <1>3 DEF Held
<1>5. \A e : e \in InMemory' <=> Held(e)'
  BY DEF InMemory, Held
<1>6. InMemory' = InMemory
  BY <1>4, <1>5, MemoryHeld
<1>7. UNCHANGED <<Published, Acknowledged, HeldRecords, LostRecords>>
  BY <1>2, <1>6, SameOffsets
<1> HIDE DEF HeldRecords, LostRecords, Acknowledged, FateStepOf
<1> QED
  BY <1>2, <1>7, SeenStutter

LEMMA StopWritingSeen ==
    ASSUME TypeInv, StageInv, StopWriting
    PROVE  FateStepOf
<1>1. inflight[Main] = {}
  BY DEF StopWriting, StageInv
<1>2. /\ inflight' = [inflight EXCEPT ![Periodic] = {}, ![Main] = buffers]
      /\ buffers' = {}
      /\ vanished' = vanished \union inflight[Periodic]
      /\ UNCHANGED <<log, committed, rows, deadLettered, dropped>>
  BY DEF StopWriting, StopWriter, consumerVars
<1>3. /\ inflight'[Main] = buffers /\ inflight'[Periodic] = {}
      /\ \A t \in Tasks : t \notin {Periodic, Main} => inflight'[t] = inflight[t]
  BY <1>2
<1>4. /\ \A e : Held(e) /\ e \notin inflight[Periodic] => Held(e)'
      /\ \A e : Held(e)' => Held(e)
      /\ \A e \in inflight[Periodic] : Held(e)
  BY <1>1, <1>2, <1>3 DEF Held
<1>5. \A e : e \in InMemory' <=> Held(e)'
  BY DEF InMemory, Held
<1>6. /\ inflight[Periodic] \in SUBSET InMemory
      /\ InMemory \ inflight[Periodic] \subseteq InMemory'
      /\ InMemory' \subseteq InMemory
  BY <1>4, <1>5, MemoryHeld
<1>7. {} \in SUBSET LostEntries /\ LostEntries' = LostEntries \union inflight[Periodic] \union {}
  BY <1>2
<1> HIDE DEF FateStepOf, LostEntries
<1> QED
  BY <1>2, <1>6, <1>7, SeenDestroyed

LEMMA CancelSeen ==
    ASSUME TypeInv, NEW g \in Groups, CancelGroup(g)
    PROVE  FateStepOf
<1> USE DEF brokerVars, controlVars
<1>1. /\ inflight' = [inflight EXCEPT ![g] = {}]
      /\ vanished' = vanished \union inflight[g]
      /\ UNCHANGED <<log, committed, buffers, rows, deadLettered, dropped>>
  BY DEF CancelGroup, CancelTask, CancelFlush
<1>2. inflight'[g] = {} /\ \A t \in Tasks : t # g => inflight'[t] = inflight[t]
  BY <1>1
<1>3. /\ \A e : Held(e) /\ e \notin inflight[g] => Held(e)'
      /\ \A e : Held(e)' => Held(e)
      /\ \A e \in inflight[g] : Held(e)
  BY <1>1, <1>2 DEF Held
<1>4. \A e : e \in InMemory' <=> Held(e)'
  BY DEF InMemory, Held
<1>5. /\ inflight[g] \in SUBSET InMemory
      /\ InMemory \ inflight[g] \subseteq InMemory'
      /\ InMemory' \subseteq InMemory
  BY <1>3, <1>4, MemoryHeld
<1>6. {} \in SUBSET LostEntries /\ LostEntries' = LostEntries \union inflight[g] \union {}
  BY <1>1
<1> HIDE DEF FateStepOf, LostEntries
<1> QED
  BY <1>1, <1>5, <1>6, SeenDestroyed

\* A process that ends empties its memory; what it still held is lost.
LEMMA GoneSeen ==
    ASSUME TypeInv, StageInv, DlqInv, Exit \/ Crash
    PROVE  FateStepOf
<1>1. /\ buffers' = {} /\ \A t \in Tasks : inflight'[t] = {}
      /\ UNCHANGED <<log, committed, rows, deadLettered, dropped>>
  BY DEF Exit, Crash, ProcessGone
<1>2. InMemory' = {}
  BY <1>1 DEF InMemory
<1>3. InMemory \ InMemory \subseteq InMemory' /\ InMemory' \subseteq InMemory
  BY <1>2
<1>4. CASE Exit
  <2>1. buffers = {} /\ \A t \in Tasks : inflight[t] = {}
    BY <1>4 DEF Exit, StageInv
  <2>2. InMemory = {}
    BY <2>1 DEF InMemory
  <2>3. vanished' = vanished
    BY <1>4 DEF Exit
  <2>4. UNCHANGED <<Published, Acknowledged, HeldRecords, LostRecords>>
    BY <1>1, <1>2, <2>2, <2>3, SameOffsets
  <2> HIDE DEF HeldRecords, LostRecords, Acknowledged, FateStepOf
  <2> QED
    BY <1>1, <2>4, SeenStutter
<1>5. CASE Crash
  <2>1. vanished' = vanished \union InMemory \union dlqBuffer
    BY <1>5 DEF Crash
  <2>2. dlqBuffer \in SUBSET LostEntries
    BY DEF DlqInv
  <2>3. LostEntries' = LostEntries \union InMemory \union dlqBuffer
    BY <1>1, <2>1
  <2> HIDE DEF FateStepOf, LostEntries
  <2> QED
    BY <1>1, <1>3, <2>2, <2>3, SeenDestroyed
<1> QED
  BY <1>4, <1>5

LEMMA ProduceSeen ==
    ASSUME TypeInv, OffsetInv, NEW r \in Records, Produce(r),
           UNCHANGED <<writerVars, phase, vanished>>
    PROVE  FateStepOf
<1>1. /\ HomeOf[r] \in Partitions
      /\ log' = [log EXCEPT ![HomeOf[r]] = Append(log[HomeOf[r]], r)]
      /\ UNCHANGED <<committed, buffers, inflight, rows, deadLettered, dropped, vanished>>
  BY TopicsAssumption DEF Produce, writerVars
<1>2. ASSUME NEW p \in Partitions
      PROVE  /\ log[p] \in Seq(Records) /\ Len(log[p]) \in Nat
             /\ p # HomeOf[r] => log'[p] = log[p]
             /\ p = HomeOf[r] => /\ Len(log'[p]) = Len(log[p]) + 1
                                 /\ log'[p][Len(log[p]) + 1] = r
             /\ \A i \in 1..Len(log[p]) : log'[p][i] = log[p][i] /\ i \in 1..Len(log'[p])
  <2>1. log[p] \in Seq(Records) /\ Len(log[p]) \in Nat
    OBVIOUS
  <2>2. CASE p # HomeOf[r]
    BY <1>1, <2>1, <2>2
  <2>3. CASE p = HomeOf[r]
    <3>1. log'[p] = Append(log[p], r)
      BY <1>1, <2>3
    <3> QED
      BY <2>1, <2>3, <3>1
  <2> QED
    BY <2>2, <2>3
<1>3. Published' = Published \union {r}
  <2>1. ASSUME NEW x \in Published' PROVE x \in Published \union {r}
    <3>1. PICK p \in Partitions : \E i \in 1..Len(log'[p]) : x = log'[p][i]
      BY <2>1 DEF Published
    <3>2. PICK i \in 1..Len(log'[p]) : x = log'[p][i]
      BY <3>1
    <3>3. i \in 1..Len(log[p]) \/ x = r
      <4>1. CASE p # HomeOf[r]
        BY <1>2, <3>2, <4>1
      <4>2. CASE p = HomeOf[r]
        <5>1. i \in 1..(Len(log[p]) + 1) /\ Len(log[p]) \in Nat
          BY <1>2, <3>2, <4>2
        <5>2. i \in 1..Len(log[p]) \/ i = Len(log[p]) + 1
          BY <5>1
        <5> QED
          BY <1>2, <3>2, <4>2, <5>2
      <4> QED
        BY <4>1, <4>2
    <3>4. i \in 1..Len(log[p]) => x = log[p][i]
      BY <1>2, <3>2
    <3> QED
      BY <3>3, <3>4 DEF Published
  <2>2. ASSUME NEW x \in Published PROVE x \in Published'
    <3>1. PICK p \in Partitions : \E i \in 1..Len(log[p]) : x = log[p][i]
      BY <2>2 DEF Published
    <3>2. PICK i \in 1..Len(log[p]) : x = log[p][i]
      BY <3>1
    <3>3. x = log'[p][i] /\ i \in 1..Len(log'[p])
      BY <1>2, <3>2
    <3> QED
      BY <3>3 DEF Published
  <2>3. r \in Published'
    <3>1. Len(log[HomeOf[r]]) + 1 \in 1..Len(log'[HomeOf[r]])
      BY <1>1, <1>2
    <3>2. r = log'[HomeOf[r]][Len(log[HomeOf[r]]) + 1]
      BY <1>1, <1>2
    <3>3. r \in {log'[HomeOf[r]][i] : i \in 1..Len(log'[HomeOf[r]])}
      BY <3>1, <3>2
    <3> QED
      BY <1>1, <3>3 DEF Published
  <2> QED
    BY <2>1, <2>2, <2>3
<1>4. Acknowledged' = Acknowledged
  <2>1. ASSUME NEW p \in Partitions, NEW i \in (0 + 1)..committed[p]
        PROVE  log'[p][i] = log[p][i]
    <3>1. committed[p] <= position[p] /\ position[p] <= Len(log[p])
      BY DEF OffsetInv, OffsetsOrdered
    <3>2. committed[p] \in Nat /\ position[p] \in Nat /\ Len(log[p]) \in Nat
      OBVIOUS
    <3>3. i \in 1..Len(log[p])
      BY <3>1, <3>2
    <3> QED
      BY <3>3, LogGrows
  <2> DEFINE old(p) == {<<p, i, log[p][i]>> : i \in (0 + 1)..committed[p]}
             new(p) == {<<p, i, log'[p][i]>> : i \in (0 + 1)..committed'[p]}
  <2>2. ASSUME NEW p \in Partitions PROVE new(p) = old(p)
    <3>1. \A i \in (0 + 1)..committed[p] : <<p, i, log'[p][i]>> = <<p, i, log[p][i]>>
      BY <2>1
    <3>2. committed'[p] = committed[p]
      BY <1>1
    <3>3. ASSUME NEW x \in new(p) PROVE x \in old(p)
      <4>1. PICK i \in (0 + 1)..committed'[p] : x = <<p, i, log'[p][i]>>
        BY <3>3
      <4> QED
        BY <3>1, <3>2, <4>1
    <3>4. ASSUME NEW x \in old(p) PROVE x \in new(p)
      <4>1. PICK i \in (0 + 1)..committed[p] : x = <<p, i, log[p][i]>>
        BY <3>4
      <4> QED
        BY <3>1, <3>2, <4>1
    <3> HIDE DEF old, new
    <3> QED
      BY <3>3, <3>4
  <2>3. CommittedEntries = UNION {old(p) : p \in Partitions}
    BY DEF CommittedEntries, Between
  <2>4. CommittedEntries' = UNION {new(p) : p \in Partitions}
    BY DEF CommittedEntries, Between
  <2> HIDE DEF old, new
  <2>5. CommittedEntries' = CommittedEntries
    BY <2>2, <2>3, <2>4
  <2> QED
    BY <2>5
<1>5. UNCHANGED <<HeldRecords, LostRecords>>
  BY <1>1 DEF InMemory
<1> HIDE DEF HeldRecords, LostRecords, Acknowledged, FateStepOf
<1> QED
  BY <1>1, <1>3, <1>4, <1>5, SeenPublish

LEMMA FateStep ==
    ASSUME TypeInv, TypeInv', StageInv, OffsetInv, OffsetInv', AccountInv', DlqInv, [Next]_vars
    PROVE  FateStepOf
<1> USE DEF controlVars, brokerVars, writerVars, consumerVars
<1> HIDE DEF FateStepOf
<1>1. ASSUME NEW g \in Groups, ConsumerStep(g) PROVE FateStepOf
  <2>1. CASE ExitLoop(g) \/ BeginPoll(g) \/ PollEmpty(g) \/ Decoded(g) \/ BackoffEnds(g) \/ Fetch(g)
    BY <1>1, <2>1, QuietStep
       DEF ConsumerStep, ExitLoop, BeginPoll, PollEmpty, Decoded, BackoffEnds, Fetch
  <2>2. CASE DeadLetter(g)
    BY <1>1, <2>2, DeadLetterSeen DEF ConsumerStep
  <2>3. CASE Commit(g) \/ KafkaError(g)
    <3>1. \A p \in Partitions : committed'[p] >= committed[p]
      <4>1. [\A p \in Partitions : committed'[p] >= committed[p]]_vars
        BY CommitStep
      <4>2. \A p \in Partitions : committed[p] \in Nat
        OBVIOUS
      <4> QED
        BY <4>1, <4>2 DEF vars
    <3> QED
      BY <1>1, <2>3, <3>1, CommitSeen DEF ConsumerStep, Commit, KafkaError
  <2> QED
    BY <1>1, <2>1, <2>2, <2>3 DEF ConsumerStep
<1>2. ASSUME NEW g \in Groups, HandlerReturns(g) PROVE FateStepOf
  BY <1>2, QuietStep DEF HandlerReturns, FlushReturns
<1>3. CASE PeriodicTask
  <2>1. CASE FlushReturns(Periodic) /\ UNCHANGED <<consumerVars, phase, vanished>>
    BY <2>1, QuietStep DEF FlushReturns
  <2> QED
    BY <1>3, <2>1, PeriodicSeen, WriteSeen DEF PeriodicTask
<1>4. ASSUME NEW g \in Groups, StartGroup(g) \/ StopGroup(g) \/ GroupStopped(g) PROVE FateStepOf
  BY <1>4, QuietStep DEF StartGroup, StartConsumer, StopGroup, RequestStop, GroupStopped,
                         FinishStop
<1>5. CASE FlushReturns(Main) /\ UNCHANGED <<consumerVars, phase, vanished>>
  BY <1>5, QuietStep DEF FlushReturns
<1>6. CASE MainTask
  BY <1>4, <1>5, <1>6, StopWritingSeen, WriteSeen, GoneSeen DEF MainTask
<1>7. CASE DlqTask \/ Start \/ Stop
  BY <1>7, QuietStep DEF DlqTask, DlqDelivered, Start, StartWriter, Stop
<1>8. CASE DlqLost
  <2>1. vanished' \subseteq vanished \union dlqBuffer /\ vanished \subseteq vanished'
    BY <1>8 DEF DlqLost
  <2>2. UNCHANGED <<log, committed, buffers, inflight, rows, deadLettered, dropped>>
    BY <1>8 DEF DlqLost
  <2>3. LostEntries' = LostEntries
    BY <2>1, <2>2 DEF DlqInv
  <2>4. InMemory' = InMemory
    BY <2>2 DEF InMemory
  <2>5. UNCHANGED <<Published, Acknowledged, HeldRecords, LostRecords>>
    <3> HIDE DEF LostEntries
    <3> QED
      BY <2>2, <2>3, <2>4, SameOffsets
  <2> HIDE DEF HeldRecords, LostRecords, Acknowledged
  <2> QED
    BY <2>2, <2>5, SeenStutter
<1>9. ASSUME NEW g \in Groups, Rebalance(g) \/ Pause(g) \/ Resume(g),
             UNCHANGED <<writerVars, phase, vanished>>
      PROVE  FateStepOf
  BY <1>9, QuietStep DEF Rebalance, Pause, Resume
<1>10. CASE Environment
  BY <1>7, <1>8, <1>9, <1>10, ProduceSeen, CancelSeen, GoneSeen DEF Environment
<1>11. CASE UNCHANGED vars
  BY <1>11, QuietStep DEF vars
<1> QED
  BY <1>1, <1>2, <1>3, <1>6, <1>7, <1>10, <1>11, HandleSeen, WriteSeen DEF Next, GroupTask

LEMMA FateInit == Init => Fate!Init
<1> SUFFICES ASSUME Init PROVE Fate!Init
  OBVIOUS
<1>1. Published = {}
  BY DEF Init, ConsumerInit, Published
<1>2. InMemory = {} /\ rows = {} /\ deadLettered \union dropped \union vanished = {}
  BY DEF Init, ConsumerInit, WriterInit, InMemory
<1>3. CommittedEntries = {}
  BY DEF Init, ConsumerInit, CommittedEntries, Between
<1>4. RecordsOf({}) = {}
  BY DEF RecordsOf
<1> QED
  BY <1>1, <1>2, <1>3, <1>4 DEF Fate!Init

\* The processor implements the abstract specification, for any instance.
THEOREM ImplementsFate == Spec => FateSpec
<1>1. Init => DlqInv
  BY DEF Init, ConsumerInit, DlqInv
<1>2. Spec => []DlqInv
  BY <1>1, DlqStep, PTL DEF Spec
<1>3. TypeInv /\ TypeInv' /\ StageInv /\ OffsetInv /\ OffsetInv' /\ AccountInv' /\ DlqInv
      /\ [Next]_vars => [Fate!Next]_(Fate!fateVars)
  BY FateStep
<1> QED
  BY <1>2, <1>3, FateInit, TypesStay, StagesHold, OffsetsHold, AccountHolds, PTL
     DEF Spec, FateSpec, Fate!Spec
=============================================================================
