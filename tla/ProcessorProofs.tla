--------------------------- MODULE ProcessorProofs ---------------------------
(***************************************************************************)
(* Proofs about the stream processor, for any partitions, records, tables, *)
(* batch and poll sizes and any number of faults.                          *)
(***************************************************************************)
EXTENDS Processor, FiniteSetTheorems, TLAPS

USE DEF Telemetry, Timing, Groups, Periodic, Main, Tasks

-----------------------------------------------------------------------------
(* Facts about the operators. *)

\* The entries between two offsets of every partition are the log's entries at
\* those offsets.
LEMMA BetweenElements ==
    ASSUME NEW low, NEW high, NEW e
    PROVE  e \in Between(low, high) <=>
             \E p \in Partitions : \E i \in (low[p] + 1)..high[p] : e = <<p, i, log[p][i]>>
BY DEF Between

\* The image of a finite set under a function is finite.
LEMMA FiniteImage ==
    ASSUME NEW S, IsFiniteSet(S), NEW f, f = [x \in S |-> f[x]]
    PROVE  IsFiniteSet({f[x] : x \in S})
<1>1. f \in Surjection(S, {f[x] : x \in S})
  BY DEF Surjection
<1> QED
  BY <1>1, FS_Surjection

\* A poll returns finitely many records.
LEMMA BetweenFinite ==
    ASSUME NEW low \in [Partitions -> Nat], NEW high \in [Partitions -> Nat]
    PROVE  IsFiniteSet(Between(low, high))
<1> DEFINE slice == [p \in Partitions |-> {<<p, i, log[p][i]>> : i \in (low[p] + 1)..high[p]}]
<1>1. ASSUME NEW p \in Partitions PROVE IsFiniteSet(slice[p])
  <2> DEFINE at == [i \in (low[p] + 1)..high[p] |-> <<p, i, log[p][i]>>]
  <2>1. IsFiniteSet((low[p] + 1)..high[p])
    BY <1>1, FS_Interval
  <2>2. IsFiniteSet({at[i] : i \in (low[p] + 1)..high[p]})
    BY <2>1, FiniteImage
  <2> QED
    BY <1>1, <2>2
<1>2. IsFiniteSet({slice[p] : p \in Partitions})
  <2>1. IsFiniteSet(Partitions)
    BY TopicsAssumption
  <2> HIDE DEF slice
  <2>2. slice = [p \in Partitions |-> slice[p]]
    BY DEF slice
  <2> QED
    BY <2>1, <2>2, FiniteImage
<1>3. IsFiniteSet(UNION {slice[p] : p \in Partitions})
  BY <1>1, <1>2, FS_UNION
<1> QED
  BY <1>3 DEF Between

-----------------------------------------------------------------------------
(* Types.  That a counter stays a natural number needs that what is counted *)
(* stays finite.                                                            *)

Finite ==
    /\ IsFiniteSet(buffers)
    /\ \A t \in Tasks : IsFiniteSet(inflight[t])
    /\ \A g \in Groups : IsFiniteSet(batch[g])

TypeInv == TypeOK /\ Finite

USE DEF TypeInv, TypeOK, ConsumerTypeOK, WriterTypeOK, Finite

\* Added rows are counted by a natural number.
LEMMA AddTypes ==
    ASSUME TypeInv, NEW g \in Groups, NEW S \in SUBSET batch[g], Add(g, S)
    PROVE  /\ buffers' \subseteq Entries
           /\ pending' \in Nat
           /\ inflight' \in [Tasks -> SUBSET Entries]
           /\ flushing' \subseteq Tasks
           /\ IsFiniteSet(buffers')
           /\ \A t \in Tasks : IsFiniteSet(inflight'[t])
<1> DEFINE new == {e \in S : HasRow(e)}
<1>1. IsFiniteSet(new) /\ Cardinality(new) \in Nat
  <2>1. new \in SUBSET batch[g]
    OBVIOUS
  <2> QED
    BY <2>1, FS_Subset, FS_CardinalityType
<1>2. IsFiniteSet(buffers \union new)
  BY <1>1, FS_Union
<1>3. new \subseteq Entries
  OBVIOUS
<1> HIDE DEF new
<1>4. CASE SwapOut(g, buffers \union new)
  <2>1. IsFiniteSet({})
    BY FS_EmptySet
  <2> QED
    BY <1>2, <1>3, <1>4, <2>1 DEF SwapOut
<1>5. CASE /\ buffers' = buffers \union new
           /\ pending' = pending + Cardinality(new)
           /\ UNCHANGED <<inflight, flushing>>
  BY <1>1, <1>2, <1>3, <1>5
<1> QED
  BY <1>4, <1>5 DEF Add, new

LEMMA ConsumerStepTypes ==
    ASSUME TypeInv, NEW g \in Groups, ConsumerStep(g)
    PROVE  TypeInv'
<1> USE DEF controlVars, brokerVars, writerVars, Stages
<1>1. CASE ExitLoop(g) \/ BeginPoll(g) \/ PollEmpty(g) \/ Decoded(g) \/ BackoffEnds(g)
  BY <1>1 DEF ConsumerStep, ExitLoop, BeginPoll, PollEmpty, Decoded, BackoffEnds
<1>2. CASE Commit(g)
  BY <1>2 DEF ConsumerStep, Commit
<1>5. CASE KafkaError(g)
  <2>1. faults' \in 0..MaxFaults
    BY <1>5, ConsumerAssumption DEF KafkaError, Spend
  <2>2. committed' \in [Partitions -> Nat]
    BY <1>5 DEF KafkaError
  <2> QED
    BY <1>5, <2>1, <2>2 DEF ConsumerStep, KafkaError
<1>3. CASE Fetch(g)
  <2>1. PICK taken \in [Owned(g) -> 0..MaxPoll] :
          LET upto == [p \in Partitions |-> IF p \in Owned(g) THEN position[p] + taken[p]
                                                             ELSE position[p]]
          IN /\ \A p \in Owned(g) : upto[p] <= Len(log[p])
             /\ position' = upto
             /\ batch' = [batch EXCEPT ![g] = Between(position, upto)]
    BY <1>3 DEF Fetch
  <2>2. position' \in [Partitions -> Nat]
    BY <2>1, ConsumerAssumption
  <2>3. \A p \in Partitions : position'[p] <= Len(log[p]) \/ position'[p] = position[p]
    BY <2>1
  <2>4. Between(position, position') \subseteq Entries
    <3> SUFFICES ASSUME NEW p \in Partitions, NEW i \in (position[p] + 1)..position'[p]
                 PROVE  <<p, i, log[p][i]>> \in Entries
      BY BetweenElements
    <3>1. position[p] \in Nat /\ position'[p] \in Nat /\ Len(log[p]) \in Nat
      BY <2>2
    <3>2. position[p] + 1 <= i /\ i <= position'[p] /\ i \in Int
      BY <3>1
    <3>3. position'[p] <= Len(log[p])
      BY <2>3, <3>1, <3>2
    <3>4. i \in 1..Len(log[p])
      BY <3>1, <3>2, <3>3
    <3>5. log[p] \in Seq(Records)
      OBVIOUS
    <3>6. log[p][i] \in Records /\ i \in Nat \ {0}
      BY <3>1, <3>4, <3>5
    <3> QED
      BY <3>6 DEF Entries
  <2>5. IsFiniteSet(Between(position, position'))
    BY <2>2, BetweenFinite
  <2> QED
    BY <1>3, <2>1, <2>2, <2>4, <2>5 DEF ConsumerStep, Fetch
<1>4. CASE DeadLetter(g)
  <2>1. PICK e \in batch[g] :
          /\ deadLettered' = deadLettered \union {e}
          /\ batch' = [batch EXCEPT ![g] = @ \ {e}]
          /\ \/ dlqBuffer' = dlqBuffer \union {e} /\ UNCHANGED faults
             \/ Spend("dlqError") /\ UNCHANGED dlqBuffer
    BY <1>4 DEF DeadLetter
  <2>2. IsFiniteSet(batch[g] \ {e})
    BY FS_RemoveElement
  <2>3. faults' \in 0..MaxFaults
    BY <2>1, ConsumerAssumption DEF Spend
  <2>4. dlqBuffer' \subseteq Entries /\ deadLettered' \subseteq Entries
    BY <2>1
  <2> QED
    BY <1>4, <2>1, <2>2, <2>3, <2>4 DEF ConsumerStep, DeadLetter
<1> QED
  BY <1>1, <1>2, <1>3, <1>4, <1>5 DEF ConsumerStep

\* What is left of a finite set of entries after a write, or after it is emptied.
LEMMA SmallerFinite ==
    ASSUME NEW S, IsFiniteSet(S), NEW T, T \subseteq S
    PROVE  IsFiniteSet(T)
BY FS_Subset

LEMMA HandlerTypes ==
    ASSUME TypeInv, NEW g \in Groups, HandleBatch(g) \/ HandlerReturns(g)
    PROVE  TypeInv'
<1> USE DEF controlVars, brokerVars, Stages
<1>1. CASE HandleBatch(g)
  <2>1. PICK failed \in SUBSET batch[g] :
          /\ IF failed = {} THEN UNCHANGED faults ELSE Spend("derivation")
          /\ dropped' = dropped \union failed
          /\ Add(g, batch[g] \ failed)
          /\ pc' = [pc EXCEPT ![g] = IF ReachesThreshold(batch[g] \ failed)
                                     THEN "flush" ELSE "commit"]
    BY <1>1 DEF HandleBatch
  <2>2. faults' \in 0..MaxFaults
    BY <2>1, ConsumerAssumption DEF Spend
  <2>3. /\ buffers' \subseteq Entries
        /\ pending' \in Nat
        /\ inflight' \in [Tasks -> SUBSET Entries]
        /\ flushing' \subseteq Tasks
        /\ IsFiniteSet(buffers')
        /\ \A t \in Tasks : IsFiniteSet(inflight'[t])
    BY <2>1, AddTypes
  <2>4. UNCHANGED <<timer, rows>>
    BY <2>1 DEF Add
  <2>5. IsFiniteSet({})
    BY FS_EmptySet
  <2>6. pc' \in [Groups -> Stages] /\ dropped' \subseteq Entries
    BY <2>1
  <2> QED
    BY <1>1, <2>2, <2>3, <2>4, <2>5, <2>6 DEF HandleBatch
<1>2. CASE HandlerReturns(g)
  BY <1>2 DEF HandlerReturns, FlushReturns
<1> QED
  BY <1>1, <1>2

LEMMA WriteTypes ==
    ASSUME TypeInv, NEW t \in Tasks, WriteStep(t)
    PROVE  TypeInv'
<1> USE DEF controlVars, brokerVars
<1>1. PICK k \in Tables : \/ WriteTable(t, k) /\ UNCHANGED faults
                          \/ WriteFails(t, k) /\ Spend("dbError")
  BY DEF WriteStep
<1>2. faults' \in 0..MaxFaults
  BY <1>1, ConsumerAssumption DEF Spend
<1>3. RowsFor(inflight[t], k) \subseteq inflight[t]
  BY DEF RowsFor
<1>4. RecordsOf(RowsFor(inflight[t], k)) \subseteq Records
  BY <1>3 DEF RecordsOf, RecordOf, Entries
<1>5. IsFiniteSet(inflight[t] \ RowsFor(inflight[t], k))
  BY SmallerFinite
<1>6. /\ inflight' = [inflight EXCEPT ![t] = @ \ RowsFor(@, k)]
      /\ rows' \subseteq rows \union RecordsOf(RowsFor(inflight[t], k))
      /\ dropped' \subseteq dropped \union RowsFor(inflight[t], k)
      /\ UNCHANGED <<buffers, pending, flushing, timer>>
  BY <1>1 DEF WriteTable, WriteFails
<1>7. /\ inflight' \in [Tasks -> SUBSET Entries]
      /\ \A u \in Tasks : IsFiniteSet(inflight'[u])
  BY <1>5, <1>6
<1>8. rows' \subseteq Records /\ dropped' \subseteq Entries
  BY <1>3, <1>4, <1>6
<1> HIDE DEF WriteStep
<1> QED
  BY <1>2, <1>6, <1>7, <1>8 DEF WriteStep

LEMMA PeriodicTypes ==
    ASSUME TypeInv, PeriodicTask
    PROVE  TypeInv'
<1> USE DEF consumerVars
<1>1. CASE PeriodicFlush /\ UNCHANGED <<consumerVars, phase, vanished>>
  <2>1. IsFiniteSet({})
    BY FS_EmptySet
  <2> QED
    BY <1>1, <2>1 DEF PeriodicFlush, SwapOut
<1>2. CASE FlushReturns(Periodic) /\ UNCHANGED <<consumerVars, phase, vanished>>
  BY <1>2 DEF FlushReturns
<1>3. CASE WriteStep(Periodic)
  BY <1>3, WriteTypes
<1> QED
  BY <1>1, <1>2, <1>3 DEF PeriodicTask

LEMMA GoneTypes ==
    ASSUME TypeInv, ProcessGone,
           faults' \in 0..MaxFaults, dlq' \subseteq Entries, vanished' \subseteq Entries
    PROVE  TypeInv'
<1>1. IsFiniteSet({})
  BY FS_EmptySet
<1> QED
  BY <1>1 DEF ProcessGone, Stages, Phases

LEMMA MainTypes ==
    ASSUME TypeInv, MainTask
    PROVE  TypeInv'
<1> USE DEF brokerVars, controlVars, writerVars, consumerVars, Phases, Stages
<1>1. ASSUME NEW g \in Groups, StartGroup(g) PROVE TypeInv'
  BY <1>1 DEF StartGroup, StartConsumer, AtCommitted
<1>2. ASSUME NEW g \in Groups, StopGroup(g) PROVE TypeInv'
  BY <1>2 DEF StopGroup, RequestStop
<1>3. ASSUME NEW g \in Groups, GroupStopped(g) PROVE TypeInv'
  BY <1>3 DEF GroupStopped, FinishStop
<1>4. CASE StopWriting
  <2>1. IsFiniteSet({})
    BY FS_EmptySet
  <2> QED
    BY <1>4, <2>1 DEF StopWriting, StopWriter
<1>5. CASE WriteStep(Main)
  BY <1>5, WriteTypes
<1>6. CASE FlushReturns(Main) /\ UNCHANGED <<consumerVars, phase, vanished>>
  BY <1>6 DEF FlushReturns
<1>7. CASE Exit
  BY <1>7, GoneTypes DEF Exit
<1> QED
  BY <1>1, <1>2, <1>3, <1>4, <1>5, <1>6, <1>7 DEF MainTask

LEMMA EnvironmentTypes ==
    ASSUME TypeInv, Environment
    PROVE  TypeInv'
<1> USE DEF brokerVars, controlVars, writerVars, consumerVars, Phases, Stages
<1>0. \A k : Spend(k) => faults' \in 0..MaxFaults
  BY ConsumerAssumption DEF Spend
<1>1. ASSUME NEW r \in Records, Produce(r), UNCHANGED <<writerVars, phase, vanished>>
      PROVE  TypeInv'
  <2>1. HomeOf[r] \in Partitions
    BY TopicsAssumption
  <2>2. log' \in [Partitions -> Seq(Records)]
    BY <1>1, <2>1 DEF Produce
  <2> QED
    BY <1>1, <2>2 DEF Produce
<1>2. ASSUME NEW g \in Groups, Rebalance(g) \/ Pause(g) \/ Resume(g),
             UNCHANGED <<writerVars, phase, vanished>>
      PROVE  TypeInv'
  <2>1. CASE Rebalance(g)
    BY <1>0, <1>2, <2>1 DEF Rebalance, AtCommitted
  <2>2. CASE Pause(g)
    BY <1>0, <1>2, <2>2 DEF Pause
  <2>3. CASE Resume(g)
    BY <1>2, <2>3 DEF Resume
  <2> QED
    BY <1>2, <2>1, <2>2, <2>3
<1>3. ASSUME NEW g \in Groups, CancelGroup(g) PROVE TypeInv'
  <2>1. IsFiniteSet({})
    BY FS_EmptySet
  <2> QED
    BY <1>0, <1>3, <2>1 DEF CancelGroup, CancelTask, CancelFlush
<1>4. CASE Stop
  BY <1>0, <1>4 DEF Stop
<1>5. CASE Crash
  <2>1. InMemory \subseteq Entries
    BY DEF InMemory
  <2> QED
    BY <1>0, <1>5, <2>1, GoneTypes DEF Crash
<1>6. CASE DlqLost
  BY <1>0, <1>6 DEF DlqLost
<1> QED
  BY <1>1, <1>2, <1>3, <1>4, <1>5, <1>6 DEF Environment

LEMMA InitTypes == Init => TypeInv
<1>1. IsFiniteSet({})
  BY FS_EmptySet
<1> SUFFICES ASSUME Init PROVE TypeInv
  OBVIOUS
<1>2. log \in [Partitions -> Seq(Records)]
  BY DEF Init, ConsumerInit
<1>3. ConsumerTypeOK
  BY <1>2, ConsumerAssumption DEF Init, ConsumerInit, Stages
<1>4. WriterTypeOK
  BY DEF Init, WriterInit
<1>5. Finite
  BY <1>1 DEF Init, ConsumerInit, WriterInit
<1> QED
  BY <1>3, <1>4, <1>5 DEF Init, Phases

LEMMA NextTypes == TypeInv /\ [Next]_vars => TypeInv'
<1> SUFFICES ASSUME TypeInv, [Next]_vars PROVE TypeInv'
  OBVIOUS
<1>1. ASSUME NEW g \in Groups, GroupTask(g) PROVE TypeInv'
  BY <1>1, ConsumerStepTypes, HandlerTypes, WriteTypes DEF GroupTask
<1>2. CASE DlqTask
  BY <1>2 DEF DlqTask, DlqDelivered, controlVars, writerVars
<1>3. CASE Start
  BY <1>3 DEF Start, StartWriter, consumerVars, Phases
<1>4. CASE UNCHANGED vars
  BY <1>4 DEF vars, consumerVars, writerVars
<1> QED
  BY <1>1, <1>2, <1>3, <1>4, PeriodicTypes, MainTypes, EnvironmentTypes DEF Next

\* Every variable keeps its type, and what the process holds in memory stays
\* finite, in every behaviour of the processor.
THEOREM TypesStay == Spec => []TypeInv
BY InitTypes, NextTypes, PTL DEF Spec

\* The type invariant the runs check.
THEOREM TypeCorrect == Spec => []TypeOK
<1>1. TypeInv => TypeOK
  OBVIOUS
<1> QED
  BY <1>1, TypesStay, PTL

-----------------------------------------------------------------------------
(* The inductive invariant. *)

\* Where a loop is tells what it holds; where stop() is tells who still runs.
StageInv ==
    /\ \A g \in Groups :
          /\ pc[g] \notin {"decode", "handle"} => batch[g] = {}
          /\ pc[g] = "handle" => \A e \in batch[g] : RecordOf(e) \notin Poison
          /\ g \in flushing => pc[g] = "flush"
    /\ \A t \in Tasks : t \notin flushing => inflight[t] = {}
    /\ Main \in flushing => phase = "tailFlush"
    /\ phase \in {"stopTiming", "stopWriter", "tailFlush"} => pc[Telemetry] = "none"
    /\ phase \in {"stopWriter", "tailFlush"} => pc[Timing] = "none"
    /\ phase = "tailFlush" => buffers = {} /\ Periodic \notin flushing

\* An entry of the log, at its offset.
Logged(e) ==
    \E p \in Partitions : \E i \in 1..Len(log[p]) : e = <<p, i, log[p][i]>>

\* Offsets are ordered, and a batch lies between the committed offset and the
\* end of the log, on its group's partitions.
OffsetInv ==
    /\ OffsetsOrdered
    /\ \A g \in Groups : \A e \in batch[g] :
          /\ Logged(e)
          /\ GroupOf[PartitionOf(e)] = g
          /\ committed[PartitionOf(e)] < OffsetOf(e)

\* An entry below the committed offset is accounted for, and so is one that a
\* running loop has been given, unless it is in the batch the loop works on.
AccountInv ==
    /\ \A p \in Partitions : \A i \in 1..committed[p] : Accounted(<<p, i, log[p][i]>>)
    /\ \A g \in Groups :
          pc[g] \notin {"none", "exited"} =>
             \A p \in Owned(g) : \A i \in 1..position[p] :
                Accounted(<<p, i, log[p][i]>>) \/ <<p, i, log[p][i]>> \in batch[g]

\* Memory is bounded because a batch is.
MemoryInv ==
    /\ MemoryBounded
    /\ \A g \in Groups : Cardinality(batch[g]) <= MaxPoll

-----------------------------------------------------------------------------
(* Stages. *)

LEMMA StageStep ==
    ASSUME TypeInv, StageInv, [Next]_vars
    PROVE  StageInv'
<1> USE DEF StageInv, controlVars, brokerVars, writerVars, consumerVars, Stages, Phases
<1>1. ASSUME NEW g \in Groups, ConsumerStep(g) PROVE StageInv'
  <2>1. CASE ExitLoop(g)
    BY <1>1, <2>1 DEF ConsumerStep, ExitLoop
  <2>2. CASE BeginPoll(g)
    BY <1>1, <2>2 DEF ConsumerStep, BeginPoll
  <2>3. CASE Fetch(g)
    BY <1>1, <2>3 DEF ConsumerStep, Fetch
  <2>4. CASE PollEmpty(g)
    BY <1>1, <2>4 DEF ConsumerStep, PollEmpty
  <2>5. CASE DeadLetter(g)
    BY <1>1, <2>5 DEF ConsumerStep, DeadLetter
  <2>6. CASE Decoded(g)
    BY <1>1, <2>6 DEF ConsumerStep, Decoded
  <2>7. CASE Commit(g)
    BY <1>1, <2>7 DEF ConsumerStep, Commit
  <2>8. CASE KafkaError(g)
    BY <1>1, <2>8 DEF ConsumerStep, KafkaError
  <2>9. CASE BackoffEnds(g)
    BY <1>1, <2>9 DEF ConsumerStep, BackoffEnds
  <2> QED
    BY <1>1, <2>1, <2>2, <2>3, <2>4, <2>5, <2>6, <2>7, <2>8, <2>9 DEF ConsumerStep
<1>2. ASSUME NEW g \in Groups, HandleBatch(g) PROVE StageInv'
  <2>1. PICK failed \in SUBSET batch[g] :
          /\ Add(g, batch[g] \ failed)
          /\ pc' = [pc EXCEPT ![g] = IF ReachesThreshold(batch[g] \ failed)
                                     THEN "flush" ELSE "commit"]
    BY <1>2 DEF HandleBatch
  <2>2. /\ pc[g] = "handle"
        /\ batch' = [batch EXCEPT ![g] = {}]
        /\ phase' = phase
    BY <1>2 DEF HandleBatch
  <2>3. CASE ReachesThreshold(batch[g] \ failed)
    BY <2>1, <2>2, <2>3 DEF Add, SwapOut
  <2>4. CASE ~ ReachesThreshold(batch[g] \ failed)
    BY <2>1, <2>2, <2>4 DEF Add
  <2> QED
    BY <2>3, <2>4
<1>3. ASSUME NEW g \in Groups, HandlerReturns(g) PROVE StageInv'
  BY <1>3 DEF HandlerReturns, FlushReturns
<1>4. ASSUME NEW t \in Tasks, WriteStep(t) PROVE StageInv'
  BY <1>4 DEF WriteStep, WriteTable, WriteFails
<1>5. CASE PeriodicTask
  <2>1. CASE PeriodicFlush /\ UNCHANGED <<consumerVars, phase, vanished>>
    BY <2>1 DEF PeriodicFlush, SwapOut
  <2>2. CASE FlushReturns(Periodic) /\ UNCHANGED <<consumerVars, phase, vanished>>
    BY <2>2 DEF FlushReturns
  <2> QED
    BY <1>4, <1>5, <2>1, <2>2 DEF PeriodicTask
<1>6. ASSUME NEW g \in Groups, StartGroup(g) PROVE StageInv'
  BY <1>6 DEF StartGroup, StartConsumer, StartPhase
<1>7. ASSUME NEW g \in Groups, StopGroup(g) PROVE StageInv'
  BY <1>7 DEF StopGroup, RequestStop
<1>8. ASSUME NEW g \in Groups, GroupStopped(g) PROVE StageInv'
  BY <1>8 DEF GroupStopped, FinishStop, StopPhase
<1>9. CASE StopWriting
  BY <1>9 DEF StopWriting, StopWriter
<1>10. CASE FlushReturns(Main) /\ UNCHANGED <<consumerVars, phase, vanished>>
  BY <1>10 DEF FlushReturns
<1>11. CASE Exit \/ Crash
  BY <1>11 DEF Exit, Crash, ProcessGone
<1>12. CASE DlqTask
  BY <1>12 DEF DlqTask, DlqDelivered
<1>13. CASE Start
  BY <1>13 DEF Start, StartWriter
<1>14. ASSUME NEW r \in Records, Produce(r), UNCHANGED <<writerVars, phase, vanished>>
       PROVE  StageInv'
  BY <1>14 DEF Produce
<1>15. ASSUME NEW g \in Groups, Rebalance(g) \/ Pause(g) \/ Resume(g),
              UNCHANGED <<writerVars, phase, vanished>>
       PROVE  StageInv'
  BY <1>15 DEF Rebalance, Pause, Resume
<1>16. ASSUME NEW g \in Groups, CancelGroup(g) PROVE StageInv'
  BY <1>16 DEF CancelGroup, CancelTask, CancelFlush, StopPhase
<1>17. CASE Stop \/ DlqLost
  BY <1>17 DEF Stop, DlqLost
<1>18. CASE UNCHANGED vars
  BY <1>18 DEF vars
<1> QED
  BY <1>1, <1>2, <1>3, <1>4, <1>5, <1>6, <1>7, <1>8, <1>9, <1>10, <1>11, <1>12, <1>13,
     <1>14, <1>15, <1>16, <1>17, <1>18 DEF Next, GroupTask, MainTask, Environment

THEOREM StagesHold == Spec => []StageInv
<1>1. Init => StageInv
  BY DEF Init, ConsumerInit, WriterInit, StageInv
<1> QED
  BY <1>1, StageStep, TypesStay, PTL DEF Spec

-----------------------------------------------------------------------------
(* Offsets. *)

\* A step that leaves the log and the offsets alone and adds nothing to a
\* batch keeps OffsetInv.
LEMMA OffsetFrame ==
    ASSUME TypeInv, OffsetInv,
           UNCHANGED <<log, committed, position>>,
           \A g \in Groups : batch'[g] \subseteq batch[g]
    PROVE  OffsetInv'
BY DEF OffsetInv, OffsetsOrdered, Logged

\* The log only grows.
LEMMA LogGrows ==
    ASSUME TypeInv, NEW r \in Records, Produce(r)
    PROVE  \A p \in Partitions :
              /\ Len(log'[p]) >= Len(log[p])
              /\ \A i \in 1..Len(log[p]) : log'[p][i] = log[p][i]
<1>1. HomeOf[r] \in Partitions
  BY TopicsAssumption
<1>2. log' = [log EXCEPT ![HomeOf[r]] = Append(log[HomeOf[r]], r)]
  BY DEF Produce
<1> SUFFICES ASSUME NEW p \in Partitions
             PROVE  /\ Len(log'[p]) >= Len(log[p])
                    /\ \A i \in 1..Len(log[p]) : log'[p][i] = log[p][i]
  OBVIOUS
<1>3. log[p] \in Seq(Records) /\ Len(log[p]) \in Nat
  OBVIOUS
<1>4. CASE log'[p] = log[p]
  BY <1>3, <1>4
<1>5. CASE log'[p] = Append(log[p], r)
  <2>1. Len(log'[p]) = Len(log[p]) + 1
    BY <1>3, <1>5
  <2>2. ASSUME NEW i \in 1..Len(log[p]) PROVE log'[p][i] = log[p][i]
    BY <1>3, <1>5
  <2> QED
    BY <1>3, <2>1, <2>2
<1> QED
  BY <1>1, <1>2, <1>4, <1>5

\* What a poll returns lies between the old and the new position.
LEMMA FetchSteps ==
    ASSUME TypeInv, NEW g \in Groups, Fetch(g)
    PROVE  /\ position' \in [Partitions -> Nat]
           /\ \A p \in Partitions :
                 /\ position[p] <= position'[p]
                 /\ GroupOf[p] = g => position'[p] <= Len(log[p])
                 /\ GroupOf[p] # g => position'[p] = position[p]
           /\ Cardinality(Between(position, position')) <= MaxPoll
           /\ batch' = [batch EXCEPT ![g] = Between(position, position')]
<1>1. PICK taken \in [Owned(g) -> 0..MaxPoll] :
        LET upto == [p \in Partitions |-> IF p \in Owned(g) THEN position[p] + taken[p]
                                                           ELSE position[p]]
        IN /\ \A p \in Owned(g) : upto[p] <= Len(log[p])
           /\ Cardinality(Between(position, upto)) \in 1..MaxPoll
           /\ position' = upto
           /\ batch' = [batch EXCEPT ![g] = Between(position, upto)]
  BY DEF Fetch
<1>2. position' \in [Partitions -> Nat]
  BY <1>1, ConsumerAssumption
<1>3. \A p \in Partitions :
         /\ position[p] <= position'[p]
         /\ GroupOf[p] = g => position'[p] <= Len(log[p])
         /\ GroupOf[p] # g => position'[p] = position[p]
  BY <1>1, ConsumerAssumption DEF Owned
<1>4. Cardinality(Between(position, position')) <= MaxPoll
  BY <1>1, ConsumerAssumption
<1> QED
  BY <1>1, <1>2, <1>3, <1>4

LEMMA OffsetStep ==
    ASSUME TypeInv, StageInv, OffsetInv, [Next]_vars
    PROVE  OffsetInv'
<1> USE DEF controlVars, brokerVars, writerVars, consumerVars
<1> DEFINE Quiet == /\ UNCHANGED <<log, committed, position>>
                    /\ \A g \in Groups : batch'[g] \subseteq batch[g]
<1>1. ASSUME NEW g \in Groups, ConsumerStep(g) PROVE OffsetInv'
  <2>1. CASE ExitLoop(g) \/ BeginPoll(g) \/ PollEmpty(g) \/ Decoded(g) \/ BackoffEnds(g)
    <3>1. Quiet
      BY <2>1 DEF ExitLoop, BeginPoll, PollEmpty, Decoded, BackoffEnds
    <3> QED
      BY <3>1, OffsetFrame
  <2>2. CASE DeadLetter(g)
    <3>1. Quiet
      BY <2>2 DEF DeadLetter
    <3> QED
      BY <3>1, OffsetFrame
  <2>3. CASE Fetch(g)
    <3>0. /\ position' \in [Partitions -> Nat]
          /\ \A p \in Partitions :
                /\ position[p] <= position'[p]
                /\ GroupOf[p] = g => position'[p] <= Len(log[p])
                /\ GroupOf[p] # g => position'[p] = position[p]
          /\ batch' = [batch EXCEPT ![g] = Between(position, position')]
      BY <2>3, FetchSteps
    <3>1. UNCHANGED <<log, committed>>
      BY <2>3 DEF Fetch
    <3>2. OffsetsOrdered'
      <4> SUFFICES ASSUME NEW p \in Partitions
                   PROVE  committed[p] <= position'[p] /\ position'[p] <= Len(log[p])
        BY <3>1 DEF OffsetsOrdered
      <4>1. committed[p] <= position[p] /\ position[p] <= Len(log[p])
        BY DEF OffsetInv, OffsetsOrdered
      <4>2. committed[p] \in Nat /\ position[p] \in Nat /\ Len(log[p]) \in Nat
        OBVIOUS
      <4>3. /\ position'[p] \in Nat
            /\ position[p] <= position'[p]
            /\ position'[p] <= Len(log[p]) \/ position'[p] = position[p]
        BY <3>0
      <4> QED
        BY <4>1, <4>2, <4>3
    <3>3. ASSUME NEW e \in batch'[g]
          PROVE  /\ Logged(e)'
                 /\ GroupOf[PartitionOf(e)] = g
                 /\ committed'[PartitionOf(e)] < OffsetOf(e)
      <4>0. PICK p \in Partitions : \E i \in (position[p] + 1)..position'[p] :
                 e = <<p, i, log[p][i]>>
        <5>1. e \in Between(position, position')
          BY <3>0, <3>3
        <5> QED
          BY <5>1, BetweenElements
      <4>1. PICK i \in (position[p] + 1)..position'[p] : e = <<p, i, log[p][i]>>
        BY <4>0
      <4>2. /\ position[p] \in Nat /\ position'[p] \in Nat /\ Len(log[p]) \in Nat
            /\ i \in Int /\ position[p] < i /\ i <= position'[p] /\ committed[p] \in Nat
        BY <3>0, <4>1
      <4>3. GroupOf[p] = g /\ position'[p] <= Len(log[p])
        BY <3>0, <4>2
      <4>4. i \in 1..Len(log[p]) /\ committed[p] < i
        BY <4>2, <4>3 DEF OffsetInv, OffsetsOrdered
      <4> QED
        BY <3>1, <4>1, <4>3, <4>4 DEF Logged, PartitionOf, OffsetOf
    <3>4. \A h \in Groups : h # g => batch'[h] = batch[h]
      BY <3>0
    <3> QED
      BY <3>1, <3>2, <3>3, <3>4 DEF OffsetInv, Logged
  <2>4. ASSUME batch[g] = {}, UNCHANGED <<log, position, batch>>,
               \/ committed' = [p \in Partitions |->
                                  IF GroupOf[p] = g THEN position[p] ELSE committed[p]]
               \/ UNCHANGED committed
        PROVE  OffsetInv'
    <3>1. OffsetsOrdered'
      BY <2>4 DEF OffsetInv, OffsetsOrdered
    <3>2. ASSUME NEW h \in Groups, NEW e \in batch[h]
          PROVE  committed'[PartitionOf(e)] < OffsetOf(e)
      <4>1. PartitionOf(e) \in Partitions /\ GroupOf[PartitionOf(e)] # g
        BY <2>4, <3>2 DEF OffsetInv, Entries, PartitionOf
      <4> QED
        BY <2>4, <3>2, <4>1 DEF OffsetInv
    <3> QED
      BY <2>4, <3>1, <3>2 DEF OffsetInv, Logged
  <2>5. CASE Commit(g)
    BY <2>4, <2>5 DEF Commit, StageInv
  <2>6. CASE KafkaError(g)
    BY <2>4, <2>6 DEF KafkaError, StageInv
  <2> QED
    BY <1>1, <2>1, <2>2, <2>3, <2>5, <2>6 DEF ConsumerStep
<1>2. ASSUME NEW g \in Groups, HandleBatch(g) \/ HandlerReturns(g) PROVE OffsetInv'
  <2>1. Quiet
    BY <1>2 DEF HandleBatch, HandlerReturns
  <2> QED
    BY <2>1, OffsetFrame
<1>3. ASSUME NEW t \in Tasks, WriteStep(t) PROVE OffsetInv'
  BY <1>3, OffsetFrame DEF WriteStep
<1>4. CASE PeriodicTask
  BY <1>3, <1>4, OffsetFrame DEF PeriodicTask
<1>5. ASSUME NEW g \in Groups, StartGroup(g) \/ (Rebalance(g) /\ UNCHANGED <<writerVars, phase, vanished>>)
      PROVE  OffsetInv'
  <2>1. /\ UNCHANGED <<log, committed, batch>>
        /\ position' = AtCommitted(g)
    BY <1>5 DEF StartGroup, StartConsumer, Rebalance
  <2>2. OffsetsOrdered'
    BY <2>1 DEF OffsetInv, OffsetsOrdered, AtCommitted
  <2> QED
    BY <2>1, <2>2 DEF OffsetInv, Logged
<1>6. ASSUME NEW g \in Groups, StopGroup(g) \/ GroupStopped(g) \/ CancelGroup(g)
      PROVE  OffsetInv'
  <2>1. Quiet
    BY <1>6 DEF StopGroup, RequestStop, GroupStopped, FinishStop, CancelGroup, CancelTask
  <2> QED
    BY <2>1, OffsetFrame
<1>7. ASSUME NEW g \in Groups, Pause(g) \/ Resume(g) PROVE OffsetInv'
  BY <1>7, OffsetFrame DEF Pause, Resume
<1>8. CASE MainTask
  <2>1. CASE StopWriting
    BY <2>1, OffsetFrame DEF StopWriting
  <2>2. CASE FlushReturns(Main) /\ UNCHANGED <<consumerVars, phase, vanished>>
    BY <2>2, OffsetFrame
  <2>3. CASE Exit
    BY <2>3 DEF Exit, ProcessGone, OffsetInv, OffsetsOrdered
  <2> QED
    BY <1>3, <1>5, <1>6, <1>8, <2>1, <2>2, <2>3 DEF MainTask
<1>9. CASE DlqTask \/ DlqLost
  BY <1>9, OffsetFrame DEF DlqTask, DlqDelivered, DlqLost
<1>10. CASE Start \/ Stop
  BY <1>10, OffsetFrame DEF Start, Stop
<1>11. CASE Crash
  BY <1>11 DEF Crash, ProcessGone, OffsetInv, OffsetsOrdered
<1>12. ASSUME NEW r \in Records, Produce(r) PROVE OffsetInv'
  <2>1. UNCHANGED <<committed, position, batch>>
    BY <1>12 DEF Produce
  <2>2. log' \in [Partitions -> Seq(Records)]
    BY <1>12, TopicsAssumption DEF Produce
  <2>3. \A p \in Partitions : Len(log[p]) \in Nat /\ Len(log'[p]) \in Nat
    BY <2>2
  <2>4. OffsetsOrdered'
    BY <1>12, <2>1, <2>3, LogGrows DEF OffsetInv, OffsetsOrdered
  <2>5. \A e : Logged(e) => Logged(e)'
    BY <1>12, <2>3, LogGrows DEF Logged
  <2> QED
    BY <2>1, <2>4, <2>5 DEF OffsetInv
<1>13. CASE UNCHANGED vars
  BY <1>13, OffsetFrame DEF vars
<1> QED
  BY <1>1, <1>2, <1>3, <1>4, <1>5, <1>6, <1>7, <1>8, <1>9, <1>10, <1>11, <1>12, <1>13
     DEF Next, GroupTask, Environment

THEOREM OffsetsHold == Spec => []OffsetInv
<1>1. Init => OffsetInv
  BY DEF Init, ConsumerInit, OffsetInv, OffsetsOrdered
<1> QED
  BY <1>1, OffsetStep, TypesStay, StagesHold, PTL DEF Spec

\* Offsets stay ordered: committed by the group, returned by getmany, written.
THEOREM OffsetsStayOrdered == Spec => []OffsetsOrdered
<1>1. OffsetInv => OffsetsOrdered
  BY DEF OffsetInv
<1> QED
  BY <1>1, OffsetsHold, PTL

\* The commit of consumer.py:213 only ever covers what the handler has taken.
THEOREM CommitsFollowHandler == Spec => []CommitFollowsHandler
<1>1. OffsetInv => CommitFollowsHandler
  BY DEF OffsetInv, CommitFollowsHandler
<1> QED
  BY <1>1, OffsetsHold, PTL

LEMMA CommitStep ==
    ASSUME TypeInv, OffsetInv, [Next]_vars
    PROVE  [\A p \in Partitions : committed'[p] >= committed[p]]_vars
<1> USE DEF controlVars, brokerVars, writerVars, consumerVars
<1>0. \A p \in Partitions : committed[p] \in Nat /\ position[p] \in Nat
  OBVIOUS
<1>1. ASSUME NEW g \in Groups, Commit(g) \/ KafkaError(g)
      PROVE  \A p \in Partitions : committed'[p] >= committed[p]
  <2> SUFFICES ASSUME NEW p \in Partitions PROVE committed'[p] >= committed[p]
    OBVIOUS
  <2>1. committed'[p] \in {committed[p], position[p]}
    BY <1>1 DEF Commit, KafkaError
  <2>2. committed[p] <= position[p]
    BY DEF OffsetInv, OffsetsOrdered
  <2> QED
    BY <1>0, <2>1, <2>2
<1>2. UNCHANGED committed => \A p \in Partitions : committed'[p] >= committed[p]
  BY <1>0
<1>3. ASSUME NEW g \in Groups, GroupTask(g)
      PROVE  UNCHANGED committed \/ Commit(g) \/ KafkaError(g)
  <2>1. CASE ConsumerStep(g)
    BY <2>1 DEF ConsumerStep, ExitLoop, BeginPoll, Fetch, PollEmpty, DeadLetter, Decoded,
                BackoffEnds
  <2>2. CASE HandleBatch(g) \/ HandlerReturns(g) \/ WriteStep(g)
    BY <2>2 DEF HandleBatch, HandlerReturns, WriteStep
  <2> QED
    BY <1>3, <2>1, <2>2 DEF GroupTask
<1>4. CASE PeriodicTask \/ DlqTask \/ Start
  BY <1>2, <1>4 DEF PeriodicTask, DlqTask, Start, WriteStep, DlqDelivered
<1>5. CASE MainTask
  BY <1>2, <1>5 DEF MainTask, StartGroup, StartConsumer, StopGroup, RequestStop,
                    GroupStopped, FinishStop, StopWriting, WriteStep, Exit, ProcessGone
<1>6. CASE Environment
  BY <1>2, <1>6 DEF Environment, Produce, Rebalance, Pause, Resume, CancelGroup, CancelTask,
                    Stop, Crash, ProcessGone, DlqLost
<1>7. CASE UNCHANGED vars
  BY <1>7
<1> QED
  BY <1>1, <1>2, <1>3, <1>4, <1>5, <1>6, <1>7 DEF Next

\* Committed offsets never move backwards.
THEOREM CommitsNeverRegress == Spec => CommittedNeverRegresses
BY CommitStep, TypesStay, OffsetsHold, PTL DEF Spec, CommittedNeverRegresses
=============================================================================
