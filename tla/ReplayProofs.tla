---------------------------- MODULE ReplayProofs ----------------------------
(***************************************************************************)
(* One replay at a time, in order and complete, for every recording, every *)
(* number of calls, requests and failures.                                 *)
(***************************************************************************)
EXTENDS Replay, FiniteSetTheorems, WellFoundedInduction, TLAPS

-----------------------------------------------------------------------------
(* The window *)

\* A finite set of numbers that is not empty has a least and a greatest one.
LEMMA ExtremesExist ==
    ASSUME NEW S \in SUBSET Nat, IsFiniteSet(S), S # {}
    PROVE  /\ \E t \in S : \A u \in S : t <= u
           /\ \E t \in S : \A u \in S : u <= t
<1> DEFINE Good(T) == T = {} \/ ((\E t \in T : \A u \in T : t <= u) /\ (\E t \in T : \A u \in T : u <= t))
           Bad == {T \in SUBSET S : ~ Good(T)}
           R == StrictSubsetOrdering(S)
<1>1. SUFFICES Bad = {}
  BY <1>1
<1>2. SUFFICES ASSUME Bad # {}
               PROVE  FALSE
  BY <1>2
<1>3. IsWellFoundedOn(R, FiniteSubsetsOf(S))
  BY FS_StrictSubsetOrderingWellFounded
<1>4. Bad \subseteq FiniteSubsetsOf(S)
  BY FS_Subset DEF FiniteSubsetsOf
<1> HIDE DEF Bad, R
<1>5. PICK T \in Bad : \A V \in Bad : ~ (<<V, T>> \in R)
  BY <1>2, <1>3, <1>4, WFMin
<1>6. T \in SUBSET S /\ ~ Good(T)
  BY DEF Bad
<1>7. PICK x \in T : TRUE
  BY <1>6
<1>8. Good(T \ {x})
  <2>1. T \ {x} \in SUBSET S /\ T \ {x} \subseteq T /\ T \ {x} # T
    BY <1>6, <1>7
  <2>2. <<T \ {x}, T>> \in R
    BY <1>6, <2>1 DEF R, StrictSubsetOrdering
  <2> QED
    BY <1>5, <2>1, <2>2 DEF Bad
<1>9. CASE T \ {x} = {}
  <2>1. T = {x} /\ x \in Nat
    BY <1>6, <1>7, <1>9
  <2> QED
    BY <1>6, <2>1
<1>10. CASE T \ {x} # {}
  <2>1. PICK a \in T \ {x} : \A u \in T \ {x} : a <= u
    BY <1>8, <1>10
  <2>2. PICK b \in T \ {x} : \A u \in T \ {x} : u <= b
    BY <1>8, <1>10
  <2>3. x \in Nat /\ a \in Nat /\ b \in Nat /\ T \subseteq Nat
    BY <1>6
  <2>4. \E t \in T : \A u \in T : t <= u
    <3>1. CASE x <= a
      BY <2>1, <2>3, <3>1
    <3>2. CASE a <= x
      BY <2>1, <2>3, <3>2
    <3> QED
      BY <2>3, <3>1, <3>2
  <2>5. \E t \in T : \A u \in T : u <= t
    <3>1. CASE b <= x
      BY <2>2, <2>3, <3>1
    <3>2. CASE x <= b
      BY <2>2, <2>3, <3>2
    <3> QED
      BY <2>3, <3>1, <3>2
  <2> QED
    BY <1>6, <2>4, <2>5
<1> QED
  BY <1>9, <1>10

\* The window begins and ends with a sample.
LEMMA Window == /\ First \in Samples /\ Last \in Samples
                /\ First \in Nat /\ Last \in Nat
<1>1. /\ \E t \in Samples : \A u \in Samples : t <= u
      /\ \E t \in Samples : \A u \in Samples : u <= t
  BY ReplayAssumption, ExtremesExist
<1> QED
  BY <1>1, ReplayAssumption DEF First, Last

\* Waking a run that waits for resume is its only move.
LEMMA WokenRuns ==
    ASSUME NEW p \in [Calls -> Steps]
    PROVE  /\ Woken(p) \in [Calls -> Steps]
           /\ \A c \in Calls : Woken(p)[c] = IF p[c] = "blocked" THEN "pace" ELSE p[c]
BY DEF Woken, Steps

\* Every chunk ends at a time, and later than it begins while the loop goes on.
LEMMA ChunkEnds ==
    ASSUME NEW c \in Calls, cursor[c] \in Nat
    PROVE  /\ ChunkEnd(c) \in Nat
           /\ cursor[c] < Last => cursor[c] < ChunkEnd(c) /\ ChunkEnd(c) <= Last
BY Window, ReplayAssumption DEF ChunkEnd

-----------------------------------------------------------------------------
(* Types *)

\* The first state is of the right type.
LEMMA InitTyped == Init => TypeOK
<1> SUFFICES ASSUME Init
             PROVE  TypeOK
  OBVIOUS
<1>1. [c \in Calls |-> <<>>] \in [Calls -> Seq(Events)]
  OBVIOUS
<1>2. sent \in [Calls -> Seq(Events)] /\ chunk \in [Calls -> SUBSET Events]
  BY <1>1 DEF Init
<1>3. /\ requests \in 0..MaxRequests /\ faults \in 0..MaxFaults
  BY ReplayAssumption DEF Init
<1>4. /\ pc \in [Calls -> Steps] /\ closing \in [Calls -> Calls \union {NoRun}]
      /\ cursor \in [Calls -> Nat] /\ origin \in [Calls -> Nat] /\ overrun \in [Calls -> Nat]
  BY DEF Init, Steps
<1> QED
  BY <1>2, <1>3, <1>4 DEF Init, TypeOK, States

\* A call of start() goes on, or a client asks for something.
LEMMA RequestTyped ==
    ASSUME TypeOK, Requested \/ (\E c \in Calls : StartStep(c) \/ StopStep(c))
    PROVE  TypeOK'
<1> USE DEF TypeOK, States, Steps
<1>1. ASSUME NEW c \in Calls, StartCalled(c)
      PROVE  TypeOK'
  BY <1>1 DEF StartCalled, GoTo, engineVars, historyVars, budgetVars
<1>2. ASSUME NEW c \in Calls, NoSuchSession(c)
      PROVE  TypeOK'
  BY <1>2 DEF NoSuchSession, GoTo, engineVars, historyVars, budgetVars
<1>3. ASSUME NEW c \in Calls, StartContinues(c)
      PROVE  TypeOK'
  <2>1. PICK at \in {First} \union Events :
            /\ cursor' = [cursor EXCEPT ![c] = at]
            /\ origin' = [origin EXCEPT ![c] = at]
    BY <1>3 DEF StartContinues
  <2>2. at \in Nat
    BY Window, ReplayAssumption DEF Events
  <2>3. pc' \in [Calls -> Steps]
    BY <1>3, WokenRuns DEF StartContinues
  <2> QED
    BY <1>3, <2>1, <2>2, <2>3 DEF StartContinues, budgetVars
<1>4. CASE Pause
  <2>1. requests' \in 0..MaxRequests /\ overrun' \in [Calls -> Nat]
    BY <1>4, ReplayAssumption DEF Pause, Request
  <2> QED
    BY <1>4, <2>1 DEF Pause, runVars
<1>5. CASE Resume
  <2>1. pc' \in [Calls -> Steps]
    BY <1>5, WokenRuns DEF Resume
  <2> QED
    BY <1>5, <2>1 DEF Resume, historyVars, budgetVars
<1>6. ASSUME NEW to \in Events, Seek(to)
      PROVE  TypeOK'
  <2>1. seekTo' \subseteq Nat /\ seekFor' \in Calls \union {NoRun} /\ requests' \in 0..MaxRequests
    BY <1>6, ReplayAssumption DEF Seek, Request, Events
  <2> QED
    BY <1>6, <2>1 DEF Seek, runVars
<1>7. CASE Stop
  <2>1. pc' \in [Calls -> Steps]
    BY <1>7, WokenRuns DEF Stop
  <2>2. requests' \in 0..MaxRequests
    BY <1>7, ReplayAssumption DEF Stop, Request
  <2>3. state' \in States /\ stopping' \subseteq Calls /\ mayStart' \in BOOLEAN
    BY <1>7 DEF Stop, Settled
  <2> QED
    BY <1>7, <2>1, <2>2, <2>3 DEF Stop
<1>8. ASSUME NEW c \in Calls, StopAnswers(c)
      PROVE  TypeOK'
  BY <1>8 DEF StopAnswers, Settled, runVars, budgetVars
<1>9. ASSUME NEW c \in Calls, StopRaises(c)
      PROVE  TypeOK'
  BY <1>9 DEF StopRaises, engineVars, runVars, historyVars, budgetVars
<1> QED
  BY <1>1, <1>2, <1>3, <1>4, <1>5, <1>6, <1>7, <1>8, <1>9 DEF Requested, StartStep, StopStep

\* A task goes on.
LEMMA RunTyped ==
    ASSUME TypeOK, NEW c \in Calls, RunStep(c) \/ Cancelled(c)
    PROVE  TypeOK'
<1> USE DEF TypeOK, States, Steps, GoTo, engineVars, historyVars, budgetVars
<1>1. CASE RunBegins(c)
  BY <1>1 DEF RunBegins
<1>2. CASE ProducerStarted(c)
  BY <1>2 DEF ProducerStarted
<1>3. CASE ProducerFails(c)
  <2>1. faults' \in 0..MaxFaults
    BY <1>3, ReplayAssumption DEF ProducerFails, Fault
  <2> QED
    BY <1>3, <2>1 DEF ProducerFails
<1>4. CASE LoopEnds(c)
  <2>1. state' \in States /\ closing' \in [Calls -> Calls \union {NoRun}] /\ pc' \in [Calls -> Steps]
    BY <1>4 DEF LoopEnds, Finally
  <2> QED
    BY <1>4, <2>1 DEF LoopEnds
<1>5. CASE SeekTaken(c)
  <2>1. PICK to \in seekTo : /\ cursor' = [cursor EXCEPT ![c] = to]
                            /\ origin' = [origin EXCEPT ![c] = to]
    BY <1>5 DEF SeekTaken
  <2>2. to \in Nat
    OBVIOUS
  <2>3. sent' \in [Calls -> Seq(Events)] /\ strayed' \subseteq Calls /\ seekTo' \subseteq Nat
    BY <1>5 DEF SeekTaken
  <2> QED
    BY <1>5, <2>1, <2>2, <2>3 DEF SeekTaken
<1>6. CASE BeginLoad(c)
  BY <1>6 DEF BeginLoad
<1>7. CASE Loaded(c)
  BY <1>7 DEF Loaded, Rows
<1>8. CASE LoadFails(c)
  BY <1>8, ReplayAssumption DEF LoadFails, Fail, Finally, Fault
<1>9. CASE GapEnds(c) \/ EmitReturns(c)
  BY <1>9, ChunkEnds DEF GapEnds, EmitReturns, Advance
<1>10. CASE Block(c) \/ Pace(c)
  BY <1>10 DEF Block, Pace
<1>11. CASE Publish(c)
  <2>1. PICK e \in chunk[c] : /\ chunk' = [chunk EXCEPT ![c] = @ \ {e}]
                             /\ sent' = [sent EXCEPT ![c] = Append(@, e)]
    BY <1>11 DEF Publish
  <2>2. e \in Events /\ Append(sent[c], e) \in Seq(Events) /\ chunk[c] \ {e} \in SUBSET Events
    BY <2>1
  <2>3. sent' \in [Calls -> Seq(Events)] /\ chunk' \in [Calls -> SUBSET Events]
    BY <2>1, <2>2
  <2>4. overrun' \in [Calls -> Nat]
    BY <1>11 DEF Publish
  <2> QED
    BY <1>11, <2>3, <2>4 DEF Publish
<1>12. CASE PublishFails(c)
  BY <1>12, ReplayAssumption DEF PublishFails, Fail, Finally, Fault
<1>13. CASE Closed(c)
  BY <1>13 DEF Closed
<1>14. CASE CloseFails(c)
  BY <1>14, ReplayAssumption DEF CloseFails, Fault
<1>15. CASE Cancelled(c)
  <2>1. state' \in States /\ closing' \in [Calls -> Calls \union {NoRun}] /\ pc' \in [Calls -> Steps]
    <3>1. CASE state' = "stopped" /\ Finally(c)
      BY <3>1 DEF Finally
    <3>2. CASE GoTo(c, "done") /\ UNCHANGED <<state, closing>>
      BY <3>2
    <3> QED
      BY <1>15, <3>1, <3>2 DEF Cancelled
  <2>2. faults' \in 0..MaxFaults
    BY <1>15, ReplayAssumption DEF Cancelled, Fault
  <2> QED
    BY <1>15, <2>1, <2>2 DEF Cancelled
<1> QED
  BY <1>1, <1>2, <1>3, <1>4, <1>5, <1>6, <1>7, <1>8, <1>9, <1>10, <1>11, <1>12, <1>13, <1>14,
     <1>15 DEF RunStep

\* Every step keeps the types.
LEMMA StepTyped == TypeOK /\ [Next]_vars => TypeOK'
<1> SUFFICES ASSUME TypeOK, [Next]_vars
             PROVE  TypeOK'
  OBVIOUS
<1>1. CASE Next
  BY <1>1, RequestTyped, RunTyped DEF Next
<1>2. CASE UNCHANGED vars
  BY <1>2 DEF vars, engineVars, runVars, historyVars, budgetVars, TypeOK
<1> QED
  BY <1>1, <1>2

\* TypeOK: every variable keeps its type; no position, chunk or seek is anything
\* but a time of the recording.
THEOREM ReplayTypeCorrect == Spec => []TypeOK
BY InitTyped, StepTyped, PTL DEF Spec

-----------------------------------------------------------------------------
(* One at a time *)

AloneInv ==
    /\ \A c \in Calls : pc[c] \notin Over => c = task
    /\ \A c \in stopping : c = task
    /\ mayStart => task = NoRun
    /\ \A c \in Calls : pc[c] = "query" =>
          mayStart /\ stopping = {} /\ \A d \in Calls : pc[d] = "query" => d = c
    /\ \A c \in Calls : task = c => pc[c] \notin {"new", "query"}

\* A task moves only itself, and is none that has ended or not begun.
LEMMA RunMoves ==
    ASSUME TypeOK, NEW c \in Calls, RunStep(c) \/ Cancelled(c)
    PROVE  /\ pc[c] \notin Over
           /\ UNCHANGED <<task, pauseEvent, stopEvent, stopping, mayStart>>
           /\ \E step \in Steps \ {"new", "query"} : pc' = [pc EXCEPT ![c] = step]
<1> USE DEF TypeOK, Over, Steps, GoTo, engineVars, historyVars, budgetVars
<1>1. CASE RunBegins(c) \/ ProducerStarted(c) \/ ProducerFails(c)
  BY <1>1 DEF RunBegins, ProducerStarted, ProducerFails
<1>2. CASE LoopEnds(c)
  BY <1>2 DEF LoopEnds, Finally
<1>3. CASE SeekTaken(c)
  <2>1. pc' = [pc EXCEPT ![c] = "top"]
    BY <1>3 DEF SeekTaken, Looping
  <2> QED
    BY <1>3, <2>1 DEF SeekTaken, Looping
<1>4. CASE BeginLoad(c) \/ Loaded(c)
  BY <1>4 DEF BeginLoad, Loaded, Looping
<1>5. CASE LoadFails(c) \/ PublishFails(c)
  BY <1>5 DEF LoadFails, PublishFails, Fail, Finally
<1>6. CASE GapEnds(c) \/ EmitReturns(c)
  BY <1>6 DEF GapEnds, EmitReturns, Advance
<1>7. CASE Block(c) \/ Pace(c) \/ Publish(c)
  BY <1>7 DEF Block, Pace, Publish
<1>8. CASE Closed(c) \/ CloseFails(c)
  BY <1>8 DEF Closed, CloseFails
<1>9. CASE Cancelled(c)
  BY <1>9 DEF Cancelled, Finally
<1> QED
  BY <1>1, <1>2, <1>3, <1>4, <1>5, <1>6, <1>7, <1>8, <1>9 DEF RunStep

\* Clients that stop before they start again keep one task at a time.
LEMMA StepAlone ==
    ASSUME Discipline = "stop", TypeOK, AloneInv, [Next]_vars
    PROVE  AloneInv'
<1> USE DEF TypeOK, AloneInv, Over, Steps
<1>1. ASSUME NEW c \in Calls, RunStep(c) \/ Cancelled(c)
      PROVE  AloneInv'
  <2>1. PICK step \in Steps \ {"new", "query"} : pc' = [pc EXCEPT ![c] = step]
    BY <1>1, RunMoves
  <2>2. /\ pc[c] \notin Over /\ task' = task /\ stopping' = stopping /\ mayStart' = mayStart
        /\ \A d \in Calls : pc'[d] = IF d = c THEN step ELSE pc[d]
    BY <1>1, <2>1, RunMoves
  <2> QED
    BY <2>1, <2>2
<1>2. ASSUME NEW c \in Calls, StopAnswers(c)
      PROVE  AloneInv'
  BY <1>2, ReplayAssumption DEF StopAnswers, runVars
<1>3. ASSUME NEW c \in Calls, StopRaises(c)
      PROVE  AloneInv'
  BY <1>3 DEF StopRaises, engineVars, runVars, historyVars
<1>4. ASSUME NEW c \in Calls, StartContinues(c)
      PROVE  AloneInv'
  <2>1. /\ \A d \in Calls : pc[d] \in Over /\ (pc[d] = "query" => d = c)
        /\ stopping = {}
    BY <1>4, ReplayAssumption DEF StartContinues
  <2>2. Woken(pc) \in [Calls -> Steps] /\ \A d \in Calls : Woken(pc)[d] = pc[d]
    BY <2>1, WokenRuns
  <2>3. pc' = [Woken(pc) EXCEPT ![c] = "created"] /\ task' = c /\ mayStart' = FALSE /\ stopping' = stopping
    BY <1>4 DEF StartContinues
  <2>4. \A d \in Calls : pc'[d] = IF d = c THEN "created" ELSE pc[d]
    BY <2>2, <2>3
  <2>5. \A d \in Calls : pc'[d] # "query" /\ (pc'[d] \notin Over => d = c)
    BY <2>1, <2>4
  <2>6. pc'[c] = "created" /\ stopping' = {} /\ ~ mayStart'
    BY <2>1, <2>3, <2>4
  <2> QED
    BY <2>3, <2>5, <2>6
<1>5. ASSUME NEW c \in Calls, NoSuchSession(c)
      PROVE  AloneInv'
  BY <1>5, ReplayAssumption DEF NoSuchSession, GoTo, engineVars, historyVars
<1>6. ASSUME NEW c \in Calls, StartCalled(c)
      PROVE  AloneInv'
  BY <1>6, ReplayAssumption DEF StartCalled, MayStart, StartPending, GoTo, engineVars, historyVars
<1>7. CASE Pause \/ \E to \in Events : Seek(to)
  BY <1>7 DEF Pause, Seek, runVars
<1>8. CASE Resume
  <2>1. \A d \in Calls : pc'[d] = IF pc[d] = "blocked" THEN "pace" ELSE pc[d]
    BY <1>8, WokenRuns DEF Resume
  <2> QED
    BY <1>8, <2>1 DEF Resume, historyVars
<1>9. CASE Stop
  <2>1. \A d \in Calls : pc'[d] = IF pc[d] = "blocked" THEN "pace" ELSE pc[d]
    BY <1>9, WokenRuns DEF Stop
  <2>2. task' = task /\ \A d \in Calls : pc[d] # "query"
    BY <1>9 DEF Stop, MayStop, StartPending
  <2>3. stopping' \subseteq stopping \union {task}
    BY <1>9 DEF Stop
  <2>4. mayStart' => task = NoRun
    BY <1>9 DEF Stop
  <2> QED
    BY <2>1, <2>2, <2>3, <2>4
<1>10. CASE UNCHANGED vars
  BY <1>10 DEF vars, engineVars, runVars, historyVars
<1> QED
  BY <1>1, <1>2, <1>3, <1>4, <1>5, <1>6, <1>7, <1>8, <1>9, <1>10
     DEF Next, StopStep, StartStep, Requested

\* The invariant of one task at a time.
LEMMA Alone == Discipline = "stop" => (Spec => [](TypeOK /\ AloneInv))
<1> SUFFICES ASSUME Discipline = "stop"
             PROVE  Spec => [](TypeOK /\ AloneInv)
  OBVIOUS
<1>1. Init => TypeOK /\ AloneInv
  BY InitTyped, ReplayAssumption DEF Init, AloneInv, Over
<1>2. TypeOK /\ AloneInv /\ [Next]_vars => (TypeOK /\ AloneInv)'
  BY StepTyped, StepAlone
<1> QED
  BY <1>1, <1>2, PTL DEF Spec

\* OneReplay (engine.py:352-362): among clients that await a stop() before the
\* next start(), at most one replay feeds the pipeline.
THEOREM OneAtATime == Discipline = "stop" => (Spec => []OneReplay)
<1>1. AloneInv => OneReplay
  BY DEF AloneInv, OneReplay, Alive
<1> QED
  BY <1>1, Alone, PTL

-----------------------------------------------------------------------------
(* Pausing *)

\* While paused, a run about to publish has published nothing since the pause.
HeldInv ==
    \A c \in Calls : ~ pauseEvent => overrun[c] <= 1 /\ (pc[c] = "pace" => overrun[c] = 0)

\* A task publishes at most one event of its own while it is held.
LEMMA RunHeld ==
    ASSUME TypeOK, HeldInv, NEW c \in Calls, RunStep(c) \/ Cancelled(c)
    PROVE  HeldInv'
<1> USE DEF TypeOK, HeldInv
<1>1. pauseEvent' = pauseEvent
  BY RunMoves
<1>2. PICK step \in Steps : pc' = [pc EXCEPT ![c] = step]
  BY RunMoves
<1>3. CASE Publish(c)
  <2>1. pc[c] = "pace" /\ overrun' = [overrun EXCEPT ![c] = IF pauseEvent THEN 0 ELSE @ + 1]
    BY <1>3 DEF Publish
  <2>2. pc' = [pc EXCEPT ![c] = "emit"]
    BY <1>3 DEF Publish, GoTo
  <2> QED
    BY <1>1, <2>1, <2>2
<1>4. CASE Pace(c)
  BY <1>1, <1>4 DEF Pace
<1>5. CASE ~ Publish(c) /\ ~ Pace(c)
  <2>1. overrun' = overrun
    BY <1>5 DEF RunStep, Cancelled, RunBegins, ProducerStarted, ProducerFails, LoopEnds, SeekTaken,
       BeginLoad, Loaded, LoadFails, GapEnds, EmitReturns, Advance, Block, PublishFails, Fail,
       Closed, CloseFails, historyVars
  <2>2. pc'[c] # "pace"
    <3>1. CASE SeekTaken(c)
      BY <3>1 DEF SeekTaken, Looping
    <3> QED
      BY <1>5, <3>1 DEF RunStep, Cancelled, RunBegins, ProducerStarted, ProducerFails, LoopEnds,
         BeginLoad, Loaded, LoadFails, GapEnds, EmitReturns, Advance, Block, PublishFails, Fail,
         Finally, Closed, CloseFails, GoTo
  <2> QED
    BY <1>1, <1>2, <2>1, <2>2
<1> QED
  BY <1>3, <1>4, <1>5

\* Nothing but a pause holds the runs, and it starts the count again.
LEMMA StepHeld ==
    ASSUME TypeOK, HeldInv, [Next]_vars
    PROVE  HeldInv'
<1> USE DEF TypeOK, HeldInv
<1>1. CASE \E c \in Calls : RunStep(c) \/ Cancelled(c)
  BY <1>1, RunHeld
<1>2. CASE Pause
  BY <1>2 DEF Pause
<1>3. CASE Resume \/ Stop \/ \E c \in Calls : StartContinues(c)
  BY <1>3 DEF Resume, Stop, StartContinues
<1>4. CASE \E c \in Calls : StopAnswers(c) \/ StopRaises(c)
  BY <1>4 DEF StopAnswers, StopRaises, engineVars, runVars, historyVars
<1>5. CASE \E c \in Calls : StartCalled(c) \/ NoSuchSession(c)
  BY <1>5 DEF StartCalled, NoSuchSession, GoTo, engineVars, historyVars
<1>6. CASE \E to \in Events : Seek(to)
  BY <1>6 DEF Seek, runVars
<1>7. CASE UNCHANGED vars
  BY <1>7 DEF vars, engineVars, runVars, historyVars
<1> QED
  BY <1>1, <1>2, <1>3, <1>4, <1>5, <1>6, <1>7 DEF Next, StopStep, StartStep, Requested

\* PauseHolds (engine.py:498-501): a run publishes at most one event after a
\* pause, however pauses and resumes alternate and whatever else clients ask.
THEOREM HeldWhilePaused == Spec => []PauseHolds
<1>1. Init => TypeOK /\ HeldInv
  BY InitTyped DEF Init, HeldInv
<1>2. TypeOK /\ HeldInv /\ [Next]_vars => (TypeOK /\ HeldInv)'
  BY StepTyped, StepHeld
<1>3. HeldInv => PauseHolds
  BY DEF HeldInv, PauseHolds
<1> QED
  BY <1>1, <1>2, <1>3, PTL DEF Spec

-----------------------------------------------------------------------------
(* The status *)

Running == {"top", "load", "gap", "emit", "blocked", "pace"}
Ends == {"finished", "stopped", "failed"}

\* Where the one task is and what the status says.
StatusInv ==
    /\ task = NoRun => state \in {"idle"} \union Ends
    /\ state = "playing" => pauseEvent
    /\ state = "paused" /\ task \notin stopping => ~ pauseEvent
    /\ \A c \in Calls :
          /\ pc[c] \in {"created", "starting"} => state = "loading" /\ pauseEvent
          /\ pc[c] \in Running => state \in {"playing", "paused"}
          /\ pc[c] = "close" => state \in Ends
          /\ task = c /\ pc[c] = "done" /\ c \notin stopping => state \in Ends
          /\ task = c /\ pc[c] \in {"done", "raised"} => state \notin {"playing", "paused"}

\* The status follows the task through every step of it.
LEMMA RunStatus ==
    ASSUME TypeOK, AloneInv, StatusInv, NEW c \in Calls, RunStep(c) \/ Cancelled(c)
    PROVE  StatusInv'
<1> USE DEF Over, Steps, Running, Ends
<1>1. /\ c = task /\ c # NoRun
      /\ \A d \in Calls : d # c => pc[d] \in Over
  BY RunMoves, ReplayAssumption DEF AloneInv
<1>2. UNCHANGED <<task, pauseEvent, stopEvent, stopping, mayStart>>
  BY RunMoves
<1>3. PICK step \in Steps \ {"new", "query"} :
          /\ pc' = [pc EXCEPT ![c] = step]
          /\ \A d \in Calls : pc'[d] = IF d = c THEN step ELSE pc[d]
  <2>1. PICK step \in Steps \ {"new", "query"} : pc' = [pc EXCEPT ![c] = step]
    BY RunMoves
  <2>2. \A d \in Calls : pc'[d] = IF d = c THEN step ELSE pc[d]
    BY <2>1 DEF TypeOK
  <2> QED
    BY <2>1, <2>2
<1>4. SUFFICES
         /\ state' = "playing" => pauseEvent
         /\ state' = "paused" /\ task \notin stopping => ~ pauseEvent
         /\ step \in {"created", "starting"} => state' = "loading" /\ pauseEvent
         /\ step \in Running => state' \in {"playing", "paused"}
         /\ step = "close" => state' \in Ends
         /\ step = "done" /\ c \notin stopping => state' \in Ends
         /\ step \in {"done", "raised"} => state' \notin {"playing", "paused"}
  BY <1>1, <1>2, <1>3 DEF StatusInv
<1>5. step = pc'[c]
  BY <1>3
<1> HIDE DEF Steps
<1> USE DEF StatusInv, GoTo, engineVars, historyVars
<1>6. CASE RunBegins(c) \/ ProducerStarted(c) \/ ProducerFails(c)
  BY <1>5, <1>6 DEF RunBegins, ProducerStarted, ProducerFails, TypeOK
<1>7. CASE LoopEnds(c)
  BY <1>5, <1>7 DEF LoopEnds, Finally, TypeOK
<1>8. CASE SeekTaken(c)
  BY <1>5, <1>8 DEF SeekTaken, Looping
<1>9. CASE BeginLoad(c) \/ Loaded(c)
  BY <1>5, <1>9 DEF BeginLoad, Loaded, Looping, TypeOK
<1>10. CASE LoadFails(c) \/ PublishFails(c)
  BY <1>5, <1>10 DEF LoadFails, PublishFails, Fail, Finally, TypeOK
<1>11. CASE GapEnds(c) \/ EmitReturns(c)
  BY <1>5, <1>11 DEF GapEnds, EmitReturns, Advance, TypeOK
<1>12. CASE Block(c) \/ Pace(c) \/ Publish(c)
  BY <1>5, <1>12 DEF Block, Pace, Publish, TypeOK
<1>13. CASE Closed(c) \/ CloseFails(c)
  BY <1>5, <1>13 DEF Closed, CloseFails, TypeOK
<1>14. CASE Cancelled(c)
  BY <1>5, <1>14 DEF Cancelled, Finally, TypeOK
<1> QED
  BY <1>6, <1>7, <1>8, <1>9, <1>10, <1>11, <1>12, <1>13, <1>14 DEF RunStep

\* And through every call of a client.
LEMMA StepStatus ==
    ASSUME Discipline = "stop", TypeOK, AloneInv, StatusInv, [Next]_vars
    PROVE  StatusInv'
<1> USE DEF TypeOK, AloneInv, StatusInv, Over, Running, Ends
<1>1. ASSUME NEW c \in Calls, RunStep(c) \/ Cancelled(c)
      PROVE  StatusInv'
  BY <1>1, RunStatus
<1>2. ASSUME NEW c \in Calls, StopAnswers(c)
      PROVE  StatusInv'
  <2>1. /\ task = c /\ task' = NoRun /\ pc' = pc /\ producer' = producer /\ open' = open
        /\ pauseEvent' = pauseEvent /\ state' = Settled(state) /\ pc[c] = "done"
    BY <1>2 DEF StopAnswers, runVars
  <2>2. \A d \in Calls : pc[d] \in Over
    BY <2>1
  <2>3. state' \in Ends
    BY <2>1 DEF Settled
  <2> QED
    BY <2>1, <2>2, <2>3, ReplayAssumption
<1>3. ASSUME NEW c \in Calls, StopRaises(c)
      PROVE  StatusInv'
  <2>1. /\ UNCHANGED <<engineVars, pc>> /\ c = task /\ pc[c] = "raised" /\ stopping' = stopping \ {c}
    BY <1>3 DEF StopRaises, runVars
  <2> QED
    BY <2>1 DEF engineVars
<1>4. ASSUME NEW c \in Calls, StartContinues(c)
      PROVE  StatusInv'
  <2>1. /\ \A d \in Calls : pc[d] \in Over
        /\ stopping = {}
    BY <1>4, ReplayAssumption DEF StartContinues
  <2>2. Woken(pc) \in [Calls -> Steps] /\ \A d \in Calls : Woken(pc)[d] = pc[d]
    BY <2>1, WokenRuns
  <2>3. /\ pc' = [Woken(pc) EXCEPT ![c] = "created"] /\ task' = c /\ state' = "loading" /\ pauseEvent'
    BY <1>4 DEF StartContinues
  <2>4. \A d \in Calls : pc'[d] = IF d = c THEN "created" ELSE pc[d]
    BY <2>2, <2>3
  <2>5. pc'[c] = "created" /\ \A d \in Calls : d # c => pc'[d] \in Over
    BY <2>1, <2>4
  <2> QED
    BY <2>3, <2>5, ReplayAssumption
<1>5. ASSUME NEW c \in Calls, StartCalled(c) \/ NoSuchSession(c)
      PROVE  StatusInv'
  <2>1. UNCHANGED <<engineVars, stopping>> /\ c # task
    BY <1>5 DEF StartCalled, NoSuchSession
  <2>2. \A d \in Calls : pc'[d] = pc[d] \/ (d = c /\ pc'[d] \in {"query", "done"})
    BY <1>5 DEF StartCalled, NoSuchSession, GoTo
  <2> QED
    BY <2>1, <2>2 DEF engineVars
<1>6. CASE Pause \/ \E to \in Events : Seek(to)
  <2>1. UNCHANGED <<task, producer, open, pc, stopping>>
    BY <1>6 DEF Pause, Seek, runVars
  <2>2. CASE state = "playing" /\ state' = "paused" /\ ~ pauseEvent'
    <3>1. task # NoRun /\ \A c \in Calls : pc[c] \notin {"created", "starting", "close"}
      BY <2>2
    <3> QED
      BY <2>1, <2>2, <3>1
  <2>3. CASE UNCHANGED <<state, pauseEvent>>
    BY <2>1, <2>3
  <2> QED
    BY <1>6, <2>2, <2>3 DEF Pause, Seek
<1>7. CASE Resume
  <2>1. \A d \in Calls : pc'[d] = IF pc[d] = "blocked" THEN "pace" ELSE pc[d]
    BY <1>7, WokenRuns DEF Resume
  <2>2. /\ state = "paused" /\ state' = "playing" /\ pauseEvent'
        /\ UNCHANGED <<task, producer, open, stopping>>
    BY <1>7 DEF Resume
  <2> QED
    BY <2>1, <2>2
<1>8. CASE Stop
  <2>1. \A d \in Calls : pc'[d] = IF pc[d] = "blocked" THEN "pace" ELSE pc[d]
    BY <1>8, WokenRuns DEF Stop
  <2>2. pauseEvent' /\ UNCHANGED <<task, producer, open>>
    BY <1>8 DEF Stop
  <2>3. CASE task = NoRun
    <3>1. state' \in Ends /\ stopping' = stopping
      BY <1>8, <2>3 DEF Stop, Settled
    <3>2. \A d \in Calls : pc[d] \in Over /\ d # task
      BY <2>3, ReplayAssumption
    <3> QED
      BY <2>1, <2>2, <2>3, <3>1, <3>2
  <2>4. CASE task # NoRun
    <3>1. state' = state /\ task \in Calls
      BY <1>8, <2>4 DEF Stop
    <3>2. \/ pc[task] # "raised" /\ stopping' = stopping \union {task}
          \/ pc[task] = "raised" /\ stopping' = stopping
      BY <1>8, <2>4 DEF Stop
    <3> QED
      BY <2>1, <2>2, <2>4, <3>1, <3>2
  <2> QED
    BY <2>3, <2>4
<1>9. CASE UNCHANGED vars
  BY <1>9 DEF vars, engineVars, runVars, historyVars
<1> QED
  BY <1>1, <1>2, <1>3, <1>4, <1>5, <1>6, <1>7, <1>8, <1>9
     DEF Next, StopStep, StartStep, Requested

\* The status holds along with one task at a time.
LEMMA Status == Discipline = "stop" => (Spec => [](TypeOK /\ AloneInv /\ StatusInv))
<1> SUFFICES ASSUME Discipline = "stop"
             PROVE  Spec => [](TypeOK /\ AloneInv /\ StatusInv)
  OBVIOUS
<1>1. Init => TypeOK /\ AloneInv /\ StatusInv
  BY InitTyped, ReplayAssumption DEF Init, AloneInv, StatusInv, Over, Running, Ends
<1>2. TypeOK /\ AloneInv /\ StatusInv /\ [Next]_vars => (TypeOK /\ AloneInv /\ StatusInv)'
  BY StepTyped, StepAlone, StepStatus
<1> QED
  BY <1>1, <1>2, PTL DEF Spec

\* StatusIsTrue: the status a client reads is that of the task.
THEOREM StatusStaysTrue == Discipline = "stop" => (Spec => []StatusIsTrue)
<1>1. TypeOK /\ AloneInv /\ StatusInv => StatusIsTrue
  BY DEF TypeOK, AloneInv, StatusInv, StatusIsTrue, Alive, Over, Steps, Running, Ends
<1> QED
  BY <1>1, Status, PTL

-----------------------------------------------------------------------------
(* The producer *)

\* A run about to publish has the producer it started.
OwnInv ==
    \A c \in Calls :
        /\ pc[c] = "starting" => producer = c
        /\ pc[c] \in Running => producer = c /\ c \in open

\* A run that is alone keeps its producer.
LEMMA RunOwns ==
    ASSUME TypeOK, OneReplay, OwnInv, NEW c \in Calls, RunStep(c) \/ Cancelled(c)
    PROVE  OwnInv'
<1> USE DEF Running
<1>1. pc[c] \notin Over /\ \A d \in Calls : d # c => pc[d] \in Over
  BY RunMoves DEF OneReplay, Alive
<1>2. PICK step \in Steps : pc' = [pc EXCEPT ![c] = step]
  BY RunMoves
<1>3. \A d \in Calls : pc'[d] = IF d = c THEN step ELSE pc[d]
  BY <1>2 DEF TypeOK
<1>4. SUFFICES /\ pc'[c] = "starting" => producer' = c
               /\ pc'[c] \in Running => producer' = c /\ c \in open'
  BY <1>1, <1>3 DEF OwnInv, Over
<1> USE DEF OwnInv, TypeOK, GoTo, engineVars, historyVars
<1>5. CASE RunBegins(c) \/ ProducerStarted(c) \/ ProducerFails(c)
  BY <1>5 DEF RunBegins, ProducerStarted, ProducerFails
<1>6. CASE LoopEnds(c)
  BY <1>6 DEF LoopEnds, Finally
<1>7. CASE SeekTaken(c)
  BY <1>7 DEF SeekTaken, Looping
<1>8. CASE BeginLoad(c) \/ Loaded(c)
  BY <1>8 DEF BeginLoad, Loaded, Looping
<1>9. CASE LoadFails(c) \/ PublishFails(c)
  BY <1>9 DEF LoadFails, PublishFails, Fail, Finally
<1>10. CASE GapEnds(c) \/ EmitReturns(c)
  BY <1>10 DEF GapEnds, EmitReturns, Advance
<1>11. CASE Block(c) \/ Pace(c) \/ Publish(c)
  BY <1>11 DEF Block, Pace, Publish
<1>12. CASE Closed(c) \/ CloseFails(c)
  BY <1>12 DEF Closed, CloseFails
<1>13. CASE Cancelled(c)
  BY <1>13 DEF Cancelled, Finally
<1> QED
  BY <1>5, <1>6, <1>7, <1>8, <1>9, <1>10, <1>11, <1>12, <1>13 DEF RunStep

\* No call of a client touches a producer or begins to publish.
LEMMA StepOwns ==
    ASSUME TypeOK, OneReplay, OwnInv, [Next]_vars
    PROVE  OwnInv'
<1> USE DEF OwnInv, Running
<1>1. ASSUME NEW c \in Calls, RunStep(c) \/ Cancelled(c)
      PROVE  OwnInv'
  BY <1>1, RunOwns
<1>2. ASSUME NEW c \in Calls, StartCalled(c) \/ NoSuchSession(c)
      PROVE  OwnInv'
  BY <1>2 DEF StartCalled, NoSuchSession, GoTo, engineVars, TypeOK
<1>3. ASSUME NEW c \in Calls, StartContinues(c)
      PROVE  OwnInv'
  <2>1. pc' = [Woken(pc) EXCEPT ![c] = "created"] /\ producer' = producer /\ open' = open
    BY <1>3 DEF StartContinues
  <2>2. /\ Woken(pc) \in [Calls -> Steps]
        /\ \A d \in Calls : Woken(pc)[d] = IF pc[d] = "blocked" THEN "pace" ELSE pc[d]
    BY WokenRuns DEF TypeOK
  <2>3. \A d \in Calls : \/ pc'[d] = "created" \/ pc'[d] = pc[d]
                         \/ pc[d] = "blocked" /\ pc'[d] = "pace"
    BY <2>1, <2>2
  <2> QED
    BY <2>1, <2>3
<1>4. CASE (\E c \in Calls : StopStep(c)) \/ Pause \/ \E to \in Events : Seek(to)
  BY <1>4 DEF StopStep, StopAnswers, StopRaises, Pause, Seek, engineVars, runVars
<1>5. CASE Resume \/ Stop
  BY <1>5, WokenRuns DEF Resume, Stop, TypeOK
<1>6. CASE UNCHANGED vars
  BY <1>6 DEF vars, engineVars, runVars
<1> QED
  BY <1>1, <1>2, <1>3, <1>4, <1>5, <1>6 DEF Next, StartStep, Requested

\* EmitHasProducer (engine.py:484 and 489): whatever the clients do, a run loses its
\* producer only to another run: as long as no two tasks have been alive at
\* once, every run publishes through the producer it started itself.
THEOREM ProducerIsOwn == Spec /\ []OneReplay => []EmitHasProducer
<1>1. Init => OwnInv
  BY DEF Init, OwnInv, Running
<1>2. TypeOK /\ OneReplay /\ OwnInv /\ [Next]_vars => OwnInv'
  BY StepOwns
<1>3. OwnInv => EmitHasProducer
  BY DEF OwnInv, EmitHasProducer, Running
<1> QED
  BY <1>1, <1>2, <1>3, ReplayTypeCorrect, PTL DEF Spec

-----------------------------------------------------------------------------
(* In order *)

\* What run c has published since it was last put somewhere.
SentBy(c) == {sent[c][i] : i \in 1..Len(sent[c])}

InOrder(c) ==
    \A i \in 1..Len(sent[c]) :
        /\ origin[c] <= sent[c][i]
        /\ {sent[c][j] : j \in 1..(i - 1)} = Recorded(origin[c], sent[c][i])

\* Run c has published everything up to its cursor.
UpTo(c) == origin[c] <= cursor[c] /\ SentBy(c) = Recorded(origin[c], cursor[c])

\* Run c is inside a chunk: what it still has of it is the later part.
Emitting(c) ==
    /\ origin[c] <= cursor[c]
    /\ chunk[c] \subseteq Rows(c)
    /\ SentBy(c) = Recorded(origin[c], cursor[c]) \union (Rows(c) \ chunk[c])
    /\ \A p \in Rows(c) \ chunk[c], q \in chunk[c] : p < q

Ordered(c) ==
    /\ InOrder(c)
    /\ pc[c] \in {"new", "query"} => sent[c] = <<>>
    /\ pc[c] \in {"created", "starting", "load", "gap"} => UpTo(c)
    /\ pc[c] = "top" => stopEvent \/ UpTo(c)
    /\ pc[c] \in {"load", "gap", "emit", "blocked", "pace"} => cursor[c] < Last
    /\ pc[c] = "gap" => Rows(c) = {}
    /\ pc[c] \in {"emit", "blocked", "pace"} => Emitting(c)

\* The recording of a stretch is that of its first part and its chunk.
LEMMA NextChunk ==
    ASSUME TypeOK, NEW c \in Calls, origin[c] <= cursor[c], cursor[c] < Last
    PROVE  Recorded(origin[c], cursor[c]) \union Rows(c) = Recorded(origin[c], ChunkEnd(c))
<1>1. origin[c] \in Nat /\ cursor[c] \in Nat /\ Events \subseteq Nat
  BY ReplayAssumption DEF TypeOK, Events
<1>2. cursor[c] < ChunkEnd(c) /\ ChunkEnd(c) \in Nat
  BY <1>1, ChunkEnds
<1>3. \A x \in Events : (origin[c] <= x /\ x < ChunkEnd(c)) <=>
                          \/ origin[c] <= x /\ x < cursor[c]
                          \/ cursor[c] <= x /\ x < ChunkEnd(c)
  <2> SUFFICES ASSUME NEW x \in Nat
               PROVE  (origin[c] <= x /\ x < ChunkEnd(c)) <=>
                          \/ origin[c] <= x /\ x < cursor[c]
                          \/ cursor[c] <= x /\ x < ChunkEnd(c)
    BY <1>1
  <2> QED
    BY <1>1, <1>2
<1> QED
  BY <1>3 DEF Recorded, Rows

\* What is said of a run's place only depends on its place and publications.
LEMMA SamePlace ==
    ASSUME NEW c \in Calls,
           cursor'[c] = cursor[c], chunk'[c] = chunk[c], origin'[c] = origin[c], sent'[c] = sent[c]
    PROVE  /\ InOrder(c)' = InOrder(c) /\ Rows(c)' = Rows(c)
           /\ UpTo(c)' = UpTo(c) /\ Emitting(c)' = Emitting(c)
<1>1. SentBy(c)' = SentBy(c) /\ InOrder(c)' = InOrder(c)
  BY DEF SentBy, InOrder, Recorded
<1>2. Rows(c)' = Rows(c)
  BY DEF Rows, ChunkEnd
<1>3. UpTo(c)' = UpTo(c) /\ Emitting(c)' = Emitting(c)
  BY <1>1, <1>2 DEF UpTo, Emitting, Recorded
<1> QED
  BY <1>1, <1>2, <1>3

\* A run that does not move stays in order.
LEMMA KeptOrder ==
    ASSUME NEW c \in Calls, Ordered(c),
           cursor'[c] = cursor[c], chunk'[c] = chunk[c], origin'[c] = origin[c], sent'[c] = sent[c],
           pc'[c] = pc[c] \/ (pc[c] = "blocked" /\ pc'[c] = "pace"),
           pc[c] = "top" /\ stopEvent => stopEvent'
    PROVE  Ordered(c)'
BY SamePlace DEF Ordered

\* A run that has just been put somewhere is in order and up to there.
LEMMA FreshOrder ==
    ASSUME NEW c \in Calls, NEW at \in Nat,
           cursor'[c] = at, origin'[c] = at, sent'[c] = <<>>, Events \subseteq Nat
    PROVE  InOrder(c)' /\ UpTo(c)'
<1>1. SentBy(c)' = {} /\ InOrder(c)'
  BY DEF SentBy, InOrder
<1>2. Recorded(at, at) = {}
  <2>1. \A x \in Events : ~ (at <= x /\ x < at)
    OBVIOUS
  <2> QED
    BY <2>1 DEF Recorded
<1>3. Recorded(origin'[c], cursor'[c]) = {}
  BY <1>2
<1> QED
  BY <1>1, <1>3 DEF UpTo

\* Publishing the earliest event of the chunk keeps the order.
LEMMA PublishOrder ==
    ASSUME TypeOK, NEW c \in Calls, Ordered(c), Publish(c)
    PROVE  InOrder(c)' /\ Emitting(c)'
<1>1. PICK e \in chunk[c] :
          /\ \A f \in chunk[c] : e <= f
          /\ chunk' = [chunk EXCEPT ![c] = @ \ {e}]
          /\ sent' = [sent EXCEPT ![c] = Append(@, e)]
  BY DEF Publish
<1>2. /\ chunk'[c] = chunk[c] \ {e} /\ sent'[c] = Append(sent[c], e) /\ sent[c] \in Seq(Events)
      /\ cursor' = cursor /\ origin' = origin /\ pc[c] = "pace"
      /\ origin[c] \in Nat /\ cursor[c] \in Nat /\ Events \subseteq Nat
  BY <1>1, ReplayAssumption DEF Publish, TypeOK, Events
<1>3. Emitting(c) /\ InOrder(c) /\ cursor[c] < Last
  BY <1>2 DEF Ordered
<1>4. Rows(c)' = Rows(c) /\ Rows(c) \subseteq Events
  BY <1>2 DEF Rows, ChunkEnd
<1>5. e \in Rows(c) /\ e \in Events /\ e \in Nat
  BY <1>1, <1>2, <1>3, <1>4 DEF Emitting
<1>6. /\ Len(sent'[c]) = Len(sent[c]) + 1 /\ Len(sent[c]) \in Nat
      /\ \A i \in 1..Len(sent[c]) : sent'[c][i] = sent[c][i]
      /\ sent'[c][Len(sent[c]) + 1] = e
  BY <1>2, <1>5
<1>7. SentBy(c)' = SentBy(c) \union {e}
  <2>1. \A i \in 1..Len(sent[c]) : i \in 1..Len(sent'[c])
    BY <1>6
  <2>2. \A i \in 1..Len(sent'[c]) : i \in 1..Len(sent[c]) \/ i = Len(sent[c]) + 1
    BY <1>6
  <2>3. Len(sent[c]) + 1 \in 1..Len(sent'[c])
    BY <1>6
  <2> QED
    BY <1>6, <2>1, <2>2, <2>3 DEF SentBy
<1>8. SentBy(c) = Recorded(origin[c], e)
  <2>1. \A x \in Events : origin[c] <= x /\ x < e => x \in Recorded(origin[c], cursor[c]) \/ x \in Rows(c) \ chunk[c]
    <3> SUFFICES ASSUME NEW x \in Events, origin[c] <= x, x < e, ~ (x < cursor[c])
                 PROVE  x \in Rows(c) \ chunk[c]
      BY <1>2 DEF Recorded
    <3>1. e < ChunkEnd(c) /\ ChunkEnd(c) \in Nat /\ x \in Nat
      BY <1>2, <1>5, ChunkEnds DEF Rows
    <3>2. x \in Rows(c)
      BY <1>2, <1>5, <3>1 DEF Rows
    <3>3. x \notin chunk[c]
      BY <1>1, <1>5, <3>1
    <3> QED
      BY <3>2, <3>3
  <2>2. \A x \in Recorded(origin[c], cursor[c]) : x \in Events /\ origin[c] <= x /\ x < e
    <3>1. cursor[c] <= e
      BY <1>5 DEF Rows
    <3> SUFFICES ASSUME NEW x \in Events, x < cursor[c]
                 PROVE  x < e
      BY DEF Recorded
    <3>2. x \in Nat
      BY <1>2
    <3> QED
      BY <1>2, <1>5, <3>1, <3>2
  <2>3. \A x \in Rows(c) \ chunk[c] : x \in Events /\ origin[c] <= x /\ x < e
    <3>1. origin[c] <= cursor[c]
      BY <1>3 DEF Emitting
    <3>2. \A x \in Rows(c) : x \in Nat /\ cursor[c] <= x
      BY <1>2 DEF Rows
    <3> QED
      BY <1>1, <1>2, <1>3, <1>4, <3>1, <3>2 DEF Emitting
  <2>4. SentBy(c) = Recorded(origin[c], cursor[c]) \union (Rows(c) \ chunk[c])
    BY <1>3 DEF Emitting
  <2> QED
    BY <2>1, <2>2, <2>3, <2>4 DEF Recorded
<1>9. origin[c] <= e
  BY <1>2, <1>3, <1>5 DEF Emitting, Rows
<1>10. InOrder(c)'
  <2> SUFFICES ASSUME NEW i \in 1..Len(sent'[c])
               PROVE  /\ origin[c] <= sent'[c][i]
                      /\ {sent'[c][j] : j \in 1..(i - 1)} = Recorded(origin[c], sent'[c][i])
    BY <1>2 DEF InOrder, Recorded
  <2>1. i \in Nat /\ \A j \in 1..(i - 1) : sent'[c][j] = sent[c][j]
    BY <1>6
  <2>2. {sent'[c][j] : j \in 1..(i - 1)} = {sent[c][j] : j \in 1..(i - 1)}
    BY <2>1
  <2>3. CASE i \in 1..Len(sent[c])
    BY <1>3, <1>6, <2>2, <2>3 DEF InOrder
  <2>4. CASE i = Len(sent[c]) + 1
    <3>1. i - 1 = Len(sent[c])
      BY <1>6, <2>4
    <3> QED
      BY <1>6, <1>8, <1>9, <2>2, <2>4, <3>1 DEF SentBy
  <2> QED
    BY <1>6, <2>3, <2>4
<1>11. Emitting(c)'
  <2>1. SentBy(c)' = Recorded(origin[c], cursor[c]) \union (Rows(c) \ (chunk[c] \ {e}))
    BY <1>3, <1>5, <1>7 DEF Emitting
  <2>2. \A p \in Rows(c) \ (chunk[c] \ {e}), q \in chunk[c] \ {e} : p < q
    <3>1. \A q \in chunk[c] \ {e} : q \in Nat /\ e < q
      <4> SUFFICES ASSUME NEW q \in chunk[c] \ {e}
                   PROVE  q \in Nat /\ e < q
        OBVIOUS
      <4>1. q \in Nat
        BY <1>2, <1>3, <1>4 DEF Emitting
      <4> QED
        BY <1>1, <1>5, <4>1
    <3> QED
      BY <1>3, <3>1 DEF Emitting
  <2>3. Recorded(origin[c], cursor[c])' = Recorded(origin[c], cursor[c])
    BY <1>2 DEF Recorded
  <2> QED
    BY <1>2, <1>3, <1>4, <2>1, <2>2, <2>3 DEF Emitting
<1> QED
  BY <1>10, <1>11

OrderInv == \A c \in Calls : Ordered(c)

\* A task leaves every other run where it is.
LEMMA OthersStay ==
    ASSUME TypeOK, NEW c \in Calls, RunStep(c) \/ Cancelled(c), NEW d \in Calls, d # c
    PROVE  /\ cursor'[d] = cursor[d] /\ chunk'[d] = chunk[d] /\ origin'[d] = origin[d]
           /\ sent'[d] = sent[d] /\ pc'[d] = pc[d]
<1> USE DEF TypeOK, historyVars
<1>1. pc'[d] = pc[d]
  BY RunMoves
<1>2. CASE RunBegins(c) \/ ProducerStarted(c) \/ ProducerFails(c) \/ LoopEnds(c) \/ BeginLoad(c)
           \/ LoadFails(c) \/ Block(c) \/ Pace(c) \/ PublishFails(c) \/ Closed(c) \/ CloseFails(c)
           \/ Cancelled(c)
  BY <1>1, <1>2 DEF RunBegins, ProducerStarted, ProducerFails, LoopEnds, BeginLoad, LoadFails, Block,
     Pace, PublishFails, Fail, Closed, CloseFails, Cancelled
<1>3. CASE SeekTaken(c)
  BY <1>1, <1>3 DEF SeekTaken
<1>4. CASE Loaded(c)
  BY <1>1, <1>4 DEF Loaded
<1>5. CASE GapEnds(c) \/ EmitReturns(c)
  BY <1>1, <1>5 DEF GapEnds, EmitReturns, Advance
<1>6. CASE Publish(c)
  BY <1>1, <1>6 DEF Publish
<1> QED
  BY <1>2, <1>3, <1>4, <1>5, <1>6 DEF RunStep

\* A task stays in order through its own steps.
LEMMA RunInOrder ==
    ASSUME TypeOK, NEW c \in Calls, Ordered(c), RunStep(c) \/ Cancelled(c)
    PROVE  Ordered(c)'
<1>1. PICK step \in Steps \ {"new", "query"} : pc' = [pc EXCEPT ![c] = step]
  BY RunMoves
<1>2. pc'[c] = step /\ step \notin {"new", "query"} /\ stopEvent' = stopEvent /\ Events \subseteq Nat
  BY <1>1, RunMoves, ReplayAssumption DEF TypeOK, Events
<1>3. ASSUME UNCHANGED <<cursor, chunk, origin, sent>>, pc[c] \in {"created", "starting"},
             step \in {"starting", "top", "done", "raised"}
      PROVE  Ordered(c)'
  BY <1>2, <1>3, SamePlace DEF Ordered
<1>4. ASSUME UNCHANGED <<cursor, chunk, origin, sent>>, step \in {"close", "done", "raised"}
      PROVE  Ordered(c)'
  BY <1>2, <1>4, SamePlace DEF Ordered
<1>5. CASE RunBegins(c) \/ ProducerStarted(c) \/ ProducerFails(c)
  <2>1. /\ UNCHANGED <<cursor, chunk, origin, sent>> /\ pc[c] \in {"created", "starting"}
        /\ step \in {"starting", "top", "done", "raised"}
    BY <1>2, <1>5 DEF RunBegins, ProducerStarted, ProducerFails, GoTo, TypeOK, historyVars
  <2> QED
    BY <1>3, <2>1
<1>6. CASE LoopEnds(c) \/ LoadFails(c) \/ PublishFails(c) \/ Closed(c) \/ CloseFails(c) \/ Cancelled(c)
  <2>1. UNCHANGED <<cursor, chunk, origin, sent>> /\ step \in {"close", "done", "raised"}
    BY <1>2, <1>6 DEF LoopEnds, LoadFails, PublishFails, Fail, Finally, Closed, CloseFails, Cancelled,
       GoTo, TypeOK, historyVars
  <2> QED
    BY <1>4, <2>1
<1>7. CASE SeekTaken(c)
  <2>1. PICK to \in seekTo : /\ cursor' = [cursor EXCEPT ![c] = to]
                            /\ origin' = [origin EXCEPT ![c] = to]
    BY <1>7 DEF SeekTaken
  <2>2. to \in Nat /\ cursor'[c] = to /\ origin'[c] = to /\ sent'[c] = <<>> /\ pc'[c] = "top"
    BY <1>7, <2>1 DEF SeekTaken, Looping, TypeOK
  <2> QED
    BY <1>2, <2>2, FreshOrder DEF Ordered
<1>8. CASE BeginLoad(c)
  <2>1. /\ UNCHANGED <<cursor, chunk, origin, sent>> /\ pc[c] = "top" /\ ~ stopEvent
        /\ cursor[c] < Last /\ step = "load"
    BY <1>2, <1>8 DEF BeginLoad, Looping, GoTo, TypeOK, historyVars
  <2> QED
    BY <1>2, <2>1, SamePlace DEF Ordered
<1>9. CASE Loaded(c)
  <2>1. /\ UNCHANGED <<cursor, origin, sent>> /\ pc[c] = "load" /\ chunk'[c] = Rows(c)
        /\ (Rows(c) = {} /\ step = "gap") \/ step = "emit"
    BY <1>2, <1>9 DEF Loaded, GoTo, TypeOK, historyVars
  <2>2. Rows(c)' = Rows(c) /\ InOrder(c)' = InOrder(c) /\ UpTo(c)' = UpTo(c) /\ SentBy(c)' = SentBy(c)
        /\ Recorded(origin[c], cursor[c])' = Recorded(origin[c], cursor[c])
    BY <2>1 DEF Rows, ChunkEnd, InOrder, UpTo, SentBy, Recorded
  <2>3. InOrder(c) /\ UpTo(c) /\ cursor[c] < Last
    BY <2>1 DEF Ordered
  <2>4. Emitting(c)'
    BY <2>1, <2>2, <2>3 DEF Emitting, UpTo
  <2> QED
    BY <1>2, <2>1, <2>2, <2>3, <2>4 DEF Ordered
<1>10. CASE GapEnds(c) \/ EmitReturns(c)
  <2>1. /\ UNCHANGED <<origin, sent>> /\ cursor'[c] = ChunkEnd(c) /\ step = "top"
        /\ pc[c] = "gap" \/ (pc[c] = "emit" /\ (chunk[c] = {} \/ stopEvent))
    BY <1>2, <1>10 DEF GapEnds, EmitReturns, Advance, GoTo, TypeOK, historyVars
  <2>2. InOrder(c)' = InOrder(c) /\ SentBy(c)' = SentBy(c)
    BY <2>1 DEF InOrder, SentBy, Recorded
  <2>3. CASE pc[c] = "emit" /\ stopEvent
    BY <1>2, <2>1, <2>2, <2>3 DEF Ordered
  <2>4. CASE pc[c] = "gap" \/ (pc[c] = "emit" /\ chunk[c] = {})
    <3>1. /\ origin[c] <= cursor[c] /\ cursor[c] < Last
          /\ SentBy(c) = Recorded(origin[c], cursor[c]) \union Rows(c)
      BY <2>4 DEF Ordered, UpTo, Emitting
    <3>2. SentBy(c) = Recorded(origin[c], ChunkEnd(c))
      BY <3>1, NextChunk
    <3>3. origin[c] <= ChunkEnd(c)
      BY <3>1, ChunkEnds DEF TypeOK
    <3>4. UpTo(c)'
      <4>1. Recorded(origin'[c], cursor'[c]) = Recorded(origin[c], ChunkEnd(c))
        BY <2>1
      <4> QED
        BY <2>1, <2>2, <3>2, <3>3, <4>1 DEF UpTo, Recorded
    <3> QED
      BY <1>2, <2>1, <2>2, <3>4 DEF Ordered
  <2> QED
    BY <2>1, <2>3, <2>4
<1>11. CASE Block(c) \/ Pace(c)
  <2>1. UNCHANGED <<cursor, chunk, origin, sent>> /\ pc[c] = "emit" /\ step \in {"blocked", "pace"}
    BY <1>2, <1>11 DEF Block, Pace, GoTo, TypeOK, historyVars
  <2> QED
    BY <1>2, <2>1, SamePlace DEF Ordered
<1>12. CASE Publish(c)
  <2>1. UNCHANGED <<cursor, origin>> /\ pc[c] = "pace" /\ step = "emit"
    BY <1>2, <1>12 DEF Publish, GoTo, TypeOK
  <2>2. InOrder(c)' /\ Emitting(c)'
    BY <1>12, PublishOrder
  <2>3. cursor'[c] < Last
    BY <2>1 DEF Ordered
  <2> QED
    BY <1>2, <2>1, <2>2, <2>3 DEF Ordered
<1> QED
  BY <1>5, <1>6, <1>7, <1>8, <1>9, <1>10, <1>11, <1>12 DEF RunStep

\* Every step keeps every run in order.  The flag stop() raised is only lowered
\* while no task is between two awaits.
LEMMA StepOrder ==
    ASSUME TypeOK, OrderInv, [Next]_vars
    PROVE  OrderInv'
<1>1. ASSUME NEW c \in Calls, RunStep(c) \/ Cancelled(c)
      PROVE  OrderInv'
  <2> SUFFICES ASSUME NEW d \in Calls
               PROVE  Ordered(d)'
    BY DEF OrderInv
  <2>1. CASE d = c
    BY <1>1, <2>1, RunInOrder DEF OrderInv
  <2>2. CASE d # c
    <3>1. stopEvent' = stopEvent /\ Ordered(d)
      BY <1>1, RunMoves DEF OrderInv
    <3> QED
      BY <1>1, <2>2, <3>1, OthersStay, KeptOrder
  <2> QED
    BY <2>1, <2>2
<1>2. ASSUME NEW c \in Calls, StartContinues(c), Yielded(Calls)
      PROVE  OrderInv'
  <2>1. PICK at \in {First} \union Events :
            /\ cursor' = [cursor EXCEPT ![c] = at]
            /\ origin' = [origin EXCEPT ![c] = at]
    BY <1>2 DEF StartContinues
  <2>2. at \in Nat /\ Events \subseteq Nat
    BY Window, ReplayAssumption DEF Events
  <2>3. /\ pc[c] = "query" /\ pc' = [Woken(pc) EXCEPT ![c] = "created"] /\ UNCHANGED <<chunk, sent>>
    BY <1>2 DEF StartContinues
  <2>4. \A d \in Calls : pc'[d] = IF d = c THEN "created" ELSE Woken(pc)[d]
    BY <2>3, WokenRuns DEF TypeOK
  <2> SUFFICES ASSUME NEW d \in Calls
               PROVE  Ordered(d)'
    BY DEF OrderInv
  <2>5. CASE d = c
    <3>1. sent'[c] = <<>> /\ cursor'[c] = at /\ origin'[c] = at /\ pc'[c] = "created"
      BY <2>1, <2>3, <2>4 DEF OrderInv, Ordered, TypeOK
    <3> QED
      BY <2>2, <2>5, <3>1, FreshOrder DEF Ordered
  <2>6. CASE d # c
    <3>1. /\ cursor'[d] = cursor[d] /\ chunk'[d] = chunk[d] /\ origin'[d] = origin[d]
          /\ sent'[d] = sent[d] /\ Ordered(d)
      BY <2>1, <2>3, <2>6 DEF OrderInv, TypeOK
    <3>2. pc'[d] = pc[d] \/ (pc[d] = "blocked" /\ pc'[d] = "pace")
      BY <2>4, <2>6, WokenRuns DEF TypeOK
    <3>3. pc[d] # "top"
      BY <1>2 DEF Yielded
    <3> QED
      BY <3>1, <3>2, <3>3, KeptOrder
  <2> QED
    BY <2>5, <2>6
<1>3. ASSUME NEW c \in Calls, StartCalled(c) \/ NoSuchSession(c)
      PROVE  OrderInv'
  <2>1. /\ UNCHANGED <<cursor, chunk, origin, sent, stopEvent>> /\ pc[c] \in {"new", "query"}
        /\ pc'[c] \in {"query", "done"} /\ \A d \in Calls : d # c => pc'[d] = pc[d]
    BY <1>3 DEF StartCalled, NoSuchSession, GoTo, TypeOK, engineVars, historyVars
  <2> SUFFICES ASSUME NEW d \in Calls
               PROVE  Ordered(d)'
    BY DEF OrderInv
  <2>2. CASE d = c
    BY <2>1, <2>2, SamePlace DEF OrderInv, Ordered
  <2>3. CASE d # c
    BY <2>1, <2>3, KeptOrder DEF OrderInv
  <2> QED
    BY <2>2, <2>3
<1>4. CASE Resume \/ Stop
  <2>1. /\ UNCHANGED <<cursor, chunk, origin, sent>>
        /\ stopEvent => stopEvent'
        /\ \A d \in Calls : pc'[d] = pc[d] \/ (pc[d] = "blocked" /\ pc'[d] = "pace")
    BY <1>4, WokenRuns DEF Resume, Stop, TypeOK, historyVars
  <2> SUFFICES ASSUME NEW d \in Calls
               PROVE  Ordered(d)'
    BY DEF OrderInv
  <2>2. Ordered(d)
    BY DEF OrderInv
  <2> QED
    BY <2>1, <2>2, KeptOrder
<1>5. ASSUME UNCHANGED <<cursor, chunk, origin, sent, stopEvent, pc>>
      PROVE  OrderInv'
  BY <1>5, KeptOrder DEF OrderInv
<1>6. CASE Pause \/ (\E to \in Events : Seek(to)) \/ (\E c \in Calls : StopAnswers(c) \/ StopRaises(c))
           \/ UNCHANGED vars
  BY <1>5, <1>6 DEF Pause, Seek, StopAnswers, StopRaises, vars, engineVars, runVars, historyVars
<1> QED
  BY <1>1, <1>2, <1>3, <1>4, <1>6 DEF Next, StopStep, StartStep, Requested

\* The invariant of the order.
LEMMA Order == Spec => [](TypeOK /\ OrderInv)
<1>1. Init => TypeOK /\ OrderInv
  <2> SUFFICES ASSUME Init
               PROVE  OrderInv
    BY InitTyped
  <2>1. \A c \in Calls : sent[c] = <<>> /\ pc[c] = "new"
    BY DEF Init
  <2> QED
    BY <2>1 DEF OrderInv, Ordered, InOrder
<1>2. TypeOK /\ OrderInv /\ [Next]_vars => (TypeOK /\ OrderInv)'
  BY StepTyped, StepOrder
<1> QED
  BY <1>1, <1>2, PTL DEF Spec

\* PublishesInOrder (engine.py _load_chunk, _run, _emit): what a run publishes
\* from where it was last put is the recording, in order, each event once.
THEOREM InOrderAlways == Spec => []PublishesInOrder
<1>1. OrderInv => PublishesInOrder
  BY DEF OrderInv, Ordered, InOrder, PublishesInOrder
<1> QED
  BY <1>1, Order, PTL

\* A replay that is over and finished has nothing left to publish.
FinishedInv ==
    \A c \in Calls : task = c /\ state = "finished" => Recorded(origin[c], Last) \subseteq SentBy(c)

\* A loop that ends without having been stopped has reached the end.
LEMMA RunFinishes ==
    ASSUME TypeOK, AloneInv, StatusInv, OrderInv, FinishedInv,
           NEW c \in Calls, RunStep(c) \/ Cancelled(c)
    PROVE  FinishedInv'
<1>1. task = c /\ task' = task /\ pc[c] \notin Over
  BY RunMoves DEF AloneInv
<1>2. SUFFICES ASSUME state' = "finished"
               PROVE  (Recorded(origin[c], Last) \subseteq SentBy(c))'
  BY <1>1 DEF FinishedInv
<1>3. CASE LoopEnds(c)
  <2>1. /\ pc[c] = "top" /\ ~ stopEvent /\ cursor[c] >= Last /\ UNCHANGED <<origin, sent>>
    BY <1>2, <1>3 DEF LoopEnds, historyVars
  <2>2. SentBy(c) = Recorded(origin[c], cursor[c])
    BY <2>1 DEF OrderInv, Ordered, UpTo
  <2>3. Recorded(origin[c], Last) \subseteq Recorded(origin[c], cursor[c])
    <3>1. cursor[c] \in Nat /\ Last \in Nat /\ Events \subseteq Nat
      BY Window, ReplayAssumption DEF TypeOK, Events
    <3>2. \A x \in Events : x < Last => x < cursor[c]
      BY <2>1, <3>1
    <3> QED
      BY <3>2 DEF Recorded
  <2> QED
    BY <2>1, <2>2, <2>3 DEF SentBy, Recorded
<1>4. CASE ~ LoopEnds(c)
  <2>1. state' = state
    BY <1>2, <1>4 DEF RunStep, Cancelled, RunBegins, ProducerStarted, ProducerFails, SeekTaken,
       BeginLoad, Loaded, LoadFails, GapEnds, EmitReturns, Advance, Block, Pace, Publish,
       PublishFails, Fail, Closed, CloseFails, engineVars
  <2>2. pc[c] \notin {"top", "pace"}
    BY <1>2, <2>1 DEF StatusInv, Running
  <2>3. UNCHANGED <<origin, sent>>
    BY <1>4, <2>2 DEF RunStep, Cancelled, RunBegins, ProducerStarted, ProducerFails, SeekTaken,
       Looping, BeginLoad, Loaded, LoadFails, GapEnds, EmitReturns, Advance, Block, Pace, Publish,
       PublishFails, Fail, Closed, CloseFails, historyVars
  <2> QED
    BY <1>1, <1>2, <2>1, <2>3 DEF FinishedInv, SentBy, Recorded
<1> QED
  BY <1>3, <1>4

\* No call of a client makes a replay finished, or unpublishes what it sent.
LEMMA StepFinishes ==
    ASSUME TypeOK, AloneInv, StatusInv, OrderInv, FinishedInv, [Next]_vars
    PROVE  FinishedInv'
<1>1. CASE \E c \in Calls : RunStep(c) \/ Cancelled(c)
  BY <1>1, RunFinishes
<1>2. ASSUME UNCHANGED <<task, state, origin, sent>>
      PROVE  FinishedInv'
  BY <1>2 DEF FinishedInv, SentBy, Recorded
<1>3. ASSUME NEW c \in Calls, StartCalled(c) \/ NoSuchSession(c) \/ StopRaises(c)
      PROVE  FinishedInv'
  BY <1>2, <1>3 DEF StartCalled, NoSuchSession, StopRaises, engineVars, historyVars
<1>4. ASSUME NEW c \in Calls, StartContinues(c)
      PROVE  FinishedInv'
  BY <1>4 DEF StartContinues, FinishedInv
<1>5. ASSUME NEW c \in Calls, StopAnswers(c)
      PROVE  FinishedInv'
  BY <1>5, ReplayAssumption DEF StopAnswers, FinishedInv
<1>6. CASE Pause \/ Resume
  BY <1>6 DEF Pause, Resume, FinishedInv
<1>7. CASE \E to \in Events : Seek(to)
  BY <1>2, <1>7 DEF Seek
<1>8. CASE Stop
  <2>1. CASE task = NoRun
    BY <1>8, <2>1, ReplayAssumption DEF Stop, FinishedInv
  <2>2. CASE task # NoRun
    BY <1>2, <1>8, <2>2 DEF Stop
  <2> QED
    BY <2>1, <2>2
<1>9. CASE UNCHANGED vars
  BY <1>2, <1>9 DEF vars, engineVars, historyVars
<1> QED
  BY <1>1, <1>3, <1>4, <1>5, <1>6, <1>7, <1>8, <1>9 DEF Next, StopStep, StartStep, Requested

\* FinishedIsComplete (engine.py:464-466): FINISHED means that everything from
\* where the replay was last put to the end of its window was published.
THEOREM FinishedMeansComplete == Discipline = "stop" => (Spec => []FinishedIsComplete)
<1> SUFFICES ASSUME Discipline = "stop"
             PROVE  Spec => []FinishedIsComplete
  OBVIOUS
<1> DEFINE Inv == TypeOK /\ AloneInv /\ StatusInv /\ OrderInv /\ FinishedInv
<1>1. Init => FinishedInv
  BY DEF Init, FinishedInv
<1>2. TypeOK /\ AloneInv /\ StatusInv /\ OrderInv /\ FinishedInv /\ [Next]_vars => FinishedInv'
  BY StepFinishes
<1>3. FinishedInv => FinishedIsComplete
  BY DEF FinishedInv, FinishedIsComplete, SentBy
<1>4. Spec => [](TypeOK /\ AloneInv /\ StatusInv)
  BY Status
<1> QED
  BY <1>1, <1>2, <1>3, <1>4, Order, PTL DEF Spec
=============================================================================
