---------------------------- MODULE EventFateProofs ----------------------------
(***************************************************************************)
(* What EventFate alone implies: an acknowledged event is never forgotten. *)
(***************************************************************************)
EXTENDS EventFate, TLAPS

LEMMA AccountedInit == Init => Accounted
BY DEF Init, Accounted

LEMMA AccountedNext == Accounted /\ [Next]_fateVars => Accounted'
<1> SUFFICES ASSUME Accounted, [Next]_fateVars PROVE Accounted'
  OBVIOUS
<1> USE DEF Accounted
<1>1. ASSUME NEW r \in Records, Publish(r) PROVE Accounted'
  BY <1>1 DEF Publish
<1>2. ASSUME NEW kept, NEW lost, Take(kept, lost) PROVE Accounted'
  BY <1>2 DEF Take
<1>3. ASSUME NEW written, NEW lost, NEW remaining, Settle(written, lost, remaining)
      PROVE  Accounted'
  BY <1>3 DEF Settle
<1>4. ASSUME NEW done, Acknowledge(done) PROVE Accounted'
  BY <1>4 DEF Acknowledge
<1>5. CASE UNCHANGED fateVars
  BY <1>5 DEF fateVars
<1> QED
  BY <1>1, <1>2, <1>3, <1>4, <1>5 DEF Next

\* Every acknowledged event is held, stored, surrendered or without a row: the
\* guarantee an implementation of EventFate, such as the stream processor
\* with its commits (consumer.py:213), inherits.
THEOREM FateAccounted == Spec => []Accounted
BY AccountedInit, AccountedNext, PTL DEF Spec
=============================================================================
