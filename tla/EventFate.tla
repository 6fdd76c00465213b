------------------------------ MODULE EventFate ------------------------------
(***************************************************************************)
(* What the processor promises about an event, with every mechanism left   *)
(* out: published on the log, held in the memory of a process that writes  *)
(* behind its commits, stored under its natural key, surrendered (counted  *)
(* as dropped or dead-lettered, or destroyed with the process), and        *)
(* acknowledged by a committed offset.                                     *)
(***************************************************************************)
CONSTANTS
    Records,      \* events, identified by their natural key
    NoRow         \* the events no hypertable has a row for

VARIABLES published, held, stored, surrendered, acknowledged

fateVars == <<published, held, stored, surrendered, acknowledged>>

Init ==
    /\ published = {}
    /\ held = {}
    /\ stored = {}
    /\ surrendered = {}
    /\ acknowledged = {}

Publish(r) ==
    /\ published' = published \union {r}
    /\ UNCHANGED <<held, stored, surrendered, acknowledged>>

\* Published events are taken into memory, some given up on the way.
Take(kept, lost) ==
    /\ held' = held \union kept
    /\ surrendered' = surrendered \union lost
    /\ UNCHANGED <<published, stored, acknowledged>>

\* Events leave memory: each one is stored or surrendered.  One that is held
\* twice may stay.
Settle(written, lost, remaining) ==
    /\ held \ remaining \subseteq written \union lost
    /\ held' = remaining
    /\ stored' = stored \union written
    /\ surrendered' = surrendered \union lost
    /\ UNCHANGED <<published, acknowledged>>

\* An offset is committed past events whose fate is known or in memory.
Acknowledge(done) ==
    /\ done \subseteq held \union stored \union surrendered \union NoRow
    /\ acknowledged' = acknowledged \union done
    /\ UNCHANGED <<published, held, stored, surrendered>>

Next ==
    \/ \E r \in Records : Publish(r)
    \/ \E kept, lost \in SUBSET published : Take(kept, lost)
    \/ \E written, remaining \in SUBSET held, lost \in SUBSET (held \union surrendered) :
          Settle(written, lost, remaining)
    \/ \E done \in SUBSET published : Acknowledge(done)

Spec == Init /\ [][Next]_fateVars

\* No acknowledged event is unaccounted for.
Accounted == acknowledged \subseteq held \union stored \union surrendered \union NoRow
=============================================================================
