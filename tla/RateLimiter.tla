----------------------------- MODULE RateLimiter -----------------------------
(***************************************************************************)
(* openf1.py, RateLimiter: the token bucket every request to OpenF1 waits   *)
(* for.  Time is counted in ticks and a token is Cost units, of which Rate  *)
(* come back per tick: the code's 2.5 tokens per second and capacity of 2   *)
(* are Rate = 1, Cost = 2, Capacity = 4 at 5 ticks per second.              *)
(*                                                                         *)
(* The composing module says when time passes and who acquires.            *)
(***************************************************************************)
EXTENDS Integers

CONSTANTS
    Rate,       \* units that come back per tick
    Cost,       \* units of one token
    Capacity,   \* units of a full bucket
    Window      \* the ticks over which requests are counted

ASSUME LimiterAssumption ==
    /\ Rate \in Nat \ {0}
    /\ Cost \in Nat \ {0}
    /\ Capacity \in Nat
    /\ Capacity >= Cost
    /\ Window \in Nat

VARIABLES
    tokens,     \* _tokens
    idle,       \* ticks since _updated, up to a bucket's worth
    spent       \* a -> units spent in the last a ticks (history)

limiterVars == <<tokens, idle, spent>>

Least(m, n) == IF m <= n THEN m ELSE n

LimiterTypeOK ==
    /\ tokens \in 0..Capacity
    /\ idle \in 0..Capacity
    /\ spent \in [0..Window -> Nat]

\* A new client: the bucket is full.
LimiterFresh ==
    /\ tokens' = Capacity
    /\ idle' = 0
    /\ spent' = [a \in 0..Window |-> 0]

LimiterInit ==
    /\ tokens = Capacity
    /\ idle = 0
    /\ spent = [a \in 0..Window |-> 0]

\* Mutant: the refill is not capped, so an idle client saves up a burst.
Uncapped == tokens + Rate * idle

\* Mutant: what came back since is not counted.
NotRefilled == tokens

\* What the bucket holds now; the code computes it when it looks.
Available == Least(Capacity, tokens + Rate * idle)

\* Time passes.  After Capacity ticks the bucket is full, so idle stops there.
Tick ==
    /\ idle' = Least(Capacity, idle + 1)
    /\ spent' = [a \in 0..Window |-> IF a = 0 THEN 0 ELSE spent[a - 1]]
    /\ UNCHANGED tokens

\* acquire() takes a token.
Acquire ==
    /\ Available >= Cost
    /\ tokens' = Available - Cost
    /\ idle' = 0
    /\ spent' = [a \in 0..Window |-> spent[a] + Cost]

\* acquire() finds too little, notes what it saw and sleeps.
LookAgain ==
    /\ Available < Cost
    /\ tokens' = Available
    /\ idle' = 0
    /\ UNCHANGED spent

\* In any a ticks no more is spent than a full bucket and what came back in
\* them, however the sleeps fall (openf1.py:43-45).
WithinBucket == \A a \in 0..Window : spent[a] <= Capacity + Rate * a
=============================================================================
