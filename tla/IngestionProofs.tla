--------------------------- MODULE IngestionProofs ---------------------------
(***************************************************************************)
(* What holds of every ingestion, whatever the rate, the channels, the     *)
(* length of the session and the number of runs and faults.                *)
(***************************************************************************)
EXTENDS Ingestion, SequenceTheorems, FiniteSetTheorems, TLAPS

\* Least is the minimum of two integers.
LEMMA LeastIsMin ==
    ASSUME NEW m \in Int, NEW n \in Int
    PROVE  /\ Least(m, n) \in {m, n}
           /\ Least(m, n) <= m
           /\ Least(m, n) <= n
BY DEF Least

-----------------------------------------------------------------------------
(* The token bucket *)

\* What a bucket holds after a while is a natural number.
LEMMA Refill ==
    ASSUME NEW held \in Nat, NEW rate \in Nat, NEW ticks \in Nat
    PROVE  held + rate * ticks \in Nat
<1>1. rate * ticks \in Nat
  OBVIOUS
<1> QED
  BY <1>1

\* What was spent in the last a ticks and what is left never exceed a full
\* bucket and what came back in them.
BucketInv ==
    /\ LimiterTypeOK
    /\ \A a \in 0..Window : spent[a] + Available <= Capacity + Rate * a

\* What the bucket holds is a natural number, and no more than its capacity.
LEMMA AvailableType ==
    ASSUME LimiterTypeOK
    PROVE  /\ Rate * idle \in Nat
           /\ Available \in 0..Capacity
<1>1. /\ Rate \in Nat /\ Capacity \in Nat /\ idle \in Nat /\ tokens \in Nat
  BY LimiterAssumption DEF LimiterTypeOK
<1>2. Rate * idle \in Nat
  BY <1>1
<1>3. tokens + Rate * idle \in Nat
  BY <1>1, <1>2
<1> QED
  BY <1>1, <1>2, <1>3, LeastIsMin DEF Available

\* A full bucket satisfies the invariant.
LEMMA FullBucket ==
    ASSUME tokens' = Capacity, idle' = 0, spent' = [a \in 0..Window |-> 0]
    PROVE  BucketInv'
<1>1. Available' = Capacity
  BY LimiterAssumption DEF Available, Least
<1>2. \A a \in 0..Window : Rate * a \in Nat
  BY LimiterAssumption
<1>3. LimiterTypeOK'
  BY LimiterAssumption DEF LimiterTypeOK
<1> QED
  BY <1>1, <1>2, <1>3, LimiterAssumption DEF BucketInv

\* One more tick brings back at most Rate.
LEMMA TickKeepsBucket ==
    ASSUME BucketInv, Tick
    PROVE  BucketInv'
<1> USE LimiterAssumption
<1>1. LimiterTypeOK /\ Available \in 0..Capacity /\ Rate * idle \in Nat
  BY AvailableType DEF BucketInv
<1>2. LimiterTypeOK'
  <2>1. idle' \in 0..Capacity
    BY <1>1 DEF LimiterTypeOK, Tick, Least
  <2>2. spent' \in [0..Window -> Nat]
    BY <1>1 DEF LimiterTypeOK, Tick
  <2> QED
    BY <1>1, <2>1, <2>2 DEF LimiterTypeOK, Tick
<1>3. Available' <= Available + Rate
  <2>1. Rate * (idle + 1) = Rate * idle + Rate
    BY <1>1 DEF LimiterTypeOK
  <2>2. CASE idle + 1 <= Capacity
    <3>1. idle' = idle + 1
      BY <1>1, <2>2 DEF Tick, Least, LimiterTypeOK
    <3>2. Available' = Least(Capacity, tokens + (Rate * idle + Rate))
      BY <2>1, <3>1 DEF Available, Tick
    <3> QED
      BY <1>1, <3>2 DEF Available, Least, LimiterTypeOK
  <2>3. CASE ~(idle + 1 <= Capacity)
    <3>1. idle' = idle
      BY <1>1, <2>3 DEF Tick, Least, LimiterTypeOK
    <3>2. Available' = Available
      BY <3>1 DEF Available, Tick
    <3> QED
      BY <1>1, <3>2
  <2> QED
    BY <2>2, <2>3
<1>4. Available' \in 0..Capacity
  <2>1. tokens' + Rate * idle' \in Nat
    <3>1. Rate \in Nat /\ idle' \in Nat /\ tokens' \in Nat
      BY <1>2 DEF LimiterTypeOK
    <3> HIDE LimiterAssumption
    <3> QED
      BY <3>1, Refill
  <2> QED
    BY <2>1, LeastIsMin DEF Available
<1>5. ASSUME NEW a \in 0..Window
      PROVE  spent'[a] + Available' <= Capacity + Rate * a
  <2>1. CASE a = 0
    <3>1. spent'[a] = 0
      BY <2>1 DEF Tick
    <3>2. Rate * a = 0
      BY <2>1
    <3>3. Available' \in Int /\ Available' <= Capacity /\ Capacity \in Int
      BY <1>4
    <3> HIDE LimiterAssumption
    <3> QED
      BY <3>1, <3>2, <3>3
  <2>2. CASE a # 0
    <3>1. a - 1 \in 0..Window /\ spent'[a] = spent[a - 1] /\ spent[a - 1] \in Nat
      BY <1>1, <2>2 DEF Tick, LimiterTypeOK
    <3>2. spent[a - 1] + Available <= Capacity + Rate * (a - 1)
      BY <3>1 DEF BucketInv
    <3>3. Rate * (a - 1) + Rate = Rate * a /\ Rate * (a - 1) \in Int
      BY <2>2
    <3> HIDE DEF BucketInv
    <3> QED
      BY <1>1, <1>3, <1>4, <3>1, <3>2, <3>3
  <2> QED
    BY <2>1, <2>2
<1> QED
  BY <1>2, <1>5 DEF BucketInv

\* A token taken is a token spent.
LEMMA AcquireKeepsBucket ==
    ASSUME BucketInv, Acquire
    PROVE  BucketInv'
<1> USE LimiterAssumption
<1>1. LimiterTypeOK /\ Available \in 0..Capacity
  BY AvailableType DEF BucketInv
<1>2. Available - Cost \in 0..Capacity
  BY <1>1 DEF Acquire
<1>3. Available' = Available - Cost
  <2>1. Available' = Least(Capacity, (Available - Cost) + Rate * 0)
    BY DEF Acquire, Available
  <2> QED
    BY <1>2, <2>1 DEF Least
<1>4. LimiterTypeOK'
  BY <1>1, <1>2 DEF Acquire, LimiterTypeOK
<1>5. ASSUME NEW a \in 0..Window
      PROVE  spent'[a] + Available' <= Capacity + Rate * a
  <2>1. spent'[a] = spent[a] + Cost /\ spent[a] \in Nat
    BY <1>1 DEF Acquire, LimiterTypeOK
  <2>2. spent[a] + Available <= Capacity + Rate * a /\ Rate * a \in Nat
    BY DEF BucketInv
  <2> QED
    BY <1>1, <1>3, <2>1, <2>2
<1> QED
  BY <1>4, <1>5 DEF BucketInv

\* Looking changes nothing but the bookkeeping.
LEMMA LookKeepsBucket ==
    ASSUME BucketInv, LookAgain
    PROVE  BucketInv'
<1> USE LimiterAssumption
<1>1. LimiterTypeOK /\ Available \in 0..Capacity
  BY AvailableType DEF BucketInv
<1>2. Available' = Available
  <2>1. Available' = Least(Capacity, Available + Rate * 0)
    BY DEF LookAgain, Available
  <2> QED
    BY <1>1, <2>1 DEF Least
<1>3. LimiterTypeOK'
  BY <1>1 DEF LookAgain, LimiterTypeOK
<1> QED
  BY <1>2, <1>3 DEF BucketInv, LookAgain

\* A step of the task or the clock uses the bucket in one of these ways.
LEMMA BucketSteps ==
    ASSUME [Next]_vars
    PROVE  \/ Tick \/ Acquire \/ LookAgain \/ LimiterFresh
           \/ UNCHANGED limiterVars
BY DEF Next, Works, StartRun, TimePasses, Killed, TokenTaken, TokenAwaited, Retryable, Retries,
       RequestFails, RequestRaises, SessionFound, SessionUnknown, ReferenceStored, DatabaseFails,
       MetaSent, MetaFails, RecordsPublished, NothingPublished, Flush, Settles, Record, vars

\* The bucket starts full, and every step uses it in one of the ways above.
LEMMA BucketStays == Spec => []BucketInv
<1>1. Init => BucketInv
  <2> SUFFICES ASSUME Init PROVE BucketInv
    OBVIOUS
  <2>1. tokens = Capacity /\ idle = 0 /\ spent = [a \in 0..Window |-> 0]
    BY DEF Init, LimiterInit
  <2>2. Available = Capacity
    BY <2>1, LimiterAssumption DEF Available, Least
  <2>3. \A a \in 0..Window : Rate * a \in Nat
    BY LimiterAssumption
  <2>4. LimiterTypeOK
    BY <2>1, LimiterAssumption DEF LimiterTypeOK
  <2> QED
    BY <2>1, <2>2, <2>3, <2>4, LimiterAssumption DEF BucketInv
<1>2. BucketInv /\ [Next]_vars => BucketInv'
  <2> SUFFICES ASSUME BucketInv, [Next]_vars PROVE BucketInv'
    OBVIOUS
  <2>1. CASE LimiterFresh
    BY <2>1, FullBucket DEF LimiterFresh
  <2>2. CASE UNCHANGED limiterVars
    BY <2>2 DEF limiterVars, BucketInv, LimiterTypeOK, Available
  <2> QED
    BY <2>1, <2>2, BucketSteps, TickKeepsBucket, AcquireKeepsBucket, LookKeepsBucket
<1> QED
  BY <1>1, <1>2, PTL DEF Spec

\* WithinBucket (openf1.py:43-45): whatever is asked for, retried and waited
\* for, the requests of any a ticks fit into a full bucket and its refill.
THEOREM BucketHolds == Spec => []WithinBucket
<1>1. BucketInv => WithinBucket
  <2> SUFFICES ASSUME BucketInv, NEW a \in 0..Window
               PROVE  spent[a] <= Capacity + Rate * a
    BY DEF WithinBucket
  <2>1. Available \in 0..Capacity /\ spent[a] \in Nat
    BY AvailableType DEF BucketInv, LimiterTypeOK
  <2>2. spent[a] + Available <= Capacity + Rate * a /\ Rate * a \in Nat /\ Capacity \in Nat
    BY LimiterAssumption DEF BucketInv
  <2> QED
    BY <2>1, <2>2
<1> QED
  BY <1>1, BucketStays, PTL

-----------------------------------------------------------------------------
(* The steps of a run *)

Locals == {"session_meta", "flush", "record"}
Requested == {"sessions", "drivers", "stints", "laps", "weather", "race_control",
              "position", "intervals", "car_data", "location"}

\* The steps there can be before the last two, and all there can be.
Early == (Requested \X ({<<>>} \union (Int \X Int))) \union {Whole("session_meta")}
Steps == Early \union {Whole("flush"), Whole("record")}

\* chunk_windows returns a sequence of pairs of times.
LEMMA ChunksAreSeq == ChunkWindows(SpanStart, SpanEnd) \in Seq(Int \X Int)
<1> DEFINE n == (SpanEnd - SpanStart + WindowSize - 1) \div WindowSize
<1>1. SpanStart \in Int /\ SpanEnd \in Int /\ WindowSize \in Nat \ {0}
  BY IngestionAssumption DEF SpanStart, SpanEnd
<1>2. n \in Int
  BY <1>1
<1>3. \A i \in 1..n : Chunk(SpanStart, SpanEnd, i) \in Int \X Int
  <2> SUFFICES ASSUME NEW i \in 1..n PROVE Chunk(SpanStart, SpanEnd, i) \in Int \X Int
    OBVIOUS
  <2>1. (i - 1) * WindowSize \in Int /\ i * WindowSize \in Int
    BY <1>1, <1>2
  <2> QED
    BY <1>1, <2>1 DEF Chunk, Least
<1>4. ChunkWindows(SpanStart, SpanEnd) = [i \in 1..n |-> Chunk(SpanStart, SpanEnd, i)]
  BY DEF ChunkWindows
<1> HIDE DEF n
<1>5. PICK m \in Nat : 1..m = 1..n
  <2>1. CASE n >= 0
    BY <1>2, <2>1
  <2>2. CASE n < 0
    <3>1. 1..0 = 1..n
      BY <1>2, <2>2
    <3> QED
      BY <3>1
  <2> QED
    BY <1>2, <2>1, <2>2
<1>6. [i \in 1..m |-> Chunk(SpanStart, SpanEnd, i)] \in Seq(Int \X Int)
  <2>1. \A i \in 1..m : Chunk(SpanStart, SpanEnd, i) \in Int \X Int
    BY <1>3, <1>5
  <2> QED
    BY <2>1
<1> QED
  BY <1>4, <1>5, <1>6

\* Division with remainder, by a divisor that is no constant.
LEMMA Quotient ==
    ASSUME NEW n \in Int, NEW d \in Nat \ {0}
    PROVE  /\ n \div d \in Int
           /\ (n \div d) * d <= n
           /\ n < (n \div d) * d + d
OBVIOUS

\* A common factor that is positive can be left out.
LEMMA Unscaled ==
    ASSUME NEW m \in Int, NEW n \in Int, NEW d \in Nat \ {0}, m * d < n * d
    PROVE  m < n
<1> SUFFICES ASSUME n <= m PROVE FALSE
  OBVIOUS
<1>1. PICK k \in Nat : m = n + k
  <2>1. m - n \in Nat /\ m = n + (m - n)
    OBVIOUS
  <2> QED
    BY <2>1
<1>2. m * d = n * d + k * d
  BY <1>1
<1>3. k * d \in Nat /\ n * d \in Int
  BY <1>1
<1> QED
  BY <1>2, <1>3

\* A remainder of zero is an exact division.
LEMMA Exact ==
    ASSUME NEW n \in Nat, NEW d \in Nat \ {0}
    PROVE  n % d = 0 <=> n = (n \div d) * d
<1>1. n = ((n \div d) * d) + (n % d) /\ n % d \in Int /\ (n \div d) * d \in Int
  OBVIOUS
<1> QED
  BY <1>1

\* The windows that t lies in, their limits included.
Around(t) ==
    LET C == ChunkWindows(SpanStart, SpanEnd)
    IN  {j \in 1..Len(C) : C[j][1] <= t /\ t <= C[j][2]}

\* chunk_windows (openf1.py:309): every instant of the span is inside exactly one
\* window or at an end of the span, or two windows meet in it, for every span and
\* window size: windows leave no hole and overlap in nothing but their limits.
THEOREM ChunksMeet ==
    ASSUME SpanStart < SpanEnd, NEW t \in SpanStart..SpanEnd
    PROVE  IF t \in Edges \ {SpanStart, SpanEnd}
           THEN \E j \in Nat \ {0} : Around(t) = {j, j + 1}
           ELSE \E j \in Nat \ {0} : Around(t) = {j}
<1> DEFINE C == ChunkWindows(SpanStart, SpanEnd)
           n == (SpanEnd - SpanStart + WindowSize - 1) \div WindowSize
           q == (t - SpanStart) \div WindowSize
           d == t - SpanStart
<1>1. /\ SpanStart \in Int /\ SpanEnd \in Int /\ WindowSize \in Nat \ {0} /\ t \in Int
      /\ SpanStart <= t /\ t <= SpanEnd
  BY IngestionAssumption DEF SpanStart, SpanEnd
<1>2. /\ q \in Int /\ q * WindowSize \in Int
      /\ q * WindowSize <= d
      /\ d < q * WindowSize + WindowSize
  BY <1>1, Quotient
<1>3. /\ n \in Int /\ n * WindowSize \in Int
      /\ n * WindowSize <= SpanEnd - SpanStart + WindowSize - 1
      /\ SpanEnd - SpanStart + WindowSize - 1 < n * WindowSize + WindowSize
  BY <1>1, Quotient
<1>4. C = [i \in 1..n |-> <<SpanStart + (i - 1) * WindowSize,
                           Least(SpanStart + i * WindowSize, SpanEnd)>>]
  BY DEF ChunkWindows, Chunk
<1>5. d \in Nat /\ (t \in Edges <=> d = q * WindowSize \/ t = SpanEnd)
  <2>1. d \in Nat
    BY <1>1
  <2>2. d % WindowSize = 0 <=> d = q * WindowSize
    BY <1>1, <2>1, Exact
  <2> QED
    BY <1>1, <2>1, <2>2 DEF Edges
<1> HIDE DEF n, q, C
<1>6. n > 0
  <2>1. 0 * WindowSize < n * WindowSize
    BY <1>1, <1>3
  <2> QED
    BY <1>1, <1>3, <2>1, Unscaled
<1>7. Len(C) = n /\ n \in Nat
  BY <1>3, <1>4, <1>6
<1>8. \A j \in 1..n : j \in Around(t) <=> (j - 1) * WindowSize <= d /\ d <= j * WindowSize
  <2> SUFFICES ASSUME NEW j \in 1..n
               PROVE  j \in Around(t) <=> (j - 1) * WindowSize <= d /\ d <= j * WindowSize
    OBVIOUS
  <2>1. j \in Int /\ (j - 1) * WindowSize \in Int /\ j * WindowSize \in Int
    BY <1>1, <1>3
  <2>2. /\ C[j][1] = SpanStart + (j - 1) * WindowSize
        /\ C[j][2] = Least(SpanStart + j * WindowSize, SpanEnd)
    BY <1>4
  <2>3. t <= C[j][2] <=> d <= j * WindowSize
    BY <1>1, <2>1, <2>2 DEF Least
  <2>4. C[j][1] <= t <=> (j - 1) * WindowSize <= d
    BY <1>1, <2>1, <2>2
  <2> QED
    BY <1>7, <2>3, <2>4 DEF Around, C
<1>9. Around(t) \subseteq 1..n
  BY <1>7 DEF Around, C
<1> HIDE DEF d
<1>10. \A j \in 1..n : (j - 1) * WindowSize <= d => j <= q + 1
  <2> SUFFICES ASSUME NEW j \in 1..n, (j - 1) * WindowSize <= d PROVE j <= q + 1
    OBVIOUS
  <2>1. /\ j - 1 \in Int /\ q + 1 \in Int /\ (j - 1) * WindowSize \in Int
        /\ (q + 1) * WindowSize = q * WindowSize + WindowSize
    BY <1>1, <1>2, <1>3
  <2>2. (j - 1) * WindowSize < (q + 1) * WindowSize
    BY <1>1, <1>2, <1>5, <2>1
  <2>3. j - 1 < q + 1
    BY <1>1, <2>1, <2>2, Unscaled
  <2> QED
    BY <1>2, <2>3
<1>11. \A j \in 1..n : d <= j * WindowSize => q <= j /\ (j = q => d = q * WindowSize)
  <2> SUFFICES ASSUME NEW j \in 1..n, d <= j * WindowSize
               PROVE  q <= j /\ (j = q => d = q * WindowSize)
    OBVIOUS
  <2>1. /\ j + 1 \in Int /\ j * WindowSize \in Int
        /\ (j + 1) * WindowSize = j * WindowSize + WindowSize
    BY <1>1, <1>2, <1>3
  <2>2. q * WindowSize < (j + 1) * WindowSize
    BY <1>1, <1>2, <1>5, <2>1
  <2>3. q < j + 1
    BY <1>1, <1>2, <2>1, <2>2, Unscaled
  <2>4. j = q => d = q * WindowSize
    BY <1>2, <1>5, <2>1
  <2> QED
    BY <1>2, <2>3, <2>4
<1>12. q >= 0 /\ (q = 0 /\ d = q * WindowSize <=> t = SpanStart)
  <2>1. 0 * WindowSize < (q + 1) * WindowSize
    <3>1. (q + 1) * WindowSize = q * WindowSize + WindowSize
      BY <1>1, <1>2
    <3> QED
      BY <1>1, <1>2, <1>5, <3>1
  <2>2. 0 < q + 1
    BY <1>1, <1>2, <2>1, Unscaled
  <2>3. ASSUME t = SpanStart PROVE q = 0 /\ d = q * WindowSize
    <3>1. d = 0
      BY <1>1, <2>3 DEF d
    <3>2. q * WindowSize < 1 * WindowSize
      BY <1>1, <1>2, <3>1
    <3>3. q < 1
      BY <1>1, <1>2, <3>2, Unscaled
    <3>4. q = 0
      BY <1>2, <2>2, <3>3
    <3> QED
      BY <1>1, <3>1, <3>4
  <2>4. ASSUME q = 0, d = q * WindowSize PROVE t = SpanStart
    <3>1. d = 0
      BY <1>1, <2>4
    <3> QED
      BY <1>1, <3>1 DEF d
  <2> QED
    BY <1>2, <2>2, <2>3, <2>4
<1>13. /\ q <= n
       /\ t # SpanEnd \/ d # q * WindowSize => q + 1 <= n
       /\ t = SpanEnd => q >= n - 1
       /\ t = SpanEnd /\ d = q * WindowSize => q = n
  <2>1. d <= SpanEnd - SpanStart /\ (t # SpanEnd <=> d < SpanEnd - SpanStart)
    BY <1>1 DEF d
  <2>2. /\ (n + 1) * WindowSize = n * WindowSize + WindowSize
        /\ (q + 1) * WindowSize = q * WindowSize + WindowSize
        /\ (q + 2) * WindowSize = q * WindowSize + WindowSize + WindowSize
    BY <1>1, <1>2, <1>3
  <2>3. q <= n
    <3>1. q * WindowSize < (n + 1) * WindowSize
      BY <1>1, <1>2, <1>3, <1>5, <2>1, <2>2
    <3>2. q < n + 1
      BY <1>1, <1>2, <1>3, <3>1, Unscaled
    <3> QED
      BY <1>2, <1>3, <3>2
  <2>4. ASSUME t # SpanEnd \/ d # q * WindowSize PROVE q + 1 <= n
    <3>1. q * WindowSize < SpanEnd - SpanStart
      BY <1>1, <1>2, <1>5, <2>1, <2>4
    <3>2. q * WindowSize < n * WindowSize
      BY <1>1, <1>2, <1>3, <3>1
    <3>3. q < n
      BY <1>1, <1>2, <1>3, <3>2, Unscaled
    <3> QED
      BY <1>2, <1>3, <3>3
  <2>5. ASSUME t = SpanEnd PROVE q >= n - 1
    <3>1. n * WindowSize < (q + 2) * WindowSize
      BY <1>1, <1>2, <1>3, <1>5, <2>1, <2>2, <2>5
    <3>2. n < q + 2
      BY <1>1, <1>2, <1>3, <3>1, Unscaled
    <3> QED
      BY <1>2, <1>3, <3>2
  <2>6. ASSUME t = SpanEnd, d = q * WindowSize PROVE q = n
    <3>1. n * WindowSize < (q + 1) * WindowSize
      BY <1>1, <1>2, <1>3, <1>5, <2>1, <2>2, <2>6
    <3>2. n < q + 1
      BY <1>1, <1>2, <1>3, <3>1, Unscaled
    <3> QED
      BY <1>2, <1>3, <2>3, <3>2
  <2> QED
    BY <2>3, <2>4, <2>5, <2>6
<1>14. ASSUME q + 1 <= n PROVE q + 1 \in Around(t)
  <2>1. q + 1 \in 1..n /\ q + 1 - 1 = q
    BY <1>2, <1>3, <1>12, <1>14
  <2>2. (q + 1) * WindowSize = q * WindowSize + WindowSize
    BY <1>1, <1>2
  <2>3. ((q + 1) - 1) * WindowSize <= d /\ d <= (q + 1) * WindowSize
    BY <1>1, <1>2, <1>5, <2>2
  <2> QED
    BY <1>8, <2>1, <2>3
<1>15. ASSUME d = q * WindowSize, q > 0 PROVE q \in Around(t)
  <2>1. q \in 1..n
    BY <1>2, <1>3, <1>13, <1>15
  <2>2. (q - 1) * WindowSize = q * WindowSize - WindowSize
    BY <1>1, <1>2
  <2>3. (q - 1) * WindowSize <= d /\ d <= q * WindowSize
    BY <1>1, <1>2, <1>5, <1>15, <2>2
  <2> QED
    BY <1>8, <2>1, <2>3
<1>16. ASSUME NEW j \in Around(t)
       PROVE  (j = q + 1 /\ q + 1 <= n) \/ (j = q /\ q > 0 /\ d = q * WindowSize)
  <2>1. j \in 1..n /\ (j - 1) * WindowSize <= d /\ d <= j * WindowSize
    BY <1>8, <1>9
  <2>2. j <= q + 1 /\ q <= j /\ (j = q => d = q * WindowSize)
    BY <1>10, <1>11, <2>1
  <2> QED
    BY <1>2, <1>3, <2>1, <2>2
<1>17. CASE t \in Edges \ {SpanStart, SpanEnd}
  <2>1. d = q * WindowSize /\ q # 0 /\ t # SpanEnd
    BY <1>5, <1>12, <1>17
  <2>2. q \in Nat \ {0} /\ q + 1 <= n
    BY <1>2, <1>12, <1>13, <2>1
  <2>3. Around(t) = {q, q + 1}
    BY <1>14, <1>15, <1>16, <2>1, <2>2
  <2> QED
    BY <1>17, <2>2, <2>3
<1>18. CASE t \notin Edges \ {SpanStart, SpanEnd}
  <2>1. CASE t = SpanEnd /\ d = q * WindowSize
    <3>1. q = n /\ q \in Nat \ {0}
      BY <1>6, <1>7, <1>13, <2>1
    <3>2. ~(q + 1 <= n)
      BY <1>2, <3>1
    <3>3. Around(t) = {q}
      BY <1>15, <1>16, <2>1, <3>1, <3>2
    <3> QED
      BY <1>18, <3>1, <3>3
  <2>2. CASE ~(t = SpanEnd /\ d = q * WindowSize)
    <3>1. q + 1 <= n /\ q + 1 \in Nat \ {0}
      BY <1>2, <1>12, <1>13, <2>2
    <3>2. ~(q > 0 /\ d = q * WindowSize)
      <4>1. q > 0 => q # 0
        BY <1>2
      <4> QED
        BY <1>5, <1>12, <1>18, <2>2, <4>1
    <3>3. Around(t) = {q + 1}
      BY <1>14, <1>16, <3>1, <3>2
    <3> QED
      BY <1>18, <3>1, <3>3
  <2> QED
    BY <2>1, <2>2
<1> QED
  BY <1>17, <1>18

\* What --max-windows and --skip-telemetry leave of the windows is a sequence too.
LEMMA WindowsAreSeq == Windows \in Seq(Int \X Int)
<1> DEFINE all == ChunkWindows(SpanStart, SpanEnd)
           n   == Least(MaxWindows, Len(all))
<1>1. all \in Seq(Int \X Int)
  BY ChunksAreSeq
<1> HIDE DEF all
<1>2. Len(all) \in Nat /\ MaxWindows \in Nat
  BY <1>1, IngestionAssumption
<1>3. n \in Nat /\ n <= Len(all)
  BY <1>2 DEF Least
<1> HIDE DEF n
<1>4. SubSeq(all, 1, n) \in Seq(Int \X Int)
  BY <1>1, <1>3, SubSeqProperties
<1> QED
  BY <1>4 DEF Windows, all, n

\* The steps before the last two: reference data, session_meta, the bulk
\* channels, then both telemetry channels of each window.
Fetching == <<Whole("sessions"), Whole("drivers"), Whole("stints"), Whole("session_meta")>>
            \o BulkSteps \o WindowSteps

Closing == <<Whole("flush"), Whole("record")>>

\* The requests of a run, of the session, its reference data and its channels.
LEMMA FetchingShape ==
    /\ Fetching \in Seq(Steps)
    /\ Fetching[1] = Whole("sessions")
    /\ Len(Fetching) >= 4
    /\ \A i \in 1..Len(Fetching) :
          Fetching[i] = Whole("session_meta") \/ Fetching[i][1] \notin Locals
<1> DEFINE Reference == <<Whole("sessions"), Whole("drivers"), Whole("stints"),
                          Whole("session_meta")>>
<1>1. Reference \in Seq(Early) /\ Len(Reference) = 4
  <2>1. \A name \in {"sessions", "drivers", "stints", "session_meta"} : Whole(name) \in Early
    BY DEF Early, Requested, Whole
  <2> QED
    BY <2>1
<1>2. BulkSteps \in Seq(Early)
  <2> DEFINE Labels == {"laps", "weather", "race_control", "position", "intervals"}
  <2>1. \A name \in Labels : Whole(name) \in Early
    BY DEF Early, Requested, Whole
  <2>2. Bulk \in Seq(Labels)
    BY IngestionAssumption
  <2> HIDE DEF Labels
  <2>3. \A i \in 1..Len(Bulk) : Whole(Bulk[i]) \in Early
    BY <2>1, <2>2, ElementOfSeq
  <2>4. Len(Bulk) \in Nat /\ DOMAIN Bulk = 1..Len(Bulk)
    BY <2>2, LenProperties
  <2> QED
    BY <2>3, <2>4 DEF BulkSteps
<1>3. WindowSteps \in Seq(Early)
  <2>1. Len(Windows) \in Nat
    BY WindowsAreSeq, LenProperties
  <2>2. ASSUME NEW i \in 1..(2 * Len(Windows))
        PROVE  <<IF i % 2 = 1 THEN "car_data" ELSE "location", Windows[(i + 1) \div 2]>> \in Early
    <3>1. (i + 1) \div 2 \in 1..Len(Windows)
      BY <2>1
    <3>2. Windows[(i + 1) \div 2] \in Int \X Int
      BY <3>1, WindowsAreSeq, ElementOfSeq
    <3>3. (IF i % 2 = 1 THEN "car_data" ELSE "location") \in Requested
      BY DEF Requested
    <3> QED
      BY <3>2, <3>3, Zenon DEF Early
  <2> QED
    BY <2>1, <2>2 DEF WindowSteps
<1>4. Reference \o BulkSteps \in Seq(Early) /\ Len(Reference \o BulkSteps) >= 4
  BY <1>1, <1>2, ConcatProperties, LenProperties
<1>5. Fetching \in Seq(Early) /\ Len(Fetching) >= 4
  BY <1>3, <1>4, ConcatProperties, LenProperties DEF Fetching
<1>6. \A i \in 1..Len(Fetching) : Fetching[i] \in Early
  BY <1>5, ElementOfSeq
<1>7. Fetching \in Seq(Steps)
  BY <1>5, SeqMonotonic DEF Steps
<1>8. Fetching[1] = Whole("sessions")
  <2>1. Len(Reference \o BulkSteps) \in Nat /\ Len(BulkSteps) \in Nat /\ Len(WindowSteps) \in Nat
    BY <1>2, <1>3, <1>4, LenProperties
  <2>2. (Reference \o BulkSteps)[1] = Reference[1]
    BY <1>1, <1>2, <2>1, ConcatProperties
  <2>3. Fetching[1] = (Reference \o BulkSteps)[1]
    BY <1>3, <1>4, <2>1, ConcatProperties DEF Fetching
  <2> QED
    BY <2>2, <2>3
<1>9. \A s \in Early : s = Whole("session_meta") \/ s[1] \notin Locals
  BY DEF Early, Requested, Locals
<1> QED
  BY <1>5, <1>6, <1>7, <1>9, <1>8

\* Where the steps that are no requests are.
LEMMA PlanShape ==
    /\ Plan[1][1] \notin Locals
    /\ Len(Plan) \in Nat /\ Len(Plan) >= 6
    /\ Plan[Len(Plan) - 1] = Whole("flush")
    /\ Plan[Len(Plan)] = Whole("record")
    /\ \A i \in 1..Len(Plan) : Plan[i][1] \in Locals => Plan[i] = Whole(Plan[i][1])
    /\ \A i \in 1..Len(Plan) : Plan[i][1] = "record" => i = Len(Plan)
<1>1. Closing \in Seq(Steps) /\ Len(Closing) = 2
  BY DEF Closing, Steps
<1>2. Plan = Fetching \o Closing
  BY DEF Plan, Fetching, Closing
<1>3. /\ Len(Fetching \o Closing) = Len(Fetching) + Len(Closing)
      /\ \A i \in 1..Len(Fetching) + Len(Closing) :
            (Fetching \o Closing)[i]
                = IF i <= Len(Fetching) THEN Fetching[i] ELSE Closing[i - Len(Fetching)]
  BY <1>1, FetchingShape, ConcatProperties
<1>4. /\ Len(Plan) = Len(Fetching) + 2
      /\ \A i \in 1..Len(Plan) :
            Plan[i] = IF i <= Len(Fetching) THEN Fetching[i] ELSE Closing[i - Len(Fetching)]
  BY <1>1, <1>2, <1>3
<1>5. Len(Fetching) \in Nat
  BY FetchingShape, LenProperties
<1>6. Plan[Len(Plan) - 1] = Whole("flush") /\ Plan[Len(Plan)] = Whole("record")
  BY <1>4, <1>5, FetchingShape DEF Closing
<1>7. \A i \in 1..Len(Plan) : \/ i <= Len(Fetching) \/ i = Len(Plan) - 1 \/ i = Len(Plan)
  BY <1>4, <1>5
<1>8. /\ Whole("flush")[1] = "flush" /\ Whole("record")[1] = "record"
      /\ Whole("session_meta")[1] = "session_meta"
  BY DEF Whole
<1>9. \A i \in 1..Len(Plan) :
         \/ Plan[i] = Whole("session_meta")
         \/ Plan[i][1] \notin Locals
         \/ i = Len(Plan) - 1
         \/ i = Len(Plan)
  BY <1>4, <1>5, <1>7, FetchingShape
<1>10. "record" \in Locals /\ Plan[1][1] \notin Locals
  BY <1>4, <1>5, FetchingShape DEF Locals, Whole
<1> QED
  BY <1>4, <1>5, <1>6, <1>8, <1>9, <1>10, FetchingShape

-----------------------------------------------------------------------------
(* Statuses *)

Active == {"acquire", "request", "backoff", "local"}

\* Nothing went wrong only if every request before this step has succeeded.
Gathered == errors # {} \/ \A i \in 1..(step - 1) : Plan[i] \in Requests => Plan[i] \in fetched

HonestInv ==
    /\ step \in 1..Len(Plan)
    /\ pc \in Active => (pc = "local" <=> Name \in Locals)
    /\ pc \in Active => Gathered
    /\ StatusIsHonest

\* The local steps are no requests.
LEMMA LocalsAreNoRequests ==
    \A i \in 1..Len(Plan) : Plan[i][1] \in Locals => Plan[i] \notin Requests
BY PlanShape DEF Requests, Locals

\* Going on after a step that succeeded, was reported or is no request.
LEMMA ProceedKeepsHonest ==
    ASSUME HonestInv, pc \in Active, Name # "record",
           NEW failed, Proceed(failed),
           fetched \subseteq fetched',
           failed # {} \/ Plan[step] \in fetched' \/ Plan[step] \notin Requests
    PROVE  HonestInv'
<1>1. /\ Len(Plan) \in Nat /\ Len(Plan) >= 6
      /\ step \in 1..Len(Plan) /\ step # Len(Plan)
  <2>1. Plan[Len(Plan)][1] = "record"
    BY PlanShape DEF Whole
  <2> QED
    BY <2>1, PlanShape DEF HonestInv, Name
<1>2. /\ step' \in 1..Len(Plan)
      /\ pc' \in {"local", "acquire"}
      /\ pc' = "local" <=> Plan[step'][1] \in Locals
  BY <1>1 DEF Proceed, GoTo, FlushStep, Locals
<1>3. errors' # {} \/ (errors = {} /\ failed = {} /\ step' = step + 1)
  BY DEF Proceed, GoTo
<1>4. Gathered'
  <2> SUFFICES ASSUME errors' = {}, NEW i \in 1..(step' - 1), Plan[i] \in Requests
               PROVE  Plan[i] \in fetched'
    BY DEF Gathered
  <2>1. step' = step + 1 /\ errors = {} /\ failed = {}
    BY <1>3
  <2>2. CASE i = step
    BY <2>1, <2>2
  <2>3. CASE i # step
    <3>1. i \in 1..(step - 1)
      BY <1>1, <2>1, <2>3
    <3> QED
      BY <2>1, <3>1 DEF HonestInv, Gathered
  <2> QED
    BY <2>2, <2>3
<1>5. StatusIsHonest'
  BY <1>2 DEF StatusIsHonest, Recorded
<1> QED
  BY <1>2, <1>4, <1>5 DEF HonestInv, Active, Name

\* Steps that stay where they are in the plan.
LEMMA StayKeepsHonest ==
    ASSUME HonestInv, pc \in Active,
           UNCHANGED <<step, errors, fetched>>,
           pc' = pc \/ (pc \in {"acquire", "request", "backoff"}
                         /\ pc' \in {"acquire", "request", "backoff"})
    PROVE  HonestInv'
<1>1. Gathered'
  BY DEF HonestInv, Gathered
<1>2. StatusIsHonest'
  BY DEF StatusIsHonest, Recorded, Active
<1> QED
  BY <1>1, <1>2 DEF HonestInv, Active, Name, Locals

\* A run that ends elsewhere than at the last step has recorded nothing.
LEMMA EndKeepsHonest ==
    ASSUME HonestInv, UNCHANGED step,
           pc' = "raised" \/ (pc' = "returned" /\ Name = "sessions")
    PROVE  HonestInv'
<1>1. Plan[Len(Plan)][1] = "record"
  BY PlanShape DEF Whole
<1>2. ~Recorded'
  BY <1>1 DEF Recorded, Name
<1> QED
  BY <1>2 DEF HonestInv, StatusIsHonest, Active, Name

\* Everything was gathered when the outcome is written.
LEMMA RecordKeepsHonest ==
    ASSUME HonestInv, Record
    PROVE  HonestInv'
<1>1. step \in 1..Len(Plan) /\ step = Len(Plan) /\ Len(Plan) \in Nat
  BY PlanShape DEF HonestInv, Record, Name
<1>2. Gathered
  BY DEF HonestInv, Record, Active
<1>3. row'.status = FinalStatus
  BY DEF Record
<1>4. UNCHANGED <<published, errors, fetched, step>> /\ pc' = "returned"
  BY DEF Record, reportVars, Ends
<1>5. errors = {} => Requests \subseteq fetched
  <2> SUFFICES ASSUME errors = {}, NEW r \in Requests PROVE r \in fetched
    OBVIOUS
  <2>1. PICK i \in 1..Len(Plan) : r = Plan[i]
    BY DEF Requests
  <2>2. i # Len(Plan)
    <3>1. Plan[Len(Plan)] \notin Requests
      BY PlanShape DEF Requests
    <3> QED
      BY <2>1, <3>1
  <2>3. i \in 1..(step - 1)
    BY <1>1, <2>2
  <2> QED
    BY <1>2, <2>1, <2>3 DEF Gathered
<1>6. StatusIsHonest'
  BY <1>3, <1>4, <1>5 DEF StatusIsHonest, Recorded, FinalStatus
<1> QED
  BY <1>1, <1>4, <1>6 DEF HonestInv, Active

\* Every step of a run keeps what its status rests on.
LEMMA HonestStays == Spec => []HonestInv
<1>1. Init => HonestInv
  BY PlanShape DEF Init, HonestInv, Active, StatusIsHonest, Recorded
<1>2. HonestInv /\ [Next]_vars => HonestInv'
  <2> SUFFICES ASSUME HonestInv, [Next]_vars PROVE HonestInv'
    OBVIOUS
  <2>1. CASE StartRun
    <3>1. Plan[1][1] \notin Locals
      BY PlanShape
    <3>2. Gathered'
      BY <2>1 DEF StartRun, Gathered
    <3>3. ~Recorded'
      BY <2>1 DEF StartRun, Recorded
    <3> QED
      BY <2>1, <3>1, <3>2, <3>3, PlanShape
         DEF StartRun, HonestInv, StatusIsHonest, Active, Name
  <2>2. CASE TokenTaken \/ TokenAwaited \/ Retryable \/ Retries
    BY <2>2, StayKeepsHonest
       DEF TokenTaken, TokenAwaited, Retryable, Retries, reportVars, Active
  <2>3. CASE RequestFails
    <3>1. CASE Name = "sessions"
      BY <2>3, <3>1, EndKeepsHonest DEF RequestFails, Caught, Ends
    <3>2. CASE Name # "sessions"
      <4>1. Proceed({Plan[step]}) /\ UNCHANGED fetched
        BY <2>3, <3>2 DEF RequestFails, Caught
      <4>2. pc \in {"request", "backoff"}
        BY <2>3 DEF RequestFails
      <4>3. Name # "record"
        BY <4>2 DEF HonestInv, Active, Locals
      <4> QED
        BY <4>1, <4>2, <4>3, ProceedKeepsHonest DEF Active
    <3> QED
      BY <3>1, <3>2
  <2>4. CASE RequestRaises \/ DatabaseFails \/ Killed
    BY <2>4, EndKeepsHonest DEF RequestRaises, DatabaseFails, Killed, Ends
  <2>5. CASE SessionUnknown
    BY <2>5, EndKeepsHonest DEF SessionUnknown, Ends
  <2>6. CASE SessionFound \/ ReferenceStored \/ RecordsPublished \/ NothingPublished
    <3>1. /\ Proceed({}) /\ pc = "request"
          /\ fetched' = fetched \union {Plan[step]}
      BY <2>6 DEF SessionFound, ReferenceStored, RecordsPublished, NothingPublished
    <3>2. Name # "record"
      BY <3>1 DEF HonestInv, Active, Locals
    <3> QED
      BY <3>1, <3>2, ProceedKeepsHonest DEF Active
  <2>7. CASE MetaSent \/ MetaFails \/ Flush
    <3>1. /\ \E failed : Proceed(failed)
          /\ pc = "local" /\ Name \in Locals /\ Name # "record"
          /\ UNCHANGED fetched
      BY <2>7 DEF MetaSent, MetaFails, Flush, Locals
    <3>2. Plan[step] \notin Requests
      BY <3>1, LocalsAreNoRequests DEF HonestInv, Name
    <3> QED
      BY <3>1, <3>2, ProceedKeepsHonest DEF Active
  <2>8. CASE Record
    BY <2>8, RecordKeepsHonest
  <2>9. CASE TimePasses \/ UNCHANGED vars \/ \E channel \in buffered : Settles(channel)
    <3>1. UNCHANGED <<pc, step, published, errors, fetched, row>>
      BY <2>9 DEF TimePasses, Settles, vars, reportVars, storeVars
    <3> QED
      BY <3>1 DEF HonestInv, Active, Gathered, StatusIsHonest, Recorded, Name
  <2> QED
    BY <2>1, <2>2, <2>3, <2>4, <2>5, <2>6, <2>7, <2>8, <2>9 DEF Next, Works
<1> QED
  BY <1>1, <1>2, PTL DEF Spec

\* StatusIsHonest (service.py:347): whatever failed and however often runs were
\* started again, complete means fetched whole and failed means nothing sent.
THEOREM StatusStaysHonest == Spec => []StatusIsHonest
<1>1. HonestInv => StatusIsHonest
  BY DEF HonestInv
<1> QED
  BY <1>1, HonestStays, PTL

-----------------------------------------------------------------------------
(* Availability flags *)

\* What the report counts as published is what the producer holds or has
\* settled, what is settled is on the topic or lost, and once the buffer has
\* been waited for nothing is left in it.
FlagsInv ==
    /\ row = [status |-> row.status, flags |-> row.flags]
    /\ settled \union row.flags \subseteq onTopic \union lost
    /\ pc \in Active => published \cap Flagged = (settled \union buffered) \cap Flagged
    /\ pc \in Active /\ Name = "record" => buffered = {}
    /\ Recorded => buffered = {} /\ row.flags = settled \cap Flagged

\* Only flush() is followed by the last step.
LEMMA BeforeRecord ==
    ASSUME HonestInv, pc \in Active, Name \notin {"flush", "record"}, NEW failed, Proceed(failed)
    PROVE  Name' # "record"
<1>1. /\ Len(Plan) \in Nat /\ Len(Plan) >= 6 /\ step \in 1..Len(Plan)
      /\ Plan[Len(Plan) - 1][1] = "flush" /\ Plan[Len(Plan)][1] = "record"
  BY PlanShape DEF HonestInv, Whole
<1>2. step # Len(Plan) /\ step # Len(Plan) - 1
  BY <1>1 DEF Name
<1>3. step' \in 1..Len(Plan) /\ step' # Len(Plan)
  BY <1>1, <1>2 DEF Proceed, GoTo, FlushStep
<1> QED
  BY <1>3, PlanShape DEF Name

\* A run that stopped short of its last step has not recorded anything.
LEMMA NotRecorded ==
    ASSUME pc' \in Active \union {"raised"} \/ (pc' = "returned" /\ UNCHANGED step /\ Name = "sessions")
    PROVE  ~ Recorded'
<1>1. Plan[Len(Plan)][1] = "record"
  BY PlanShape DEF Whole
<1> QED
  BY <1>1 DEF Recorded, Active, Name

LEMMA StepFlags ==
    ASSUME HonestInv, FlagsInv, [Next]_vars
    PROVE  FlagsInv'
<1> USE DEF reportVars, storeVars, sendVars
<1>1. CASE StartRun
  <2>1. /\ pc' = "acquire" /\ step' = 1 /\ published' = {} /\ settled' = {}
        /\ buffered' = {} /\ UNCHANGED <<row, onTopic, lost>>
    BY <1>1 DEF StartRun
  <2>2. ~ Recorded'
    BY <2>1, NotRecorded DEF Active
  <2> QED
    BY <2>1, <2>2 DEF FlagsInv
<1>2. CASE TokenTaken \/ TokenAwaited \/ Retryable \/ Retries
  <2>1. UNCHANGED <<step, published, storeVars>> /\ pc \in Active /\ pc' \in Active
    BY <1>2 DEF TokenTaken, TokenAwaited, Retryable, Retries, Active
  <2>2. ~ Recorded' /\ Name' = Name
    BY <2>1, NotRecorded DEF Name
  <2> QED
    BY <2>1, <2>2 DEF FlagsInv
<1>3. ASSUME UNCHANGED <<published, storeVars>>, pc \in Active, Name \notin {"flush", "record"},
             NEW failed, Proceed(failed)
      PROVE  FlagsInv'
  <2>1. Name' # "record" /\ pc' \in Active
    BY <1>3, BeforeRecord DEF Proceed, GoTo, Active
  <2>2. ~ Recorded'
    BY <2>1, NotRecorded
  <2> QED
    BY <1>3, <2>1, <2>2 DEF FlagsInv
<1>4. ASSUME Ends("raised") \/ (Ends("returned") /\ Name = "sessions"),
             UNCHANGED <<published, row, settled, onTopic, lost>>
      PROVE  FlagsInv'
  <2>1. ~ Recorded' /\ pc' \notin Active
    BY <1>4, NotRecorded DEF Ends, Active
  <2> QED
    BY <1>4, <2>1 DEF FlagsInv
<1>5. CASE RequestFails
  <2>1. CASE Name = "sessions"
    BY <1>4, <1>5, <2>1 DEF RequestFails, Caught
  <2>2. CASE Name # "sessions"
    <3>1. /\ Proceed({Plan[step]}) /\ UNCHANGED <<published, storeVars>>
          /\ pc \in {"request", "backoff"}
      BY <1>5, <2>2 DEF RequestFails, Caught
    <3>2. Name \notin {"flush", "record"}
      BY <3>1 DEF HonestInv, Active, Locals
    <3> QED
      BY <1>3, <3>1, <3>2 DEF Active
  <2> QED
    BY <2>1, <2>2
<1>6. CASE RequestRaises \/ DatabaseFails \/ Killed \/ SessionUnknown
  BY <1>4, <1>6 DEF RequestRaises, DatabaseFails, Killed, SessionUnknown
<1>7. CASE ReferenceStored \/ NothingPublished
  <2>1. Proceed({}) /\ pc = "request" /\ UNCHANGED <<published, storeVars>>
    BY <1>7 DEF ReferenceStored, NothingPublished
  <2>2. Name \notin {"flush", "record"}
    BY <2>1 DEF HonestInv, Active, Locals
  <2> QED
    BY <1>3, <2>1, <2>2 DEF Active
<1>8. CASE SessionFound
  <2>1. /\ Proceed({}) /\ pc \in Active /\ Name \notin {"flush", "record"}
        /\ row' = [status |-> "running", flags |-> row.flags]
        /\ UNCHANGED <<published, sendVars>>
    BY <1>8 DEF SessionFound, Active, FlagsInv
  <2>2. Name' # "record" /\ pc' \in Active
    BY <2>1, BeforeRecord DEF Proceed, GoTo, Active
  <2>3. ~ Recorded'
    BY <2>2, NotRecorded
  <2> QED
    BY <2>1, <2>2, <2>3 DEF FlagsInv
<1>9. CASE MetaSent
  <2>1. /\ Proceed({}) /\ pc \in Active /\ Name = "session_meta"
        /\ published' = published \union {Name} /\ onTopic' = onTopic \union {Name}
        /\ UNCHANGED <<row, buffered, settled, lost>>
    BY <1>9 DEF MetaSent, Active
  <2>2. Name' # "record" /\ pc' \in Active
    BY <2>1, BeforeRecord DEF Proceed, GoTo, Active
  <2>3. ~ Recorded' /\ Name \notin Flagged
    BY <2>1, <2>2, NotRecorded DEF Flagged
  <2> QED
    BY <2>1, <2>2, <2>3 DEF FlagsInv
<1>10. CASE MetaFails
  <2>1. Proceed({Plan[step]}) /\ pc \in Active /\ Name = "session_meta" /\ UNCHANGED <<published, storeVars>>
    BY <1>10 DEF MetaFails, Active
  <2> QED
    BY <1>3, <2>1
<1>11. CASE RecordsPublished
  <2>1. /\ Proceed({}) /\ pc = "request"
        /\ published' = published \union {Name} /\ buffered' = buffered \union {Name}
        /\ UNCHANGED <<row, settled, onTopic, lost>>
    BY <1>11 DEF RecordsPublished
  <2>2. Name \notin {"flush", "record"}
    BY <2>1 DEF HonestInv, Active, Locals
  <2>3. Name' # "record" /\ pc' \in Active /\ pc \in Active
    BY <2>1, <2>2, BeforeRecord DEF Proceed, GoTo, Active
  <2>4. ~ Recorded'
    BY <2>3, NotRecorded
  <2> QED
    BY <2>1, <2>3, <2>4 DEF FlagsInv
<1>12. CASE Flush
  <2>1. Proceed({}) /\ pc \in Active /\ buffered = {} /\ UNCHANGED <<published, storeVars>>
    BY <1>12 DEF Flush, Active
  <2>2. pc' \in Active
    BY <2>1 DEF Proceed, GoTo, Active
  <2>3. ~ Recorded'
    BY <2>2, NotRecorded
  <2> QED
    BY <2>1, <2>2, <2>3 DEF FlagsInv
<1>13. CASE Record
  <2>1. /\ pc \in Active /\ Name = "record" /\ pc' = "returned"
        /\ row' = [status |-> FinalStatus, flags |-> published \cap Flagged]
        /\ UNCHANGED <<published, sendVars>>
    BY <1>13 DEF Record, Ends, Active
  <2>2. buffered = {} /\ published \cap Flagged = settled \cap Flagged
    BY <2>1 DEF FlagsInv
  <2>3. pc' \notin Active
    BY <2>1 DEF Active
  <2> QED
    BY <2>1, <2>2, <2>3 DEF FlagsInv
<1>14. CASE \E channel \in buffered : Settles(channel)
  <2>1. PICK channel \in buffered : Settles(channel)
    BY <1>14
  <2>2. /\ buffered' = buffered \ {channel} /\ settled' = settled \union {channel}
        /\ onTopic' \union lost' = onTopic \union lost \union {channel}
        /\ UNCHANGED <<pc, step, published, row>>
    BY <2>1 DEF Settles
  <2>3. Name' = Name /\ Recorded' = Recorded /\ ~ Recorded
    BY <2>2 DEF Name, Recorded, FlagsInv
  <2> QED
    BY <2>2, <2>3 DEF FlagsInv
<1>15. CASE TimePasses \/ UNCHANGED vars
  <2>1. UNCHANGED <<pc, step, published, storeVars>>
    BY <1>15 DEF TimePasses, vars
  <2> QED
    BY <2>1 DEF FlagsInv, Recorded, Name
<1> QED
  BY <1>1, <1>2, <1>5, <1>6, <1>7, <1>8, <1>9, <1>10, <1>11, <1>12, <1>13, <1>14, <1>15 DEF Next, Works

\* FlagsAreTrue (metadata.py:200-204): a flag that is set stands for events on
\* the topic, or lost by a producer that had accepted them, and never for ones
\* still buffered; a run leaves unset only the flags of channels it sent nothing of.
THEOREM FlagsStayTrue == Spec => []FlagsAreTrue
<1>1. Init => FlagsInv
  BY DEF Init, FlagsInv, NoRow, Active, Recorded
<1>2. HonestInv /\ FlagsInv /\ [Next]_vars => FlagsInv'
  BY StepFlags
<1>3. FlagsInv => FlagsAreTrue
  BY DEF FlagsInv, FlagsAreTrue
<1> QED
  BY <1>1, <1>2, <1>3, HonestStays, PTL DEF Spec

-----------------------------------------------------------------------------
(* Types *)

\* The limiter's part of the types is in the invariant of the bucket.
TaskTypeOK ==
    /\ pc \in Places
    /\ step \in 1..Len(Plan)
    /\ attempt \in 1..(MaxRetries + 1)
    /\ runs \in 0..MaxRuns
    /\ dated \in BOOLEAN
    /\ published \subseteq Channels
    /\ errors \subseteq {Plan[i] : i \in 1..Len(Plan)} \union {Whole("telemetry")}
    /\ row = [status |-> row.status, flags |-> row.flags]
    /\ row.status \in {"none", "running", "complete", "partial", "failed"}
    /\ row.flags \subseteq Flagged
    /\ asked \in [1..Len(Plan) -> Nat]
    /\ buffered \subseteq Channels /\ settled \subseteq Channels
    /\ onTopic \subseteq Channels /\ lost \subseteq Channels
    /\ faults \in 0..MaxFaults

\* Going on to the next step.
LEMMA ProceedTyped ==
    ASSUME HonestInv, TaskTypeOK, pc \in Active, Name # "record",
           NEW failed \in SUBSET {Plan[step]}, Proceed(failed)
    PROVE  /\ pc' \in Places /\ step' \in 1..Len(Plan) /\ attempt' \in 1..(MaxRetries + 1)
           /\ errors' \subseteq {Plan[i] : i \in 1..Len(Plan)} \union {Whole("telemetry")}
<1>1. /\ Len(Plan) \in Nat /\ Len(Plan) >= 6
      /\ step \in 1..Len(Plan) /\ step # Len(Plan)
  <2>1. Plan[Len(Plan)][1] = "record"
    BY PlanShape DEF Whole
  <2> QED
    BY <2>1, PlanShape DEF HonestInv, Name
<1>2. step' \in 1..Len(Plan)
  BY <1>1 DEF Proceed, GoTo, FlushStep
<1>3. pc' \in Places /\ attempt' = 1
  BY DEF Proceed, GoTo, Places
<1>4. errors' \subseteq errors \union failed \union {Whole("telemetry")}
  BY DEF Proceed
<1>5. Plan[step] \in {Plan[i] : i \in 1..Len(Plan)}
  BY <1>1
<1>6. 1 \in 1..(MaxRetries + 1)
  BY IngestionAssumption
<1> QED
  BY <1>2, <1>3, <1>4, <1>5, <1>6 DEF TaskTypeOK

\* A fault is counted up to the bound of the model.
LEMMA SpendTyped ==
    ASSUME faults \in 0..MaxFaults, NEW k, Spend(k)
    PROVE  faults' \in 0..MaxFaults
BY IngestionAssumption DEF Spend

\* Every step of a run keeps its types.
LEMMA TaskTyped ==
    ASSUME HonestInv, TaskTypeOK, [Next]_vars
    PROVE  TaskTypeOK'
<1> USE DEF TaskTypeOK, storeVars, sendVars, reportVars
<1>1. CASE StartRun
  <2>1. 1 \in 1..Len(Plan)
    BY PlanShape
  <2>2. 1 \in 1..(MaxRetries + 1) /\ runs' \in 0..MaxRuns
    BY <1>1, IngestionAssumption DEF StartRun
  <2> QED
    BY <1>1, <2>1, <2>2 DEF StartRun, Places, NothingAsked
<1>2. CASE TokenTaken \/ TokenAwaited \/ Retryable \/ Retries
  <2>1. attempt' \in 1..(MaxRetries + 1) /\ pc' \in Places
    BY <1>2, IngestionAssumption DEF TokenTaken, TokenAwaited, Retryable, Retries, Places
  <2>2. asked' \in [1..Len(Plan) -> Nat]
    <3>1. asked' = asked \/ asked' = [asked EXCEPT ![step] = @ + 1]
      BY <1>2 DEF TokenTaken, TokenAwaited, Retryable, Retries
    <3>2. asked[step] + 1 \in Nat
      OBVIOUS
    <3> QED
      BY <3>1, <3>2
  <2> QED
    BY <1>2, <2>1, <2>2 DEF TokenTaken, TokenAwaited, Retryable, Retries
<1>3. CASE RequestFails
  <2>1. UNCHANGED <<runs, dated, published, asked, storeVars>> /\ pc \in {"request", "backoff"}
    BY <1>3 DEF RequestFails
  <2>2. faults' \in 0..MaxFaults
    BY <1>3, SpendTyped DEF RequestFails
  <2>3. CASE Name = "sessions"
    BY <1>3, <2>1, <2>2, <2>3 DEF RequestFails, Caught, Ends, Places
  <2>4. CASE Name # "sessions"
    <3>1. Proceed({Plan[step]})
      BY <1>3, <2>4 DEF RequestFails, Caught
    <3>2. Name # "record" /\ pc \in Active
      BY <2>1 DEF HonestInv, Active, Locals
    <3> QED
      BY <2>1, <2>2, <3>1, <3>2, ProceedTyped
  <2> QED
    BY <2>3, <2>4
<1>4. CASE RequestRaises \/ DatabaseFails \/ Killed
  <2>1. faults' \in 0..MaxFaults
    BY <1>4, SpendTyped DEF RequestRaises, DatabaseFails, Killed
  <2> QED
    BY <1>4, <2>1 DEF RequestRaises, DatabaseFails, Killed, Ends, Places
<1>5. CASE SessionUnknown
  BY <1>5 DEF SessionUnknown, Ends, Places
<1>6. CASE SessionFound \/ ReferenceStored \/ RecordsPublished \/ NothingPublished
  <2>1. pc = "request" /\ Proceed({}) /\ pc \in Active /\ Name # "record"
    BY <1>6 DEF SessionFound, ReferenceStored, RecordsPublished, NothingPublished, HonestInv, Active, Locals
  <2>2. /\ pc' \in Places /\ step' \in 1..Len(Plan) /\ attempt' \in 1..(MaxRetries + 1)
        /\ errors' \subseteq {Plan[i] : i \in 1..Len(Plan)} \union {Whole("telemetry")}
    BY <2>1, ProceedTyped
  <2>3. CASE SessionFound
    <3>1. row' = [status |-> "running", flags |-> row.flags]
      BY <2>3 DEF SessionFound
    <3> QED
      BY <2>2, <2>3, <3>1 DEF SessionFound
  <2>4. CASE ReferenceStored \/ NothingPublished
    BY <2>2, <2>4 DEF ReferenceStored, NothingPublished
  <2>5. CASE RecordsPublished
    BY <2>2, <2>5 DEF RecordsPublished
  <2> QED
    BY <1>6, <2>3, <2>4, <2>5
<1>7. CASE MetaSent \/ MetaFails \/ Flush
  <2>1. pc \in Active /\ Name # "record" /\ (Proceed({}) \/ Proceed({Plan[step]}))
    BY <1>7 DEF MetaSent, MetaFails, Flush, Active
  <2>2. /\ pc' \in Places /\ step' \in 1..Len(Plan) /\ attempt' \in 1..(MaxRetries + 1)
        /\ errors' \subseteq {Plan[i] : i \in 1..Len(Plan)} \union {Whole("telemetry")}
    BY <2>1, ProceedTyped
  <2>3. published' \subseteq Channels /\ onTopic' \subseteq Channels /\ faults' \in 0..MaxFaults
    BY <1>7, SpendTyped DEF MetaSent, MetaFails, Flush, Channels
  <2> QED
    BY <1>7, <2>2, <2>3 DEF MetaSent, MetaFails, Flush
<1>8. CASE Record
  <2>1. row' = [status |-> FinalStatus, flags |-> published \cap Flagged]
    BY <1>8 DEF Record
  <2>2. row'.status \in {"complete", "partial", "failed"} /\ row'.flags \subseteq Flagged
    BY <2>1 DEF FinalStatus
  <2> QED
    BY <1>8, <2>1, <2>2 DEF Record, Ends, Places
<1>9. CASE TimePasses \/ UNCHANGED vars
  BY <1>9 DEF TimePasses, vars
<1>10. CASE \E channel \in buffered : Settles(channel)
  <2>1. faults' \in 0..MaxFaults
    BY <1>10, SpendTyped DEF Settles
  <2> QED
    BY <1>10, <2>1 DEF Settles
<1> QED
  BY <1>1, <1>2, <1>3, <1>4, <1>5, <1>6, <1>7, <1>8, <1>9, <1>10 DEF Next, Works

LEMMA TaskStays == Spec => []TaskTypeOK
<1>1. Init => TaskTypeOK
  BY PlanShape, IngestionAssumption DEF Init, TaskTypeOK, Places, NoRow, NothingAsked
<1>2. HonestInv /\ TaskTypeOK /\ [Next]_vars => TaskTypeOK'
  BY TaskTyped
<1> QED
  BY <1>1, <1>2, HonestStays, PTL DEF Spec

\* TypeOK: every variable keeps its type through any number of runs; the report
\* and the row speak of channels and steps there are.
THEOREM IngestionTypeCorrect == Spec => []TypeOK
<1>1. TaskTypeOK /\ BucketInv => TypeOK
  BY DEF TaskTypeOK, BucketInv, TypeOK
<1> QED
  BY <1>1, BucketStays, TaskStays, PTL

-----------------------------------------------------------------------------
(* Nothing is skipped *)

\* A sequence made of two, part by part.
LEMMA Joined ==
    ASSUME NEW S, NEW a \in Seq(S), NEW b \in Seq(S)
    PROVE  /\ a \o b \in Seq(S)
           /\ Len(a) \in Nat /\ Len(b) \in Nat
           /\ Len(a \o b) = Len(a) + Len(b)
           /\ \A i \in 1..Len(a) : (a \o b)[i] = a[i]
           /\ \A i \in 1..Len(b) : (a \o b)[Len(a) + i] = b[i]
<1>1. /\ a \o b \in Seq(S)
      /\ Len(a \o b) = Len(a) + Len(b)
      /\ \A i \in 1..(Len(a) + Len(b)) :
            (a \o b)[i] = IF i <= Len(a) THEN a[i] ELSE b[i - Len(a)]
  BY ConcatProperties
<1>2. Len(a) \in Nat /\ Len(b) \in Nat
  BY LenProperties
<1>3. \A i \in 1..Len(a) : i \in 1..(Len(a) + Len(b)) /\ i <= Len(a)
  BY <1>2
<1>4. \A i \in 1..Len(b) : /\ Len(a) + i \in 1..(Len(a) + Len(b))
                           /\ ~(Len(a) + i <= Len(a)) /\ (Len(a) + i) - Len(a) = i
  BY <1>2
<1> QED
  BY <1>1, <1>2, <1>3, <1>4

\* Where the channels and the windows are in the plan.
LEMMA PlanLayout ==
    /\ Len(Bulk) \in Nat /\ Len(Windows) \in Nat
    /\ Len(Plan) = Len(Bulk) + 2 * Len(Windows) + 6
    /\ \A i \in 1..(FirstWindow - 1) :
          Plan[i] = Whole(Plan[i][1]) /\ Plan[i][1] \notin {"car_data", "location"}
    /\ \A i \in 1..(2 * Len(Windows)) : Plan[FirstWindow - 1 + i] = WindowSteps[i]
<1> DEFINE Reference == <<Whole("sessions"), Whole("drivers"), Whole("stints"),
                          Whole("session_meta")>>
           Labels == {"laps", "weather", "race_control", "position", "intervals"}
           Any == {Whole(name) : name \in Labels \union {"sessions", "drivers", "stints", "session_meta"}}
           Pairs == {"car_data", "location"} \X (Int \X Int)
           All == Any \union Pairs \union {Whole("flush"), Whole("record")}
<1>1. Bulk \in Seq(Labels) /\ Len(Bulk) \in Nat /\ DOMAIN Bulk = 1..Len(Bulk)
  BY IngestionAssumption, LenProperties
<1>2. Windows \in Seq(Int \X Int) /\ Len(Windows) \in Nat
  BY WindowsAreSeq, LenProperties
<1>3. Reference \in Seq(Any) /\ Len(Reference) = 4
  <2>1. \A name \in {"sessions", "drivers", "stints", "session_meta"} : Whole(name) \in Any
    OBVIOUS
  <2> HIDE DEF Any
  <2> QED
    BY <2>1
<1>4. BulkSteps \in Seq(Any) /\ Len(BulkSteps) = Len(Bulk)
  <2>1. \A i \in 1..Len(Bulk) : Bulk[i] \in Labels
    BY <1>1, ElementOfSeq
  <2>2. \A i \in 1..Len(Bulk) : Whole(Bulk[i]) \in Any
    BY <2>1
  <2> HIDE DEF Any, Labels
  <2> QED
    BY <1>1, <2>2 DEF BulkSteps
<1>5. WindowSteps \in Seq(Pairs) /\ Len(WindowSteps) = 2 * Len(Windows)
  <2>1. ASSUME NEW i \in 1..(2 * Len(Windows))
        PROVE  <<IF i % 2 = 1 THEN "car_data" ELSE "location", Windows[(i + 1) \div 2]>> \in Pairs
    <3>1. (i + 1) \div 2 \in 1..Len(Windows)
      BY <1>2
    <3>2. Windows[(i + 1) \div 2] \in Int \X Int
      BY <1>2, <3>1, ElementOfSeq
    <3>3. (IF i % 2 = 1 THEN "car_data" ELSE "location") \in {"car_data", "location"}
      OBVIOUS
    <3> QED
      BY <3>2, <3>3, Zenon
  <2> HIDE DEF Pairs
  <2> QED
    BY <1>2, <2>1 DEF WindowSteps
<1>6. Closing \in Seq(All) /\ Len(Closing) = 2
  <2>1. Whole("flush") \in All /\ Whole("record") \in All
    OBVIOUS
  <2> HIDE DEF All
  <2> QED
    BY <2>1 DEF Closing
<1>7. Reference \in Seq(All) /\ BulkSteps \in Seq(All) /\ WindowSteps \in Seq(All)
  <2>1. Any \subseteq All /\ Pairs \subseteq All
    OBVIOUS
  <2> HIDE DEF Any, Pairs, All, Reference
  <2> QED
    BY <1>3, <1>4, <1>5, <2>1, SeqMonotonic
<1>8. \A x \in Any : x = Whole(x[1]) /\ x[1] \notin {"car_data", "location"}
  BY DEF Whole
<1> HIDE DEF Any, Pairs, All, Labels, Reference
<1> DEFINE Head4 == Reference \o BulkSteps
<1>9. /\ Head4 \in Seq(All) /\ Len(Head4) = 4 + Len(Bulk)
      /\ \A i \in 1..4 : Head4[i] = Reference[i]
      /\ \A i \in 1..Len(Bulk) : Head4[4 + i] = BulkSteps[i]
  <2>1. /\ Reference \o BulkSteps \in Seq(All)
        /\ Len(Reference \o BulkSteps) = Len(Reference) + Len(BulkSteps)
        /\ \A i \in 1..Len(Reference) : (Reference \o BulkSteps)[i] = Reference[i]
        /\ \A i \in 1..Len(BulkSteps) :
              (Reference \o BulkSteps)[Len(Reference) + i] = BulkSteps[i]
    BY <1>7, Joined
  <2> QED
    BY <1>3, <1>4, <2>1
<1>10. Fetching = Head4 \o WindowSteps
  BY DEF Fetching, Reference
<1>11. Plan = Fetching \o Closing
  BY DEF Plan, Fetching, Closing
<1> HIDE DEF Head4
<1>12. 4 + Len(Bulk) \in Nat /\ 2 * Len(Windows) \in Nat
       /\ 4 + Len(Bulk) + 2 * Len(Windows) \in Nat
  BY <1>1, <1>2
<1>13. /\ Fetching \in Seq(All) /\ Len(Fetching) = 4 + Len(Bulk) + 2 * Len(Windows)
       /\ \A i \in 1..(4 + Len(Bulk)) : Fetching[i] = Head4[i]
       /\ \A i \in 1..(2 * Len(Windows)) : Fetching[4 + Len(Bulk) + i] = WindowSteps[i]
  <2>1. /\ Head4 \o WindowSteps \in Seq(All)
        /\ Len(Head4 \o WindowSteps) = Len(Head4) + Len(WindowSteps)
        /\ \A i \in 1..Len(Head4) : (Head4 \o WindowSteps)[i] = Head4[i]
        /\ \A i \in 1..Len(WindowSteps) :
              (Head4 \o WindowSteps)[Len(Head4) + i] = WindowSteps[i]
    <3>1. Head4 \in Seq(All) /\ WindowSteps \in Seq(All)
      BY <1>7, <1>9
    <3> QED
      BY <3>1, Joined
  <2> QED
    BY <1>5, <1>9, <1>10, <2>1
<1>14. /\ Len(Plan) = 4 + Len(Bulk) + 2 * Len(Windows) + 2
       /\ \A i \in 1..(4 + Len(Bulk) + 2 * Len(Windows)) : Plan[i] = Fetching[i]
  <2>1. /\ Len(Fetching \o Closing) = Len(Fetching) + Len(Closing)
        /\ \A i \in 1..Len(Fetching) : (Fetching \o Closing)[i] = Fetching[i]
    <3>1. Fetching \in Seq(All) /\ Closing \in Seq(All)
      BY <1>6, <1>13
    <3> QED
      BY <3>1, Joined
  <2> QED
    BY <1>6, <1>11, <1>13, <2>1
<1>15. \A i \in 1..(FirstWindow - 1) : Plan[i] \in Any
  <2> SUFFICES ASSUME NEW i \in 1..(4 + Len(Bulk))
               PROVE  Plan[i] \in Any
    BY <1>1 DEF FirstWindow
  <2>1. Plan[i] = Head4[i]
    BY <1>12, <1>13, <1>14
  <2>2. CASE i \in 1..4
    BY <1>3, <1>9, <2>1, <2>2, ElementOfSeq
  <2>3. CASE i - 4 \in 1..Len(Bulk)
    <3>1. Head4[4 + (i - 4)] = BulkSteps[i - 4] /\ 4 + (i - 4) = i
      BY <1>9, <2>3
    <3> QED
      BY <1>4, <2>1, <2>3, <3>1, ElementOfSeq
  <2> QED
    BY <1>1, <2>2, <2>3
<1>16. \A i \in 1..(2 * Len(Windows)) : Plan[FirstWindow - 1 + i] = WindowSteps[i]
  <2> SUFFICES ASSUME NEW i \in 1..(2 * Len(Windows))
               PROVE  Plan[4 + Len(Bulk) + i] = WindowSteps[i]
    BY <1>1 DEF FirstWindow
  <2>1. 4 + Len(Bulk) + i \in 1..(4 + Len(Bulk) + 2 * Len(Windows))
    BY <1>1, <1>2
  <2> QED
    BY <1>13, <1>14, <2>1
<1>17. Len(Plan) = Len(Bulk) + 2 * Len(Windows) + 6
  BY <1>1, <1>2, <1>14
<1> QED
  BY <1>1, <1>2, <1>8, <1>15, <1>16, <1>17

\* Each request before this step was made by one call, or is a window of a
\* session without dates; no later one was made.
AskedInv ==
    /\ asked \in [1..Len(Plan) -> Nat]
    /\ \A i \in 1..Len(Plan) : Plan[i] \notin Requests => asked[i] = 0
    /\ pc \in Active \/ Recorded =>
          /\ \A i \in 1..(step - 1) : Plan[i] \in Requests =>
                asked[i] = 1 \/ (i >= FirstWindow /\ Whole("telemetry") \in errors)
          /\ \A i \in (step + 1)..Len(Plan) : asked[i] = 0
    /\ pc \in Active => asked[step] = IF pc = "local" \/ (pc = "acquire" /\ attempt = 1) THEN 0 ELSE 1

\* Going on after a step whose call was made, or that is no request.
LEMMA ProceedAsks ==
    ASSUME HonestInv, AskedInv, pc \in {"request", "backoff", "local"}, Name # "record",
           NEW failed, Proceed(failed), UNCHANGED asked
    PROVE  AskedInv'
<1>1. /\ Len(Plan) \in Nat /\ step \in 1..Len(Plan) /\ step # Len(Plan)
  <2>1. Plan[Len(Plan)][1] = "record"
    BY PlanShape DEF Whole
  <2> QED
    BY <2>1, PlanShape DEF HonestInv, Name
<1>2. errors \subseteq errors'
  BY DEF Proceed
<1>3. \/ step' = step + 1
      \/ step' = FlushStep /\ step + 1 = FirstWindow /\ Whole("telemetry") \in errors'
  BY DEF Proceed, GoTo
<1>4. step' \in (step + 1)..Len(Plan) /\ attempt' = 1 /\ pc' \in {"local", "acquire"}
  <2>1. FlushStep = Len(Plan) - 1 /\ FirstWindow <= Len(Plan) - 1 /\ FirstWindow \in Int
    BY PlanLayout DEF FlushStep, FirstWindow
  <2>2. attempt' = 1 /\ pc' \in {"local", "acquire"}
    BY DEF Proceed, GoTo
  <2> QED
    BY <1>1, <1>3, <2>1, <2>2
<1>5. Plan[step] \in Requests => asked[step] = 1
  <2>1. pc = "local" => Plan[step] \notin Requests
    BY LocalsAreNoRequests DEF HonestInv, Active, Name
  <2> QED
    BY <2>1 DEF AskedInv, Active
<1>6. ASSUME NEW i \in 1..(step' - 1), Plan[i] \in Requests
      PROVE  asked[i] = 1 \/ (i >= FirstWindow /\ Whole("telemetry") \in errors')
  <2>1. i \in Int /\ FirstWindow \in Int
    BY PlanLayout DEF FirstWindow
  <2>2. CASE i < step
    <3>1. i \in 1..(step - 1)
      BY <1>1, <2>1, <2>2
    <3> QED
      BY <1>2, <1>6, <3>1 DEF AskedInv, Active
  <2>3. CASE i = step
    BY <1>5, <1>6, <2>3
  <2>4. CASE i > step
    BY <1>1, <1>3, <2>1, <2>4
  <2> QED
    BY <1>1, <2>1, <2>2, <2>3, <2>4
<1>7. \A i \in step'..Len(Plan) : asked[i] = 0
  BY <1>1, <1>4 DEF AskedInv, Active
<1>8. asked[step'] = 0 /\ \A i \in (step' + 1)..Len(Plan) : asked[i] = 0
  <2>1. step' \in Int /\ step' <= Len(Plan)
    BY <1>1, <1>4
  <2>2. step' \in step'..Len(Plan) /\ (step' + 1)..Len(Plan) \subseteq step'..Len(Plan)
    BY <1>1, <2>1
  <2> QED
    BY <1>7, <2>2
<1> QED
  BY <1>4, <1>6, <1>8 DEF AskedInv, Active

\* A request is made when its first attempt is sent, and at no other time.
LEMMA StepAsks ==
    ASSUME HonestInv, AskedInv, TaskTypeOK, [Next]_vars
    PROVE  AskedInv'
<1> USE DEF reportVars
<1>1. CASE StartRun
  <2>1. /\ asked' = NothingAsked /\ step' = 1 /\ pc' = "acquire" /\ attempt' = 1
    BY <1>1 DEF StartRun
  <2>2. Len(Plan) \in Nat /\ Len(Plan) >= 6
    BY PlanShape
  <2>3. asked' \in [1..Len(Plan) -> Nat] /\ \A i \in 1..Len(Plan) : asked'[i] = 0
    BY <2>1 DEF NothingAsked
  <2> QED
    BY <2>1, <2>2, <2>3 DEF AskedInv, Active
<1>2. CASE TokenTaken
  <2>1. /\ pc = "acquire" /\ pc' = "request" /\ UNCHANGED <<step, attempt, errors>>
        /\ asked' = IF attempt = 1 THEN [asked EXCEPT ![step] = @ + 1] ELSE asked
    BY <1>2 DEF TokenTaken
  <2>2. step \in 1..Len(Plan) /\ Len(Plan) \in Nat /\ asked \in [1..Len(Plan) -> Nat]
    BY PlanShape DEF HonestInv, AskedInv
  <2>3. Plan[step] \in Requests
    <3>1. Name \notin Locals
      BY <2>1 DEF HonestInv, Active
    <3>2. \A name \in Locals : Whole(name)[1] = name
      BY DEF Whole
    <3> QED
      BY <2>2, <3>1, <3>2 DEF Requests, Name, Locals
  <2>4. asked'[step] = 1
    BY <2>1, <2>2 DEF AskedInv, Active
  <2>5. \A i \in 1..Len(Plan) : i # step => asked'[i] = asked[i]
    BY <2>1, <2>2
  <2>6. asked' \in [1..Len(Plan) -> Nat]
    <3>1. asked[step] + 1 \in Nat
      BY <2>2
    <3> QED
      BY <2>1, <2>2, <3>1
  <2>7. \A i \in 1..(step - 1) : i \in 1..Len(Plan) /\ i # step
    BY <2>2
  <2>8. \A i \in (step + 1)..Len(Plan) : i \in 1..Len(Plan) /\ i # step
    BY <2>2
  <2> QED
    BY <2>1, <2>3, <2>4, <2>5, <2>6, <2>7, <2>8 DEF AskedInv, Active
<1>3. CASE TokenAwaited \/ Retryable \/ Retries
  <2>1. UNCHANGED <<step, asked, errors>> /\ pc \in Active /\ pc' \in Active
    BY <1>3 DEF TokenAwaited, Retryable, Retries, Active
  <2>2. /\ (pc = "local" \/ (pc = "acquire" /\ attempt = 1))
           <=> (pc' = "local" \/ (pc' = "acquire" /\ attempt' = 1))
    BY <1>3, IngestionAssumption DEF TokenAwaited, Retryable, Retries, TaskTypeOK
  <2> QED
    BY <2>1, <2>2 DEF AskedInv
<1>4. ASSUME Ends("raised") \/ (Ends("returned") /\ Name = "sessions"), UNCHANGED asked
      PROVE  AskedInv'
  <2>1. Plan[Len(Plan)][1] = "record"
    BY PlanShape DEF Whole
  <2>2. pc' \notin Active /\ ~ Recorded'
    BY <1>4, <2>1 DEF Ends, Active, Recorded, Name
  <2> QED
    BY <1>4, <2>2 DEF AskedInv
<1>5. CASE RequestFails
  <2>1. CASE Name = "sessions"
    BY <1>4, <1>5, <2>1 DEF RequestFails, Caught
  <2>2. CASE Name # "sessions"
    <3>1. Proceed({Plan[step]}) /\ UNCHANGED asked /\ pc \in {"request", "backoff"}
      BY <1>5, <2>2 DEF RequestFails, Caught
    <3>2. Name # "record"
      BY <3>1 DEF HonestInv, Active, Locals
    <3> QED
      BY <3>1, <3>2, ProceedAsks
  <2> QED
    BY <2>1, <2>2
<1>6. CASE RequestRaises \/ DatabaseFails \/ Killed \/ SessionUnknown
  BY <1>4, <1>6 DEF RequestRaises, DatabaseFails, Killed, SessionUnknown
<1>7. CASE SessionFound \/ ReferenceStored \/ RecordsPublished \/ NothingPublished
  <2>1. Proceed({}) /\ pc = "request" /\ UNCHANGED asked
    BY <1>7 DEF SessionFound, ReferenceStored, RecordsPublished, NothingPublished
  <2>2. Name # "record"
    BY <2>1 DEF HonestInv, Active, Locals
  <2> QED
    BY <2>1, <2>2, ProceedAsks
<1>8. CASE MetaSent \/ MetaFails \/ Flush
  <2>1. /\ \E failed : Proceed(failed)
        /\ pc = "local" /\ Name # "record" /\ UNCHANGED asked
    BY <1>8 DEF MetaSent, MetaFails, Flush
  <2> QED
    BY <2>1, ProceedAsks
<1>9. CASE Record
  BY <1>9 DEF Record, Ends, Active, AskedInv
<1>10. CASE TimePasses \/ UNCHANGED vars \/ \E channel \in buffered : Settles(channel)
  <2>1. UNCHANGED <<pc, step, attempt, errors, asked>>
    BY <1>10 DEF TimePasses, Settles, vars
  <2> QED
    BY <2>1 DEF AskedInv, Recorded
<1> QED
  BY <1>1, <1>2, <1>3, <1>5, <1>6, <1>7, <1>8, <1>9, <1>10 DEF Next, Works

LEMMA AskedStays == Spec => []AskedInv
<1>1. Init => AskedInv
  <2>1. Init => asked = NothingAsked /\ pc = "idle"
    BY DEF Init
  <2> QED
    BY <2>1 DEF AskedInv, Active, Recorded, NothingAsked
<1>2. HonestInv /\ TaskTypeOK /\ AskedInv /\ [Next]_vars => AskedInv'
  BY StepAsks
<1> QED
  BY <1>1, <1>2, HonestStays, TaskStays, PTL DEF Spec

\* With as many windows as the span takes, max_windows cuts none.
LEMMA AllWindows ==
    ASSUME MaxWindows >= Len(ChunkWindows(SpanStart, SpanEnd)), IncludeTelemetry
    PROVE  Windows = ChunkWindows(SpanStart, SpanEnd)
<1> DEFINE all == ChunkWindows(SpanStart, SpanEnd)
<1>1. all \in Seq(Int \X Int)
  BY ChunksAreSeq
<1> HIDE DEF all
<1>2. Len(all) \in Nat /\ MaxWindows \in Int
  BY <1>1, LenProperties, IngestionAssumption
<1>3. MaxWindows >= Len(all)
  BY DEF all
<1>4. Least(MaxWindows, Len(all)) = Len(all)
  BY <1>2, <1>3 DEF Least
<1>5. SubSeq(all, 1, Len(all)) = all
  BY <1>1, SubSeqFull
<1>6. Windows = SubSeq(all, 1, Least(MaxWindows, Len(all)))
  BY DEF Windows, all
<1> QED
  BY <1>4, <1>5, <1>6 DEF all

\* A recorded run called get() once for each of its requests.
LEMMA AllAsked ==
    ASSUME AskedInv, Recorded, NEW i \in 1..Len(Plan), Plan[i] \in Requests
    PROVE  asked[i] = 1 \/ (i >= FirstWindow /\ Whole("telemetry") \in errors)
<1>1. Len(Plan) \in Nat /\ step = Len(Plan) /\ Plan[Len(Plan)] \notin Requests
  BY PlanShape DEF Recorded, Requests
<1>2. i \in 1..(step - 1)
  BY <1>1
<1> QED
  BY <1>2 DEF AskedInv

\* Where the window k of the channel c stands in the plan.
WindowStep(c, k) == FirstWindow - 1 + IF c = "car_data" THEN 2 * k - 1 ELSE 2 * k

\* Each window has one step for each telemetry channel, and is a request.
LEMMA WindowStepIs ==
    ASSUME NEW c \in {"car_data", "location"}, NEW k \in 1..Len(Windows)
    PROVE  /\ WindowStep(c, k) \in 1..Len(Plan)
           /\ Plan[WindowStep(c, k)] = <<c, Windows[k]>>
           /\ Plan[WindowStep(c, k)] \in Requests
<1> DEFINE j == IF c = "car_data" THEN 2 * k - 1 ELSE 2 * k
           i == FirstWindow - 1 + j
<1>1. /\ Len(Bulk) \in Nat /\ Len(Windows) \in Nat
      /\ Len(Plan) = Len(Bulk) + 2 * Len(Windows) + 6
      /\ FirstWindow = 5 + Len(Bulk)
  BY PlanLayout DEF FirstWindow
<1>2. j \in 1..(2 * Len(Windows)) /\ (j + 1) \div 2 = k
  BY <1>1
<1>3. c = IF j % 2 = 1 THEN "car_data" ELSE "location"
  BY <1>1
<1>4. i = WindowStep(c, k)
  BY DEF WindowStep
<1> HIDE DEF j
<1>5. i \in 1..Len(Plan)
  BY <1>1, <1>2
<1>6. Plan[i] = <<c, Windows[k]>>
  <2>1. Plan[i] = WindowSteps[j]
    BY <1>2, PlanLayout
  <2>2. WindowSteps[j] = <<IF j % 2 = 1 THEN "car_data" ELSE "location", Windows[(j + 1) \div 2]>>
    BY <1>2 DEF WindowSteps
  <2> QED
    BY <1>2, <1>3, <2>1, <2>2
<1>7. Plan[i] \in Requests
  <2>1. \A name \in {"session_meta", "flush", "record"} : Whole(name)[1] = name
    BY DEF Whole
  <2>2. Plan[i][1] \notin {"session_meta", "flush", "record"}
    BY <1>6
  <2> QED
    BY <1>5, <2>1, <2>2 DEF Requests
<1> QED
  BY <1>4, <1>5, <1>6, <1>7

\* A step of a telemetry channel is that of one of its windows.
LEMMA OnlyWindows ==
    ASSUME NEW c \in {"car_data", "location"}, NEW i \in 1..Len(Plan), Plan[i][1] = c
    PROVE  \E k \in 1..Len(Windows) : i = WindowStep(c, k)
<1>1. /\ Len(Bulk) \in Nat /\ Len(Windows) \in Nat
      /\ Len(Plan) = Len(Bulk) + 2 * Len(Windows) + 6
      /\ FirstWindow = 5 + Len(Bulk)
  BY PlanLayout DEF FirstWindow
<1>2. i >= FirstWindow
  <2> SUFFICES ASSUME i < FirstWindow PROVE FALSE
    BY <1>1
  <2>1. i \in 1..(FirstWindow - 1)
    BY <1>1
  <2> QED
    BY <2>1, PlanLayout
<1>3. i \notin {Len(Plan) - 1, Len(Plan)}
  BY PlanShape DEF Whole
<1> DEFINE j == i - (FirstWindow - 1)
           k == (j + 1) \div 2
<1>4. j \in 1..(2 * Len(Windows)) /\ k \in 1..Len(Windows) /\ FirstWindow - 1 + j = i
  BY <1>1, <1>2, <1>3
<1>5. Plan[i] = WindowSteps[j]
  BY <1>4, PlanLayout
<1>6. WindowSteps[j][1] = IF j % 2 = 1 THEN "car_data" ELSE "location"
  BY <1>4 DEF WindowSteps
<1>7. j = IF c = "car_data" THEN 2 * k - 1 ELSE 2 * k
  BY <1>4, <1>5, <1>6
<1> HIDE DEF j, k
<1>8. i = WindowStep(c, k)
  BY <1>1, <1>4, <1>7 DEF WindowStep
<1> QED
  BY <1>4, <1>8

\* The calls that ask for t are those for the windows around it.
LEMMA AskingIs ==
    ASSUME AskedInv, Recorded, Whole("telemetry") \notin errors, IncludeTelemetry,
           MaxWindows >= Len(ChunkWindows(SpanStart, SpanEnd)),
           NEW c \in {"car_data", "location"}, NEW t \in SpanStart..SpanEnd
    PROVE  Asking(c, t) = {WindowStep(c, k) : k \in Around(t)}
<1>1. Windows = ChunkWindows(SpanStart, SpanEnd)
  BY AllWindows
<1>2. Around(t) = {k \in 1..Len(Windows) : Windows[k][1] <= t /\ t <= Windows[k][2]}
  BY <1>1 DEF Around
<1>3. ASSUME NEW i \in Asking(c, t)
      PROVE  i \in {WindowStep(c, k) : k \in Around(t)}
  <2>1. i \in 1..Len(Plan) /\ Plan[i][1] = c /\ Plan[i][2][1] <= t /\ t <= Plan[i][2][2]
    BY DEF Asking
  <2>2. PICK k \in 1..Len(Windows) : i = WindowStep(c, k)
    BY <2>1, OnlyWindows
  <2>3. Plan[i] = <<c, Windows[k]>>
    BY <2>2, WindowStepIs
  <2> QED
    BY <1>2, <2>1, <2>2, <2>3
<1>4. ASSUME NEW k \in Around(t)
      PROVE  WindowStep(c, k) \in Asking(c, t)
  <2>1. k \in 1..Len(Windows) /\ Windows[k][1] <= t /\ t <= Windows[k][2]
    BY <1>2
  <2>2. /\ WindowStep(c, k) \in 1..Len(Plan)
        /\ Plan[WindowStep(c, k)] = <<c, Windows[k]>>
        /\ Plan[WindowStep(c, k)] \in Requests
    BY <2>1, WindowStepIs
  <2>3. asked[WindowStep(c, k)] = 1
    BY <2>2, AllAsked
  <2> QED
    BY <2>1, <2>2, <2>3 DEF Asking
<1> QED
  BY <1>3, <1>4

\* NothingSkipped: whatever fails on the way, a run that records its outcome has
\* called get() once for each of its requests, or says that it asked for no
\* window; inside a window every instant was asked for by one call on each
\* telemetry channel, and where two windows meet by both, for every session and
\* window size, unless --max-windows cut the session short.
THEOREM EveryInstantAsked ==
    MaxWindows >= Len(ChunkWindows(SpanStart, SpanEnd)) => (Spec => []NothingSkipped)
<1> SUFFICES ASSUME MaxWindows >= Len(ChunkWindows(SpanStart, SpanEnd))
             PROVE  Spec => []NothingSkipped
  OBVIOUS
<1>1. AskedInv => NothingSkipped
  <2> SUFFICES ASSUME AskedInv, Recorded
               PROVE  NothingSkipped
    BY DEF NothingSkipped
  <2>1. \A i \in 1..Len(Plan) : Plan[i] \in Requests =>
           asked[i] = 1 \/ (i >= FirstWindow /\ Whole("telemetry") \in errors)
    BY AllAsked
  <2>2. ASSUME IncludeTelemetry, Whole("telemetry") \notin errors, SpanStart < SpanEnd,
               NEW c \in {"car_data", "location"}, NEW t \in SpanStart..SpanEnd
        PROVE  Cardinality(Asking(c, t)) = IF t \in Edges \ {SpanStart, SpanEnd} THEN 2 ELSE 1
    <3>1. Asking(c, t) = {WindowStep(c, k) : k \in Around(t)}
      BY <2>2, AskingIs
    <3>2. CASE t \in Edges \ {SpanStart, SpanEnd}
      <4>1. PICK j \in Nat \ {0} : Around(t) = {j, j + 1}
        BY <2>2, <3>2, ChunksMeet
      <4>2. Asking(c, t) = {WindowStep(c, j)} \union {WindowStep(c, j + 1)}
        BY <3>1, <4>1
      <4>3. WindowStep(c, j) # WindowStep(c, j + 1)
        <5>1. FirstWindow \in Int
          BY PlanLayout DEF FirstWindow
        <5> QED
          BY <5>1 DEF WindowStep
      <4> HIDE DEF WindowStep
      <4>4. Cardinality({WindowStep(c, j)}) = 1 /\ IsFiniteSet({WindowStep(c, j)})
        BY FS_Singleton
      <4>5. Cardinality({WindowStep(c, j)} \union {WindowStep(c, j + 1)}) = 1 + 1
        BY <4>3, <4>4, FS_AddElement
      <4> QED
        BY <3>2, <4>2, <4>5
    <3>3. CASE t \notin Edges \ {SpanStart, SpanEnd}
      <4>1. PICK j \in Nat \ {0} : Around(t) = {j}
        BY <2>2, <3>3, ChunksMeet
      <4>2. Asking(c, t) = {WindowStep(c, j)}
        BY <3>1, <4>1
      <4>3. Cardinality(Asking(c, t)) = 1
        BY <4>2, FS_Singleton
      <4> QED
        BY <3>3, <4>3
    <3> QED
      BY <3>2, <3>3
  <2> QED
    BY <2>1, <2>2 DEF NothingSkipped
<1> QED
  BY <1>1, AskedStays, PTL

=============================================================================
