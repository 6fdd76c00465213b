-------------------------- MODULE LiveStreamProofs --------------------------
(***************************************************************************)
(* The live stream, for any number of sockets, clients and sessions and    *)
(* any size of the queues.  The hook: an open page always has a socket, a  *)
(* socket that is about to report its end, or a timer.  The hub: queues    *)
(* and filters within their bounds, and no client forgotten, whatever its  *)
(* queue drops.                                                            *)
(***************************************************************************)
EXTENDS LiveStream, SequenceTheorems, FiniteSetTheorems, WellFoundedInduction, TLAPS

-----------------------------------------------------------------------------
(* The hook *)

ReadyStates == {"none", "connecting", "open", "closing", "closed"}

HookInv ==
    /\ ready \in [Sockets -> ReadyStates]
    /\ ref \in Sockets \union {0}
    /\ NeverStranded

\* connect() leaves a socket behind unless the page is closed.
LEMMA ConnectHolds ==
    ASSUME NEW states \in [Sockets -> ReadyStates], NEW current \in Sockets \union {0},
           \A c \in Unmade : states[c] = "none",
           Connect(states, current), shouldRun' = shouldRun
    PROVE  HookInv'
<1>1. CASE ~ shouldRun
  BY <1>1 DEF Connect, HookInv, NeverStranded
<1>2. CASE shouldRun /\ current # 0 /\ states[current] \in {"connecting", "open"}
  BY <1>2 DEF Connect, HookInv, NeverStranded
<1>3. CASE shouldRun /\ ~ (current # 0 /\ states[current] \in {"connecting", "open"})
  <2>1. PICK c \in Unmade : ready' = [states EXCEPT ![c] = "connecting"] /\ ref' = c
    BY <1>3 DEF Connect
  <2>2. c \in Sockets /\ ready' \in [Sockets -> ReadyStates] /\ ready'[c] = "connecting"
    BY <2>1 DEF Unmade, ReadyStates
  <2> QED
    BY <2>1, <2>2 DEF HookInv, NeverStranded
<1> QED
  BY <1>1, <1>2, <1>3

\* The page opens with a socket that is connecting.
LEMMA InitHolds == Init => HookInv
<1> SUFFICES ASSUME Init
             PROVE  HookInv
  OBVIOUS
<1>1. 1 \in Sockets /\ (MaxSockets > 1 => 2 \in Sockets)
  BY StreamAssumption DEF Sockets
<1>2. /\ ready \in [Sockets -> ReadyStates]
      /\ ref \in Sockets /\ ready[ref] = "connecting"
  BY <1>1 DEF Init, ReadyStates
<1> QED
  BY <1>2 DEF HookInv, NeverStranded

\* A step that leaves the sockets, the timer and the page alone.
LEMMA FrameHolds ==
    HookInv /\ UNCHANGED <<ready, ref, timer, shouldRun>> => HookInv'
BY DEF HookInv, NeverStranded

\* Every step keeps the invariant.
LEMMA StepHolds == HookInv /\ [Next]_vars => HookInv'
<1> SUFFICES ASSUME HookInv, [Next]_vars
             PROVE  HookInv'
  OBVIOUS
<1>1. CASE Consumes \/ Ticks
  BY <1>1, FrameHolds DEF Consumes, Ticks, hookVars
<1>2. ASSUME NEW c \in Clients, Handler(c)
      PROVE  HookInv'
  BY <1>2, FrameHolds DEF Handler, Handles, Raised, Replies, Drops, hookVars
<1>3. ASSUME NEW c \in Sockets, Sender(c)
      PROVE  HookInv'
  BY <1>3, FrameHolds DEF Sender, Takes, Sends, hookVars
<1>4. ASSUME NEW c \in Sockets, Opens(c)
      PROVE  HookInv'
  BY <1>4 DEF Opens, HookInv, NeverStranded, ReadyStates
<1>5. ASSUME NEW c \in Sockets, OnClose(c)
      PROVE  HookInv'
  BY <1>5 DEF OnClose, HookInv, NeverStranded, ReadyStates
<1>6. CASE Rerenders \/ Ages
  BY <1>6, FrameHolds DEF Rerenders, Ages, hookVars
<1>7. CASE TimerFires
  <2>1. \A c \in Unmade : ready[c] = "none"
    BY DEF Unmade
  <2> QED
    BY <1>7, <2>1, ConnectHolds DEF TimerFires, HookInv
<1>8. CASE ReconnectNow
  <2>1. Closing(ref) \in [Sockets -> ReadyStates]
    BY DEF Closing, HookInv, ReadyStates
  <2>2. \A c \in Unmade : Closing(ref)[c] = "none"
    BY DEF Closing, Unmade, Live, HookInv
  <2> QED
    BY <1>8, <2>1, <2>2, ConnectHolds DEF ReconnectNow, HookInv
<1>9. CASE Unmount \/ Crashes
  BY <1>9 DEF Unmount, Crashes, Cleanup, HookInv, NeverStranded, Closing, ReadyStates
<1>10. CASE Accidents
  BY <1>10, FrameHolds DEF Accidents, Breaks, Restarts, hookVars
<1>11. CASE UNCHANGED vars
  BY <1>11, FrameHolds DEF vars, hookVars
<1> QED
  BY <1>1, <1>2, <1>3, <1>4, <1>5, <1>6, <1>7, <1>8, <1>9, <1>10, <1>11
     DEF Next, Socket, Hook

\* NeverStranded (useLiveStream.ts:84, 246-248): however sockets break, close
\* late and are replaced by hand, an open page never waits for nothing.
THEOREM NeverLeftStranded == Spec => []NeverStranded
<1>1. HookInv => NeverStranded
  BY DEF HookInv
<1> QED
  BY <1>1, InitHolds, StepHolds, PTL DEF Spec

-----------------------------------------------------------------------------
(* Induction *)

\* Every set of natural numbers that has a member has a least one.
LEMMA LeastNatural ==
    ASSUME NEW T \in SUBSET Nat, T # {}
    PROVE  \E m \in T : \A k \in T : m <= k
<1> DEFINE R == OpToRel(<, Nat)
<1>1. IsWellFoundedOn(R, Nat)
  BY NatLessThanWellFounded
<1>2. R = {pair \in Nat \X Nat : pair[1] < pair[2]}
  BY DEF OpToRel
<1> HIDE DEF R
<1>3. PICK m \in T : \A k \in T : ~ (<<k, m>> \in R)
  BY <1>1, WFMin
<1>4. \A k \in T : m <= k
  <2> SUFFICES ASSUME NEW k \in T, k < m
               PROVE  FALSE
    OBVIOUS
  <2>1. <<k, m>> \in Nat \X Nat /\ <<k, m>>[1] < <<k, m>>[2]
    OBVIOUS
  <2> QED
    BY <1>2, <1>3, <2>1
<1> QED
  BY <1>4

\* Induction up to n: a set with 0 and with the successor of each of its
\* numbers below n has them all.
LEMMA UpTo ==
    ASSUME NEW n \in Nat, NEW T, 0 \in T,
           \A i \in 0..(n - 1) : i \in T => i + 1 \in T
    PROVE  \A i \in 0..n : i \in T
<1> DEFINE Out == {i \in 0..n : i \notin T}
<1> SUFFICES ASSUME Out # {}
             PROVE  FALSE
  OBVIOUS
<1>1. PICK m \in Out : \A k \in Out : m <= k
  <2>1. Out \in SUBSET Nat
    OBVIOUS
  <2> HIDE DEF Out
  <2> QED
    BY <2>1, LeastNatural
<1>2. m \in 1..n /\ m \notin T
  BY <1>1
<1>3. m - 1 \in 0..n /\ m - 1 \notin Out
  BY <1>1, <1>2
<1>4. m - 1 \in T /\ m - 1 \in 0..(n - 1) /\ (m - 1) + 1 = m
  BY <1>2, <1>3
<1> QED
  BY <1>2, <1>4

-----------------------------------------------------------------------------
(* The queue of a connection *)

After(queue, offer) == IF offer = <<>> THEN queue ELSE Enqueue(queue, offer[1])

\* EnqueueAll is what its steps leave, one offer after the other.
LEMMA OneByOne ==
    ASSUME NEW queue, NEW offers, Len(offers) \in Nat
    PROVE  \E after : /\ after[0] = queue
                      /\ \A i \in 1..Len(offers) : after[i] = After(after[i - 1], offers[i])
                      /\ EnqueueAll(queue, offers) = after[Len(offers)]
<1> DEFINE n == Len(offers)
           Body(g) == [i \in 0..n |->
                         IF i = 0 THEN queue
                         ELSE IF offers[i] = <<>> THEN g[i - 1]
                         ELSE Enqueue(g[i - 1], offers[i][1])]
           all == CHOOSE g : g = Body(g)
           Upto(m) == \E g : /\ g[0] = queue
                             /\ \A i \in 1..m : g[i] = After(g[i - 1], offers[i])
           T == {m \in Nat : Upto(m)}
<1>1. 0 \in T
  <2> DEFINE g == [i \in {0} |-> queue]
  <2>1. g[0] = queue /\ \A i \in 1..0 : g[i] = After(g[i - 1], offers[i])
    OBVIOUS
  <2> HIDE DEF g
  <2> QED
    BY <2>1
<1>2. ASSUME NEW m \in 0..(n - 1), m \in T
      PROVE  m + 1 \in T
  <2>1. PICK g : g[0] = queue /\ \A i \in 1..m : g[i] = After(g[i - 1], offers[i])
    BY <1>2
  <2> DEFINE h == [i \in 0..(m + 1) |-> IF i <= m THEN g[i] ELSE After(g[m], offers[m + 1])]
  <2>2. h[0] = queue
    BY <1>2, <2>1
  <2>3. ASSUME NEW i \in 1..(m + 1)
        PROVE  h[i] = After(h[i - 1], offers[i])
    <3>1. m \in Nat /\ i - 1 \in 0..(m + 1) /\ i \in 0..(m + 1) /\ i - 1 <= m
      BY <1>2
    <3>2. h[i - 1] = g[i - 1]
      BY <3>1
    <3>3. CASE i <= m
      <4>1. i \in 1..m /\ h[i] = g[i]
        BY <3>1, <3>3
      <4> QED
        BY <2>1, <3>2, <4>1
    <3>4. CASE i = m + 1
      <4>1. h[i] = After(g[m], offers[m + 1]) /\ i - 1 = m
        BY <3>1, <3>4
      <4> QED
        BY <3>2, <3>4, <4>1
    <3> QED
      BY <3>1, <3>3, <3>4
  <2>4. \A i \in 1..(m + 1) : h[i] = After(h[i - 1], offers[i])
    BY <2>3
  <2>5. m + 1 \in Nat
    BY <1>2
  <2> HIDE DEF h
  <2> QED
    BY <2>2, <2>4, <2>5
<1>3. n \in T
  <2> HIDE DEF T
  <2>1. \A i \in 0..n : i \in T
    BY <1>1, <1>2, UpTo
  <2> QED
    BY <2>1
<1>4. PICK g : g[0] = queue /\ \A i \in 1..n : g[i] = After(g[i - 1], offers[i])
  BY <1>3
<1>5. \E f : f = Body(f)
  <2> DEFINE f == [i \in 0..n |-> g[i]]
  <2>1. ASSUME NEW i \in 0..n
        PROVE  g[i] = IF i = 0 THEN queue
                      ELSE IF offers[i] = <<>> THEN f[i - 1]
                      ELSE Enqueue(f[i - 1], offers[i][1])
    <3>1. CASE i = 0
      BY <1>4, <3>1
    <3>2. CASE i # 0
      <4>1. i \in 1..n /\ i - 1 \in 0..n
        BY <3>2
      <4>2. f[i - 1] = g[i - 1]
        BY <4>1
      <4> QED
        BY <1>4, <3>2, <4>1, <4>2 DEF After
    <3> QED
      BY <3>1, <3>2
  <2>2. f = Body(f)
    BY <2>1, Zenon
  <2> QED
    BY <2>2
<1>6. all = Body(all)
  <2> HIDE DEF Body
  <2> QED
    BY <1>5
<1>7. EnqueueAll(queue, offers) = all[n]
  BY DEF EnqueueAll
<1> HIDE DEF all
<1>8. \A i \in 0..n : all[i] = IF i = 0 THEN queue
                               ELSE IF offers[i] = <<>> THEN all[i - 1]
                               ELSE Enqueue(all[i - 1], offers[i][1])
  <2>1. \A f : f = Body(f) => \A i \in 0..n : f[i] = Body(f)[i]
    OBVIOUS
  <2> QED
    BY <1>6, Zenon
<1>9. all[0] = queue /\ \A i \in 1..n : all[i] = After(all[i - 1], offers[i])
  BY <1>8 DEF After
<1> QED
  BY <1>7, <1>9

\* What a fanout may offer.
Offers == Seq({<<>>} \union {<<f>> : f \in Frames})

Queues == {q \in Seq(Frames) : Len(q) <= QueueSize}

\* Connection.enqueue keeps the bound, and the frame it is given.
LEMMA EnqueueKeeps ==
    ASSUME NEW q \in Queues, NEW f \in Frames
    PROVE  /\ Enqueue(q, f) \in Queues
           /\ f \in ToSet(Enqueue(q, f))
<1> DEFINE rest == IF Len(q) < QueueSize THEN q ELSE Tail(q)
<1> HIDE DEF Frames
<1>1. QueueSize \in Nat \ {0} /\ q \in Seq(Frames) /\ Len(q) \in Nat /\ Len(q) <= QueueSize
  BY HubAssumption, LenProperties DEF Queues
<1>2. rest \in Seq(Frames) /\ Len(rest) \in Nat /\ Len(rest) < QueueSize
  <2>1. CASE Len(q) < QueueSize
    BY <1>1, <2>1
  <2>2. CASE ~ (Len(q) < QueueSize)
    <3>1. q # <<>>
      BY <1>1, <2>2, EmptySeq
    <3>2. Tail(q) \in Seq(Frames) /\ Len(Tail(q)) = Len(q) - 1
      BY <1>1, <3>1, HeadTailProperties
    <3> QED
      BY <1>1, <2>2, <3>2
  <2> QED
    BY <2>1, <2>2
<1>3. Enqueue(q, f) = Append(rest, f)
  BY DEF Enqueue
<1> HIDE DEF rest
<1>4. /\ Append(rest, f) \in Seq(Frames)
      /\ Len(Append(rest, f)) = Len(rest) + 1
      /\ Append(rest, f)[Len(rest) + 1] = f
  BY <1>2, AppendProperties
<1>5. f \in ToSet(Append(rest, f))
  <2>1. DOMAIN Append(rest, f) = 1..(Len(rest) + 1)
    BY <1>4, LenProperties
  <2>2. Len(rest) + 1 \in 1..(Len(rest) + 1)
    BY <1>2
  <2> QED
    BY <1>4, <2>1, <2>2 DEF ToSet
<1> QED
  BY <1>1, <1>2, <1>3, <1>4, <1>5 DEF Queues

\* Every step of a fanout keeps the bound of a queue.
LEMMA StepsBounded ==
    ASSUME NEW q \in Queues, NEW offers \in Offers, NEW after, after[0] = q,
           \A i \in 1..Len(offers) : after[i] = After(after[i - 1], offers[i])
    PROVE  \A i \in 0..Len(offers) : after[i] \in Queues
<1> DEFINE n == Len(offers)
           T == {i \in Nat : after[i] \in Queues}
<1>1. n \in Nat /\ \A i \in 1..n : offers[i] \in {<<>>} \union {<<f>> : f \in Frames}
  BY LenProperties, ElementOfSeq DEF Offers
<1>2. ASSUME NEW i \in 0..(n - 1), i \in T
      PROVE  i + 1 \in T
  <2>1. i + 1 \in 1..n /\ (i + 1) - 1 = i
    BY <1>1
  <2>2. after[i + 1] = After(after[i], offers[i + 1])
    BY <2>1
  <2>3. CASE offers[i + 1] = <<>>
    BY <1>2, <2>1, <2>2, <2>3 DEF After
  <2>4. CASE offers[i + 1] # <<>>
    <3>1. PICK f \in Frames : offers[i + 1] = <<f>>
      BY <1>1, <2>1, <2>4
    <3>2. after[i + 1] = Enqueue(after[i], f)
      BY <2>2, <2>4, <3>1 DEF After
    <3> QED
      BY <1>2, <2>1, <3>2, EnqueueKeeps
  <2> QED
    BY <2>3, <2>4
<1>3. 0 \in T
  OBVIOUS
<1> HIDE DEF T
<1>4. \A i \in 0..n : i \in T
  BY <1>1, <1>2, <1>3, UpTo
<1> QED
  BY <1>4 DEF T

\* A fanout keeps the bound of a queue, however much it offers.
LEMMA FanoutBounded ==
    ASSUME NEW q \in Queues, NEW offers \in Offers
    PROVE  EnqueueAll(q, offers) \in Queues
<1>1. Len(offers) \in Nat /\ Len(offers) \in 0..Len(offers)
  BY LenProperties DEF Offers
<1> QED
  BY <1>1, OneByOne, StepsBounded

\* A frame with nothing offered after it is in the queue the fanout leaves.
LEMMA LastOfferStays ==
    ASSUME NEW q \in Queues, NEW offers \in Offers, NEW f \in Frames,
           NEW k \in 1..Len(offers), offers[k] = <<f>>,
           \A i \in (k + 1)..Len(offers) : offers[i] = <<>>
    PROVE  f \in ToSet(EnqueueAll(q, offers))
<1> DEFINE n == Len(offers)
<1>1. n \in Nat /\ k \in 1..n
  BY LenProperties DEF Offers
<1>2. PICK after : /\ after[0] = q
                   /\ \A i \in 1..n : after[i] = After(after[i - 1], offers[i])
                   /\ EnqueueAll(q, offers) = after[n]
  BY <1>1, OneByOne
<1> DEFINE T == {i \in Nat : i < k \/ (i > k /\ after[i] = after[k]) \/ i = k}
<1>3. ASSUME NEW i \in 0..(n - 1), i \in T
      PROVE  i + 1 \in T
  <2>1. i + 1 \in 1..n /\ (i + 1) - 1 = i /\ i \in Nat /\ i + 1 \in Nat
    BY <1>1
  <2>2. CASE i < k
    BY <1>1, <2>1, <2>2
  <2>3. CASE i >= k
    <3>1. offers[i + 1] = <<>>
      BY <1>1, <2>1, <2>3
    <3>2. after[i + 1] = after[i]
      BY <1>2, <2>1, <3>1 DEF After
    <3> QED
      BY <1>1, <1>3, <2>1, <2>3, <3>2
  <2> QED
    BY <1>1, <2>1, <2>2, <2>3
<1>4. 0 \in T
  BY <1>1
<1> HIDE DEF T
<1>5. n \in T
  <2>1. \A i \in 0..n : i \in T
    BY <1>1, <1>3, <1>4, UpTo
  <2> QED
    BY <1>1, <2>1
<1>6. after[n] = after[k]
  BY <1>1, <1>5 DEF T
<1>7. after[k] = Enqueue(after[k - 1], f)
  <2>1. after[k] = After(after[k - 1], <<f>>)
    BY <1>1, <1>2
  <2> QED
    BY <2>1 DEF After
<1>8. after[k - 1] \in Queues
  BY <1>1, <1>2, StepsBounded
<1> QED
  BY <1>2, <1>6, <1>7, <1>8, EnqueueKeeps

\* A queue that is offered nothing stays as it is.
LEMMA NoOfferNoChange ==
    ASSUME NEW q, NEW offers, Len(offers) \in Nat,
           \A i \in 1..Len(offers) : offers[i] = <<>>
    PROVE  EnqueueAll(q, offers) = q
<1> DEFINE n == Len(offers)
<1>1. PICK after : /\ after[0] = q
                   /\ \A i \in 1..n : after[i] = After(after[i - 1], offers[i])
                   /\ EnqueueAll(q, offers) = after[n]
  BY OneByOne
<1> DEFINE T == {i \in Nat : after[i] = q}
<1>2. ASSUME NEW i \in 0..(n - 1), i \in T
      PROVE  i + 1 \in T
  <2>1. i + 1 \in 1..n /\ (i + 1) - 1 = i
    OBVIOUS
  <2> QED
    BY <1>1, <1>2, <2>1 DEF After
<1>3. 0 \in T
  BY <1>1
<1> HIDE DEF T
<1>4. n \in T
  <2>1. \A i \in 0..n : i \in T
    BY <1>2, <1>3, UpTo
  <2> QED
    BY <2>1
<1> QED
  BY <1>1, <1>4 DEF T

-----------------------------------------------------------------------------
(* Types *)

Tasks == {"none", "receive", "reply", "gone"}
Told  == {"never", "old", "newest"}

\* A connection within its bounds.
ConnectionOK(x) ==
    /\ x \in Connections
    /\ Cardinality(x.drivers) <= MaxDrivers
    /\ Len(x.queue) <= QueueSize
    /\ Len(x.held) <= 1

\* What a snapshot reports never exceeds what has arrived.
HubInv ==
    /\ HubTypeOK
    /\ IsFiniteSet(dirty)
    /\ \A s \in Sessions : version[s] <= arrived

LEMMA Framed ==
    ASSUME NEW s \in Sessions
    PROVE  /\ EventFrame(s) \in Frames
           /\ \A v \in 0..MaxEvents : Snapshot(s, v) \in Frames
BY DEF Frames

\* A field is empty or holds one value.
LEMMA FieldValue ==
    ASSUME NEW S, NEW x \in Field(S)
    PROVE  x = <<>> \/ x[1] \in S
<1>1. x \in Seq(S) /\ Len(x) \in Nat
  BY LenProperties DEF Field
<1>2. CASE x # <<>>
  <2>1. 1 \in 1..Len(x)
    BY <1>1, <1>2, EmptySeq
  <2> QED
    BY <1>1, <2>1, ElementOfSeq
<1> QED
  BY <1>2

\* Fresh and closed connections.
LEMMA NewConnections == ConnectionOK(Absent) /\ ConnectionOK(Fresh) /\ ConnectionOK(Gone)
<1>1. <<>> \in Seq(Frames) /\ Len(<<>>) = 0
  BY EmptySeq
<1>2. Cardinality({}) = 0
  BY FS_EmptySet
<1>3. MaxDrivers \in Nat /\ QueueSize \in Nat
  BY HubAssumption
<1>4. ASSUME NEW task \in Tasks, NEW channels \in SUBSET Channels
      PROVE  ConnectionOK([task |-> task, session |-> 0, told |-> "never", channels |-> channels,
                           drivers |-> {}, queue |-> <<>>, held |-> <<>>])
  BY <1>1, <1>2, <1>3 DEF ConnectionOK, Connections, Tasks
<1>5. ConnectionOK(Absent)
  BY <1>4 DEF Absent, Tasks
<1>6. ConnectionOK(Gone)
  <2>1. Gone = [task |-> "gone", session |-> 0, told |-> "never", channels |-> {},
                drivers |-> {}, queue |-> <<>>, held |-> <<>>]
    <3>1. Gone = [Absent EXCEPT !.task = "gone"]
      BY DEF Gone
    <3> QED
      BY <3>1 DEF Absent
  <2> QED
    BY <1>4, <2>1 DEF Tasks
<1>7. ConnectionOK(Fresh)
  <2> DEFINE channels == {"timing", "session", "race_control"} \intersect Channels
  <2>1. channels \in SUBSET Channels
    OBVIOUS
  <2>2. Fresh = [Absent EXCEPT !.task = "receive", !.channels = channels]
    BY DEF Fresh
  <2> HIDE DEF channels
  <2>3. Fresh = [task |-> "receive", session |-> 0, told |-> "never", channels |-> channels,
                 drivers |-> {}, queue |-> <<>>, held |-> <<>>]
    BY <2>2 DEF Absent
  <2> QED
    BY <1>4, <2>1, <2>3 DEF Tasks
<1> QED
  BY <1>5, <1>6, <1>7

\* What a subscribe leaves of a connection, wherever it is refused.
LEMMA SubscribedOK ==
    ASSUME NEW x, ConnectionOK(x), NEW m \in Messages, m.type = "subscribe"
    PROVE  ConnectionOK(Subscribed(x, m))
<1> DEFINE session == Given(m.session, x.session)
           follows == [x EXCEPT !.session = session,
                                !.told = IF session = x.session THEN @ ELSE "never"]
           chosen  == [follows EXCEPT !.channels = Given(m.channels, @)]
           done    == [chosen EXCEPT !.drivers = Given(m.drivers, @), !.task = "reply"]
<1>1. /\ m.session \in Field(Sessions \union {n \in Int : n <= 0})
      /\ m.channels \in Field(SUBSET STRING) /\ m.drivers \in Field({D \in SUBSET Int : IsFiniteSet(D)})
  BY DEF Messages
<1>2. /\ m.session = <<>> \/ m.session[1] \in Sessions \union {n \in Int : n <= 0}
      /\ m.drivers = <<>> \/ m.drivers[1] \in {D \in SUBSET Int : IsFiniteSet(D)}
  BY <1>1, FieldValue
<1>3. x = [task |-> x.task, session |-> x.session, told |-> x.told, channels |-> x.channels,
           drivers |-> x.drivers, queue |-> x.queue, held |-> x.held]
  BY DEF ConnectionOK, Connections
<1>4. ~ SessionRefused(m) => ConnectionOK(follows)
  <2> SUFFICES ASSUME ~ SessionRefused(m)
               PROVE  ConnectionOK(follows)
    OBVIOUS
  <2>1. session \in Sessions \union {0}
    BY <1>2 DEF SessionRefused, Given, ConnectionOK, Connections
  <2> HIDE DEF session
  <2> QED
    BY <2>1 DEF ConnectionOK, Connections
<1> HIDE DEF follows
<1>5. ConnectionOK(follows) /\ ~ ChannelsRefused(m) => ConnectionOK(chosen)
  BY DEF ChannelsRefused, ConnectionOK, Connections, Given
<1> HIDE DEF chosen
<1>6. ConnectionOK(chosen) /\ ~ DriversRefused(m) => ConnectionOK(done)
  <2> SUFFICES ASSUME ConnectionOK(chosen), ~ DriversRefused(m)
               PROVE  ConnectionOK(done)
    OBVIOUS
  <2> DEFINE drivers == Given(m.drivers, chosen.drivers)
  <2>1. drivers \in SUBSET Int /\ Cardinality(drivers) <= MaxDrivers
    <3>1. CASE m.drivers = <<>>
      BY <3>1 DEF Given, ConnectionOK, Connections
    <3>2. CASE m.drivers # <<>>
      <4>1. drivers = m.drivers[1] /\ drivers \in SUBSET Int /\ IsFiniteSet(drivers)
        BY <1>2, <3>2 DEF Given
      <4> HIDE DEF drivers
      <4>2. Cardinality(drivers) \in Nat /\ MaxDrivers \in Nat
        BY <4>1, FS_CardinalityType, HubAssumption
      <4> QED
        BY <3>2, <4>1, <4>2 DEF DriversRefused
    <3> QED
      BY <3>1, <3>2
  <2> HIDE DEF drivers
  <2>2. done = [chosen EXCEPT !.drivers = drivers, !.task = "reply"]
    BY DEF drivers
  <2> QED
    BY <2>1, <2>2 DEF ConnectionOK, Connections
<1>7. Subscribed(x, m) = IF SessionRefused(m) THEN x
                         ELSE IF ChannelsRefused(m) THEN follows
                         ELSE IF DriversRefused(m) THEN chosen
                         ELSE done
  BY DEF Subscribed, follows, chosen
<1> QED
  BY <1>4, <1>5, <1>6, <1>7

\* A fanout keeps every connection within its bounds.
LEMMA OfferOK ==
    ASSUME \A c \in Clients : ConnectionOK(conn[c]), NEW offers, NEW changed,
           \A c \in Clients : offers[c] \in Offers,
           Offer(offers, changed)
    PROVE  /\ DOMAIN conn' = Clients
           /\ \A c \in Clients : ConnectionOK(conn'[c])
<1>1. DOMAIN conn' = Clients
  BY DEF Offer
<1>2. ASSUME NEW c \in Clients
      PROVE  ConnectionOK(conn'[c])
  <2>1. CASE c \notin Registered
    BY <2>1 DEF Offer
  <2>2. CASE c \in Registered
    <3> DEFINE queue == EnqueueAll(conn[c].queue, offers[c])
               told  == IF conn[c].told = "newest" /\ conn[c].session \in changed
                        THEN "old" ELSE conn[c].told
    <3>1. conn'[c] = [conn[c] EXCEPT !.queue = queue, !.told = told]
      BY <2>2 DEF Offer
    <3>2. conn[c].queue \in Queues
      BY DEF ConnectionOK, Connections, Queues
    <3>3. queue \in Queues
      BY <3>2, FanoutBounded
    <3>4. told \in {"never", "old", "newest"}
      BY DEF ConnectionOK, Connections
    <3> HIDE DEF queue, told
    <3> QED
      BY <3>1, <3>3, <3>4 DEF ConnectionOK, Connections, Queues
  <2> QED
    BY <2>1, <2>2
<1> QED
  BY <1>1, <1>2

\* How many of a batch's events are of one session.
LEMMA Counted ==
    ASSUME NEW n \in Nat, NEW batch \in [1..n -> Events], NEW s
    PROVE  Cardinality({i \in DOMAIN batch : batch[i].session = s}) \in 0..n
<1>1. IsFiniteSet(1..n) /\ Cardinality(1..n) = n
  BY FS_Interval
<1>2. {i \in DOMAIN batch : batch[i].session = s} \in SUBSET (1..n)
  OBVIOUS
<1> DEFINE mine == {i \in DOMAIN batch : batch[i].session = s}
<1> HIDE DEF mine
<1>3. IsFiniteSet(mine) /\ Cardinality(mine) <= n
  BY <1>1, <1>2, FS_Subset DEF mine
<1>4. Cardinality(mine) \in Nat
  BY <1>3, FS_CardinalityType
<1> QED
  BY <1>3, <1>4 DEF mine

\* The sessions of a batch are finitely many.
LEMMA Senders ==
    ASSUME NEW n \in Nat, NEW batch \in [1..n -> Events]
    PROVE  IsFiniteSet({e.session : e \in ToSet(batch)})
<1> DEFINE T == {e.session : e \in ToSet(batch)}
           f == [i \in 1..n |-> batch[i].session]
<1>1. IsFiniteSet(1..n)
  BY FS_Interval
<1>2. \A t \in T : \E i \in 1..n : f[i] = t
  BY DEF ToSet
<1>3. f \in [1..n -> T]
  BY DEF ToSet
<1> HIDE DEF f, T
<1>4. f \in Surjection(1..n, T)
  BY <1>2, <1>3 DEF Surjection
<1>5. IsFiniteSet(T)
  BY <1>1, <1>4, FS_Surjection
<1> QED
  BY <1>5 DEF T

\* A step that leaves the hub alone keeps its part.
LEMMA HubFrame ==
    HubInv /\ UNCHANGED hubVars => HubInv'
BY DEF HubInv, HubTypeOK, hubVars

\* The parts of the type invariant, in the form the steps need.
LEMMA Parts ==
    ASSUME HubInv
    PROVE  /\ \A c \in Clients : ConnectionOK(conn[c])
           /\ \A c \in Sockets : c \in Clients
           /\ \A s \in Sessions : version[s] \in 0..arrived /\ version[s] \in 0..MaxEvents
           /\ arrived \in 0..MaxEvents
           /\ \A c \in Registered : c \in Clients
           /\ IsFiniteSet(dirty) /\ dirty \subseteq Sessions
BY StreamAssumption DEF HubInv, HubTypeOK, ConnectionOK, Sockets, Registered

\* Everything the hub's steps touch, from what they leave of each connection.
LEMMA HubFrom ==
    ASSUME HubInv,
           DOMAIN conn' = Clients, conn' = [c \in Clients |-> conn'[c]],
           \A c \in Clients : ConnectionOK(conn'[c]),
           inbox' \in [Clients -> Seq(Messages)],
           UNCHANGED <<version, dirty, arrived>>
    PROVE  HubInv'
BY DEF HubInv, HubTypeOK, ConnectionOK

\* on_events.
LEMMA OnEventsTyped ==
    ASSUME HubInv, NEW n \in 1..MaxBatch, NEW batch \in [1..n -> Events], OnEvents(batch)
    PROVE  HubInv'
<1>1. n \in Nat /\ DOMAIN batch = 1..n /\ Len(batch) = n
  BY HubAssumption
<1>2. \A i \in 1..n : batch[i] \in Events /\ batch[i].session \in Sessions
  BY HubAssumption
<1> DEFINE offers == [c \in Clients |-> [i \in DOMAIN batch |->
                        IF batch[i].channel = Urgent /\ Wants(conn[c], batch[i])
                        THEN <<EventFrame(batch[i].session)>> ELSE <<>>]]
           changed == {e.session : e \in ToSet(batch)}
<1>3. \A c \in Clients : offers[c] \in Offers
  <2> SUFFICES ASSUME NEW c \in Clients
               PROVE  offers[c] \in Offers
    OBVIOUS
  <2> DEFINE S == {<<>>} \union {<<f>> : f \in Frames}
  <2>1. \A i \in 1..n : (IF batch[i].channel = Urgent /\ Wants(conn[c], batch[i])
                         THEN <<EventFrame(batch[i].session)>> ELSE <<>>) \in S
    BY <1>2, Framed
  <2> HIDE DEF S
  <2>2. offers[c] \in [1..n -> S]
    BY <1>1, <2>1
  <2>3. offers[c] \in Seq(S)
    BY <1>1, <2>2
  <2> QED
    BY <2>3 DEF S, Offers
<1>4. Offer(offers, changed)
  BY DEF OnEvents
<1>5. changed \subseteq Sessions
  BY <1>1, <1>2 DEF ToSet
<1> HIDE DEF offers, changed
<1>6. DOMAIN conn' = Clients /\ \A c \in Clients : ConnectionOK(conn'[c])
  BY <1>3, <1>4, Parts, OfferOK
<1>7. conn' = [c \in Clients |-> conn'[c]]
  BY <1>4 DEF Offer
<1>8. conn' \in [Clients -> Connections]
  BY <1>6, <1>7 DEF ConnectionOK
<1>9. ASSUME NEW s \in Sessions
      PROVE  version'[s] \in 0..arrived'
  <2> DEFINE k == Cardinality({i \in DOMAIN batch : batch[i].session = s})
  <2>1. k \in 0..n
    BY <1>1, Counted
  <2>2. version'[s] = version[s] + k /\ arrived' = arrived + n
    BY <1>1 DEF OnEvents
  <2> HIDE DEF k
  <2> QED
    BY <1>1, <2>1, <2>2, Parts
<1>10. arrived' \in 0..MaxEvents /\ dirty' \subseteq Sessions /\ inbox' = inbox
  <2>1. arrived' = arrived + n /\ arrived + n <= MaxEvents
    BY <1>1 DEF OnEvents
  <2>2. dirty' = dirty \union changed /\ inbox' = inbox
    BY DEF OnEvents, changed
  <2> QED
    BY <1>1, <1>5, <2>1, <2>2, Parts, HubAssumption DEF HubInv, HubTypeOK
<1>11. version' \in [Sessions -> 0..MaxEvents]
  <2>1. DOMAIN version' = Sessions /\ version' = [s \in Sessions |-> version'[s]]
    BY DEF OnEvents
  <2>2. \A s \in Sessions : version'[s] \in 0..MaxEvents
    BY <1>9, <1>10, HubAssumption
  <2> QED
    BY <2>1, <2>2
<1>12. \A c \in Clients : /\ Cardinality(conn'[c].drivers) <= MaxDrivers
                          /\ Len(conn'[c].queue) <= QueueSize
                          /\ Len(conn'[c].held) <= 1
  BY <1>6 DEF ConnectionOK
<1>13. \A s \in Sessions : version'[s] <= arrived'
  BY <1>9, <1>10
<1>14. IsFiniteSet(dirty')
  <2>1. IsFiniteSet(changed)
    BY <1>1, Senders DEF changed
  <2>2. dirty' = dirty \union changed
    BY DEF OnEvents, changed
  <2> QED
    BY <2>1, <2>2, FS_Union, Parts
<1> QED
  BY <1>14, <1>8, <1>10, <1>11, <1>12, <1>13 DEF HubInv, HubTypeOK

\* A broadcast tick.
LEMMA BroadcastTyped ==
    ASSUME HubInv, Broadcast
    PROVE  HubInv'
<1> DEFINE n == Cardinality(dirty)
           offers(order) == [c \in Clients |-> [i \in DOMAIN order |->
                               IF conn[c].session \in {0, order[i]}
                               THEN <<Snapshot(order[i], version[order[i]])>> ELSE <<>>]]
<1>1. PICK order \in SetToSeqs(dirty) : Offer(offers(order), {})
  BY DEF Broadcast
<1>2. order \in [1..n -> dirty]
  BY DEF SetToSeqs
<1>3. n \in Nat /\ DOMAIN order = 1..n
  BY <1>2, Parts, FS_CardinalityType
<1> HIDE DEF n
<1>4. \A c \in Clients : offers(order)[c] \in Offers
  <2> SUFFICES ASSUME NEW c \in Clients
               PROVE  offers(order)[c] \in Offers
    OBVIOUS
  <2> DEFINE S == {<<>>} \union {<<f>> : f \in Frames}
  <2>1. ASSUME NEW i \in 1..n
        PROVE  (IF conn[c].session \in {0, order[i]}
                THEN <<Snapshot(order[i], version[order[i]])>> ELSE <<>>) \in S
    <3>1. order[i] \in Sessions
      BY <1>2, Parts
    <3>2. Snapshot(order[i], version[order[i]]) \in Frames
      BY <3>1, Parts, Framed
    <3> QED
      BY <3>2
  <2> HIDE DEF S
  <2>2. offers(order)[c] \in [1..n -> S]
    BY <1>3, <2>1
  <2>3. offers(order)[c] \in Seq(S)
    BY <1>3, <2>2
  <2> QED
    BY <2>3 DEF S, Offers
<1> HIDE DEF offers
<1>5. DOMAIN conn' = Clients /\ \A c \in Clients : ConnectionOK(conn'[c])
  BY <1>1, <1>4, Parts, OfferOK
<1>6. conn' = [c \in Clients |-> conn'[c]]
  BY <1>1 DEF Offer
<1>7. conn' \in [Clients -> Connections]
  BY <1>5, <1>6 DEF ConnectionOK
<1>8. \A c \in Clients : /\ Cardinality(conn'[c].drivers) <= MaxDrivers
                         /\ Len(conn'[c].queue) <= QueueSize
                         /\ Len(conn'[c].held) <= 1
  BY <1>5 DEF ConnectionOK
<1>9. dirty' = {} /\ UNCHANGED <<version, arrived, inbox>>
  BY DEF Broadcast
<1> QED
  BY <1>7, <1>8, <1>9, FS_EmptySet DEF HubInv, HubTypeOK

\* One connection changes, and perhaps its messages.
LEMMA OneConnection ==
    ASSUME HubInv, NEW c \in Clients, NEW x, ConnectionOK(x),
           conn' = [conn EXCEPT ![c] = x],
           inbox' \in [Clients -> Seq(Messages)],
           UNCHANGED <<version, dirty, arrived>>
    PROVE  HubInv'
<1>1. DOMAIN conn = Clients /\ conn' = [d \in Clients |-> conn'[d]]
  BY DEF HubInv, HubTypeOK
<1>2. \A d \in Clients : conn'[d] = IF d = c THEN x ELSE conn[d]
  BY <1>1
<1>3. \A d \in Clients : ConnectionOK(conn'[d])
  BY <1>2, Parts
<1> QED
  BY <1>1, <1>3, HubFrom

\* The first of several messages.
LEMMA FirstMessage ==
    ASSUME HubInv, NEW c \in Clients, inbox[c] # <<>>
    PROVE  /\ Head(inbox[c]) \in Messages
           /\ [inbox EXCEPT ![c] = Tail(@)] \in [Clients -> Seq(Messages)]
<1>1. inbox \in [Clients -> Seq(Messages)] /\ inbox[c] \in Seq(Messages)
  BY DEF HubInv, HubTypeOK
<1>2. Head(inbox[c]) \in Messages /\ Tail(inbox[c]) \in Seq(Messages)
  BY <1>1, HeadTailProperties
<1> HIDE DEF Messages
<1> QED
  BY <1>1, <1>2

\* _handle_message.
LEMMA HandleTyped ==
    ASSUME HubInv, NEW c \in Clients, HandleMessage(c)
    PROVE  HubInv'
<1> DEFINE m == Head(inbox[c])
           x == IF m.type = "subscribe" THEN Subscribed(conn[c], m) ELSE Unsubscribed(conn[c], m)
<1>1. /\ m \in Messages
      /\ inbox' \in [Clients -> Seq(Messages)]
      /\ UNCHANGED <<version, dirty, arrived>>
  BY FirstMessage DEF HandleMessage
<1>2. conn' = [conn EXCEPT ![c] = x]
  <2>1. c \in DOMAIN conn
    BY DEF HubInv, HubTypeOK
  <2> QED
    BY <2>1 DEF HandleMessage
<1>3. ConnectionOK(conn[c])
  BY Parts
<1>4. ConnectionOK(x)
  <2>1. CASE m.type = "subscribe"
    BY <1>1, <1>3, <2>1, SubscribedOK
  <2>2. CASE m.type # "subscribe"
    <3> DEFINE rest == conn[c].channels \ Given(m.channels, conn[c].channels)
    <3>1. rest \in SUBSET Channels
      BY <1>3 DEF ConnectionOK, Connections
    <3>2. x = [conn[c] EXCEPT !.channels = rest]
      BY <2>2 DEF Unsubscribed
    <3> HIDE DEF rest, x
    <3> QED
      BY <1>3, <3>1, <3>2 DEF ConnectionOK, Connections
  <2> QED
    BY <2>1, <2>2
<1> HIDE DEF x
<1> QED
  BY <1>1, <1>2, <1>4, OneConnection

\* A frame on its way to a socket, and the answer to a subscribe.
LEMMA SenderTyped ==
    ASSUME HubInv, NEW c \in Clients, SenderTakes(c) \/ SenderSends(c) \/ Reply(c)
    PROVE  HubInv'
<1> HIDE DEF Frames
<1>1. inbox' \in [Clients -> Seq(Messages)] /\ UNCHANGED <<version, dirty, arrived>>
  BY DEF HubInv, HubTypeOK, SenderTakes, SenderSends, Reply
<1>2. ConnectionOK(conn[c])
  BY Parts
<1>3. CASE SenderTakes(c)
  <2> DEFINE x == [conn[c] EXCEPT !.held = <<Head(conn[c].queue)>>, !.queue = Tail(@)]
  <2>1. conn[c].queue \in Seq(Frames) /\ conn[c].queue # <<>> /\ Len(conn[c].queue) <= QueueSize
    BY <1>2, <1>3 DEF SenderTakes, ConnectionOK, Connections
  <2>2. /\ Head(conn[c].queue) \in Frames /\ Tail(conn[c].queue) \in Seq(Frames)
        /\ Len(Tail(conn[c].queue)) = Len(conn[c].queue) - 1
    BY <2>1, HeadTailProperties
  <2>3. Len(Tail(conn[c].queue)) <= QueueSize
    BY <2>1, <2>2, LenProperties, HubAssumption
  <2>4. ConnectionOK(x)
    <3> DEFINE queue == Tail(conn[c].queue)
               held  == <<Head(conn[c].queue)>>
    <3>1. held \in Seq(Frames) /\ Len(held) <= 1 /\ queue \in Seq(Frames) /\ Len(queue) <= QueueSize
      BY <2>2, <2>3
    <3> HIDE DEF queue, held
    <3>2. x = [conn[c] EXCEPT !.held = held, !.queue = queue]
      BY DEF queue, held
    <3> HIDE DEF x
    <3> QED
      BY <1>2, <3>1, <3>2 DEF ConnectionOK, Connections
  <2>5. conn' = [conn EXCEPT ![c] = x]
    <3>1. conn' = [conn EXCEPT ![c].held = <<Head(conn[c].queue)>>, ![c].queue = Tail(@)]
      BY <1>3 DEF SenderTakes
    <3>2. c \in DOMAIN conn
      BY DEF HubInv, HubTypeOK
    <3> QED
      BY <3>1, <3>2, Zenon
  <2> HIDE DEF x
  <2> QED
    BY <1>1, <2>4, <2>5, OneConnection
<1>4. CASE SenderSends(c)
  <2> DEFINE told == IF conn[c].told = "old" /\ conn[c].held[1] = Newest(c) THEN "newest" ELSE conn[c].told
             x == [conn[c] EXCEPT !.held = <<>>, !.told = told]
  <2>1. told \in {"never", "old", "newest"}
    BY <1>2 DEF ConnectionOK, Connections
  <2>2. conn' = [conn EXCEPT ![c] = x]
    <3>1. c \in DOMAIN conn
      BY DEF HubInv, HubTypeOK
    <3> QED
      BY <1>4, <3>1 DEF SenderSends
  <2> HIDE DEF told
  <2>3. ConnectionOK(x)
    <3> DEFINE held == <<>>
    <3>1. held \in Seq(Frames) /\ Len(held) <= 1
      BY EmptySeq
    <3> HIDE DEF held
    <3>2. x = [conn[c] EXCEPT !.held = held, !.told = told]
      BY DEF held
    <3> HIDE DEF x
    <3> QED
      BY <1>2, <2>1, <3>1, <3>2 DEF ConnectionOK, Connections
  <2> HIDE DEF x
  <2> QED
    BY <1>1, <2>2, <2>3, OneConnection
<1>5. CASE Reply(c)
  <2> DEFINE told == IF ReplyFrames(c) = <<>> THEN conn[c].told ELSE "newest"
             x == [conn[c] EXCEPT !.task = "receive", !.told = told]
  <2>1. told \in {"never", "old", "newest"}
    BY <1>2 DEF ConnectionOK, Connections
  <2>2. conn' = [conn EXCEPT ![c] = x]
    <3>1. c \in DOMAIN conn
      BY DEF HubInv, HubTypeOK
    <3> QED
      BY <1>5, <3>1 DEF Reply
  <2> HIDE DEF told
  <2>3. ConnectionOK(x)
    BY <1>2, <2>1 DEF ConnectionOK, Connections
  <2> HIDE DEF x
  <2> QED
    BY <1>1, <2>2, <2>3, OneConnection
<1> QED
  BY <1>3, <1>4, <1>5

\* A connection that comes or goes, and a restart of the API.
LEMMA ComesAndGoes ==
    ASSUME HubInv, NEW message \in Seq(Messages),
           \/ \E c \in Clients : Accept(c, message) \/ Disconnect(c)
           \/ HubRestarts
    PROVE  HubInv'
<1> HIDE DEF Messages
<1>1. inbox \in [Clients -> Seq(Messages)] /\ DOMAIN conn = Clients
  BY DEF HubInv, HubTypeOK
<1>2. ASSUME NEW c \in Clients, Accept(c, message)
      PROVE  HubInv'
  BY <1>1, <1>2, NewConnections, OneConnection DEF Accept
<1>3. ASSUME NEW c \in Clients, Disconnect(c)
      PROVE  HubInv'
  <2>1. inbox' \in [Clients -> Seq(Messages)]
    BY <1>1, <1>3, EmptySeq DEF Disconnect
  <2> QED
    BY <1>3, <2>1, NewConnections, OneConnection DEF Disconnect
<1>4. CASE HubRestarts
  <2>1. \A c \in Clients : ConnectionOK(conn'[c])
    BY <1>4, NewConnections, Parts DEF HubRestarts
  <2>2. conn' \in [Clients -> Connections]
    BY <1>4, <2>1 DEF HubRestarts, ConnectionOK
  <2>3. inbox' \in [Clients -> Seq(Messages)]
    BY <1>4, EmptySeq DEF HubRestarts
  <2>4. version' \in [Sessions -> 0..MaxEvents] /\ \A s \in Sessions : version'[s] <= arrived'
    BY <1>4, HubAssumption, Parts DEF HubRestarts
  <2>5. dirty' = {} /\ arrived' = arrived
    BY <1>4 DEF HubRestarts
  <2>6. \A c \in Clients : /\ Cardinality(conn'[c].drivers) <= MaxDrivers
                           /\ Len(conn'[c].queue) <= QueueSize
                           /\ Len(conn'[c].held) <= 1
    BY <2>1 DEF ConnectionOK
  <2> QED
    BY <2>2, <2>3, <2>4, <2>5, <2>6, FS_EmptySet DEF HubInv, HubTypeOK
<1> QED
  BY <1>2, <1>3, <1>4

-----------------------------------------------------------------------------
(* The hub's steps and the hook's, together *)

LiveInv == HubInv /\ StreamTypeOK

\* A page that names a session can subscribe to it.
LEMMA SubscriptionSent ==
    ASSUME selected \in Sessions \union {0}
    PROVE  /\ Subscription \in Messages
           /\ <<Subscription>> \in Seq(Messages)
<1>1. Subscription = [type |-> "subscribe", session |-> IF selected = 0 THEN <<>> ELSE <<selected>>,
                      channels |-> <<Channels>>, drivers |-> <<>>]
  BY DEF Subscription, Subscribe
<1>2. (IF selected = 0 THEN <<>> ELSE <<selected>>) \in Field(Sessions \union {n \in Int : n <= 0})
  BY DEF Field
<1>3. <<Channels>> \in Field(SUBSET STRING) /\ <<>> \in Field({D \in SUBSET Int : IsFiniteSet(D)})
  BY HubAssumption DEF Field
<1>4. Subscription \in Messages
  BY <1>1, <1>2, <1>3 DEF Messages
<1> HIDE DEF Messages
<1> QED
  BY <1>4

LEMMA InitTyped == Init => LiveInv
<1> SUFFICES ASSUME Init
             PROVE  LiveInv
  OBVIOUS
<1>1. PICK messages \in [Others -> OtherMessages] : HubInit(messages)
  BY DEF Init
<1>2. \A c \in Clients : ConnectionOK(conn[c])
  BY <1>1, NewConnections DEF HubInit
<1>3. conn \in [Clients -> Connections]
  BY <1>1, <1>2 DEF HubInit, ConnectionOK
<1>4. inbox \in [Clients -> Seq(Messages)]
  <2> HIDE DEF Messages
  <2> QED
    BY <1>1, EmptySeq, StreamAssumption DEF HubInit
<1>5. version \in [Sessions -> 0..MaxEvents] /\ \A s \in Sessions : version[s] <= arrived
  BY <1>1, HubAssumption DEF HubInit
<1>6. dirty = {} /\ arrived \in 0..MaxEvents
  BY <1>1, HubAssumption DEF HubInit
<1>7. HubInv
  BY <1>2, <1>3, <1>4, <1>5, <1>6, FS_EmptySet DEF HubInv, HubTypeOK, ConnectionOK
<1>8. StreamTypeOK
  <2> HIDE DEF Frames, Nothing
  <2>1. 1 \in Sockets /\ (MaxSockets > 1 => 2 \in Sockets) /\ 0 \in 0..MaxLosses
    BY StreamAssumption DEF Sockets
  <2>2. /\ ready \in [Sockets -> {"none", "connecting", "open", "closing", "closed"}]
        /\ ref \in Sockets
    BY <2>1 DEF Init
  <2> QED
    BY <2>1, <2>2 DEF Init, StreamTypeOK
<1> QED
  BY <1>7, <1>8 DEF LiveInv

\* A frame the browser receives is one of the hub's.
LEMMA ReceivesTyped ==
    ASSUME StreamTypeOK, NEW c, NEW frames, frames # <<>> => frames[1] \in Frames,
           Receives(c, frames)
    PROVE  /\ shown' \in Frames \union {Nothing}
           /\ heard' \in BOOLEAN
           /\ connection' \in {"disconnected", "connecting", "connected", "stale"}
<1> HIDE DEF Frames, Nothing
<1> QED
  BY DEF Receives, StreamTypeOK

\* connect().
LEMMA ConnectTyped ==
    ASSUME StreamTypeOK,
           NEW states \in [Sockets -> {"none", "connecting", "open", "closing", "closed"}],
           NEW current \in Sockets \union {0},
           Connect(states, current)
    PROVE  /\ ready' \in [Sockets -> {"none", "connecting", "open", "closing", "closed"}]
           /\ ref' \in Sockets \union {0}
           /\ connection' \in {"disconnected", "connecting", "connected", "stale"}
BY DEF Connect, StreamTypeOK, Unmade

\* Every step keeps the types.
LEMMA StepTyped == LiveInv /\ [Next]_vars => LiveInv'
<1> SUFFICES ASSUME LiveInv, [Next]_vars
             PROVE  LiveInv'
  OBVIOUS
<1> HIDE DEF Frames, Messages, Nothing
<1>0. HubInv /\ StreamTypeOK /\ selected \in Sessions \union {0} /\ \A c \in Sockets : c \in Clients
  BY Parts DEF LiveInv, StreamTypeOK
<1>1. CASE Consumes
  <2>1. PICK n \in 1..MaxBatch : \E batch \in [1..n -> Events] : OnEvents(batch)
    BY <1>1 DEF Consumes
  <2>2. HubInv'
    BY <1>0, <2>1, OnEventsTyped
  <2>3. StreamTypeOK'
    BY <1>0, <1>1 DEF Consumes, StreamTypeOK, hookVars
  <2> QED
    BY <2>2, <2>3 DEF LiveInv
<1>2. CASE Ticks
  BY <1>0, <1>2, BroadcastTyped DEF LiveInv, Ticks, StreamTypeOK, hookVars
<1>3. ASSUME NEW c \in Clients, Handles(c) \/ Raised(c) \/ Drops(c)
      PROVE  LiveInv'
  <2>1. HubInv'
    BY <1>0, <1>3, HandleTyped, ComesAndGoes, EmptySeq DEF Handles, Raised, HandlerRaises, Drops
  <2>2. StreamTypeOK'
    BY <1>0, <1>3 DEF Handles, Raised, Drops, StreamTypeOK, hookVars
  <2> QED
    BY <2>1, <2>2 DEF LiveInv
<1>4. ASSUME NEW c \in Clients, Replies(c)
      PROVE  LiveInv'
  <2>1. HubInv'
    BY <1>0, <1>4, SenderTyped DEF Replies
  <2>2. ReplyFrames(c) # <<>> => ReplyFrames(c)[1] \in Frames
    <3> SUFFICES ASSUME conn[c].session # 0
                 PROVE  Answer(c) \in Frames
      BY DEF ReplyFrames
    <3>1. conn[c].session \in Sessions
      BY <1>0, Parts DEF ConnectionOK, Connections
    <3>2. Newest(c) \in Frames
      BY <1>0, <3>1, Parts, Framed DEF Newest
    <3>3. Bare(conn[c].session) \in Frames
      BY <3>1 DEF Frames
    <3> QED
      BY <3>2, <3>3 DEF Answer
  <2>3. StreamTypeOK'
    <3>1. Receives(c, ReplyFrames(c)) /\ UNCHANGED <<ready, up, ref, timer, shouldRun, selected, losses>>
      BY <1>4 DEF Replies
    <3> QED
      BY <1>0, <2>2, <3>1, ReceivesTyped DEF StreamTypeOK
  <2> QED
    BY <2>1, <2>3 DEF LiveInv
<1>5. ASSUME NEW c \in Sockets, Takes(c)
      PROVE  LiveInv'
  BY <1>0, <1>5, SenderTyped DEF LiveInv, Takes, StreamTypeOK, hookVars
<1>6. ASSUME NEW c \in Sockets, Sends(c)
      PROVE  LiveInv'
  <2>1. HubInv'
    BY <1>0, <1>6, SenderTyped DEF Sends
  <2>2. conn[c].held # <<>> => conn[c].held[1] \in Frames
    <3>1. conn[c].held \in Seq(Frames)
      BY <1>0, Parts DEF ConnectionOK, Connections
    <3> QED
      BY <3>1, EmptySeq, ElementOfSeq
  <2>3. StreamTypeOK'
    <3>1. Receives(c, conn[c].held) /\ UNCHANGED <<ready, up, ref, timer, shouldRun, selected, losses>>
      BY <1>6 DEF Sends
    <3> QED
      BY <1>0, <2>2, <3>1, ReceivesTyped DEF StreamTypeOK
  <2> QED
    BY <2>1, <2>3 DEF LiveInv
<1>7. ASSUME NEW c \in Sockets, Opens(c)
      PROVE  LiveInv'
  <2>1. HubInv'
    BY <1>0, <1>7, SubscriptionSent, ComesAndGoes DEF Opens
  <2>2. Active # {} => Min(Active) \in Sessions
    <3> SUFFICES ASSUME Active # {}
                 PROVE  Min(Active) \in Sessions
      OBVIOUS
    <3>1. Active \in SUBSET Nat /\ Active \subseteq Sessions
      BY HubAssumption DEF Active
    <3>2. \E m \in Active : \A k \in Active : m <= k
      BY <3>1, LeastNatural
    <3>3. Min(Active) \in Active
      BY <3>2 DEF Min
    <3> QED
      BY <3>1, <3>3
  <2>3. selected' \in Sessions \union {0}
    BY <1>0, <1>7, <2>2 DEF Opens
  <2>4. StreamTypeOK'
    BY <1>0, <1>7, <2>3 DEF Opens, StreamTypeOK
  <2> QED
    BY <2>1, <2>4 DEF LiveInv
<1>8. ASSUME NEW c \in Sockets, OnClose(c)
      PROVE  LiveInv'
  <2>1. HubInv'
    BY <1>0, <1>8, HubFrame DEF OnClose
  <2>2. StreamTypeOK'
    BY <1>0, <1>8 DEF OnClose, StreamTypeOK
  <2> QED
    BY <2>1, <2>2 DEF LiveInv
<1>9. CASE Rerenders
  <2>1. ref \in Clients /\ Append(inbox[ref], Subscription) \in Seq(Messages)
    BY <1>0, <1>9, SubscriptionSent, AppendProperties DEF Rerenders, StreamTypeOK, HubInv, HubTypeOK
  <2>2. inbox' \in [Clients -> Seq(Messages)]
    BY <1>0, <1>9, <2>1 DEF Rerenders, HubInv, HubTypeOK
  <2>3. HubInv'
    BY <1>0, <1>9, <2>2 DEF Rerenders, HubInv, HubTypeOK
  <2>4. StreamTypeOK'
    BY <1>0, <1>9 DEF Rerenders, StreamTypeOK, hookVars
  <2> QED
    BY <2>3, <2>4 DEF LiveInv
<1>10. CASE TimerFires \/ ReconnectNow
  <2>1. HubInv'
    BY <1>0, <1>10, HubFrame DEF TimerFires, ReconnectNow
  <2>2. ready \in [Sockets -> {"none", "connecting", "open", "closing", "closed"}]
        /\ Closing(ref) \in [Sockets -> {"none", "connecting", "open", "closing", "closed"}]
        /\ ref \in Sockets \union {0}
    BY <1>0 DEF StreamTypeOK, Closing
  <2>3. \/ Connect(ready, ref)
        \/ Connect(Closing(ref), ref)
    BY <1>10 DEF TimerFires, ReconnectNow
  <2>4. /\ ready' \in [Sockets -> {"none", "connecting", "open", "closing", "closed"}]
        /\ ref' \in Sockets \union {0}
        /\ connection' \in {"disconnected", "connecting", "connected", "stale"}
    BY <1>0, <2>2, <2>3, ConnectTyped
  <2>5. /\ timer' = FALSE /\ up' \subseteq up
        /\ UNCHANGED <<shouldRun, selected, heard, shown, losses>>
    BY <1>10 DEF TimerFires, ReconnectNow
  <2>6. StreamTypeOK'
    BY <1>0, <2>4, <2>5 DEF StreamTypeOK
  <2> QED
    BY <2>1, <2>6 DEF LiveInv
<1>11. CASE Ages \/ Unmount \/ Crashes
  <2>1. HubInv'
    BY <1>0, <1>11, HubFrame DEF Ages, Unmount, Crashes, Cleanup
  <2>2. StreamTypeOK'
    BY <1>0, <1>11 DEF Ages, Unmount, Crashes, Cleanup, StreamTypeOK, Closing
  <2> QED
    BY <2>1, <2>2 DEF LiveInv
<1>12. ASSUME NEW c \in Sockets, Breaks(c)
       PROVE  LiveInv'
  <2>1. HubInv'
    BY <1>0, <1>12, HubFrame DEF Breaks
  <2>2. StreamTypeOK'
    BY <1>0, <1>12, StreamAssumption DEF Breaks, StreamTypeOK
  <2> QED
    BY <2>1, <2>2 DEF LiveInv
<1>13. CASE Restarts
  <2>1. HubInv'
    BY <1>0, <1>13, ComesAndGoes, EmptySeq DEF Restarts
  <2>2. StreamTypeOK'
    BY <1>0, <1>13, StreamAssumption DEF Restarts, StreamTypeOK
  <2> QED
    BY <2>1, <2>2 DEF LiveInv
<1>14. CASE UNCHANGED vars
  BY <1>0, <1>14, HubFrame DEF vars, hookVars, LiveInv, StreamTypeOK
<1> QED
  BY <1>1, <1>2, <1>3, <1>4, <1>5, <1>6, <1>7, <1>8, <1>9, <1>10, <1>11, <1>12, <1>13, <1>14
     DEF Next, Handler, Sender, Socket, Hook, Accidents

\* TypeOK: queues stay within CLIENT_QUEUE_SIZE (hub.py:21), filters within
\* MAX_DRIVER_FILTER, frames are snapshots of states there were.
THEOREM LiveTypeCorrect == Spec => []TypeOK
<1>1. LiveInv => TypeOK
  BY DEF LiveInv, HubInv, TypeOK
<1> QED
  BY <1>1, InitTyped, StepTyped, PTL DEF Spec

-----------------------------------------------------------------------------
(* What is still to be told *)

\* What NothingForgotten says of one connection.
Due(x, states, changed) ==
    x.task \in {"receive", "reply"} /\ x.told = "old" =>
        \/ x.session \in changed
        \/ Snapshot(x.session, states[x.session]) \in ToSet(x.held \o x.queue)

\* A connection that follows no session is owed no state.
FollowsNone(x) == x.session = 0 => x.told = "never"

ForgetInv == \A c \in Clients : Due(conn[c], version, dirty) /\ FollowsNone(conn[c])

\* The frames of two sequences.
LEMMA Joined ==
    ASSUME NEW S, NEW a \in Seq(S), NEW b \in Seq(S)
    PROVE  ToSet(a \o b) = ToSet(a) \union ToSet(b)
<1>1. Range(a \o b) = Range(a) \union Range(b)
  BY RangeConcatenation
<1> QED
  BY <1>1 DEF ToSet, Range

\* A head put before its tail.
LEMMA Rejoined ==
    ASSUME NEW S, NEW q \in Seq(S), q # <<>>
    PROVE  <<Head(q)>> \o Tail(q) = q
<1>1. Len(q) \in Nat \ {0} /\ q[1] = Head(q)
  BY LenProperties, EmptySeq
<1>2. SubSeq(q, 1, Len(q)) = <<q[1]>> \o SubSeq(q, 1 + 1, Len(q))
  BY <1>1, SubSeqRecursiveFirst
<1>3. SubSeq(q, 1, Len(q)) = q
  BY SubSeqFull
<1>4. Tail(q) = SubSeq(q, 2, Len(q))
  BY TailIsSubSeq
<1> QED
  BY <1>1, <1>2, <1>3, <1>4

\* Connections that were just made, or closed.
LEMMA NewDue ==
    ASSUME NEW states, NEW changed, NEW x \in {Fresh, Gone}
    PROVE  Due(x, states, changed) /\ FollowsNone(x)
<1>1. x.told = "never" /\ x.session = 0
  BY DEF Fresh, Gone, Absent
<1> QED
  BY <1>1 DEF Due, FollowsNone

\* One connection changes.
LEMMA OneDue ==
    ASSUME HubInv, ForgetInv, NEW c \in Clients, NEW x,
           Due(x, version, dirty), FollowsNone(x),
           conn' = [conn EXCEPT ![c] = x], UNCHANGED <<version, dirty>>
    PROVE  ForgetInv'
<1>1. DOMAIN conn = Clients
  BY DEF HubInv, HubTypeOK
<1>2. \A d \in Clients : conn'[d] = IF d = c THEN x ELSE conn[d]
  BY <1>1
<1>3. \A d \in Clients : Due(conn'[d], version, dirty) /\ FollowsNone(conn'[d])
  BY <1>2 DEF ForgetInv
<1> QED
  BY <1>3 DEF ForgetInv

\* A subscribe either keeps to the session or starts anew; what is queued stays.
LEMMA SubscribedDue ==
    ASSUME NEW x, ConnectionOK(x), x.task = "receive", NEW m \in Messages,
           NEW states, NEW changed, Due(x, states, changed), FollowsNone(x)
    PROVE  /\ Due(Subscribed(x, m), states, changed) /\ FollowsNone(Subscribed(x, m))
           /\ Due(Unsubscribed(x, m), states, changed) /\ FollowsNone(Unsubscribed(x, m))
<1> DEFINE session == Given(m.session, x.session)
           told    == IF session = x.session THEN x.told ELSE "never"
           follows == [x EXCEPT !.session = session, !.told = told]
           chosen  == [follows EXCEPT !.channels = Given(m.channels, @)]
           done    == [chosen EXCEPT !.drivers = Given(m.drivers, @), !.task = "reply"]
           Stays(y) == /\ y.session = session /\ y.told = told
                       /\ y.held = x.held /\ y.queue = x.queue
<1>1. x = [task |-> x.task, session |-> x.session, told |-> x.told, channels |-> x.channels,
           drivers |-> x.drivers, queue |-> x.queue, held |-> x.held]
  BY DEF ConnectionOK, Connections
<1>2. Stays(follows) /\ Stays(chosen) /\ Stays(done)
  <2> HIDE DEF session, told
  <2>1. DOMAIN x = {"task", "session", "told", "channels", "drivers", "queue", "held"}
    BY <1>1
  <2>2. DOMAIN follows = DOMAIN x /\ DOMAIN chosen = DOMAIN x
    OBVIOUS
  <2>3. Stays(follows)
    BY <2>1
  <2> HIDE DEF follows
  <2>4. Stays(chosen)
    BY <2>1, <2>2, <2>3
  <2> HIDE DEF chosen
  <2> QED
    BY <2>1, <2>2, <2>3, <2>4
<1>3. Subscribed(x, m) = IF SessionRefused(m) THEN x
                         ELSE IF ChannelsRefused(m) THEN follows
                         ELSE IF DriversRefused(m) THEN chosen
                         ELSE done
  BY DEF Subscribed
<1> HIDE DEF follows, chosen, done
<1>4. ASSUME NEW y, Stays(y)
      PROVE  Due(y, states, changed) /\ FollowsNone(y)
  <2>1. y.told = "old" => y.session = x.session /\ x.told = "old"
    BY <1>4
  <2>2. Due(y, states, changed)
    BY <1>4, <2>1 DEF Due
  <2>3. FollowsNone(y)
    BY <1>4 DEF FollowsNone
  <2> QED
    BY <2>2, <2>3
<1>5. Due(Subscribed(x, m), states, changed) /\ FollowsNone(Subscribed(x, m))
  BY <1>2, <1>3, <1>4
<1>6. Due(Unsubscribed(x, m), states, changed) /\ FollowsNone(Unsubscribed(x, m))
  BY <1>1 DEF Unsubscribed, Due, FollowsNone
<1> QED
  BY <1>5, <1>6

\* _handle_message.
LEMMA HandleDue ==
    ASSUME HubInv, ForgetInv, NEW c \in Clients, HandleMessage(c)
    PROVE  ForgetInv'
<1> DEFINE m == Head(inbox[c])
           x == IF m.type = "subscribe" THEN Subscribed(conn[c], m) ELSE Unsubscribed(conn[c], m)
<1>1. m \in Messages /\ conn[c].task = "receive" /\ UNCHANGED <<version, dirty>>
  BY FirstMessage DEF HandleMessage
<1>2. conn' = [conn EXCEPT ![c] = x]
  <2>1. c \in DOMAIN conn
    BY DEF HubInv, HubTypeOK
  <2> QED
    BY <2>1 DEF HandleMessage
<1>3. ConnectionOK(conn[c]) /\ Due(conn[c], version, dirty) /\ FollowsNone(conn[c])
  BY Parts DEF ForgetInv
<1> HIDE DEF m
<1>4. Due(x, version, dirty) /\ FollowsNone(x)
  BY <1>1, <1>3, SubscribedDue
<1> HIDE DEF x
<1> QED
  BY <1>1, <1>2, <1>4, OneDue

\* The send loop takes the frame it will send: it stays on its way.
LEMMA TakesDue ==
    ASSUME HubInv, ForgetInv, NEW c \in Clients, SenderTakes(c)
    PROVE  ForgetInv'
<1> DEFINE held  == <<Head(conn[c].queue)>>
           queue == Tail(conn[c].queue)
           x     == [conn[c] EXCEPT !.held = held, !.queue = queue]
<1> HIDE DEF Frames
<1>1. ConnectionOK(conn[c]) /\ Due(conn[c], version, dirty) /\ FollowsNone(conn[c])
  BY Parts DEF ForgetInv
<1>2. conn[c].queue \in Seq(Frames) /\ conn[c].queue # <<>> /\ conn[c].held = <<>>
  BY <1>1 DEF SenderTakes, ConnectionOK, Connections
<1>3. held \o queue = conn[c].held \o conn[c].queue
  <2>1. held \o queue = conn[c].queue
    BY <1>2, Rejoined
  <2>2. <<>> \o conn[c].queue = conn[c].queue
    BY <1>2, ConcatEmptySeq
  <2> QED
    BY <1>2, <2>1, <2>2
<1>4. conn' = [conn EXCEPT ![c] = x]
  <2>1. conn' = [conn EXCEPT ![c].held = <<Head(conn[c].queue)>>, ![c].queue = Tail(@)]
    BY DEF SenderTakes
  <2>2. c \in DOMAIN conn
    BY DEF HubInv, HubTypeOK
  <2> QED
    BY <2>1, <2>2, Zenon
<1> HIDE DEF held, queue
<1>5. /\ x.task = conn[c].task /\ x.told = conn[c].told /\ x.session = conn[c].session
      /\ x.held = held /\ x.queue = queue
  BY <1>1 DEF ConnectionOK, Connections
<1> HIDE DEF x
<1>6. Due(x, version, dirty) /\ FollowsNone(x)
  BY <1>1, <1>3, <1>5 DEF Due, FollowsNone
<1> QED
  BY <1>4, <1>6, OneDue DEF SenderTakes

\* A frame is sent: if it was not the newest state, that is still queued.
LEMMA SendsDue ==
    ASSUME HubInv, ForgetInv, NEW c \in Clients, SenderSends(c)
    PROVE  ForgetInv'
<1> DEFINE told == IF conn[c].told = "old" /\ conn[c].held[1] = Newest(c) THEN "newest" ELSE conn[c].told
           x == [conn[c] EXCEPT !.held = <<>>, !.told = told]
<1> HIDE DEF Frames
<1>1. ConnectionOK(conn[c]) /\ Due(conn[c], version, dirty) /\ FollowsNone(conn[c])
  BY Parts DEF ForgetInv
<1>2. /\ conn[c].queue \in Seq(Frames) /\ conn[c].held \in Seq(Frames)
      /\ conn[c].held # <<>> /\ Len(conn[c].held) <= 1
      /\ conn[c].task \in {"receive", "reply"}
  BY <1>1 DEF SenderSends, ConnectionOK, Connections, Registered
<1>3. conn' = [conn EXCEPT ![c] = x]
  <2>1. c \in DOMAIN conn
    BY DEF HubInv, HubTypeOK
  <2> QED
    BY <2>1 DEF SenderSends
<1> HIDE DEF told
<1>4. /\ x.task = conn[c].task /\ x.told = told /\ x.session = conn[c].session
      /\ x.held = <<>> /\ x.queue = conn[c].queue
  BY <1>1 DEF ConnectionOK, Connections
<1> HIDE DEF x
<1>5. ToSet(conn[c].held \o conn[c].queue) = {conn[c].held[1]} \union ToSet(conn[c].queue)
  <2>1. DOMAIN conn[c].held = 1..1
    BY <1>2, LenProperties, EmptySeq
  <2>2. ToSet(conn[c].held) = {conn[c].held[1]}
    BY <2>1 DEF ToSet
  <2> QED
    BY <1>2, <2>2, Joined
<1>6. <<>> \o conn[c].queue = conn[c].queue
  BY <1>2, ConcatEmptySeq
<1>7. Due(x, version, dirty)
  <2> SUFFICES ASSUME told = "old"
               PROVE  \/ conn[c].session \in dirty
                      \/ Newest(c) \in ToSet(conn[c].queue)
    BY <1>4, <1>6 DEF Due, Newest
  <2>1. conn[c].told = "old" /\ conn[c].held[1] # Newest(c)
    BY DEF told
  <2>2. conn[c].session \in dirty \/ Newest(c) \in ToSet(conn[c].held \o conn[c].queue)
    BY <1>1, <1>2, <2>1 DEF Due, Newest
  <2> QED
    BY <1>5, <2>1, <2>2
<1>8. FollowsNone(x)
  BY <1>1, <1>4 DEF FollowsNone, told
<1> QED
  BY <1>3, <1>7, <1>8, OneDue DEF SenderSends

\* The answer to a subscribe brings the newest state, if a session is followed.
LEMMA ReplyDue ==
    ASSUME HubInv, ForgetInv, NEW c \in Clients, Reply(c)
    PROVE  ForgetInv'
<1> DEFINE told == IF ReplyFrames(c) = <<>> THEN conn[c].told ELSE "newest"
           x == [conn[c] EXCEPT !.task = "receive", !.told = told]
<1>1. ConnectionOK(conn[c]) /\ Due(conn[c], version, dirty) /\ FollowsNone(conn[c])
  BY Parts DEF ForgetInv
<1>2. conn' = [conn EXCEPT ![c] = x]
  <2>1. c \in DOMAIN conn
    BY DEF HubInv, HubTypeOK
  <2> QED
    BY <2>1 DEF Reply
<1>3. told = IF conn[c].session = 0 THEN conn[c].told ELSE "newest"
  BY DEF ReplyFrames
<1> HIDE DEF told
<1>4. x.told = told /\ x.session = conn[c].session
  BY <1>1 DEF ConnectionOK, Connections
<1> HIDE DEF x
<1>5. told # "old" /\ (x.session = 0 => told = "never")
  BY <1>1, <1>3, <1>4 DEF FollowsNone
<1>6. Due(x, version, dirty) /\ FollowsNone(x)
  BY <1>4, <1>5 DEF Due, FollowsNone
<1> QED
  BY <1>2, <1>6, OneDue DEF Reply

\* Connections that come and go, and a restart of the API.
LEMMA ComesAndGoesDue ==
    ASSUME HubInv, ForgetInv, NEW message,
           \/ \E c \in Clients : Accept(c, message) \/ Disconnect(c)
           \/ HubRestarts
    PROVE  ForgetInv'
<1>1. ASSUME NEW c \in Clients, Accept(c, message) \/ Disconnect(c)
      PROVE  ForgetInv'
  <2>1. PICK x \in {Fresh, Gone} : conn' = [conn EXCEPT ![c] = x]
    BY <1>1 DEF Accept, Disconnect
  <2>2. UNCHANGED <<version, dirty>>
    BY <1>1 DEF Accept, Disconnect
  <2> QED
    BY <2>1, <2>2, NewDue, OneDue
<1>2. CASE HubRestarts
  <2>1. ASSUME NEW c \in Clients
        PROVE  Due(conn'[c], version', dirty') /\ FollowsNone(conn'[c])
    <3>1. CASE c \in Registered
      <4>1. conn'[c] = Gone
        BY <1>2, <3>1 DEF HubRestarts
      <4> QED
        BY <4>1, NewDue
    <3>2. CASE c \notin Registered
      <4>1. conn'[c] = conn[c] /\ conn[c].task \notin {"receive", "reply"}
        BY <1>2, <3>2 DEF HubRestarts, Registered
      <4> QED
        BY <4>1 DEF Due, ForgetInv
    <3> QED
      BY <3>1, <3>2
  <2> QED
    BY <2>1 DEF ForgetInv
<1> QED
  BY <1>1, <1>2

\* What a fanout leaves of a registered connection.
LEMMA OfferLeaves ==
    ASSUME NEW c \in Registered, ConnectionOK(conn[c]), NEW offers, NEW changed,
           Offer(offers, changed)
    PROVE  /\ conn'[c].task = conn[c].task /\ conn'[c].session = conn[c].session
           /\ conn'[c].told = IF conn[c].told = "newest" /\ conn[c].session \in changed
                              THEN "old" ELSE conn[c].told
           /\ conn'[c].held = conn[c].held
           /\ conn'[c].queue = EnqueueAll(conn[c].queue, offers[c])
<1> DEFINE queue == EnqueueAll(conn[c].queue, offers[c])
           told  == IF conn[c].told = "newest" /\ conn[c].session \in changed
                    THEN "old" ELSE conn[c].told
<1>1. conn'[c] = [conn[c] EXCEPT !.queue = queue, !.told = told]
  BY DEF Offer, Registered
<1> HIDE DEF queue, told
<1>2. /\ conn'[c].task = conn[c].task /\ conn'[c].session = conn[c].session
      /\ conn'[c].told = told /\ conn'[c].held = conn[c].held /\ conn'[c].queue = queue
  BY <1>1 DEF ConnectionOK, Connections
<1> QED
  BY <1>2 DEF queue, told

\* on_events: what changes is due at the next tick, what does not is untouched.
LEMMA OnEventsDue ==
    ASSUME HubInv, ForgetInv, NEW n \in 1..MaxBatch, NEW batch \in [1..n -> Events], OnEvents(batch)
    PROVE  ForgetInv'
<1>1. n \in Nat /\ DOMAIN batch = 1..n /\ Len(batch) = n
  BY HubAssumption
<1> DEFINE offers == [c \in Clients |-> [i \in DOMAIN batch |->
                        IF batch[i].channel = Urgent /\ Wants(conn[c], batch[i])
                        THEN <<EventFrame(batch[i].session)>> ELSE <<>>]]
           changed == {e.session : e \in ToSet(batch)}
<1>2. Offer(offers, changed) /\ dirty' = dirty \union changed
  BY DEF OnEvents
<1>3. \A i \in 1..n : batch[i].session \in changed
  BY <1>1 DEF ToSet
<1>4. \A c \in Clients : c \notin Registered => conn'[c] = conn[c]
  BY <1>2 DEF Offer
<1>5. ASSUME NEW c \in Clients
      PROVE  Due(conn'[c], version', dirty') /\ FollowsNone(conn'[c])
  <2>0. ConnectionOK(conn[c]) /\ Due(conn[c], version, dirty) /\ FollowsNone(conn[c])
    BY Parts DEF ForgetInv
  <2>1. CASE c \notin Registered
    BY <1>4, <2>0, <2>1 DEF Due, Registered
  <2>2. CASE c \in Registered
    <3> DEFINE session == conn[c].session
    <3>1. /\ conn'[c].task = conn[c].task /\ conn'[c].session = session
          /\ conn'[c].told = IF conn[c].told = "newest" /\ session \in changed
                             THEN "old" ELSE conn[c].told
          /\ conn'[c].held = conn[c].held
          /\ conn'[c].queue = EnqueueAll(conn[c].queue, offers[c])
      BY <1>2, <2>0, <2>2, OfferLeaves
    <3>2. FollowsNone(conn'[c])
      BY <2>0, <3>1 DEF FollowsNone
    <3>3. CASE session \in changed
      BY <1>2, <3>1, <3>2, <3>3 DEF Due
    <3>4. CASE session \notin changed
      <4> SUFFICES ASSUME conn'[c].told = "old"
                   PROVE  Due(conn'[c], version', dirty')
        BY <3>2 DEF Due
      <4>1. conn[c].told = "old" /\ session # 0 /\ session \in Sessions
        BY <2>0, <3>1, <3>4 DEF FollowsNone, ConnectionOK, Connections
      <4>2. version'[session] = version[session]
        <5>1. {i \in DOMAIN batch : batch[i].session = session} = {}
          BY <1>1, <1>3, <3>4
        <5>2. version'[session] = version[session] + Cardinality({i \in DOMAIN batch : batch[i].session = session})
          BY <4>1 DEF OnEvents
        <5> HIDE DEF session
        <5>3. version[session] \in 0..MaxEvents
          BY <4>1, Parts
        <5>4. \A k : k \in 0..MaxEvents => k + 0 = k
          BY HubAssumption
        <5> QED
          BY <5>1, <5>2, <5>3, <5>4, FS_EmptySet
      <4>3. conn'[c].queue = conn[c].queue
        <5>1. DOMAIN offers[c] = 1..n /\ Len(offers[c]) = n
          BY <1>1
        <5>2. \A i \in 1..n : ~ Wants(conn[c], batch[i])
          BY <1>3, <3>4, <4>1 DEF Wants
        <5>3. \A i \in 1..n : offers[c][i] = <<>>
          BY <1>1, <5>2
        <5> HIDE DEF offers
        <5>4. EnqueueAll(conn[c].queue, offers[c]) = conn[c].queue
          BY <1>1, <5>1, <5>3, NoOfferNoChange
        <5> QED
          BY <3>1, <5>4
      <4> HIDE DEF changed
      <4> QED
        BY <1>2, <2>0, <3>1, <4>1, <4>2, <4>3 DEF Due
    <3> QED
      BY <3>2, <3>3, <3>4
  <2> QED
    BY <2>1, <2>2
<1> QED
  BY <1>5 DEF ForgetInv

\* The sequences of a finite set hold each of its members once.
LEMMA Listed ==
    ASSUME NEW S, IsFiniteSet(S), NEW order \in SetToSeqs(S), NEW s \in S
    PROVE  \E k \in 1..Cardinality(S) : order[k] = s /\ \A i \in 1..Cardinality(S) : i # k => order[i] # s
<1> DEFINE n == Cardinality(S)
<1>1. order \in [1..n -> S] /\ \A i, j \in 1..n : i # j => order[i] # order[j]
  BY DEF SetToSeqs
<1>2. n \in Nat
  BY FS_CardinalityType
<1>3. IsFiniteSet(1..n) /\ Cardinality(1..n) = n
  BY <1>2, FS_Interval
<1>4. order \in Injection(1..n, S)
  BY <1>1 DEF Injection, IsInjective
<1>5. order \in Surjection(1..n, S)
  BY <1>3, <1>4, FS_Injection
<1>6. PICK k \in 1..n : order[k] = s
  BY <1>5 DEF Surjection
<1> QED
  BY <1>1, <1>6

\* A broadcast tick: whoever follows a session that changed gets its newest
\* state, after everything else he is offered.
LEMMA BroadcastDue ==
    ASSUME HubInv, ForgetInv, Broadcast
    PROVE  ForgetInv'
<1> DEFINE n == Cardinality(dirty)
           offers(order) == [c \in Clients |-> [i \in DOMAIN order |->
                               IF conn[c].session \in {0, order[i]}
                               THEN <<Snapshot(order[i], version[order[i]])>> ELSE <<>>]]
<1>1. PICK order \in SetToSeqs(dirty) : Offer(offers(order), {})
  BY DEF Broadcast
<1>2. order \in [1..n -> dirty]
  BY DEF SetToSeqs
<1>3. n \in Nat /\ DOMAIN order = 1..n
  BY <1>2, Parts, FS_CardinalityType
<1>4. dirty' = {} /\ version' = version
  BY DEF Broadcast
<1>5. \A c \in Clients : c \notin Registered => conn'[c] = conn[c]
  BY <1>1 DEF Offer
<1>6. ASSUME NEW c \in Clients
      PROVE  Due(conn'[c], version', dirty') /\ FollowsNone(conn'[c])
  <2>0. ConnectionOK(conn[c]) /\ Due(conn[c], version, dirty) /\ FollowsNone(conn[c])
    BY Parts DEF ForgetInv
  <2>1. CASE c \notin Registered
    BY <1>5, <2>0, <2>1 DEF Due, Registered
  <2>2. CASE c \in Registered
    <3> DEFINE session == conn[c].session
    <3>1. /\ conn'[c].task = conn[c].task /\ conn'[c].session = session
          /\ conn'[c].told = conn[c].told
          /\ conn'[c].held = conn[c].held
          /\ conn'[c].queue = EnqueueAll(conn[c].queue, offers(order)[c])
      BY <1>1, <2>0, <2>2, OfferLeaves
    <3>2. FollowsNone(conn'[c])
      BY <2>0, <3>1 DEF FollowsNone
    <3>3. CASE conn[c].told # "old"
      BY <3>1, <3>2, <3>3 DEF Due
    <3>4. CASE conn[c].told = "old"
      <4>1. session # 0 /\ session \in Sessions
        BY <2>0, <3>4 DEF FollowsNone, ConnectionOK, Connections
      <4> DEFINE frame == Snapshot(session, version[session])
                 offered == offers(order)[c]
      <4>2. /\ DOMAIN offered = 1..n /\ Len(offered) = n
            /\ \A i \in 1..n : offered[i] = IF order[i] = session THEN <<frame>> ELSE <<>>
        BY <1>3, <4>1
      <4>3. ConnectionOK(conn'[c]) /\ conn[c].queue \in Queues /\ offered \in Offers
        <5> DEFINE S == {<<>>} \union {<<f>> : f \in Frames}
        <5>1. frame \in Frames
          BY <4>1, Parts, Framed
        <5>2. <<frame>> \in S /\ <<>> \in S
          BY <5>1
        <5> HIDE DEF S, frame
        <5>3. \A i \in 1..n : offered[i] \in S
          BY <4>2, <5>2
        <5>4. offered = [i \in 1..n |-> offered[i]]
          BY <1>3
        <5> HIDE DEF offered
        <5>5. offered \in [1..n -> S]
          BY <5>3, <5>4
        <5>6. offered \in Seq(S)
          BY <1>3, <5>5
        <5>7. HubInv'
          BY BroadcastTyped
        <5>8. ConnectionOK(conn'[c])
          BY <5>7 DEF HubInv, HubTypeOK, ConnectionOK
        <5> QED
          BY <2>0, <5>6, <5>8 DEF S, Offers, ConnectionOK, Connections, Queues
      <4> HIDE DEF offered, offers
      <4>4. frame \in ToSet(conn'[c].held \o conn'[c].queue)
        <5>1. conn'[c].held \in Seq(Frames) /\ conn'[c].queue \in Seq(Frames)
          BY <4>3 DEF ConnectionOK, Connections
        <5> HIDE DEF Frames
        <5>2. ToSet(conn'[c].held \o conn'[c].queue) = ToSet(conn'[c].held) \union ToSet(conn'[c].queue)
          BY <5>1, Joined
        <5>3. CASE session \in dirty
          <6>1. PICK k \in 1..n : order[k] = session /\ \A i \in 1..n : i # k => order[i] # session
            BY <5>3, Parts, Listed
          <6>2. frame \in Frames
            BY <4>1, Parts, Framed
          <6> HIDE DEF frame
          <6>3. offered[k] = <<frame>> /\ \A i \in (k + 1)..n : offered[i] = <<>>
            BY <1>3, <4>2, <6>1
          <6>4. frame \in ToSet(EnqueueAll(conn[c].queue, offered))
            BY <4>2, <4>3, <6>2, <6>3, LastOfferStays
          <6> QED
            BY <3>1, <5>2, <6>4 DEF offered
        <5>4. CASE session \notin dirty
          <6>1. \A i \in 1..n : offered[i] = <<>>
            BY <1>2, <4>2, <5>4
          <6>2. EnqueueAll(conn[c].queue, offered) = conn[c].queue
            BY <1>3, <4>2, <6>1, NoOfferNoChange
          <6>3. conn'[c].queue = conn[c].queue /\ conn'[c].held = conn[c].held
            BY <3>1, <6>2 DEF offered
          <6>4. frame \in ToSet(conn[c].held \o conn[c].queue)
            BY <2>0, <2>2, <3>4, <5>4 DEF Due, Registered
          <6> QED
            BY <6>3, <6>4
        <5> QED
          BY <5>3, <5>4
      <4> QED
        BY <1>4, <3>1, <3>2, <4>4 DEF Due
    <3> QED
      BY <3>3, <3>4
  <2> QED
    BY <2>1, <2>2
<1> QED
  BY <1>6 DEF ForgetInv

\* A step that leaves the hub's states and connections alone.
LEMMA DueFrame ==
    ForgetInv /\ UNCHANGED <<version, dirty, conn>> => ForgetInv'
BY DEF ForgetInv

LEMMA InitDue == Init => ForgetInv
<1> SUFFICES ASSUME Init
             PROVE  ForgetInv
  OBVIOUS
<1>1. PICK messages \in [Others -> OtherMessages] : HubInit(messages)
  BY DEF Init
<1>2. ASSUME NEW c \in Clients
      PROVE  Due(conn[c], version, dirty) /\ FollowsNone(conn[c])
  <2>1. conn[c] \in {Fresh, Absent}
    BY <1>1 DEF HubInit
  <2>2. Absent.told = "never" /\ Absent.session = 0
    BY DEF Absent
  <2> QED
    BY <2>1, <2>2, NewDue DEF Due, FollowsNone
<1> QED
  BY <1>2 DEF ForgetInv

\* Every step keeps what is owed.
LEMMA StepDue == HubInv /\ StreamTypeOK /\ ForgetInv /\ [Next]_vars => ForgetInv'
<1> SUFFICES ASSUME HubInv, StreamTypeOK, ForgetInv, [Next]_vars
             PROVE  ForgetInv'
  OBVIOUS
<1>0. \A c \in Sockets : c \in Clients
  BY Parts
<1>1. CASE Consumes \/ Ticks
  BY <1>1, OnEventsDue, BroadcastDue DEF Consumes, Ticks
<1>2. ASSUME NEW c \in Clients, Handler(c)
      PROVE  ForgetInv'
  BY <1>2, HandleDue, ReplyDue, ComesAndGoesDue
     DEF Handler, Handles, Raised, HandlerRaises, Replies, Drops
<1>3. ASSUME NEW c \in Sockets, Sender(c)
      PROVE  ForgetInv'
  BY <1>0, <1>3, TakesDue, SendsDue DEF Sender, Takes, Sends
<1>4. ASSUME NEW c \in Sockets, Socket(c)
      PROVE  ForgetInv'
  BY <1>0, <1>4, ComesAndGoesDue, DueFrame DEF Socket, Opens, OnClose, hubVars
<1>5. CASE Hook
  BY <1>5, DueFrame DEF Hook, Rerenders, TimerFires, Ages, ReconnectNow, Unmount, Crashes, Cleanup, hubVars
<1>6. CASE Accidents
  BY <1>6, ComesAndGoesDue, DueFrame DEF Accidents, Breaks, Restarts, hubVars
<1>7. CASE UNCHANGED vars
  BY <1>7, DueFrame DEF vars, hubVars
<1> QED
  BY <1>1, <1>2, <1>3, <1>4, <1>5, <1>6, <1>7 DEF Next

\* NothingForgotten (hub.py:24): whatever a slow client's queue drops, the
\* newest state of the session it was answered for was sent, is on its way or
\* is due at the next tick: for any number of clients and any queue size.
THEOREM NothingIsForgotten == Spec => []NothingForgotten
<1>1. ForgetInv => NothingForgotten
  BY DEF ForgetInv, Due, NothingForgotten, Newest, Registered
<1>2. Init => LiveInv /\ ForgetInv
  BY InitTyped, InitDue
<1>3. LiveInv /\ ForgetInv /\ [Next]_vars => (LiveInv /\ ForgetInv)'
  BY StepTyped, StepDue DEF LiveInv
<1> QED
  BY <1>1, <1>2, <1>3, PTL DEF Spec
=============================================================================
