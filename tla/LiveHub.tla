------------------------------- MODULE LiveHub -------------------------------
(***************************************************************************)
(* api/hub.py and the WebSocket handler of routers/live.py: the state the   *)
(* hub derives from the stream, the connections with their subscriptions    *)
(* and bounded queues, the broadcast tick, and the replies the handler      *)
(* sends past the queue.                                                    *)
(*                                                                         *)
(* One action is the code between two awaits that can suspend: on_events    *)
(* and a broadcast tick have none.  A session's derived state is the number *)
(* of its events that were applied.  Of the frames only snapshots and       *)
(* events are kept: hello, subscribed, pong and error carry no state.       *)
(***************************************************************************)
EXTENDS Integers, SequencesExt

CONSTANTS
    Sessions,     \* session ids, positive numbers
    Clients,      \* ids of connections
    Channels,     \* VALID_CHANNELS
    Urgent,       \* the channel whose events are sent at once
    Events,       \* the events there are: session, channel, driver (0: none)
    QueueSize,    \* CLIENT_QUEUE_SIZE
    MaxDrivers,   \* MAX_DRIVER_FILTER
    MaxBatch,     \* events the consumer hands over at once
    MaxEvents     \* bound of the model: events of a behaviour

ASSUME HubAssumption ==
    /\ Sessions \subseteq Nat \ {0}
    /\ Urgent \in Channels /\ Channels \subseteq STRING
    /\ QueueSize \in Nat \ {0}
    /\ MaxDrivers \in Nat /\ MaxBatch \in Nat /\ MaxEvents \in Nat
    /\ Events \subseteq [session : Sessions, channel : STRING, driver : Nat]

VARIABLES
    version,  \* session -> events applied to its SessionState
    dirty,    \* _dirty
    arrived,  \* events consumed so far
    conn,     \* client -> its Connection and where its handler is
    inbox     \* client -> messages on their way to the handler

hubVars == <<version, dirty, arrived, conn, inbox>>

Snapshot(s, v) == [kind |-> "snapshot", session |-> s, at |-> v]
EventFrame(s)  == [kind |-> "event", session |-> s, at |-> 0]
\* What a session the hub does not know is answered with: no weather, no bests.
Bare(s)        == [kind |-> "bare", session |-> s, at |-> 0]
Frames == {Snapshot(s, v) : s \in Sessions, v \in 0..MaxEvents}
          \union {EventFrame(s) : s \in Sessions} \union {Bare(s) : s \in Sessions}

\* What a client may send: a field of a message is absent or given, as <<>> or
\* <<value>>.  Unhashable stands for an object or a list among the channels.
Unhashable == "{}"
Field(S) == {x \in Seq(S) : Len(x) <= 1}
Messages == [type     : {"subscribe", "unsubscribe"},
             session  : Field(Sessions \union {n \in Int : n <= 0}),
             channels : Field(SUBSET STRING),
             drivers  : Field({D \in SUBSET Int : IsFiniteSet(D)})]

\* "receive" awaits a message, "reply" is between the two sends that answer a
\* subscribe.  session = 0 and drivers = {} stand for no filter.  told (history)
\* says whether the session it follows was answered with a state ("never" if
\* not), and whether the newest state of it has been sent.
Absent  == [task |-> "none", session |-> 0, told |-> "never", channels |-> {}, drivers |-> {},
            queue |-> <<>>, held |-> <<>>]
Fresh   == [Absent EXCEPT !.task = "receive",
                          !.channels = {"timing", "session", "race_control"} \intersect Channels]
Gone    == [Absent EXCEPT !.task = "gone"]

Connections == [task     : {"none", "receive", "reply", "gone"},
                session  : Sessions \union {0},
                told     : {"never", "old", "newest"},
                channels : SUBSET Channels,
                drivers  : SUBSET Int,
                queue    : Seq(Frames),
                held     : Seq(Frames)]

Registered == {c \in Clients : conn[c].task \in {"receive", "reply"}}

HubTypeOK ==
    /\ version \in [Sessions -> 0..MaxEvents]
    /\ dirty \subseteq Sessions
    /\ arrived \in 0..MaxEvents
    /\ conn \in [Clients -> Connections]
    /\ inbox \in [Clients -> Seq(Messages)]
    /\ \A c \in Clients : /\ Cardinality(conn[c].drivers) <= MaxDrivers
                          /\ Len(conn[c].queue) <= QueueSize
                          /\ Len(conn[c].held) <= 1

\* The clients in the domain of messages are connected and have sent theirs.
HubInit(messages) ==
    /\ version = [s \in Sessions |-> 0]
    /\ dirty = {}
    /\ arrived = 0
    /\ conn = [c \in Clients |-> IF c \in DOMAIN messages THEN Fresh ELSE Absent]
    /\ inbox = [c \in Clients |-> IF c \in DOMAIN messages THEN messages[c] ELSE <<>>]

-----------------------------------------------------------------------------
(* Fanout *)

\* Mutant: the newest frame is dropped.
KeepOldest(queue, frame) == IF Len(queue) < QueueSize THEN Append(queue, frame) ELSE queue

\* Mutant: the queue has no bound.
NeverDrops(queue, frame) == Append(queue, frame)

\* Connection.enqueue
Enqueue(queue, frame) == Append(IF Len(queue) < QueueSize THEN queue ELSE Tail(queue), frame)

\* One offer after the other; an offer is a frame, as <<frame>>, or <<>>.
EnqueueAll(queue, offers) ==
    LET after[i \in 0..Len(offers)] ==
            IF i = 0 THEN queue
            ELSE IF offers[i] = <<>> THEN after[i - 1]
            ELSE Enqueue(after[i - 1], offers[i][1])
    IN  after[Len(offers)]

\* Subscription.wants
Wants(sub, e) ==
    /\ sub.session \in {0, e.session}
    /\ e.channel \in sub.channels
    /\ sub.drivers = {} \/ e.driver = 0 \/ e.driver \in sub.drivers

\* Mutant: put() instead of put_nowait(): the fanout waits for the slowest.
OfferWaits(offers, changed) ==
    /\ \A c \in Registered :
          Len(conn[c].queue) + Cardinality({i \in DOMAIN offers[c] : offers[c][i] # <<>>}) <= QueueSize
    /\ conn' = [c \in Clients |->
                  [conn[c] EXCEPT !.queue = EnqueueAll(@, offers[c]),
                     !.told = IF @ = "newest" /\ conn[c].session \in changed THEN "old" ELSE @]]

\* What a fanout offers to every registered connection; changed are the
\* sessions whose state has moved on.
Offer(offers, changed) ==
    conn' = [c \in Clients |->
               IF c \notin Registered THEN conn[c]
               ELSE [conn[c] EXCEPT !.queue = EnqueueAll(@, offers[c]),
                       !.told = IF @ = "newest" /\ conn[c].session \in changed THEN "old" ELSE @]]

\* on_events: the batch is applied, its race-control events go out at once.
OnEvents(batch) ==
    /\ arrived + Len(batch) <= MaxEvents
    /\ arrived' = arrived + Len(batch)
    /\ version' = [s \in Sessions |->
                     version[s] + Cardinality({i \in DOMAIN batch : batch[i].session = s})]
    /\ dirty' = dirty \union {e.session : e \in ToSet(batch)}
    /\ Offer([c \in Clients |-> [i \in DOMAIN batch |->
                IF batch[i].channel = Urgent /\ Wants(conn[c], batch[i])
                THEN <<EventFrame(batch[i].session)>> ELSE <<>>]],
             {e.session : e \in ToSet(batch)})
    /\ UNCHANGED inbox

\* A tick of _broadcast_loop: a snapshot of every session that changed, to the
\* connections that follow it or follow no session; channels are not looked at.
Broadcast ==
    /\ dirty # {}
    /\ dirty' = {}
    /\ \E order \in SetToSeqs(dirty) :
          Offer([c \in Clients |-> [i \in DOMAIN order |->
                   IF conn[c].session \in {0, order[i]}
                   THEN <<Snapshot(order[i], version[order[i]])>> ELSE <<>>]], {})
    /\ UNCHANGED <<version, arrived, inbox>>

\* The send loop takes a frame, then awaits the socket.
SenderTakes(c) ==
    /\ c \in Registered
    /\ conn[c].held = <<>> /\ conn[c].queue # <<>>
    /\ conn' = [conn EXCEPT ![c].held = <<Head(conn[c].queue)>>, ![c].queue = Tail(@)]
    /\ UNCHANGED <<version, dirty, arrived, inbox>>

\* The newest state of the session a connection follows.
Newest(c) == Snapshot(conn[c].session, version[conn[c].session])

SenderSends(c) ==
    /\ c \in Registered
    /\ conn[c].held # <<>>
    /\ conn' = [conn EXCEPT ![c].held = <<>>,
                  ![c].told = IF @ = "old" /\ conn[c].held[1] = Newest(c) THEN "newest" ELSE @]
    /\ UNCHANGED <<version, dirty, arrived, inbox>>

-----------------------------------------------------------------------------
(* The handler of one connection *)

\* accept() and hub.connect.
Accept(c, message) ==
    /\ conn[c].task = "none"
    /\ conn' = [conn EXCEPT ![c] = Fresh]
    /\ inbox' = [inbox EXCEPT ![c] = message]
    /\ UNCHANGED <<version, dirty, arrived>>

\* A ping and what is answered with an error at once change nothing and are
\* left out.
Subscribe(session, channels, drivers) ==
    [type |-> "subscribe", session |-> session, channels |-> channels, drivers |-> drivers]
Unsubscribe(channels) == [Subscribe(<<>>, channels, <<>>) EXCEPT !.type = "unsubscribe"]

SessionRefused(m)  == m.session # <<>> /\ m.session[1] \notin Nat \ {0}
ChannelsRefused(m) == m.channels # <<>> /\ ~ m.channels[1] \subseteq Channels
ChannelsRaise(m)   == m.channels # <<>> /\ Unhashable \in m.channels[1]
DriversRefused(m)  == m.drivers # <<>> /\ Cardinality(m.drivers[1]) > MaxDrivers
Given(field, old)  == IF field = <<>> THEN old ELSE field[1]

\* Fields are assigned one after the other, so a message refused at a later
\* field has changed the earlier ones.
Subscribed(sub, m) ==
    LET session == Given(m.session, sub.session)
        follows == [sub EXCEPT !.session = session, !.told = IF session = sub.session THEN @ ELSE "never"]
        chosen  == [follows EXCEPT !.channels = Given(m.channels, @)]
    IN  IF SessionRefused(m) THEN sub
        ELSE IF ChannelsRefused(m) THEN follows
        ELSE IF DriversRefused(m) THEN chosen
        ELSE [chosen EXCEPT !.drivers = Given(m.drivers, @), !.task = "reply"]

Unsubscribed(sub, m) == [sub EXCEPT !.channels = @ \ Given(m.channels, @)]

\* set(channels) is a TypeError, which ends the handler.
Raises(m) == ChannelsRaise(m) /\ (m.type = "subscribe" => ~ SessionRefused(m))

\* _handle_message up to the first send that answers it.
HandleMessage(c) ==
    /\ conn[c].task = "receive" /\ inbox[c] # <<>>
    /\ LET m == Head(inbox[c])
       IN  ~ Raises(m) /\ conn' = [conn EXCEPT ![c] = IF m.type = "subscribe" THEN Subscribed(@, m) ELSE Unsubscribed(@, m)]
    /\ inbox' = [inbox EXCEPT ![c] = Tail(@)]
    /\ UNCHANGED <<version, dirty, arrived>>

\* Mutant: the reply leaves the state to the next tick.
OnlySubscribed(c) == <<>>

\* hub.snapshot: a session without events in this process is not known.
Answer(c) == IF version[conn[c].session] = 0 THEN Bare(conn[c].session) ELSE Newest(c)

\* The snapshot that follows "subscribed", past the queue.
ReplyFrames(c) ==
    IF conn[c].session = 0 THEN <<>> ELSE <<Answer(c)>>

Reply(c) ==
    /\ conn[c].task = "reply"
    /\ conn' = [conn EXCEPT ![c].task = "receive", ![c].told = IF ReplyFrames(c) = <<>> THEN @ ELSE "newest"]
    /\ UNCHANGED <<version, dirty, arrived, inbox>>

\* The socket is gone: the handler's finally runs hub.disconnect.
Disconnect(c) ==
    /\ c \in Registered
    /\ conn' = [conn EXCEPT ![c] = Gone]
    /\ inbox' = [inbox EXCEPT ![c] = <<>>]
    /\ UNCHANGED <<version, dirty, arrived>>

\* A message the handler does not survive; the finally closes the socket too.
HandlerRaises(c) ==
    /\ conn[c].task = "receive" /\ inbox[c] # <<>>
    /\ Raises(Head(inbox[c]))
    /\ Disconnect(c)

\* The process starts again: nothing rebuilds the derived state.
HubRestarts ==
    /\ version' = [s \in Sessions |-> 0]
    /\ dirty' = {}
    /\ conn' = [c \in Clients |-> IF c \in Registered THEN Gone ELSE conn[c]]
    /\ inbox' = [c \in Clients |-> <<>>]
    /\ UNCHANGED arrived

-----------------------------------------------------------------------------
\* hub.py:24: whatever a slow client loses, the newest state of the session it
\* was answered for was sent, is on its way to it or is due at the next tick.
NothingForgotten ==
    \A c \in Registered : conn[c].told = "old" =>
        \/ conn[c].session \in dirty
        \/ Newest(c) \in ToSet(conn[c].held \o conn[c].queue)
=============================================================================
