----------------------------- MODULE LiveStream -----------------------------
(***************************************************************************)
(* frontend hooks/useLiveStream.ts as Dashboard.tsx uses it, over the hub:  *)
(* the browser's sockets, the reconnect timer, the session it adopts, the   *)
(* staleness timer and the state it shows.  A connection of the hub that is *)
(* no socket of the hook is another program's, which has sent its messages  *)
(* and never reads.                                                         *)
(*                                                                         *)
(* What the server sends arrives at once or never: frames in flight when a  *)
(* connection breaks are frames that were not sent.                         *)
(***************************************************************************)
EXTENDS LiveHub

CONSTANTS
    MaxSockets,   \* bound of the model: sockets the hook opens, 1..MaxSockets
    MaxLosses,    \* bound of the model: connections and servers lost
    OtherMessages \* what other programs send: sequences of messages

ASSUME StreamAssumption ==
    /\ MaxSockets \in Nat \ {0}
    /\ 1..MaxSockets \subseteq Clients
    /\ MaxLosses \in Nat
    /\ OtherMessages \subseteq Seq(Messages)

Sockets == 1..MaxSockets
Others  == Clients \ Sockets

VARIABLES
    ready,      \* socket -> readyState; "none" before it is made
    up,         \* connections that are not broken
    ref,        \* socket.current, 0 for null
    timer,      \* reconnectTimer.current is set
    shouldRun,  \* shouldRun.current
    selected,   \* the dashboard's sessionId, 0 for null
    connection, \* the connection state it displays
    heard,      \* lastEventAt is set
    shown,      \* the last state written to pendingState
    losses

hookVars == <<ready, up, ref, timer, shouldRun, selected, connection, heard, shown, losses>>
vars == <<hubVars, hookVars>>

Nothing == Snapshot(0, 0)

StreamTypeOK ==
    /\ ready \in [Sockets -> {"none", "connecting", "open", "closing", "closed"}]
    /\ up \subseteq Clients
    /\ ref \in Sockets \union {0}
    /\ timer \in BOOLEAN /\ shouldRun \in BOOLEAN
    /\ selected \in Sessions \union {0}
    /\ connection \in {"disconnected", "connecting", "connected", "stale"}
    /\ heard \in BOOLEAN
    /\ shown \in Frames \union {Nothing}
    /\ losses \in 0..MaxLosses

TypeOK == HubTypeOK /\ StreamTypeOK

\* The first effect has called connect().  In development React runs it twice:
\* the first socket is already closing.
Init ==
    /\ \E messages \in [Others -> OtherMessages] : HubInit(messages)
    /\ \/ ready = [c \in Sockets |-> IF c = 1 THEN "connecting" ELSE "none"] /\ ref = 1
       \/ /\ MaxSockets > 1
          /\ ready = [c \in Sockets |-> IF c = 1 THEN "closing" ELSE IF c = 2 THEN "connecting" ELSE "none"]
          /\ ref = 2
    /\ up = Clients
    /\ timer = FALSE /\ shouldRun = TRUE
    /\ selected = 0
    /\ connection = "connecting" /\ heard = FALSE
    /\ shown = Nothing
    /\ losses = 0

Live(c) == c # 0 /\ ready[c] \in {"connecting", "open"}
Unmade  == {c \in Sockets : ready[c] = "none"}

\* connect(), with ready and the reference as its caller left them.
Connect(states, current) ==
    IF ~shouldRun \/ (current # 0 /\ states[current] \in {"connecting", "open"})
    THEN ready' = states /\ ref' = current /\ UNCHANGED connection
    ELSE /\ \E c \in Unmade : ready' = [states EXCEPT ![c] = "connecting"] /\ ref' = c
         /\ connection' = "connecting"

Subscription == Subscribe(IF selected = 0 THEN <<>> ELSE <<selected>>, <<Channels>>, <<>>)

\* handleMessage: a state replaces what is shown, whatever session it is of.
Receives(c, frames) ==
    IF shouldRun /\ c \in Sockets /\ frames # <<>> /\ ready[c] = "open"
    THEN /\ shown' = IF frames[1].kind # "event" THEN frames[1] ELSE shown
         /\ heard' = TRUE
         /\ connection' = "connected"
    ELSE UNCHANGED <<shown, heard, connection>>

-----------------------------------------------------------------------------
(* The server's steps, with what the browser makes of them. *)

Consumes ==
    /\ \E n \in 1..MaxBatch : \E batch \in [1..n -> Events] : OnEvents(batch)
    /\ UNCHANGED hookVars

Ticks == Broadcast /\ UNCHANGED hookVars

Takes(c) == c \in up \intersect Sockets /\ SenderTakes(c) /\ UNCHANGED hookVars

Sends(c) ==
    /\ c \in up \intersect Sockets
    /\ SenderSends(c)
    /\ Receives(c, conn[c].held)
    /\ UNCHANGED <<ready, up, ref, timer, shouldRun, selected, losses>>

Handles(c) == c \in up /\ HandleMessage(c) /\ UNCHANGED hookVars

Raised(c) ==
    /\ c \in up /\ HandlerRaises(c)
    /\ up' = up \ {c}
    /\ UNCHANGED <<ready, ref, timer, shouldRun, selected, connection, heard, shown, losses>>

Replies(c) ==
    /\ c \in up
    /\ Reply(c)
    /\ Receives(c, ReplyFrames(c))
    /\ UNCHANGED <<ready, up, ref, timer, shouldRun, selected, losses>>

Drops(c) == c \notin up /\ Disconnect(c) /\ UNCHANGED hookVars

\* The network, or silence for 120 s: the connection is gone for both sides.
Breaks(c) ==
    /\ c \in up /\ Live(c)
    /\ losses < MaxLosses /\ losses' = losses + 1
    /\ up' = up \ {c}
    /\ UNCHANGED <<hubVars, ready, ref, timer, shouldRun, selected, connection, heard, shown>>

Restarts ==
    /\ losses < MaxLosses /\ losses' = losses + 1
    /\ HubRestarts
    /\ up' = up \ Registered
    /\ UNCHANGED <<ready, ref, timer, shouldRun, selected, connection, heard, shown>>

-----------------------------------------------------------------------------
(* The hook *)

\* Mutant: the hello lists every session there is.
AllSessions == Sessions

\* active_sessions() of the hello.
Active == {s \in Sessions : version[s] > 0}

\* onopen, then the hello, whose first active session the dashboard adopts.
Opens(c) ==
    /\ c \in Sockets /\ c \in up /\ ready[c] = "connecting"
    /\ Accept(c, <<Subscription>>)
    /\ ready' = [ready EXCEPT ![c] = "open"]
    /\ connection' = "connected"
    /\ selected' = IF shouldRun /\ selected = 0 /\ Active # {} THEN Min(Active) ELSE selected
    /\ UNCHANGED <<up, ref, timer, shouldRun, heard, shown, losses>>

\* The dashboard passes a new channels array at every render, so every render
\* subscribes again.  Bound of the model: the last one has been answered.
Rerenders ==
    /\ shouldRun /\ ref # 0 /\ ready[ref] = "open"
    /\ inbox[ref] = <<>> /\ conn[ref].task # "reply"
    /\ inbox' = [inbox EXCEPT ![ref] = Append(@, Subscription)]
    /\ UNCHANGED <<version, dirty, arrived, conn, hookVars>>

\* Mutant: a close that nobody follows up.
ClosedForGood(c) ==
    /\ ready[c] = "closing" \/ (c \notin up /\ ready[c] \in {"connecting", "open"})
    /\ ready' = [ready EXCEPT ![c] = "closed"]
    /\ ref' = 0 /\ connection' = "disconnected"
    /\ up' = up \ {c}
    /\ UNCHANGED <<hubVars, timer, shouldRun, selected, heard, shown, losses>>

\* onclose, of whichever socket: it clears the reference and scheduleReconnect
\* sets the timer.
OnClose(c) ==
    /\ ready[c] = "closing" \/ (c \notin up /\ ready[c] \in {"connecting", "open"})
    /\ ready' = [ready EXCEPT ![c] = "closed"]
    /\ ref' = 0
    /\ connection' = "disconnected"
    /\ timer' = (timer \/ shouldRun)
    /\ up' = up \ {c}
    /\ UNCHANGED <<hubVars, shouldRun, selected, heard, shown, losses>>

TimerFires ==
    /\ timer
    /\ timer' = FALSE
    /\ Connect(ready, ref)
    /\ UNCHANGED <<hubVars, up, shouldRun, selected, heard, shown, losses>>

Closing(c) == IF Live(c) THEN [ready EXCEPT ![c] = "closing"] ELSE ready

\* reconnectNow: the button is there while nothing is shown.
ReconnectNow ==
    /\ shouldRun /\ connection = "disconnected" /\ shown = Nothing
    /\ timer' = FALSE
    /\ up' = IF Live(ref) THEN up \ {ref} ELSE up
    /\ Connect(Closing(ref), ref)
    /\ UNCHANGED <<hubVars, shouldRun, selected, heard, shown, losses>>

\* The effect's cleanup; the component's state goes with it.
Cleanup ==
    /\ shouldRun
    /\ shouldRun' = FALSE
    /\ timer' = FALSE
    /\ ready' = Closing(ref) /\ ref' = 0
    /\ up' = IF Live(ref) THEN up \ {ref} ELSE up
    /\ selected' = 0 /\ connection' = "disconnected" /\ heard' = FALSE
    /\ UNCHANGED <<hubVars, losses>>

\* The user leaves the page.
Unmount == Cleanup /\ shown' = Nothing

\* The publish tick renders a bare answer: the dashboard reads the weather it
\* does not have, and nothing above it catches the error, so React takes the
\* page down.  What it showed is kept, to tell.
Crashes == Cleanup /\ shown.kind = "bare" /\ UNCHANGED shown

Broken == ~ shouldRun /\ shown.kind = "bare"

\* The staleness timer, too long after the last event; it looks only at a
\* connection believed to be up.
Ages ==
    /\ heard /\ connection \in {"connected", "stale"}
    /\ connection' \in {"stale", "disconnected"}
    /\ UNCHANGED <<hubVars, ready, up, ref, timer, shouldRun, selected, heard, shown, losses>>

Sender(c)  == Takes(c) \/ Sends(c)
Handler(c) == Handles(c) \/ Raised(c) \/ Replies(c) \/ Drops(c)
Socket(c)  == Opens(c) \/ OnClose(c)
Hook       == Rerenders \/ TimerFires \/ Ages \/ ReconnectNow \/ Unmount \/ Crashes
Accidents  == (\E c \in Sockets : Breaks(c)) \/ Restarts

Next ==
    \/ Consumes \/ Ticks
    \/ \E c \in Clients : Handler(c)
    \/ \E c \in Sockets : Sender(c) \/ Socket(c)
    \/ Hook \/ Accidents

Spec == Init /\ [][Next]_vars

\* The event loops schedule their tasks and timers.  The dashboard renders when
\* it adopts a session and, once an event has arrived, at every publish tick,
\* whose age of the last event is never the same.
FairSpec ==
    /\ Spec
    /\ WF_vars(Ticks)
    /\ \A c \in Sockets : WF_vars(Sender(c)) /\ WF_vars(Handler(c)) /\ WF_vars(Socket(c))
    /\ WF_vars(Rerenders /\ (heard \/ selected # 0)) /\ WF_vars(TimerFires) /\ WF_vars(Ages)
    /\ WF_vars(Crashes)

-----------------------------------------------------------------------------
(* Properties *)

\* useLiveStream.ts:84, 246-248: while the page is open there is a socket that
\* lives or whose close is still to come, or a timer that opens one.
NeverStranded ==
    shouldRun => timer \/ \E c \in Sockets : ready[c] \in {"connecting", "open", "closing"}

\* hub.py:20: a client that stops reading never blocks the fanout: whatever has
\* changed is broadcast, although the other program reads nothing.
FanoutFlows == []<>(dirty = {})

\* useLiveStream.ts:302: however sockets and snapshots overtook each other, once
\* the stream rests a connected page shows the newest state of its session, and
\* not that of another one nor a bare answer; a page that a bare answer took
\* down (Broken) is no page any more.
ShowsTheSelection ==
    <>[](shouldRun /\ ref # 0 /\ ready[ref] = "open" /\ selected # 0
            => version[selected] > 0 /\ shown = Snapshot(selected, version[selected]))

\* hub.py:321-325 and Dashboard.tsx:185: the answer that takes the page down is
\* given only by a hub that has lost events it had consumed, in a restart:
\* neither an early subscription nor a reconnection does it.
BrokenByLossOnly == Broken => FoldFunction(LAMBDA n, m : n + m, 0, version) < arrived

\* useLiveStream.ts:10-13: an open socket that delivers no events is not live.
QuietIsNotConnected == <>[](connection # "connected")
=============================================================================
