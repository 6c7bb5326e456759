----------------------------- MODULE ZeroService -----------------------------
(***************************************************************************)
(* zero.SocketService and zero.Conn: Serv and its accept loop, and for     *)
(* each connection connectHandler with the goroutines readCoroutine and    *)
(* writeCoroutine, which talk through the Go channels messageCh, sendCh    *)
(* and done.  The application calls Unicast and Stop.  A panic in any      *)
(* goroutine ends the process.  The peers' ends (cl, wire) belong to the   *)
(* environment.  Frames carry their length and a checksum; a frame is one  *)
(* message here.                                                           *)
(***************************************************************************)
EXTENDS Integers, Sequences, SequencesExt, FiniteSets

CONSTANTS
    Conns,      \* connections
    Cap,        \* the places of messageCh and of sendCh (100 in the code)
    MaxAccepts, \* bound: how many connections are accepted
    MaxCasts    \* bound: how often the application calls Unicast

VARIABLES
    cl,         \* the peer's end: "none", "open" or "closed"
    wire,       \* the messages it has written and the process has not read
    heartBeat,  \* whether SetHeartBeat was called before Serv
    serv,       \* "run", then "stopped"; "dead" after a panic
    ctx,        \* the connections whose context was cancelled
    sessions,   \* the connections entered in sessions
    h, rd, wr,  \* connectHandler, readCoroutine and writeCoroutine of each
    held,       \* the message the reader is about to put into messageCh
    messageCh,
    sendCh,     \* how many packets sendCh holds
    closed,     \* whether Close was called: the socket and sendCh are closed
    timer,      \* the connections whose heartbeat timer runs
    ticked,     \* those whose timer's channel C holds a value
    got,        \* history: the messages given to onMessage
    cast, casts \* the connection Unicast has loaded, 0 for none; their number

service == <<heartBeat, serv>>
coroutines == <<rd, wr, held>>
clock == <<timer, ticked>>
channels == <<messageCh, sendCh, closed, clock>>
unicast == <<cast, casts>>

ZInit ==
    /\ heartBeat \in BOOLEAN
    /\ serv = "run" /\ ctx = {} /\ sessions = {}
    /\ h = [c \in Conns |-> "none"]
    /\ rd = [c \in Conns |-> "none"] /\ wr = [c \in Conns |-> "none"]
    /\ held = [c \in Conns |-> <<>>] /\ messageCh = [c \in Conns |-> <<>>]
    /\ sendCh = [c \in Conns |-> 0] /\ closed = [c \in Conns |-> FALSE]
    /\ timer = {} /\ ticked = {}
    /\ got = [c \in Conns |-> <<>>]
    /\ cast = 0 /\ casts = 0

Alive == serv # "dead"
Panic == serv' = "dead" /\ UNCHANGED heartBeat
Set(f, c, v) == f' = [f EXCEPT ![c] = v]

-----------------------------------------------------------------------------
(***************************************************************************)
(* SocketService.                                                          *)
(***************************************************************************)
\* acceptHandler starts connectHandler.
Accept(c) ==
    /\ serv = "run" /\ cl[c] # "none" /\ h[c] = "none"
    /\ Cardinality({d \in Conns : h[d] # "none"}) < MaxAccepts
    /\ Set(h, c, "start")
    /\ UNCHANGED <<wire, service, ctx, sessions, coroutines, channels, got, unicast>>

\* connectHandler up to its loop: NewConn, the session and the coroutines.
\* Without heartbeats the timer is created with a length of zero and then
\* stopped, and may have fired in between.
Connect(c) ==
    /\ Alive /\ h[c] = "start"
    /\ Set(h, c, "run") /\ Set(rd, c, "read") /\ Set(wr, c, "select")
    /\ sessions' = sessions \cup {c}
    /\ ctx' = IF serv = "stopped" THEN ctx \cup {c} ELSE ctx
    /\ timer' = IF heartBeat THEN timer \cup {c} ELSE timer
    /\ ticked' \in IF heartBeat THEN {ticked} ELSE {ticked, ticked \cup {c}}
    /\ UNCHANGED <<wire, service, held, messageCh, sendCh, closed, got, unicast>>

\* Stop, or an error of Accept: Serv returns, the listener is closed and the
\* context of every connection is cancelled.
Stop ==
    /\ serv = "run" /\ serv' = "stopped"
    /\ ctx' = {c \in Conns : h[c] \notin {"none", "start"}}
    /\ UNCHANGED <<wire, heartBeat, sessions, h, coroutines, channels, got, unicast>>

\* Mutant of HandleDone: a second error is waited for.
HandleDoneBoth(c) ==
    /\ Alive /\ h[c] = "run"
    /\ rd[c] = "done" /\ wr[c] = "done"
    /\ Set(rd, c, "end") /\ Set(wr, c, "select")
    /\ Set(h, c, "cancel")
    /\ UNCHANGED <<wire, service, ctx, sessions, held, channels, got, unicast>>

\* done is received from: onDisconnect is called and the handler returns.
\* The writer goes on, the reader has returned.
HandleDone(c) ==
    /\ Alive /\ h[c] = "run"
    /\ \/ rd[c] = "done" /\ Set(rd, c, "end") /\ UNCHANGED wr
       \/ wr[c] = "done" /\ Set(wr, c, "select") /\ UNCHANGED rd
    /\ Set(h, c, "cancel")
    /\ UNCHANGED <<wire, service, ctx, sessions, held, channels, got, unicast>>

\* onMessage; the callback returns.
HandleMessage(c) ==
    /\ Alive /\ h[c] = "run" /\ messageCh[c] # <<>>
    /\ Set(got, c, Append(got[c], Head(messageCh[c])))
    /\ Set(messageCh, c, Tail(messageCh[c]))
    /\ UNCHANGED <<wire, service, ctx, sessions, h, coroutines, sendCh, closed, clock,
                   unicast>>

\* The deferred cancel, Close and Delete.
Cancel(c) ==
    /\ Alive /\ h[c] = "cancel"
    /\ ctx' = ctx \cup {c} /\ Set(h, c, "close")
    /\ UNCHANGED <<wire, service, sessions, coroutines, channels, got, unicast>>

Close(c) ==
    /\ Alive /\ h[c] = "close"
    /\ Set(closed, c, TRUE) /\ Set(h, c, "delete")
    /\ timer' = timer \ {c}
    /\ UNCHANGED <<wire, service, ctx, sessions, coroutines, messageCh, sendCh, ticked,
                   got, unicast>>

\* Mutant of Delete: the handler ends and its session stays in the table.
DeleteNot(c) ==
    /\ Alive /\ h[c] = "delete" /\ Set(h, c, "end")
    /\ UNCHANGED <<wire, service, ctx, sessions, coroutines, channels, got, unicast>>

Delete(c) ==
    /\ Alive /\ h[c] = "delete"
    /\ sessions' = sessions \ {c} /\ Set(h, c, "end")
    /\ UNCHANGED <<wire, service, ctx, coroutines, channels, got, unicast>>

\* Unicast (Broadcast does the same for every session) finds the session and
\* then sends, which waits while sendCh is full and panics once it is closed.
UnicastLoad(c) ==
    /\ Alive /\ cast = 0 /\ casts < MaxCasts /\ c \in sessions
    /\ cast' = c /\ casts' = casts + 1
    /\ UNCHANGED <<wire, service, ctx, sessions, h, coroutines, channels, got>>

UnicastSend ==
    /\ Alive /\ cast # 0
    /\ \/ closed[cast] /\ Panic /\ UNCHANGED <<sendCh, cast>>
       \/ /\ ~closed[cast] /\ sendCh[cast] < Cap
          /\ Set(sendCh, cast, sendCh[cast] + 1)
          /\ cast' = 0 /\ UNCHANGED service
    /\ UNCHANGED <<wire, ctx, sessions, h, coroutines, messageCh, closed, clock, got,
                   casts>>

-----------------------------------------------------------------------------
(***************************************************************************)
(* readCoroutine.                                                          *)
(***************************************************************************)
ReadMessage(c) ==
    /\ Alive /\ rd[c] = "read" /\ ~closed[c] /\ wire[c] # <<>>
    /\ Set(held, c, <<Head(wire[c])>>)
    /\ Set(wire, c, Tail(wire[c]))
    /\ Set(rd, c, IF heartBeat THEN "reset" ELSE "push")
    /\ UNCHANGED <<service, ctx, sessions, h, wr, channels, got, unicast>>

\* hbTimer.Reset, perhaps after Close has stopped the timer.
ResetTimer(c) ==
    /\ Alive /\ rd[c] = "reset"
    /\ timer' = timer \cup {c} /\ Set(rd, c, "push")
    /\ UNCHANGED <<wire, service, ctx, sessions, h, wr, held, messageCh, sendCh, closed,
                   ticked, got, unicast>>

\* Mutant of Push: it does not wait for the handler to make room.
PushOver(c) ==
    /\ Alive /\ rd[c] = "push"
    /\ Set(messageCh, c, IF Len(messageCh[c]) < Cap THEN messageCh[c] \o held[c]
                         ELSE held[c])
    /\ Set(held, c, <<>>) /\ Set(rd, c, "read")
    /\ UNCHANGED <<wire, service, ctx, sessions, h, wr, sendCh, closed, clock, got,
                   unicast>>

Push(c) ==
    /\ Alive /\ rd[c] = "push" /\ Len(messageCh[c]) < Cap
    /\ Set(messageCh, c, messageCh[c] \o held[c])
    /\ Set(held, c, <<>>) /\ Set(rd, c, "read")
    /\ UNCHANGED <<wire, service, ctx, sessions, h, wr, sendCh, closed, clock, got,
                   unicast>>

\* The cancelled context is only seen between two messages.
ReadCancelled(c) ==
    /\ Alive /\ rd[c] = "read" /\ c \in ctx
    /\ Set(rd, c, "end")
    /\ UNCHANGED <<wire, service, ctx, sessions, h, wr, held, channels, got, unicast>>

\* The peer has closed (with packets of the service unread it resets the
\* connection, and what it wrote may be lost), the socket was closed here, or
\* nothing has come for hbTimeout.
ReadError(c) ==
    /\ Alive /\ rd[c] = "read"
    /\ cl[c] = "closed" \/ closed[c] \/ heartBeat
    /\ Set(rd, c, "done")
    /\ UNCHANGED <<wire, service, ctx, sessions, h, wr, held, channels, got, unicast>>

-----------------------------------------------------------------------------
(***************************************************************************)
(* writeCoroutine.  Receiving from a closed and empty sendCh changes       *)
(* nothing and is left out.                                                *)
(***************************************************************************)
WritePacket(c) ==
    /\ Alive /\ wr[c] = "select" /\ sendCh[c] > 0
    /\ Set(sendCh, c, sendCh[c] - 1)
    /\ \/ ~closed[c] /\ UNCHANGED wr
       \/ (closed[c] \/ cl[c] = "closed") /\ Set(wr, c, "done")
    /\ UNCHANGED <<wire, service, ctx, sessions, h, rd, held, messageCh, closed, clock,
                   got, unicast>>

\* C has one place: a tick that finds it taken is lost.
TimerFires(c) ==
    /\ Alive /\ c \in timer
    /\ timer' = timer \ {c} /\ ticked' = ticked \cup {c}
    /\ UNCHANGED <<wire, service, ctx, sessions, h, coroutines, messageCh, sendCh,
                   closed, got, unicast>>

\* The heartbeat goes into the channel this goroutine empties: it waits for
\* itself when the channel is full, and panics when it is closed.
WriteHeartbeat(c) ==
    /\ Alive /\ wr[c] = "select" /\ c \in ticked
    /\ ticked' = ticked \ {c}
    /\ \/ closed[c] /\ Panic /\ UNCHANGED <<wr, sendCh>>
       \/ /\ ~closed[c] /\ sendCh[c] < Cap
          /\ Set(sendCh, c, sendCh[c] + 1) /\ UNCHANGED <<service, wr>>
       \/ /\ ~closed[c] /\ sendCh[c] = Cap
          /\ Set(wr, c, "self") /\ UNCHANGED <<service, sendCh>>
    /\ UNCHANGED <<wire, ctx, sessions, h, rd, held, messageCh, closed, timer, got,
                   unicast>>

WriteSelf(c) ==
    /\ Alive /\ wr[c] = "self" /\ closed[c]
    /\ Panic
    /\ UNCHANGED <<wire, ctx, sessions, h, coroutines, channels, got, unicast>>

WriteCancelled(c) ==
    /\ Alive /\ wr[c] = "select" /\ c \in ctx
    /\ Set(wr, c, "end")
    /\ UNCHANGED <<wire, service, ctx, sessions, h, rd, held, channels, got, unicast>>

-----------------------------------------------------------------------------
Handler(c) ==
    \/ Connect(c) \/ HandleDone(c) \/ HandleMessage(c)
    \/ Cancel(c) \/ Close(c) \/ Delete(c)

Reader(c) ==
    \/ ReadMessage(c) \/ ResetTimer(c) \/ Push(c)
    \/ ReadCancelled(c) \/ ReadError(c)

Writer(c) ==
    \/ WritePacket(c) \/ WriteHeartbeat(c) \/ WriteSelf(c) \/ WriteCancelled(c)

\* Every variable keeps its type; a channel never holds more than its places,
\* and a session is in the table from its connection to the deferred Delete.
ZTypeOK ==
    /\ heartBeat \in BOOLEAN /\ serv \in {"run", "stopped", "dead"}
    /\ ctx \subseteq Conns /\ sessions \subseteq Conns
    /\ h \in [Conns -> {"none", "start", "run", "cancel", "close", "delete", "end"}]
    /\ rd \in [Conns -> {"none", "read", "reset", "push", "done", "end"}]
    /\ wr \in [Conns -> {"none", "select", "self", "done", "end"}]
    /\ \A c \in Conns :
         /\ Len(held[c]) <= 1 /\ Len(messageCh[c]) <= Cap
         /\ rd[c] \in {"reset", "push"} <=> held[c] # <<>>
         /\ c \in sessions <=> h[c] \in {"run", "cancel", "close", "delete"}
    /\ sendCh \in [Conns -> 0..Cap] /\ closed \in [Conns -> BOOLEAN]
    /\ timer \subseteq Conns /\ ticked \subseteq Conns
    /\ cast \in Conns \cup {0} /\ casts \in 0..MaxCasts
=============================================================================
