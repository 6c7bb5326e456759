------------------------------ MODULE EventLink ------------------------------
(***************************************************************************)
(* MsgSender and ZeroService together: the events SendMsg sends to the     *)
(* address Home reach a SocketService there, connection by connection.     *)
(***************************************************************************)
EXTENDS MsgSender

CONSTANTS
    Home,                     \* the address the service listens on
    Cap, MaxAccepts, MaxCasts \* see ZeroService

ASSUME LinkAssumption ==
    /\ Home \in Addrs /\ Cap \in Nat \ {0}
    /\ MaxAccepts \in Nat /\ MaxCasts \in Nat

VARIABLES heartBeat, serv, ctx, sessions, h, rd, wr, held, messageCh, sendCh,
          closed, timer, ticked, got, cast, casts

zero == INSTANCE ZeroService
zvars == <<heartBeat, serv, ctx, sessions, h, rd, wr, held, messageCh, sendCh,
           closed, timer, ticked, got, cast, casts>>
vars == <<svars, zvars>>

Init == SInit /\ zero!ZInit

\* Connections to other addresses end somewhere else.
AtHome(c) == saddr[c] = Home

Service(step) ==
    UNCHANGED <<callers, msgsToSend, mm, loops, sender, cl, written>> /\ step

ServiceStep ==
    Service(
      \/ zero!Stop \/ zero!UnicastSend
      \/ \E c \in Conns :
           \/ AtHome(c) /\ zero!Accept(c)
           \/ zero!UnicastLoad(c) \/ zero!TimerFires(c)
           \/ zero!Handler(c) \/ zero!Reader(c) \/ zero!Writer(c))

SenderStep == SNext /\ UNCHANGED zvars

Next == SenderStep \/ ServiceStep

\* The handlers and readers of accepted connections go on while one of them
\* can: each takes a few steps only, so that none can starve another.  The
\* writers, the application and the sender need not do anything.
Fairness ==
    WF_vars(Service(\E c \in Conns :
      h[c] # "none" /\ (zero!Handler(c) \/ zero!Reader(c))))

Spec == Init /\ [][Next]_vars /\ Fairness

-----------------------------------------------------------------------------
(***************************************************************************)
(* Properties.                                                             *)
(***************************************************************************)
\* The types of both ends: no Go channel holds more than its places, one
\* collector runs, and a session is in the table exactly while its handler is.
TypeOK ==
    /\ STypeOK /\ zero!ZTypeOK
    /\ held \in [Conns -> Seq(Msgs)] /\ messageCh \in [Conns -> Seq(Msgs)]
    /\ got \in [Conns -> Seq(Msgs)]

\* onMessage is called with the messages of a connection in the order in
\* which doSend wrote them, none twice and none left out before a later one,
\* whatever timers, errors and the two full channels do in between.
InOrder == \A c \in Conns : IsPrefix(got[c], written[c])

\* When the sender has closed its connection, connectHandler calls
\* onDisconnect, ends and removes the session, although the reader may be
\* waiting for room in messageCh and the writer for room in the channel it
\* empties itself.  (After Stop a session may stay: the reader returns
\* without reporting to done.)
Released ==
    \A c \in Conns :
      (cl[c] = "closed" /\ c \in sessions) ~> (c \notin sessions \/ serv # "run")
=============================================================================
