---------------------------- MODULE RedisListener ----------------------------
(***************************************************************************)
(* How decept-proxy and decept-bait hear of strategies and answer them:    *)
(* RedisServer.ListenChannel and Listen, a goroutine that subscribes to a  *)
(* channel and passes messages on; the goroutine of main, which takes them *)
(* from a Go channel of one place and answers with PublishMsg; and the     *)
(* connection pool the two share (at most MaxActive connections, no        *)
(* waiting; redigo's Pool).  The network and the server are external.      *)
(***************************************************************************)
EXTENDS Integers, Sequences, Functions

CONSTANTS
    MaxActive,  \* the pool's MaxActive
    MaxMsgs,    \* bound: how many messages the centre publishes
    MaxDrops    \* bound: how often the network goes down

ASSUME PoolAssumption == MaxActive \in Nat \ {0}
ASSUME TrafficAssumption == MaxMsgs \in Nat /\ MaxDrops \in Nat

\* A connection variable holds nothing, what Get returns on an error, a
\* connection that works, or one that no longer does.
Conns == {"none", "err", "ok", "broken"}

VARIABLES
    net,        \* whether the server can be reached
    drops,      \* how often it has become unreachable
    active,     \* the pool's count of connections
    good, bad,  \* its idle connections, working and broken
    leaked,     \* history: connections nobody will ever close
    lpc,        \* where the listener is
    lconn,      \* its connection
    sub,        \* whether the server has it as a subscriber
    wire,       \* the messages sent to it and not yet received
    got,        \* the message it is about to pass on; 0 for none
    message,    \* the Go channel
    hpc, hconn, \* where the handler is, and its connection
    handled,    \* the messages it has taken, in order
    sent        \* how many messages the centre has published

pool == <<active, good, bad, leaked>>
listener == <<lpc, lconn, sub, wire, got>>
handler == <<hpc, hconn, handled>>
vars == <<net, drops, pool, listener, message, handler, sent>>

Init ==
    /\ net = TRUE /\ drops = 0
    /\ active = 0 /\ good = 0 /\ bad = 0 /\ leaked = 0
    /\ lpc = "get" /\ lconn = "none" /\ sub = FALSE /\ wire = <<>> /\ got = 0
    /\ message = <<>>
    /\ hpc = "idle" /\ hconn = "none" /\ handled = <<>>
    /\ sent = 0

Real(c) == IF c \in {"ok", "broken"} THEN 1 ELSE 0

-----------------------------------------------------------------------------
(***************************************************************************)
(* The pool.  TestOnBorrow pings what has been idle for a minute, but      *)
(* IdleTimeout closes it after 30 seconds: a broken idle connection is     *)
(* handed out untested.                                                    *)
(***************************************************************************)
\* Mutant of Get: the limit is not enforced.
GetUnbounded(c) ==
    \/ good > 0 /\ c = "ok" /\ good' = good - 1 /\ UNCHANGED <<active, bad>>
    \/ bad > 0 /\ c = "broken" /\ bad' = bad - 1 /\ UNCHANGED <<active, good>>
    \/ /\ good = 0 /\ bad = 0
       /\ c = IF net THEN "ok" ELSE "err"
       /\ active' = active + (IF net THEN 1 ELSE 0)
       /\ UNCHANGED <<good, bad>>

\* pool.Get returns c.
Get(c) ==
    \/ good > 0 /\ c = "ok" /\ good' = good - 1 /\ UNCHANGED <<active, bad>>
    \/ bad > 0 /\ c = "broken" /\ bad' = bad - 1 /\ UNCHANGED <<active, good>>
    \/ /\ good = 0 /\ bad = 0
       /\ active < MaxActive /\ net
       /\ c = "ok"
       /\ active' = active + 1
       /\ UNCHANGED <<good, bad>>
    \/ /\ good = 0 /\ bad = 0
       /\ active >= MaxActive \/ ~net
       /\ c = "err"
       /\ UNCHANGED <<active, good, bad>>

\* conn.Close of a connection that goes back to the idle ones.
PutBack(c) ==
    /\ good' = good + (IF c = "ok" THEN 1 ELSE 0)
    /\ active' = active - (IF c = "broken" THEN 1 ELSE 0)
    /\ UNCHANGED bad

\* Get closes what has been idle for 30 seconds before it looks further.
Expire ==
    /\ good + bad > 0
    /\ active' = active - good - bad
    /\ good' = 0 /\ bad' = 0
    /\ UNCHANGED <<net, drops, leaked, listener, message, handler, sent>>

\* Every connection breaks; what was on the wire may or may not have come
\* through.
NetDown ==
    /\ net /\ drops < MaxDrops
    /\ net' = FALSE /\ drops' = drops + 1
    /\ good' = 0 /\ bad' = good + bad
    /\ lconn' = IF lconn = "ok" THEN "broken" ELSE lconn
    /\ hconn' = IF hconn = "ok" THEN "broken" ELSE hconn
    /\ sub' = FALSE
    /\ \E k \in 0..Len(wire) : wire' = SubSeq(wire, 1, k)
    /\ UNCHANGED <<active, leaked, lpc, got, message, hpc, handled, sent>>

NetUp == ~net /\ net' = TRUE
            /\ UNCHANGED <<drops, pool, listener, message, handler, sent>>

\* The centre publishes; whoever is not subscribed never hears of it.
CentrePublish ==
    /\ sent < MaxMsgs
    /\ sent' = sent + 1
    /\ wire' = IF sub THEN Append(wire, sent + 1) ELSE wire
    /\ UNCHANGED <<net, drops, pool, lpc, lconn, sub, got, message, handler>>

-----------------------------------------------------------------------------
(***************************************************************************)
(* ListenChannel and Listen.                                               *)
(***************************************************************************)
ListenGet ==
    /\ lpc \in {"get", "reget"}
    /\ \E c \in Conns : Get(c) /\ lconn' = c
    /\ lpc' = IF lpc = "get" THEN "sub" ELSE "resub"
    /\ UNCHANGED <<net, drops, leaked, sub, wire, got, message, handler, sent>>

\* Subscribe works, or seems to on a connection not yet known to be broken.
Subscribe ==
    /\ lpc \in {"sub", "resub"}
    /\ lconn \in {"ok", "broken"}
    /\ sub' = (lconn = "ok")
    /\ lpc' = "recv"
    /\ UNCHANGED <<net, drops, pool, lconn, wire, got, message, handler, sent>>

\* The first Subscribe fails: Listen returns without closing the connection,
\* and ListenChannel calls it again.
ListenFail ==
    /\ lpc = "sub"
    /\ lconn \in {"err", "broken"}
    /\ leaked' = leaked + Real(lconn)
    /\ lconn' = "none"
    /\ lpc' = "get"
    /\ UNCHANGED <<net, drops, active, good, bad, sub, wire, got, message, handler, sent>>

\* A later Subscribe fails: nobody looks.
ResubFail ==
    /\ lpc = "resub"
    /\ lconn \in {"err", "broken"}
    /\ lpc' = "recv"
    /\ UNCHANGED <<net, drops, pool, lconn, sub, wire, got, message, handler, sent>>

Receive ==
    /\ lpc = "recv" /\ wire # <<>>
    /\ got' = Head(wire) /\ wire' = Tail(wire)
    /\ lpc' = "put"
    /\ UNCHANGED <<net, drops, pool, lconn, sub, message, handler, sent>>

\* Mutant of PassOn: a message is dropped when there is no place.
PassOnDrop ==
    /\ lpc = "put"
    /\ message' = IF Len(message) < 1 THEN Append(message, got) ELSE message
    /\ got' = 0
    /\ lpc' = "recv"
    /\ UNCHANGED <<net, drops, pool, lconn, sub, wire, handler, sent>>

\* Mutant of PassOn: a goroutine of its own waits for the place.
PassOnAsync ==
    /\ lpc = "put"
    /\ message' \in {Append(message, got), <<got>> \o message}
    /\ got' = 0
    /\ lpc' = "recv"
    /\ UNCHANGED <<net, drops, pool, lconn, sub, wire, handler, sent>>

\* message <- v, which waits for a free place.
PassOn ==
    /\ lpc = "put" /\ Len(message) < 1
    /\ message' = Append(message, got)
    /\ got' = 0
    /\ lpc' = "recv"
    /\ UNCHANGED <<net, drops, pool, lconn, sub, wire, handler, sent>>

\* ReceiveWithTimeout returns an error: there is no connection, it is broken,
\* or it has been silent for 30 minutes and is now given up.
ReceiveError ==
    /\ lpc = "recv" /\ wire = <<>>
    /\ lconn' = IF lconn = "ok" THEN "broken" ELSE lconn
    /\ sub' = FALSE
    /\ lpc' = "close"
    /\ UNCHANGED <<net, drops, pool, wire, got, message, handler, sent>>

\* Mutant of CloseConn: no new connection is asked for.
CloseOnly ==
    /\ lpc = "close"
    /\ active' = active - Real(lconn)
    /\ lconn' = "none"
    /\ lpc' = "recv"
    /\ UNCHANGED <<net, drops, good, bad, leaked, sub, wire, got, message, handler, sent>>

\* Mutant of CloseConn: the old connection is dropped without a Close.
CloseForgets ==
    /\ lpc = "close"
    /\ lconn' = "none"
    /\ lpc' = "reget"
    /\ UNCHANGED <<net, drops, pool, sub, wire, got, message, handler, sent>>

\* Three seconds later it is closed.
CloseConn ==
    /\ lpc = "close"
    /\ active' = active - Real(lconn)
    /\ lconn' = "none"
    /\ lpc' = "reget"
    /\ UNCHANGED <<net, drops, good, bad, leaked, sub, wire, got, message, handler, sent>>

Listener ==
    \/ ListenGet \/ Subscribe \/ ListenFail \/ ResubFail \/ Receive \/ PassOn
    \/ CloseConn
    \/ lconn # "ok" /\ ReceiveError

Silence == lconn = "ok" /\ ReceiveError

-----------------------------------------------------------------------------
(***************************************************************************)
(* main's loop: take a message, carry it out, PublishMsg the answer.       *)
(***************************************************************************)
Take ==
    /\ hpc = "idle" /\ message # <<>>
    /\ handled' = Append(handled, Head(message))
    /\ message' = Tail(message)
    /\ hpc' = "answer"
    /\ UNCHANGED <<net, drops, pool, listener, hconn, sent>>

AnswerGet ==
    /\ hpc = "answer"
    /\ \E c \in Conns : Get(c) /\ hconn' = c
    /\ hpc' = "publish"
    /\ UNCHANGED <<net, drops, leaked, listener, message, handled, sent>>

\* The command is sent or fails; either way the connection is closed.
Answer ==
    /\ hpc = "publish"
    /\ PutBack(hconn)
    /\ hconn' = "none"
    /\ hpc' = "idle"
    /\ UNCHANGED <<net, drops, leaked, listener, message, handled, sent>>

Handler == Take \/ AnswerGet \/ Answer

Next == Expire \/ NetDown \/ NetUp \/ CentrePublish \/ Listener \/ Silence \/ Handler

Spec == Init /\ [][Next]_vars

\* The goroutines are scheduled; nothing obliges the network.
FairSpec == Spec /\ WF_vars(Listener) /\ WF_vars(Handler)

-----------------------------------------------------------------------------
(***************************************************************************)
(* Properties.                                                             *)
(***************************************************************************)
\* Every variable stays in its type.
TypeOK ==
    /\ net \in BOOLEAN /\ drops \in 0..MaxDrops
    /\ active \in 0..MaxActive /\ good \in 0..MaxActive /\ bad \in 0..MaxActive
    /\ leaked \in 0..MaxActive
    /\ lpc \in {"get", "sub", "recv", "put", "close", "reget", "resub"}
    /\ lconn \in Conns /\ sub \in BOOLEAN
    /\ wire \in Seq(1..MaxMsgs) /\ got \in 0..MaxMsgs
    /\ message \in Seq(1..MaxMsgs)
    /\ hpc \in {"idle", "answer", "publish"} /\ hconn \in Conns
    /\ handled \in Seq(1..MaxMsgs) /\ sent \in 0..MaxMsgs

\* Every connection the pool counts is idle, in use, or was dropped by a first
\* Subscribe that failed: reconnecting and answering never lose one.
SlotsAccounted == active = leaked + good + bad + Real(lconn) + Real(hconn)

\* After MaxActive failed first Subscribes the process is deaf and mute for
\* ever: Get only returns errors.
Exhausted == leaked >= MaxActive => ~sub /\ Real(lconn) + Real(hconn) = 0

\* Strategies are carried out at most once and in the order they were
\* published, across reconnections.
InOrder == \A i, j \in DOMAIN handled : i < j => handled[i] < handled[j]

\* The listener is always on its way back to a subscription, unless it has
\* lost every connection of the pool.
Resubscribes == <>[]net => []<>(sub \/ leaked >= MaxActive)

\* A message that has reached the process is carried out, unless the network
\* fails first.
Delivered ==
    \A m \in 1..MaxMsgs :
        m \in Range(wire) ~> m \in Range(handled) \/ ~net
=============================================================================
