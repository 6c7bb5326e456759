------------------------------ MODULE TcpRelay ------------------------------
(***************************************************************************)
(* The working life of a tcpProxy: the accept loop (proxy), one goroutine  *)
(* per connection (handle) that dials the honeypot, reports the connection *)
(* to the centre (reportConnectEvent) and then relays in both directions   *)
(* with two more goroutines (copy), under the limit on open files of the   *)
(* process.  The two peers, TCP and Redis are external.  Data are chunks   *)
(* numbered in the order in which a peer sends them.                       *)
(***************************************************************************)
EXTENDS Integers, Sequences, FiniteSets

CONSTANTS
    Conns,      \* connections of clients
    MaxFds,     \* the process's limit on open files
    MaxChunks   \* bound: how many chunks each peer of a connection sends

Sides == {"client", "honey"}
Other(s) == IF s = "client" THEN "honey" ELSE "client"

ASSUME FdAssumption == MaxFds \in Nat \ {0}
ASSUME ChunkAssumption == MaxChunks \in [Conns -> [Sides -> Nat]]

VARIABLES
    up,      \* whether the process runs
    fds,     \* how many files it has open
    pc,      \* where the goroutine of a connection is
    report,  \* what became of the connection's event
    peer,    \* what each peer has done with its side
    reset,   \* whether the peer's side was reset
    sent,    \* how many chunks each peer has sent
    rx,      \* what the process has received from each peer and not yet read
    buf,     \* the chunk io.Copy has read and not yet written; 0 for none
    out,     \* the chunks of each peer that the other one has got
    cp,      \* the goroutine that copies from each peer: not started, running,
             \* stuck in a write for good, or over
    told     \* how each peer saw the process end its side

host == <<up, fds>>
streams == <<sent, rx, buf, out>>
vars == <<host, pc, report, peer, reset, streams, cp, told>>

PCs == {"idle", "queued", "dial", "report", "publish", "copy", "closed"}
Both(v) == [c \in Conns |-> [s \in Sides |-> v]]

\* main has called net.Listen: the listener is the one open file.
Init ==
    /\ up = TRUE /\ fds = 1
    /\ pc = [c \in Conns |-> "idle"]
    /\ report = [c \in Conns |-> "no"]
    /\ peer = Both("none") /\ reset = Both(FALSE)
    /\ sent = Both(0) /\ rx = Both(<<>>) /\ buf = Both(0) /\ out = Both(<<>>)
    /\ cp = Both("no") /\ told = Both("no")

Live(c, s) == peer[c][s] \in {"open", "fin"}
Attached(c, s) == Live(c, s) /\ told[c][s] = "no"

-----------------------------------------------------------------------------
(***************************************************************************)
(* The peers.  What a peer does after the process has closed its side      *)
(* reaches nobody and is left out.                                         *)
(***************************************************************************)
Connect(c) ==
    /\ up /\ pc[c] = "idle"
    /\ pc' = [pc EXCEPT ![c] = "queued"]
    /\ peer' = [peer EXCEPT ![c]["client"] = "open"]
    /\ UNCHANGED <<host, report, reset, streams, cp, told>>

Send(c, s) ==
    /\ Attached(c, s) /\ peer[c][s] = "open"
    /\ sent[c][s] < MaxChunks[c][s]
    /\ sent' = [sent EXCEPT ![c][s] = @ + 1]
    /\ rx' = [rx EXCEPT ![c][s] = Append(@, sent'[c][s])]
    /\ UNCHANGED <<host, pc, report, peer, reset, buf, out, cp, told>>

\* shutdown(SHUT_WR): the peer sends no more and still reads.
Finish(c, s) ==
    /\ Attached(c, s) /\ peer[c][s] = "open"
    /\ peer' = [peer EXCEPT ![c][s] = "fin"]
    /\ UNCHANGED <<host, pc, report, reset, streams, cp, told>>

\* close: the peer neither sends nor reads; an abort resets the connection.
Leave(c, s, abort) ==
    /\ Attached(c, s)
    /\ peer' = [peer EXCEPT ![c][s] = "gone"]
    /\ reset' = [reset EXCEPT ![c][s] = abort]
    /\ UNCHANGED <<host, pc, report, streams, cp, told>>

-----------------------------------------------------------------------------
(***************************************************************************)
(* handle and reportConnectEvent.                                          *)
(***************************************************************************)
\* What closing the socket tells the peer: data nobody has read turn the
\* regular end into a reset.
Closing(c, s) ==
    CASE peer[c][s] = "none" -> "no"
      [] peer[c][s] # "none" /\ told[c][s] # "no" -> told[c][s]
      [] OTHER -> IF rx[c][s] = <<>> THEN "fin" ELSE "rst"

Accept(c) ==
    /\ up /\ pc[c] = "queued" /\ fds < MaxFds
    /\ fds' = fds + 1
    /\ pc' = [pc EXCEPT ![c] = "dial"]
    /\ UNCHANGED <<up, report, peer, reset, streams, cp, told>>

DialOk(c) ==
    /\ up /\ pc[c] = "dial" /\ fds < MaxFds
    /\ fds' = fds + 1
    /\ pc' = [pc EXCEPT ![c] = "report"]
    /\ peer' = [peer EXCEPT ![c]["honey"] = "open"]
    /\ UNCHANGED <<up, report, reset, streams, cp, told>>

\* The honeypot is not there, or there is no file descriptor left: the
\* deferred localConn.Close is all that happens.
DialFail(c) ==
    /\ up /\ pc[c] = "dial"
    /\ fds' = fds - 1
    /\ pc' = [pc EXCEPT ![c] = "closed"]
    /\ told' = [told EXCEPT ![c]["client"] = Closing(c, "client")]
    /\ UNCHANGED <<up, report, peer, reset, streams, cp>>

StartCopy(c) ==
    /\ pc' = [pc EXCEPT ![c] = "copy"]
    /\ cp' = [cp EXCEPT ![c] = [s \in Sides |-> "run"]]

\* Mutant of ReportOpen: the event is reported in a goroutine of its own.
ReportLater(c) ==
    /\ up /\ pc[c] = "report" /\ fds < MaxFds
    /\ StartCopy(c)
    /\ UNCHANGED <<host, report, peer, reset, streams, told>>

\* Ping of a fresh Redis client: its connection is a third descriptor.
ReportOpen(c) ==
    /\ up /\ pc[c] = "report" /\ fds < MaxFds
    /\ fds' = fds + 1
    /\ pc' = [pc EXCEPT ![c] = "publish"]
    /\ UNCHANGED <<up, report, peer, reset, streams, cp, told>>

\* The errors of Ping and Publish are dropped.
ReportFail(c) ==
    /\ up /\ pc[c] = "report"
    /\ report' = [report EXCEPT ![c] = "lost"]
    /\ StartCopy(c)
    /\ UNCHANGED <<host, peer, reset, streams, told>>

Publish(c, result) ==
    /\ up /\ pc[c] = "publish"
    /\ report' = [report EXCEPT ![c] = result]
    /\ fds' = fds - 1
    /\ StartCopy(c)
    /\ UNCHANGED <<up, peer, reset, streams, told>>

-----------------------------------------------------------------------------
(***************************************************************************)
(* copy: one goroutine per direction runs io.Copy.                         *)
(***************************************************************************)
Copying(c, s) == up /\ pc[c] = "copy" /\ cp[c][s] = "run"
Writing(c, s) ==
    up /\ pc[c] = "copy" /\ cp[c][s] \in {"run", "stuck"} /\ buf[c][s] # 0

\* Mutant of CopyRead: one goroutine copies the two directions in turn.
CopyReadInTurn(c, s) ==
    /\ Copying(c, s) /\ buf[c][s] = 0 /\ rx[c][s] # <<>>
    /\ s = "honey" => cp[c]["client"] = "over"
    /\ buf' = [buf EXCEPT ![c][s] = Head(rx[c][s])]
    /\ rx' = [rx EXCEPT ![c][s] = Tail(@)]
    /\ UNCHANGED <<host, pc, report, peer, reset, sent, out, cp, told>>

CopyRead(c, s) ==
    /\ Copying(c, s) /\ buf[c][s] = 0 /\ rx[c][s] # <<>>
    /\ buf' = [buf EXCEPT ![c][s] = Head(rx[c][s])]
    /\ rx' = [rx EXCEPT ![c][s] = Tail(@)]
    /\ UNCHANGED <<host, pc, report, peer, reset, sent, out, cp, told>>

\* Write has no deadline: when the receiver has stopped reading for good and
\* its window is full, the goroutine waits in it.  A receiver that only pauses
\* delays CopyWrite.
Stall(c, s) ==
    /\ Copying(c, s) /\ buf[c][s] # 0 /\ Live(c, Other(s))
    /\ cp' = [cp EXCEPT ![c][s] = "stuck"]
    /\ UNCHANGED <<host, pc, report, peer, reset, streams, told>>

CopyWrite(c, s) ==
    /\ Copying(c, s) /\ buf[c][s] # 0 /\ Live(c, Other(s))
    /\ out' = [out EXCEPT ![c][s] = Append(@, buf[c][s])]
    /\ buf' = [buf EXCEPT ![c][s] = 0]
    /\ UNCHANGED <<host, pc, report, peer, reset, sent, rx, cp, told>>

\* Mutant of CopyLost: io.Copy treats a failed write as if it had to be
\* repeated.
CopyLostAgain(c, s) ==
    /\ Writing(c, s) /\ ~Live(c, Other(s))
    /\ reset' = [reset EXCEPT ![c][Other(s)] = TRUE]
    /\ UNCHANGED <<host, pc, report, peer, streams, cp, told>>

\* A write to a peer that has gone: TCP answers with a reset, which this
\* write or a later call on the socket sees; a write that waits sees it.
CopyLost(c, s) ==
    /\ Writing(c, s) /\ ~Live(c, Other(s))
    /\ buf' = [buf EXCEPT ![c][s] = 0]
    /\ reset' = [reset EXCEPT ![c][Other(s)] = TRUE]
    /\ \/ cp[c][s] = "run" /\ UNCHANGED cp
       \/ cp' = [cp EXCEPT ![c][s] = "over"]
    /\ UNCHANGED <<host, pc, report, peer, sent, rx, out, told>>

CopyEof(c, s) ==
    /\ Copying(c, s) /\ buf[c][s] = 0 /\ rx[c][s] = <<>>
    /\ peer[c][s] \in {"fin", "gone"}
    /\ cp' = [cp EXCEPT ![c][s] = "over"]
    /\ UNCHANGED <<host, pc, report, peer, reset, streams, told>>

CopyReset(c, s) ==
    /\ Copying(c, s) /\ buf[c][s] = 0 /\ reset[c][s]
    /\ cp' = [cp EXCEPT ![c][s] = "over"]
    /\ UNCHANGED <<host, pc, report, peer, reset, streams, told>>

\* Mutant of HandleEnd: copy waits for one of its goroutines only.
HandleEndFirst(c) ==
    /\ up /\ pc[c] = "copy"
    /\ \E s \in Sides : cp[c][s] = "over"
    /\ fds' = fds - 2
    /\ pc' = [pc EXCEPT ![c] = "closed"]
    /\ told' = [told EXCEPT ![c] = [s \in Sides |-> Closing(c, s)]]
    /\ UNCHANGED <<up, report, peer, reset, streams, cp>>

\* Mutant of HandleEnd: the connection to the honeypot is not closed.
HandleEndLeak(c) ==
    /\ up /\ pc[c] = "copy"
    /\ \A s \in Sides : cp[c][s] = "over"
    /\ fds' = fds - 1
    /\ pc' = [pc EXCEPT ![c] = "closed"]
    /\ told' = [told EXCEPT ![c]["client"] = Closing(c, "client")]
    /\ UNCHANGED <<up, report, peer, reset, streams, cp>>

\* copy has received from done twice; the deferred Close calls follow.
HandleEnd(c) ==
    /\ up /\ pc[c] = "copy"
    /\ \A s \in Sides : cp[c][s] = "over"
    /\ fds' = fds - 2
    /\ pc' = [pc EXCEPT ![c] = "closed"]
    /\ told' = [told EXCEPT ![c] = [s \in Sides |-> Closing(c, s)]]
    /\ UNCHANGED <<up, report, peer, reset, streams, cp>>

-----------------------------------------------------------------------------
\* The process ends: the kernel closes what it had open.
Down ==
    /\ up /\ up' = FALSE /\ fds' = 0
    /\ pc' = [c \in Conns |-> IF pc[c] = "idle" THEN "idle" ELSE "closed"]
    /\ told' = [c \in Conns |-> [s \in Sides |-> Closing(c, s)]]
    /\ UNCHANGED <<report, peer, reset, streams, cp>>

\* Accept fails when no descriptor is left; proxy returns the error and main
\* calls log.Fatalf.
AcceptFatal == (\E c \in Conns : pc[c] = "queued") /\ fds = MaxFds /\ Down

\* A stop of the strategy, a guard or the watcher ends the process.
Killed == Down

Handle(c) ==
    \/ Accept(c)
    \/ DialOk(c) \/ DialFail(c)
    \/ ReportOpen(c) \/ ReportFail(c)
    \/ \E result \in {"sent", "lost"} : Publish(c, result)
    \/ HandleEnd(c)

Copy(c, s) ==
    \/ CopyRead(c, s) \/ CopyWrite(c, s) \/ CopyLost(c, s)
    \/ CopyEof(c, s) \/ CopyReset(c, s)

Peer(c, s) ==
    \/ Send(c, s)
    \/ Finish(c, s)
    \/ \E abort \in BOOLEAN : Leave(c, s, abort)

Next ==
    \/ \E c \in Conns : Connect(c) \/ Handle(c)
    \/ \E c \in Conns, s \in Sides : Copy(c, s) \/ Stall(c, s) \/ Peer(c, s)
    \/ AcceptFatal
    \/ Killed

Spec == Init /\ [][Next]_vars

\* Goroutines that can go on do: Accept, Dial and the calls of the Redis
\* client return (they have time limits), reads of sockets that are ready
\* return, and so do writes to a receiver that has room or has gone.  Nothing
\* is assumed of the peers: a receiver may Stall a write for good.
FairSpec ==
    /\ Spec
    /\ \A c \in Conns : WF_vars(Handle(c))
    /\ WF_vars(AcceptFatal)
    /\ \A c \in Conns, s \in Sides : WF_vars(Copy(c, s))

-----------------------------------------------------------------------------
(***************************************************************************)
(* Properties.                                                             *)
(***************************************************************************)
\* Every variable keeps its type; at most MaxFds files are open.
TypeOK ==
    /\ up \in BOOLEAN /\ fds \in 0..MaxFds
    /\ pc \in [Conns -> PCs]
    /\ report \in [Conns -> {"no", "sent", "lost"}]
    /\ peer \in [Conns -> [Sides -> {"none", "open", "fin", "gone"}]]
    /\ reset \in [Conns -> [Sides -> BOOLEAN]]
    /\ sent \in [Conns -> [Sides -> Nat]]
    /\ buf \in [Conns -> [Sides -> Nat]]
    /\ rx \in [Conns -> [Sides -> Seq(Nat)]]
    /\ out \in [Conns -> [Sides -> Seq(Nat)]]
    /\ cp \in [Conns -> [Sides -> {"no", "run", "stuck", "over"}]]
    /\ told \in [Conns -> [Sides -> {"no", "fin", "rst"}]]

Held(c) ==
    CASE pc[c] = "dial" -> 1
      [] pc[c] \in {"report", "copy"} -> 2
      [] pc[c] = "publish" -> 3
      [] OTHER -> 0

Holding(n) == Cardinality({c \in Conns : Held(c) >= n})

\* No descriptor leaks, whichever call of handle and reportConnectEvent
\* fails: what is open is the listener and what connections under way hold.
FdsAccounted == up => fds = 1 + Holding(1) + Holding(2) + Holding(3)

\* No byte of a client reaches the honeypot, and none of the honeypot the
\* client, before the centre was told of the connection or the attempt to
\* tell it has failed (reportConnectEvent runs before copy).
ReportedFirst ==
    \A c \in Conns, s \in Sides : out[c][s] # <<>> => report[c] # "no"

\* The end of one side is not passed on: while the process runs, a peer sees
\* its connection closed only after it has ended its own side or the other
\* one was reset (copy waits for both directions and never half-closes).
EndHeldBack ==
    up => \A c \in Conns, s \in Sides :
            told[c][s] # "no" /\ peer[c]["honey"] # "none"
              => peer[c][s] # "open" \/ reset[c][Other(s)]

\* A direction is broken by the end of the process, by a reset, by a
\* receiver that has gone, or when the honeypot could not be reached.
Broken(c, s) ==
    \/ ~up /\ pc[c] = "closed"
    \/ reset[c][s]
    \/ peer[c][Other(s)] = "gone"
    \/ pc[c] = "closed" /\ peer[c]["honey"] = "none"

Lane == Conns \X Sides

Pipes == INSTANCE Pipe WITH
    Lanes <- Lane,
    sent <- [l \in Lane |-> [i \in 1..sent[l[1]][l[2]] |-> i]],
    rcvd <- [l \in Lane |-> out[l[1]][l[2]]],
    fin <- [l \in Lane |-> peer[l[1]][l[2]] \in {"fin", "gone"}],
    eof <- [l \in Lane |-> told[l[1]][Other(l[2])] = "fin"],
    broken <- [l \in Lane |-> Broken(l[1], l[2])]

\* Each direction of each connection is a pipe: handle and copy deliver a
\* prefix in order and once, and a regular end only after everything.
IsPipe == Pipes!Spec

\* The write of a direction waits for a receiver that is there and does not
\* read; it holds both sockets as long as the receiver stays.
Blocked(c, s) == up /\ cp[c][s] = "stuck" /\ Live(c, Other(s))

\* What a peer sends arrives, whatever the other direction does, unless the
\* direction breaks or its own receiver stops reading (the two goroutines of
\* copy do not wait for each other: one that is blocked holds up only its own
\* direction).
Arrives ==
    \A c \in Conns, s \in Sides :
      Len(out[c][s]) < sent[c][s]
        ~> Len(out[c][s]) = sent[c][s] \/ Broken(c, s) \/ Blocked(c, s)

\* When both peers have ended, both sockets are given back, unless one of them
\* has only half-closed, stays and does not read what is written to it
\* (io.Copy's Write has no deadline); as soon as that one leaves they are.
Released ==
    \A c \in Conns :
      (\A s \in Sides : peer[c][s] \in {"fin", "gone"})
        ~> pc[c] = "closed" \/ \E s \in Sides : Blocked(c, s)
=============================================================================
