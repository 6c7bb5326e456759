--------------------------- MODULE TcpRelayProofs ---------------------------
(***************************************************************************)
(* For any connections, any limit on open files and any traffic: tcpProxy  *)
(* leaks no descriptor, relays nothing unreported, passes no end on, and   *)
(* each direction of each connection is a Pipe.                            *)
(***************************************************************************)
EXTENDS TcpRelay, FiniteSetTheorems, TLAPS

-----------------------------------------------------------------------------
(***************************************************************************)
(* The shape of the state, without the count of descriptors.               *)
(***************************************************************************)
Shape ==
    /\ pc \in [Conns -> PCs]
    /\ report \in [Conns -> {"no", "sent", "lost"}]
    /\ peer \in [Conns -> [Sides -> {"none", "open", "fin", "gone"}]]
    /\ reset \in [Conns -> [Sides -> BOOLEAN]]
    /\ sent \in [Conns -> [Sides -> Nat]]
    /\ buf \in [Conns -> [Sides -> Nat]]
    /\ rx \in [Conns -> [Sides -> Seq(Nat)]]
    /\ out \in [Conns -> [Sides -> Seq(Nat)]]
    /\ cp \in [Conns -> [Sides -> {"no", "run", "stuck", "over"}]]
    /\ told \in [Conns -> [Sides -> {"no", "fin", "rst"}]]

LEMMA ClosingType ==
    ASSUME Shape, NEW c \in Conns, NEW s \in Sides
    PROVE  /\ Closing(c, s) \in {"no", "fin", "rst"}
           /\ peer[c][s] = "none" => Closing(c, s) = "no"
           /\ peer[c][s] # "none" /\ told[c][s] # "no" => Closing(c, s) = told[c][s]
           /\ peer[c][s] # "none" => Closing(c, s) # "no"
BY DEF Shape, Closing

LEMMA ShapeInit == ASSUME Init PROVE Shape
BY DEF Init, Shape, Both, PCs

\* The peers.
LEMMA ShapePeer ==
    ASSUME Shape, NEW c \in Conns, NEW s \in Sides, Connect(c) \/ Peer(c, s)
    PROVE  Shape'
<1> USE DEF Shape, streams, host
<1>1. CASE Connect(c) BY <1>1 DEF Connect, PCs, Sides
<1>2. CASE Send(c, s) BY <1>2 DEF Send
<1>3. CASE Finish(c, s) BY <1>3 DEF Finish
<1>4. ASSUME NEW abort \in BOOLEAN, Leave(c, s, abort) PROVE Shape'
  BY <1>4 DEF Leave
<1> QED BY <1>1, <1>2, <1>3, <1>4 DEF Peer

\* The goroutine of a connection.
LEMMA ShapeHandle ==
    ASSUME Shape, NEW c \in Conns, Handle(c)
    PROVE  Shape'
<1> USE DEF Shape, streams, host, PCs, StartCopy
<1>1. CASE Accept(c) BY <1>1 DEF Accept
<1>2. CASE DialOk(c) BY <1>2 DEF DialOk, Sides
<1>3. CASE DialFail(c)
  <2>1. Closing(c, "client") \in {"no", "fin", "rst"}
    BY ClosingType DEF Sides
  <2> QED BY <1>3, <2>1 DEF DialFail, Sides
<1>4. CASE ReportOpen(c) BY <1>4 DEF ReportOpen
<1>5. CASE ReportFail(c) BY <1>5 DEF ReportFail
<1>6. ASSUME NEW result \in {"sent", "lost"}, Publish(c, result) PROVE Shape'
  BY <1>6 DEF Publish
<1>7. CASE HandleEnd(c)
  <2>1. [s \in Sides |-> Closing(c, s)] \in [Sides -> {"no", "fin", "rst"}]
    BY ClosingType
  <2> QED BY <1>7, <2>1 DEF HandleEnd
<1> QED BY <1>1, <1>2, <1>3, <1>4, <1>5, <1>6, <1>7 DEF Handle

\* The goroutines that copy.
LEMMA ShapeCopy ==
    ASSUME Shape, NEW c \in Conns, NEW s \in Sides, Copy(c, s)
    PROVE  Shape'
<1> USE DEF Shape, streams, host, Copying, Writing
<1>0. Other(s) \in Sides
  BY DEF Other, Sides
<1>1. CASE CopyRead(c, s) BY <1>1 DEF CopyRead
<1>2. CASE CopyWrite(c, s) BY <1>2 DEF CopyWrite
<1>3. CASE CopyLost(c, s)
  <2>1. reset' \in [Conns -> [Sides -> BOOLEAN]]
    BY <1>0, <1>3 DEF CopyLost
  <2>2. cp' \in [Conns -> [Sides -> {"no", "run", "stuck", "over"}]]
    <3>1. CASE UNCHANGED cp
      BY <3>1
    <3>2. CASE cp' = [cp EXCEPT ![c][s] = "over"]
      BY <3>2
    <3> QED BY <1>3, <3>1, <3>2 DEF CopyLost
  <2> QED BY <1>3, <2>1, <2>2 DEF CopyLost
<1>4. CASE CopyEof(c, s) BY <1>4 DEF CopyEof
<1>5. CASE CopyReset(c, s) BY <1>5 DEF CopyReset
<1> QED BY <1>1, <1>2, <1>3, <1>4, <1>5 DEF Copy

LEMMA ShapeStall ==
    ASSUME Shape, NEW c \in Conns, NEW s \in Sides, Stall(c, s)
    PROVE  Shape'
BY DEF Shape, streams, host, Stall

LEMMA ShapeDown == ASSUME Shape, Down PROVE Shape'
<1>1. [c \in Conns |-> [s \in Sides |-> Closing(c, s)]]
        \in [Conns -> [Sides -> {"no", "fin", "rst"}]]
  BY ClosingType
<1> QED BY <1>1 DEF Shape, Down, streams, PCs

LEMMA ShapeStep == ASSUME Shape, [Next]_vars PROVE Shape'
<1>1. CASE UNCHANGED vars
  BY <1>1 DEF vars, host, streams, Shape
<1>2. CASE Next
  <2>1. ASSUME NEW c \in Conns, Connect(c) PROVE Shape'
    BY <2>1, ShapePeer DEF Sides
  <2> QED
    BY <1>2, <2>1, ShapePeer, ShapeHandle, ShapeCopy, ShapeStall, ShapeDown
    DEF Next, AcceptFatal, Killed
<1> QED BY <1>1, <1>2

-----------------------------------------------------------------------------
(***************************************************************************)
(* Descriptors.  Each connection holds as many as its place says; a step   *)
(* of handle opens or closes exactly the difference.                       *)
(***************************************************************************)
Weight(l) ==
    CASE l = "dial" -> 1
      [] l \in {"report", "copy"} -> 2
      [] l = "publish" -> 3
      [] OTHER -> 0
Holders(n) == {c \in Conns : Held(c) >= n}
Step(l, n) == IF Weight(l) >= n THEN 1 ELSE 0

\* The inductive invariant: only finitely many connections hold any.
FdsInv ==
    /\ Shape
    /\ fds \in Int /\ fds <= MaxFds
    /\ \A n \in 1..3 : IsFiniteSet(Holders(n))
    /\ FdsAccounted
    /\ ~up => fds = 0

LEMMA HeldIsWeight == ASSUME NEW c \in Conns PROVE Held(c) = Weight(pc[c])
BY DEF Held, Weight

LEMMA WeightValues ==
    /\ Weight("idle") = 0 /\ Weight("queued") = 0 /\ Weight("closed") = 0
    /\ Weight("dial") = 1 /\ Weight("report") = 2 /\ Weight("copy") = 2
    /\ Weight("publish") = 3
BY DEF Weight

LEMMA WeightType == ASSUME NEW l PROVE Weight(l) \in 0..3
BY DEF Weight

\* A connection that moves from one place to another.
LEMMA Moves ==
    ASSUME Shape, NEW c \in Conns, NEW l \in PCs, pc' = [pc EXCEPT ![c] = l],
           NEW n \in 1..3, IsFiniteSet(Holders(n))
    PROVE  /\ IsFiniteSet(Holders(n))'
           /\ Holding(n)' = Holding(n) - Step(pc[c], n) + Step(l, n)
           /\ Holding(n) \in Nat
<1>1. \A d \in Conns : Held(d)' = IF d = c THEN Weight(l) ELSE Held(d)
  BY DEF Held, Weight, Shape
<1>2. Held(c) = Weight(pc[c]) /\ \A d \in Conns : Held(d) \in 0..3
  BY HeldIsWeight, WeightType
<1>3. Holding(n) = Cardinality(Holders(n)) /\ Holding(n)' = Cardinality(Holders(n)')
  BY DEF Holding, Holders
<1>4. Holding(n) \in Nat
  BY <1>3, FS_CardinalityType
<1>5. CASE Weight(l) >= n
  <2>1. Holders(n)' = Holders(n) \cup {c}
    BY <1>1, <1>5 DEF Holders
  <2>2. c \in Holders(n) <=> Step(pc[c], n) = 1
    BY <1>2 DEF Holders, Step
  <2>3. /\ IsFiniteSet(Holders(n) \cup {c})
        /\ Cardinality(Holders(n) \cup {c})
             = IF c \in Holders(n) THEN Cardinality(Holders(n))
               ELSE Cardinality(Holders(n)) + 1
    BY FS_AddElement
  <2> QED BY <1>3, <1>4, <1>5, <2>1, <2>2, <2>3 DEF Step
<1>6. CASE ~(Weight(l) >= n)
  <2>1. Holders(n)' = Holders(n) \ {c}
    BY <1>1, <1>6 DEF Holders
  <2>2. c \in Holders(n) <=> Step(pc[c], n) = 1
    BY <1>2 DEF Holders, Step
  <2>3. /\ IsFiniteSet(Holders(n) \ {c})
        /\ Cardinality(Holders(n) \ {c})
             = IF c \in Holders(n) THEN Cardinality(Holders(n)) - 1
               ELSE Cardinality(Holders(n))
    BY FS_RemoveElement
  <2> QED BY <1>3, <1>4, <1>6, <2>1, <2>2, <2>3 DEF Step
<1> QED BY <1>5, <1>6

\* Then the books balance if fds changes by the difference of the weights.
LEMMA MovesBalance ==
    ASSUME FdsInv, Shape', up, up' = up, NEW c \in Conns, NEW l \in PCs,
           pc' = [pc EXCEPT ![c] = l],
           fds' = fds - Weight(pc[c]) + Weight(l), fds' <= MaxFds
    PROVE  FdsInv'
<1>1. \A n \in 1..3 :
        /\ IsFiniteSet(Holders(n))'
        /\ Holding(n)' = Holding(n) - Step(pc[c], n) + Step(l, n)
        /\ Holding(n) \in Nat
  BY Moves DEF FdsInv
<1>2. \A k : Weight(k) = Step(k, 1) + Step(k, 2) + Step(k, 3)
  BY DEF Weight, Step
<1>3. Step(l, 1) \in Nat /\ Step(l, 2) \in Nat /\ Step(l, 3) \in Nat
  BY DEF Step
<1>4. Step(pc[c], 1) \in Nat /\ Step(pc[c], 2) \in Nat /\ Step(pc[c], 3) \in Nat
  BY DEF Step
<1>5. fds = 1 + Holding(1) + Holding(2) + Holding(3)
  BY DEF FdsInv, FdsAccounted
<1>6. fds' = 1 + Holding(1)' + Holding(2)' + Holding(3)'
  BY <1>1, <1>2, <1>3, <1>4, <1>5
<1>7. fds' \in Int
  BY WeightType DEF FdsInv
<1> QED BY <1>1, <1>6, <1>7 DEF FdsInv, FdsAccounted

LEMMA FdsInit == ASSUME FdAssumption, Init PROVE FdsInv
<1>1. \A n \in 1..3 : Holders(n) = {}
  BY DEF Init, Holders, Held
<1>2. \A n \in 1..3 : IsFiniteSet(Holders(n)) /\ Holding(n) = 0
  BY <1>1, FS_EmptySet DEF Holding, Holders
<1> QED
  BY <1>2, ShapeInit DEF FdAssumption, Init, FdsInv, FdsAccounted

LEMMA FdsSame ==
    ASSUME FdsInv, Shape', UNCHANGED <<pc, fds, up>>
    PROVE  FdsInv'
BY DEF FdsInv, FdsAccounted, Holding, Holders, Held

LEMMA FdsStep == ASSUME FdAssumption, FdsInv, [Next]_vars PROVE FdsInv'
<1>1. Shape'
  BY ShapeStep DEF FdsInv
<1>2. CASE UNCHANGED vars
  BY <1>1, <1>2, FdsSame DEF vars, host
<1> DEFINE MovesTo(c, l) ==
      /\ up /\ up' = up /\ pc' = [pc EXCEPT ![c] = l]
      /\ fds' = fds - Weight(pc[c]) + Weight(l) /\ fds' <= MaxFds
<1>0. ASSUME NEW c \in Conns, NEW l \in PCs, MovesTo(c, l) PROVE FdsInv'
  BY <1>0, <1>1, MovesBalance
<1>3. ASSUME NEW c \in Conns, Connect(c) PROVE FdsInv'
  <2>1. MovesTo(c, "queued")
    BY <1>3, WeightValues DEF Connect, host, FdsInv
  <2> QED BY <1>0, <2>1 DEF PCs
<1>4. ASSUME NEW c \in Conns, Handle(c) PROVE FdsInv'
  <2> USE WeightValues DEF FdAssumption, FdsInv, host, StartCopy
  <2>1. CASE Accept(c)
    <3>1. MovesTo(c, "dial") BY <2>1 DEF Accept
    <3> QED BY <1>0, <3>1 DEF PCs
  <2>2. CASE DialOk(c)
    <3>1. MovesTo(c, "report") BY <2>2 DEF DialOk
    <3> QED BY <1>0, <3>1 DEF PCs
  <2>3. CASE DialFail(c)
    <3>1. MovesTo(c, "closed") BY <2>3 DEF DialFail
    <3> QED BY <1>0, <3>1 DEF PCs
  <2>4. CASE ReportOpen(c)
    <3>1. MovesTo(c, "publish") BY <2>4 DEF ReportOpen
    <3> QED BY <1>0, <3>1 DEF PCs
  <2>5. CASE ReportFail(c)
    <3>1. MovesTo(c, "copy") BY <2>5 DEF ReportFail
    <3> QED BY <1>0, <3>1 DEF PCs
  <2>6. ASSUME NEW result \in {"sent", "lost"}, Publish(c, result) PROVE FdsInv'
    <3>1. MovesTo(c, "copy") BY <2>6 DEF Publish
    <3> QED BY <1>0, <3>1 DEF PCs
  <2>7. CASE HandleEnd(c)
    <3>1. MovesTo(c, "closed") BY <2>7 DEF HandleEnd
    <3> QED BY <1>0, <3>1 DEF PCs
  <2> QED BY <1>4, <2>1, <2>2, <2>3, <2>4, <2>5, <2>6, <2>7 DEF Handle
<1>5. ASSUME NEW c \in Conns, NEW s \in Sides, Copy(c, s) \/ Stall(c, s) \/ Peer(c, s)
      PROVE  FdsInv'
  BY <1>1, <1>5, FdsSame
  DEF Copy, CopyRead, CopyWrite, CopyLost, CopyEof, CopyReset, Stall, Peer, Send,
      Finish, Leave, host
<1>6. CASE Down
  <2>1. \A n \in 1..3 : Holders(n)' = {}
    BY <1>6 DEF Down, Holders, Held, FdsInv, Shape
  <2>2. \A n \in 1..3 : IsFiniteSet(Holders(n))'
    BY <2>1, FS_EmptySet
  <2>3. ~up' /\ fds' = 0 /\ 0 <= MaxFds
    BY <1>6 DEF Down, FdAssumption
  <2> QED BY <1>1, <2>2, <2>3 DEF FdsInv, FdsAccounted
<1> QED BY <1>2, <1>3, <1>4, <1>5, <1>6 DEF Next, AcceptFatal, Killed

\* No path through handle and reportConnectEvent leaks a descriptor.
THEOREM NoDescriptorLeaks == Spec => []FdsAccounted
<1>1. Init => FdsInv
  BY FdAssumption, FdsInit
<1>2. FdsInv /\ [Next]_vars => FdsInv'
  BY FdAssumption, FdsStep
<1>3. FdsInv => FdsAccounted
  BY DEF FdsInv
<1> QED BY <1>1, <1>2, <1>3, PTL DEF Spec

RunsOrNot == up \in BOOLEAN

\* The limit on open files is kept and every variable has its type: the bound
\* on fds needs the count of descriptors above.
THEOREM TypeCorrect == Spec => []TypeOK
<1>1. Init => FdsInv /\ RunsOrNot
  BY FdAssumption, FdsInit DEF Init, RunsOrNot
<1>2. FdsInv /\ [Next]_vars => FdsInv'
  BY FdAssumption, FdsStep
<1>3. RunsOrNot /\ [Next]_vars => RunsOrNot'
  <2>1. [Next]_vars => up' = up \/ up' = FALSE
    BY DEF Next, vars, host, Connect, Handle, Accept, DialOk, DialFail, ReportOpen,
           ReportFail, Publish, HandleEnd, Copy, CopyRead, CopyWrite, CopyLost, CopyEof,
           CopyReset, Stall, Peer, Send, Finish, Leave, AcceptFatal, Killed, Down
  <2> QED BY <2>1, Zenon DEF RunsOrNot
<1>4. FdsInv /\ RunsOrNot => TypeOK
  <2> SUFFICES ASSUME FdsInv, RunsOrNot PROVE TypeOK
    OBVIOUS
  <2>1. \A n \in 1..3 : Holding(n) \in Nat
    BY FS_CardinalityType DEF FdsInv, Holding, Holders
  <2>2. fds \in 0..MaxFds
    BY <2>1, FdAssumption DEF FdAssumption, FdsInv, FdsAccounted
  <2>3. Shape
    BY DEF FdsInv
  <2> QED BY <2>2, <2>3 DEF Shape, TypeOK, RunsOrNot
<1> QED BY <1>1, <1>2, <1>3, <1>4, PTL DEF Spec

\* Nothing is relayed before the connection was reported or the report failed.
ReportInv ==
    /\ Shape
    /\ \A c \in Conns : pc[c] = "copy" => report[c] # "no"
    /\ ReportedFirst

\* Every action of Next, by name.
LEMMA Steps ==
    ASSUME Next
    PROVE  \/ \E c \in Conns : Connect(c) \/ Accept(c) \/ DialOk(c) \/ DialFail(c)
           \/ \E c \in Conns : ReportOpen(c) \/ ReportFail(c) \/ HandleEnd(c)
           \/ \E c \in Conns, result \in {"sent", "lost"} : Publish(c, result)
           \/ \E c \in Conns, s \in Sides :
                \/ CopyRead(c, s) \/ CopyWrite(c, s) \/ CopyLost(c, s)
                \/ CopyEof(c, s) \/ CopyReset(c, s) \/ Stall(c, s)
           \/ \E c \in Conns, s \in Sides : Send(c, s) \/ Finish(c, s)
           \/ \E c \in Conns, s \in Sides, abort \in BOOLEAN : Leave(c, s, abort)
           \/ Down
BY DEF Next, Handle, Copy, Peer, AcceptFatal, Killed

LEMMA ReportStep == ASSUME ReportInv, [Next]_vars PROVE ReportInv'
<1>1. Shape'
  BY ShapeStep DEF ReportInv
<1>2. /\ DOMAIN pc = Conns /\ DOMAIN report = Conns /\ DOMAIN out = Conns
      /\ \A c \in Conns : DOMAIN out[c] = Sides
  BY DEF ReportInv, Shape
<1> SUFFICES ASSUME NEW d \in Conns
             PROVE  /\ pc'[d] = "copy" => report'[d] # "no"
                    /\ \A t \in Sides : out'[d][t] # <<>> => report'[d] # "no"
  BY <1>1 DEF ReportInv, ReportedFirst
<1>3. /\ pc[d] = "copy" => report[d] # "no"
      /\ \A t \in Sides : out[d][t] # <<>> => report[d] # "no"
  BY DEF ReportInv, ReportedFirst
<1> DEFINE Goal == /\ pc'[d] = "copy" => report'[d] # "no"
                   /\ \A t \in Sides : out'[d][t] # <<>> => report'[d] # "no"
<1> USE DEF streams, host
<1>4. ASSUME UNCHANGED <<report, out>>, pc'[d] # "copy" \/ pc'[d] = pc[d] PROVE Goal
  BY <1>3, <1>4
<1>5. ASSUME UNCHANGED vars PROVE Goal
  BY <1>3, <1>5 DEF vars
<1>6. ASSUME NEW c \in Conns,
             \/ Connect(c) \/ Accept(c) \/ DialOk(c) \/ DialFail(c)
             \/ ReportOpen(c) \/ HandleEnd(c)
      PROVE  Goal
  <2>1. /\ UNCHANGED <<report, out>>
        /\ \E l \in {"queued", "dial", "report", "closed", "publish"} : pc' = [pc EXCEPT ![c] = l]
    BY <1>6 DEF Connect, Accept, DialOk, DialFail, ReportOpen, HandleEnd
  <2> QED BY <1>2, <1>4, <2>1
<1>7. ASSUME NEW c \in Conns,
             ReportFail(c) \/ \E result \in {"sent", "lost"} : Publish(c, result)
      PROVE  Goal
  <2>1. /\ UNCHANGED out /\ pc' = [pc EXCEPT ![c] = "copy"]
        /\ \E result \in {"sent", "lost"} : report' = [report EXCEPT ![c] = result]
    BY <1>7 DEF ReportFail, Publish, StartCopy
  <2> QED BY <1>2, <1>3, <2>1
<1>8. ASSUME NEW c \in Conns, NEW s \in Sides,
             \/ CopyRead(c, s) \/ CopyLost(c, s) \/ CopyEof(c, s) \/ CopyReset(c, s)
             \/ Stall(c, s)
      PROVE  Goal
  BY <1>4, <1>8 DEF CopyRead, CopyLost, CopyEof, CopyReset, Stall
<1>9. ASSUME NEW c \in Conns, NEW s \in Sides, CopyWrite(c, s) PROVE Goal
  <2>1. /\ UNCHANGED <<pc, report>> /\ pc[c] = "copy"
        /\ \A e \in Conns : e # c => out'[e] = out[e]
    BY <1>2, <1>9 DEF CopyWrite, Copying
  <2> QED BY <1>3, <2>1
<1>10. ASSUME NEW c \in Conns, NEW s \in Sides,
              Send(c, s) \/ Finish(c, s) \/ \E abort \in BOOLEAN : Leave(c, s, abort)
       PROVE  Goal
  BY <1>4, <1>10 DEF Send, Finish, Leave
<1>11. ASSUME Down PROVE Goal
  BY <1>4, <1>11 DEF Down
<1> HIDE DEF Goal
<1>12. Goal
  BY <1>5, <1>6, <1>7, <1>8, <1>9, <1>10, <1>11, Steps
<1> QED BY <1>12 DEF Goal

\* No chunk is relayed unreported (reportConnectEvent runs before copy).
THEOREM NothingUnreported == Spec => []ReportedFirst
<1>1. Init => ReportInv
  BY ShapeInit DEF Init, ReportInv, ReportedFirst, Both
<1>2. ReportInv /\ [Next]_vars => ReportInv'
  BY ReportStep
<1>3. ReportInv => ReportedFirst
  BY DEF ReportInv
<1> QED BY <1>1, <1>2, <1>3, PTL DEF Spec

-----------------------------------------------------------------------------
(***************************************************************************)
(* The ends of a connection.                                               *)
(***************************************************************************)
\* What the place of a connection says about its two sockets.
Places ==
    \A c \in Conns :
      /\ pc[c] = "idle" <=> peer[c]["client"] = "none"
      /\ pc[c] \in {"idle", "queued", "dial"} => peer[c]["honey"] = "none"
      /\ pc[c] \in {"report", "publish", "copy"} => peer[c]["honey"] # "none"
      /\ \A s \in Sides :
           /\ told[c][s] # "no" => pc[c] = "closed" /\ peer[c][s] # "none"
           /\ reset[c][s] => peer[c][s] = "gone"
           /\ pc[c] \notin {"copy", "closed"} => cp[c][s] = "no"

\* Why a goroutine of copy has ended: everything was copied, or one of the two
\* sockets was reset.
Overs ==
    \A c \in Conns, s \in Sides : cp[c][s] = "over" =>
      \/ peer[c][s] \in {"fin", "gone"} /\ rx[c][s] = <<>> /\ buf[c][s] = 0
      \/ reset[c][s]
      \/ reset[c][Other(s)]

\* The inductive invariant for the ends.
EndInv == Shape /\ Places /\ Overs /\ EndHeldBack

LEMMA EndInit == ASSUME Init PROVE EndInv
BY ShapeInit DEF Init, EndInv, Places, Overs, EndHeldBack, Both, Sides

LEMMA OtherFacts ==
    /\ Other("client") = "honey" /\ Other("honey") = "client"
    /\ \A s \in Sides : Other(s) \in Sides /\ Other(s) # s /\ Other(Other(s)) = s
    /\ \A s, t \in Sides : t = s \/ t = Other(s)
BY DEF Other, Sides

LEMMA PlacesStep == ASSUME EndInv, [Next]_vars PROVE Places'
<1> DEFINE At(d) ==
      /\ pc[d] = "idle" <=> peer[d]["client"] = "none"
      /\ pc[d] \in {"idle", "queued", "dial"} => peer[d]["honey"] = "none"
      /\ pc[d] \in {"report", "publish", "copy"} => peer[d]["honey"] # "none"
      /\ \A s \in Sides :
           /\ told[d][s] # "no" => pc[d] = "closed" /\ peer[d][s] # "none"
           /\ reset[d][s] => peer[d][s] = "gone"
           /\ pc[d] \notin {"copy", "closed"} => cp[d][s] = "no"
<1> SUFFICES ASSUME NEW d \in Conns PROVE At(d)'
  BY DEF Places
<1>0. At(d)
  BY DEF EndInv, Places
<1>1. /\ DOMAIN pc = Conns /\ DOMAIN peer = Conns /\ DOMAIN told = Conns
      /\ DOMAIN reset = Conns /\ DOMAIN cp = Conns
      /\ DOMAIN peer[d] = Sides /\ DOMAIN told[d] = Sides /\ DOMAIN reset[d] = Sides
      /\ DOMAIN cp[d] = Sides
      /\ pc \in [Conns -> PCs] /\ peer \in [Conns -> [Sides -> {"none", "open", "fin", "gone"}]]
  BY DEF EndInv, Shape
<1>2. "client" \in Sides /\ "honey" \in Sides /\ \A s \in Sides : s \in {"client", "honey"}
  BY DEF Sides
<1>3. CASE /\ pc'[d] = pc[d] /\ peer'[d] = peer[d] /\ told'[d] = told[d]
           /\ reset'[d] = reset[d] /\ cp'[d] = cp[d]
  BY <1>0, <1>3
<1> HIDE DEF At
<1>4. CASE UNCHANGED <<pc, peer, told, reset, cp>>
  BY <1>3, <1>4
<1>5. ASSUME NEW c \in Conns, Connect(c) PROVE At(d)'
  <2>1. CASE d # c
    BY <1>1, <1>3, <1>5, <2>1 DEF Connect
  <2>2. CASE d = c
    <3>1. /\ pc[d] = "idle" /\ pc'[d] = "queued" /\ UNCHANGED <<reset, cp, told>>
          /\ peer'[d]["client"] = "open" /\ peer'[d]["honey"] = peer[d]["honey"]
      BY <1>1, <1>2, <1>5, <2>2 DEF Connect
    <3> QED BY <1>0, <1>2, <3>1 DEF At
  <2> QED BY <2>1, <2>2
<1>6. ASSUME NEW c \in Conns, Accept(c) \/ ReportOpen(c) PROVE At(d)'
  <2>1. CASE d # c
    BY <1>1, <1>3, <1>6, <2>1 DEF Accept, ReportOpen
  <2>2. CASE d = c
    <3>1. /\ \/ pc[d] = "queued" /\ pc'[d] = "dial"
             \/ pc[d] = "report" /\ pc'[d] = "publish"
          /\ UNCHANGED <<peer, reset, cp, told>>
      BY <1>1, <1>6, <2>2 DEF Accept, ReportOpen
    <3> QED BY <1>0, <3>1 DEF At
  <2> QED BY <2>1, <2>2
<1>7. ASSUME NEW c \in Conns, DialOk(c) PROVE At(d)'
  <2>1. CASE d # c
    BY <1>1, <1>3, <1>7, <2>1 DEF DialOk
  <2>2. CASE d = c
    <3>1. /\ pc[d] = "dial" /\ pc'[d] = "report" /\ UNCHANGED <<reset, cp, told>>
          /\ peer'[d]["client"] = peer[d]["client"] /\ peer'[d]["honey"] = "open"
      BY <1>1, <1>2, <1>7, <2>2 DEF DialOk
    <3> QED BY <1>0, <1>2, <3>1 DEF At
  <2> QED BY <2>1, <2>2
<1>8. ASSUME NEW c \in Conns, DialFail(c) PROVE At(d)'
  <2>1. CASE d # c
    BY <1>1, <1>3, <1>8, <2>1 DEF DialFail
  <2>2. CASE d = c
    <3>1. /\ pc[d] = "dial" /\ pc'[d] = "closed" /\ UNCHANGED <<peer, reset, cp>>
          /\ told'[d]["honey"] = told[d]["honey"]
      BY <1>1, <1>2, <1>8, <2>2 DEF DialFail
    <3> QED BY <1>0, <1>2, <3>1 DEF At
  <2> QED BY <2>1, <2>2
<1>9. ASSUME NEW c \in Conns,
             ReportFail(c) \/ \E result \in {"sent", "lost"} : Publish(c, result)
      PROVE  At(d)'
  <2>1. /\ pc[c] \in {"report", "publish"} /\ StartCopy(c) /\ UNCHANGED <<peer, reset, told>>
    BY <1>9 DEF ReportFail, Publish
  <2>2. CASE d # c
    BY <1>1, <1>3, <2>1, <2>2 DEF StartCopy
  <2>3. CASE d = c
    <3>1. pc'[d] = "copy"
      BY <1>1, <2>1, <2>3 DEF StartCopy
    <3> QED BY <1>0, <2>1, <2>3, <3>1 DEF At
  <2> QED BY <2>2, <2>3
<1>10. ASSUME NEW c \in Conns, HandleEnd(c) PROVE At(d)'
  <2>1. CASE d # c
    BY <1>1, <1>3, <1>10, <2>1 DEF HandleEnd
  <2>2. CASE d = c
    <3>1. pc[d] = "copy" /\ pc'[d] = "closed" /\ UNCHANGED <<peer, reset, cp>>
      BY <1>1, <1>10, <2>2 DEF HandleEnd
    <3>2. \A s \in Sides : s = "client" \/ s = "honey"
      BY <1>2
    <3>3. \A s \in Sides : peer[d][s] # "none"
      BY <1>0, <3>1, <3>2 DEF At
    <3> QED BY <1>0, <3>1, <3>3 DEF At
  <2> QED BY <2>1, <2>2
<1>11. ASSUME NEW c \in Conns, NEW s \in Sides,
              \/ CopyRead(c, s) \/ CopyWrite(c, s) \/ CopyLost(c, s)
              \/ CopyEof(c, s) \/ CopyReset(c, s) \/ Stall(c, s)
       PROVE  At(d)'
  <2>2. /\ UNCHANGED <<pc, peer, told>> /\ pc[c] = "copy"
        /\ UNCHANGED cp \/ \E v \in {"stuck", "over"} : cp' = [cp EXCEPT ![c][s] = v]
        /\ \/ UNCHANGED reset
           \/ reset' = [reset EXCEPT ![c][Other(s)] = TRUE] /\ ~Live(c, Other(s))
    BY <1>11 DEF CopyRead, CopyWrite, CopyLost, CopyEof, CopyReset, Stall, Copying, Writing
  <2>3. CASE d # c
    BY <1>1, <1>3, <2>2, <2>3
  <2>4. CASE d = c
    <3>1. Other(s) \in Sides /\ \A u \in Sides : u = Other(s) \/ u = s
      BY OtherFacts
    <3>2. peer[c][Other(s)] \in {"none", "gone"} \/ UNCHANGED reset
      BY <1>1, <2>2, <3>1 DEF Live
    <3>3. peer[c][Other(s)] # "none"
      BY <1>0, <1>2, <2>2, <2>4, <3>1 DEF At
    <3>4. \A u \in Sides : reset'[d][u] => reset[d][u] \/ peer[d][u] = "gone"
      BY <1>1, <2>2, <2>4, <3>1, <3>2, <3>3
    <3> QED BY <1>0, <2>2, <2>4, <3>4 DEF At
  <2> QED BY <2>3, <2>4
<1>12. ASSUME NEW c \in Conns, NEW s \in Sides, Send(c, s) PROVE At(d)'
  BY <1>4, <1>12 DEF Send
<1>13. ASSUME NEW c \in Conns, NEW s \in Sides,
              Finish(c, s) \/ \E abort \in BOOLEAN : Leave(c, s, abort)
       PROVE  At(d)'
  <2>1. /\ UNCHANGED <<pc, told, cp>> /\ peer[c][s] \in {"open", "fin"}
        /\ \/ peer[c][s] = "open" /\ peer' = [peer EXCEPT ![c][s] = "fin"] /\ UNCHANGED reset
           \/ \E abort \in BOOLEAN : /\ peer' = [peer EXCEPT ![c][s] = "gone"]
                                     /\ reset' = [reset EXCEPT ![c][s] = abort]
    BY <1>13 DEF Finish, Leave, Attached, Live
  <2>2. CASE d # c
    BY <1>1, <1>3, <2>1, <2>2
  <2>3. CASE d = c
    <3>1. \A u \in Sides : /\ peer'[d][u] = "none" <=> peer[d][u] = "none"
                           /\ peer[d][u] = "gone" => peer'[d][u] = "gone"
      BY <1>1, <2>1, <2>3
    <3>2. \A u \in Sides : reset'[d][u] => reset[d][u] \/ peer'[d][u] = "gone"
      BY <1>1, <2>1, <2>3
    <3> QED BY <1>0, <1>2, <2>1, <3>1, <3>2 DEF At
  <2> QED BY <2>2, <2>3
<1>14. CASE Down
  <2>1. /\ pc'[d] = (IF pc[d] = "idle" THEN "idle" ELSE "closed")
        /\ \A s \in Sides : told'[d][s] = Closing(d, s)
        /\ UNCHANGED <<peer, reset, cp>>
    BY <1>14 DEF Down, streams
  <2>2. \A s \in Sides : told'[d][s] # "no" => peer[d][s] # "none"
    BY <2>1 DEF Closing
  <2>3. pc[d] = "idle" => \A s \in Sides : peer[d][s] = "none"
    BY <1>0, <1>2 DEF At
  <2> QED BY <1>0, <2>1, <2>2, <2>3 DEF At
<1>15. CASE UNCHANGED vars
  BY <1>4, <1>15 DEF vars
<1> QED
  BY <1>5, <1>6, <1>7, <1>8, <1>9, <1>10, <1>11, <1>12, <1>13, <1>14, <1>15, Steps

\* A goroutine that has ended keeps its reason: nobody sends after its end,
\* nothing is read any more, and a reset stays.
LEMMA OversStep == ASSUME EndInv, [Next]_vars PROVE Overs'
<1>1. Shape'
  BY ShapeStep DEF EndInv
<1> DEFINE Reason(d, t) ==
      \/ peer[d][t] \in {"fin", "gone"} /\ rx[d][t] = <<>> /\ buf[d][t] = 0
      \/ reset[d][t]
      \/ reset[d][Other(t)]
<1>2. \A d \in Conns, t \in Sides : cp[d][t] = "over" => Reason(d, t)
  BY DEF EndInv, Overs
<1>3. SUFFICES \A d \in Conns, t \in Sides : cp'[d][t] = "over" => Reason(d, t)'
  BY DEF Overs
<1> SUFFICES ASSUME NEW d \in Conns, NEW t \in Sides, cp'[d][t] = "over"
             PROVE  Reason(d, t)'
  BY <1>3
<1> USE DEF streams, host
<1>4. CASE cp[d][t] = "over" /\ UNCHANGED <<peer, rx, buf, reset>>
  BY <1>2, <1>4
<1>5. CASE UNCHANGED vars
  BY <1>4, <1>5 DEF vars
<1>6. ASSUME NEW c \in Conns, Connect(c) PROVE Reason(d, t)'
  <2>1. UNCHANGED <<cp, rx, buf, reset>> /\ peer[c]["client"] = "none"
        /\ peer' = [peer EXCEPT ![c]["client"] = "open"]
    BY <1>6 DEF Connect, EndInv, Places
  <2>2. peer'[d][t] = peer[d][t] \/ peer[d][t] = "none"
    BY <2>1 DEF EndInv, Shape, Sides
  <2> QED BY <1>2, <2>1, <2>2
<1>7. ASSUME NEW c \in Conns, Accept(c) \/ DialFail(c) \/ ReportOpen(c) \/ HandleEnd(c)
      PROVE  Reason(d, t)'
  BY <1>4, <1>7 DEF Accept, DialFail, ReportOpen, HandleEnd
<1>8. ASSUME NEW c \in Conns, DialOk(c) PROVE Reason(d, t)'
  <2>1. UNCHANGED <<cp, rx, buf, reset>> /\ peer[c]["honey"] = "none"
        /\ peer' = [peer EXCEPT ![c]["honey"] = "open"]
    BY <1>8 DEF DialOk, EndInv, Places
  <2>2. peer'[d][t] = peer[d][t] \/ peer[d][t] = "none"
    BY <2>1 DEF EndInv, Shape, Sides
  <2> QED BY <1>2, <2>1, <2>2
<1>9. ASSUME NEW c \in Conns, UNCHANGED <<peer, rx, buf, reset>>, StartCopy(c)
      PROVE  Reason(d, t)'
  <2>1. d # c
    BY <1>9 DEF StartCopy, EndInv, Shape
  <2> QED BY <1>4, <1>9, <2>1 DEF StartCopy, EndInv, Shape
<1>10. ASSUME NEW c \in Conns, ReportFail(c) PROVE Reason(d, t)'
  BY <1>9, <1>10 DEF ReportFail
<1>11. ASSUME NEW c \in Conns, NEW result \in {"sent", "lost"}, Publish(c, result)
       PROVE  Reason(d, t)'
  BY <1>9, <1>11 DEF Publish
<1>12. ASSUME NEW c \in Conns, NEW s \in Sides, CopyRead(c, s) \/ CopyWrite(c, s)
       PROVE  Reason(d, t)'
  <2>1. UNCHANGED <<cp, peer, reset>> /\ cp[c][s] = "run"
    BY <1>12 DEF CopyRead, CopyWrite, Copying
  <2>2. d # c \/ t # s
    BY <2>1
  <2>3. rx'[d][t] = rx[d][t] /\ buf'[d][t] = buf[d][t]
    <3>1. CASE CopyRead(c, s)
      BY <2>2, <3>1 DEF CopyRead, EndInv, Shape
    <3>2. CASE CopyWrite(c, s)
      BY <2>2, <3>2 DEF CopyWrite, EndInv, Shape
    <3> QED BY <1>12, <3>1, <3>2
  <2> QED BY <1>2, <2>1, <2>3
<1>13. ASSUME NEW c \in Conns, NEW s \in Sides, CopyLost(c, s) PROVE Reason(d, t)'
  <2>1. CASE d = c
    <3>1. reset'[c][Other(s)] = TRUE
      BY <1>13, OtherFacts DEF CopyLost, EndInv, Shape
    <3> QED BY <2>1, <3>1, OtherFacts
  <2>2. CASE d # c
    <3>1. /\ cp'[d] = cp[d] /\ reset'[d] = reset[d] /\ buf'[d] = buf[d]
          /\ UNCHANGED <<peer, rx>>
      BY <1>13, <2>2 DEF CopyLost, EndInv, Shape
    <3> QED BY <1>2, <3>1
  <2> QED BY <2>1, <2>2
<1>14. ASSUME NEW c \in Conns, NEW s \in Sides, CopyEof(c, s) \/ CopyReset(c, s)
       PROVE  Reason(d, t)'
  <2>1. CASE d = c /\ t = s
    BY <1>14, <2>1 DEF CopyEof, CopyReset
  <2>2. CASE ~(d = c /\ t = s)
    <3>0. cp \in [Conns -> [Sides -> {"no", "run", "stuck", "over"}]]
      BY DEF EndInv, Shape
    <3>1. cp' = [cp EXCEPT ![c][s] = "over"]
      BY <1>14 DEF CopyEof, CopyReset
    <3>2. cp'[d][t] = cp[d][t]
      BY <2>2, <3>0, <3>1
    <3> QED BY <1>4, <1>14, <3>2 DEF CopyEof, CopyReset
  <2> QED BY <2>1, <2>2
<1>15. ASSUME NEW c \in Conns, NEW s \in Sides, Send(c, s) \/ Finish(c, s)
       PROVE  Reason(d, t)'
  <2>1. UNCHANGED <<cp, buf, reset>> /\ peer[c][s] = "open"
    BY <1>15 DEF Send, Finish
  <2>2. peer[d][t] = "open" \/ (rx'[d][t] = rx[d][t] /\ peer'[d][t] = peer[d][t])
    <3>1. CASE Send(c, s)
      BY <2>1, <3>1 DEF Send, EndInv, Shape
    <3>2. CASE Finish(c, s)
      BY <2>1, <3>2 DEF Finish, EndInv, Shape
    <3> QED BY <1>15, <3>1, <3>2
  <2> QED BY <1>2, <2>1, <2>2
<1>16. ASSUME NEW c \in Conns, NEW s \in Sides, NEW abort \in BOOLEAN,
              Leave(c, s, abort)
       PROVE  Reason(d, t)'
  <2>1. /\ UNCHANGED <<cp, rx, buf>> /\ peer[c][s] # "gone"
        /\ peer' = [peer EXCEPT ![c][s] = "gone"]
        /\ reset' = [reset EXCEPT ![c][s] = abort]
    BY <1>16 DEF Leave, Attached, Live
  <2>2. ~reset[c][s]
    BY <2>1 DEF EndInv, Places
  <2>3. \A r \in Sides : reset[d][r] => reset'[d][r]
    BY <2>1, <2>2 DEF EndInv, Shape
  <2>4. peer'[d][t] = peer[d][t] \/ peer'[d][t] = "gone"
    BY <2>1 DEF EndInv, Shape
  <2> QED BY <1>2, <2>1, <2>3, <2>4, OtherFacts
<1>17. CASE Down
  BY <1>4, <1>17 DEF Down
<1>18. ASSUME NEW c \in Conns, NEW s \in Sides, Stall(c, s) PROVE Reason(d, t)'
  <2>1. cp' = [cp EXCEPT ![c][s] = "stuck"] /\ UNCHANGED <<peer, rx, buf, reset>>
    BY <1>18 DEF Stall
  <2>2. cp[d][t] = "over"
    BY <2>1 DEF EndInv, Shape
  <2> QED BY <1>4, <2>1, <2>2
<1> QED
  BY <1>5, <1>6, <1>7, <1>8, <1>10, <1>11, <1>12, <1>13, <1>14, <1>15, <1>16, <1>17,
     <1>18, Steps

\* Only HandleEnd tells a side of a reached honeypot while the process runs,
\* and by then the goroutine that copies from that side has its reason.
LEMMA HeldBackStep == ASSUME EndInv, [Next]_vars PROVE EndHeldBack'
<1> DEFINE Free(d, t) == peer[d][t] # "open" \/ reset[d][Other(t)]
           Ends(d, t) == told[d][t] # "no" /\ peer[d]["honey"] # "none"
<1> SUFFICES ASSUME NEW d \in Conns, NEW t \in Sides, up', Ends(d, t)'
             PROVE  Free(d, t)'
  BY DEF EndHeldBack
<1> USE DEF streams, host
<1>1. up => (Ends(d, t) => Free(d, t))
  BY DEF EndInv, EndHeldBack
<1>2. CASE up /\ told' = told /\ peer' = peer /\ reset' = reset
  BY <1>1, <1>2
<1>3. CASE UNCHANGED vars
  BY <1>2, <1>3 DEF vars
<1>4. ASSUME NEW c \in Conns, Connect(c) \/ DialOk(c) PROVE Free(d, t)'
  <2>1. /\ up /\ pc[c] # "closed" /\ told' = told /\ reset' = reset
        /\ \A e \in Conns : e # c => peer'[e] = peer[e]
    BY <1>4 DEF Connect, DialOk, EndInv, Shape
  <2>2. d # c
    BY <2>1 DEF EndInv, Places
  <2> QED BY <1>1, <2>1, <2>2
<1>5. ASSUME NEW c \in Conns, Accept(c) \/ ReportOpen(c) \/ ReportFail(c)
      PROVE  Free(d, t)'
  BY <1>2, <1>5 DEF Accept, ReportOpen, ReportFail
<1>6. ASSUME NEW c \in Conns, DialFail(c) PROVE Free(d, t)'
  <2>1. /\ up /\ UNCHANGED <<peer, reset>> /\ peer[c]["honey"] = "none"
        /\ \A e \in Conns : e # c => told'[e] = told[e]
    BY <1>6 DEF DialFail, EndInv, Places, Shape
  <2> QED BY <1>1, <2>1
<1>7. ASSUME NEW c \in Conns, NEW result \in {"sent", "lost"}, Publish(c, result)
      PROVE  Free(d, t)'
  BY <1>2, <1>7 DEF Publish
<1>8. ASSUME NEW c \in Conns, HandleEnd(c) PROVE Free(d, t)'
  <2>1. /\ up /\ UNCHANGED <<peer, reset>> /\ cp[c][t] = "over"
        /\ \A e \in Conns : e # c => told'[e] = told[e]
    BY <1>8 DEF HandleEnd, EndInv, Shape
  <2>2. reset[c][t] => peer[c][t] = "gone"
    BY DEF EndInv, Places
  <2>3. Free(c, t)
    BY <2>1, <2>2 DEF EndInv, Overs
  <2> QED BY <1>1, <2>1, <2>3
<1>9. ASSUME NEW c \in Conns, NEW s \in Sides,
             \/ CopyRead(c, s) \/ CopyWrite(c, s) \/ CopyEof(c, s) \/ CopyReset(c, s)
             \/ Stall(c, s) \/ Send(c, s)
      PROVE  Free(d, t)'
  BY <1>2, <1>9 DEF CopyRead, CopyWrite, CopyEof, CopyReset, Stall, Copying, Send
<1>10. ASSUME NEW c \in Conns, NEW s \in Sides, CopyLost(c, s) PROVE Free(d, t)'
  <2>1. /\ up /\ UNCHANGED <<peer, told>>
        /\ reset' = [reset EXCEPT ![c][Other(s)] = TRUE]
    BY <1>10 DEF CopyLost, Writing
  <2>2. reset[d][Other(t)] => reset'[d][Other(t)]
    BY <2>1, OtherFacts DEF EndInv, Shape
  <2> QED BY <1>1, <2>1, <2>2
<1>11. ASSUME NEW c \in Conns, NEW s \in Sides,
              Finish(c, s) \/ \E abort \in BOOLEAN : Leave(c, s, abort)
       PROVE  Free(d, t)'
  <2>1. /\ up' = up /\ told' = told /\ told[c][s] = "no"
        /\ peer[c][s] # "none" /\ ~reset[c][s]
    BY <1>11 DEF Finish, Leave, Attached, Live, EndInv, Places
  <2>2. \A e \in Conns, r \in Sides :
          ~(e = c /\ r = s) => peer'[e][r] = peer[e][r] /\ reset'[e][r] = reset[e][r]
    <3>1. CASE Finish(c, s)
      BY <3>1 DEF Finish, EndInv, Shape
    <3>2. ASSUME NEW abort \in BOOLEAN, Leave(c, s, abort)
          PROVE  \A e \in Conns, r \in Sides : ~(e = c /\ r = s) =>
                   peer'[e][r] = peer[e][r] /\ reset'[e][r] = reset[e][r]
      BY <3>2 DEF Leave, EndInv, Shape
    <3> QED BY <1>11, <3>1, <3>2
  <2>3. peer[d]["honey"] # "none"
    BY <2>1, <2>2 DEF Sides
  <2>4. Free(d, t) /\ ~(d = c /\ t = s)
    BY <1>1, <2>1, <2>3
  <2> QED BY <2>1, <2>2, <2>4, OtherFacts
<1>12. CASE Down
  BY <1>12 DEF Down
<1> QED
  BY <1>3, <1>4, <1>5, <1>6, <1>7, <1>8, <1>9, <1>10, <1>11, <1>12, Steps

LEMMA EndStep == ASSUME EndInv, [Next]_vars PROVE EndInv'
<1>1. Shape'
  BY ShapeStep DEF EndInv
<1> QED BY <1>1, PlacesStep, OversStep, HeldBackStep DEF EndInv

\* copy never half-closes: while the process runs no peer sees an end that it
\* did not ask for, unless the other side was reset.
THEOREM EndsAreHeldBack == Spec => []EndHeldBack
<1>1. Init => EndInv
  BY EndInit
<1>2. EndInv /\ [Next]_vars => EndInv'
  BY EndStep
<1>3. EndInv => EndHeldBack
  BY DEF EndInv
<1> QED BY <1>1, <1>2, <1>3, PTL DEF Spec

-----------------------------------------------------------------------------
(***************************************************************************)
(* Each direction is a Pipe.  As long as the receiver is there, what was   *)
(* delivered, the chunk io.Copy holds and what is still unread are, one    *)
(* after the other, the chunks 1, 2, ... sent; once it has gone, what it   *)
(* had got is still a prefix of them.                                      *)
(***************************************************************************)
Count(n) == [i \in 1..n |-> i]

Taken(c, s) == IF buf[c][s] = 0 THEN Len(out[c][s]) ELSE Len(out[c][s]) + 1

Exact(c, s) ==
    /\ buf[c][s] # 0 => buf[c][s] = Taken(c, s)
    /\ Taken(c, s) + Len(rx[c][s]) = sent[c][s]
    /\ \A i \in 1..Len(rx[c][s]) : rx[c][s][i] = Taken(c, s) + i

FlowOf(c, s) ==
    /\ out[c][s] = Count(Len(out[c][s]))
    /\ Len(out[c][s]) <= sent[c][s]
    /\ peer[c][Other(s)] # "gone" => Exact(c, s)

Flow == \A c \in Conns, s \in Sides : FlowOf(c, s)

\* The inductive invariant for the refinement.
PipeInv == EndInv /\ Flow

LEMMA CountFacts ==
    ASSUME NEW n \in Nat
    PROVE  /\ Count(n) \in Seq(Nat) /\ Len(Count(n)) = n
           /\ SubSeq(Count(n + 1), 1, n) = Count(n)
           /\ Append(Count(n), n + 1) = Count(n + 1)
           /\ \A m \in Nat : m < n => Count(n)[m + 1] = m + 1
<1>1. Count(n) \in Seq(Nat) /\ Len(Count(n)) = n
  BY DEF Count
<1>2. Count(n + 1) \in Seq(Nat) /\ Len(Count(n + 1)) = n + 1
  BY DEF Count
<1>3. SubSeq(Count(n + 1), 1, n) = Count(n)
  BY <1>1, <1>2 DEF Count
<1>4. Append(Count(n), n + 1) = Count(n + 1)
  BY <1>1, <1>2 DEF Count
<1> QED BY <1>1, <1>3, <1>4 DEF Count

LEMMA TakenFacts ==
    ASSUME Shape, NEW c \in Conns, NEW s \in Sides
    PROVE  /\ Taken(c, s) \in Nat
           /\ buf[c][s] = 0 => Taken(c, s) = Len(out[c][s])
           /\ buf[c][s] # 0 => Taken(c, s) = Len(out[c][s]) + 1
<1>1. out[c][s] \in Seq(Nat) /\ Len(out[c][s]) \in Nat
  BY DEF Shape
<1> QED BY <1>1 DEF Taken

\* A lane whose streams a step does not touch keeps its order.
LEMMA FlowSame ==
    ASSUME NEW c \in Conns, NEW s \in Sides, FlowOf(c, s),
           sent'[c][s] = sent[c][s], out'[c][s] = out[c][s],
           rx'[c][s] = rx[c][s], buf'[c][s] = buf[c][s],
           peer[c][Other(s)] = "gone" => peer'[c][Other(s)] = "gone"
    PROVE  FlowOf(c, s)'
BY DEF FlowOf, Exact, Taken, Count

LEMMA FlowInit == ASSUME Init PROVE Flow
<1> SUFFICES ASSUME NEW c \in Conns, NEW s \in Sides PROVE FlowOf(c, s)
  BY DEF Flow
<1>1. sent[c][s] = 0 /\ out[c][s] = <<>> /\ rx[c][s] = <<>> /\ buf[c][s] = 0
  BY DEF Init, Both
<1>2. Count(0) = <<>>
  BY CountFacts
<1> QED BY <1>1, <1>2 DEF FlowOf, Exact, Taken

LEMMA FlowSend ==
    ASSUME Shape, NEW c \in Conns, NEW s \in Sides, FlowOf(c, s), Shape', Send(c, s)
    PROVE  FlowOf(c, s)'
<1>1. /\ sent'[c][s] = sent[c][s] + 1 /\ rx'[c][s] = Append(rx[c][s], sent[c][s] + 1)
      /\ UNCHANGED <<out, buf, peer>>
  BY DEF Send, Shape
<1>2. /\ sent[c][s] \in Nat /\ buf[c][s] \in Nat /\ rx[c][s] \in Seq(Nat)
      /\ out[c][s] \in Seq(Nat) /\ Len(out[c][s]) \in Nat
  BY DEF Shape
<1>3. Taken(c, s) \in Nat /\ Taken(c, s)' = Taken(c, s)
  BY <1>1, TakenFacts DEF Taken
<1>4. ASSUME Exact(c, s) PROVE Exact(c, s)'
  <2>1. Taken(c, s) + Len(rx[c][s]) = sent[c][s]
    BY <1>4 DEF Exact
  <2>2. /\ Len(rx'[c][s]) = Len(rx[c][s]) + 1
        /\ \A i \in 1..Len(rx[c][s]) : rx'[c][s][i] = rx[c][s][i]
        /\ rx'[c][s][Len(rx[c][s]) + 1] = sent[c][s] + 1
    BY <1>1, <1>2
  <2>3. Taken(c, s)' + Len(rx'[c][s]) = sent'[c][s]
    BY <1>1, <1>2, <1>3, <2>1, <2>2
  <2>4. ASSUME NEW i \in 1..Len(rx'[c][s]) PROVE rx'[c][s][i] = Taken(c, s)' + i
    <3>1. CASE i \in 1..Len(rx[c][s])
      BY <1>3, <1>4, <2>2, <3>1 DEF Exact
    <3>2. CASE i = Len(rx[c][s]) + 1
      BY <1>2, <1>3, <2>1, <2>2, <3>2
    <3>3. Len(rx[c][s]) \in Nat /\ i \in 1..(Len(rx[c][s]) + 1)
      BY <1>2, <2>2
    <3>4. i \in 1..Len(rx[c][s]) \/ i = Len(rx[c][s]) + 1
      BY <3>3
    <3> QED BY <3>1, <3>2, <3>4
  <2> QED BY <1>1, <1>3, <1>4, <2>3, <2>4 DEF Exact
<1> QED BY <1>1, <1>2, <1>4 DEF FlowOf, Count

LEMMA FlowRead ==
    ASSUME Shape, NEW c \in Conns, NEW s \in Sides, FlowOf(c, s), Shape', CopyRead(c, s)
    PROVE  FlowOf(c, s)'
<1>1. /\ buf[c][s] = 0 /\ rx[c][s] # <<>>
      /\ buf'[c][s] = Head(rx[c][s]) /\ rx'[c][s] = Tail(rx[c][s])
      /\ UNCHANGED <<out, sent, peer>>
  BY DEF CopyRead, Shape
<1>2. /\ sent[c][s] \in Nat /\ rx[c][s] \in Seq(Nat)
      /\ out[c][s] \in Seq(Nat) /\ Len(out[c][s]) \in Nat
  BY DEF Shape
<1>3. /\ Len(rx[c][s]) \in Nat \ {0} /\ Head(rx[c][s]) = rx[c][s][1]
      /\ Len(rx'[c][s]) = Len(rx[c][s]) - 1
      /\ \A i \in 1..Len(rx'[c][s]) : rx'[c][s][i] = rx[c][s][i + 1]
  BY <1>1, <1>2
<1>4. ASSUME Exact(c, s) PROVE Exact(c, s)'
  <2>1. Taken(c, s) = Len(out[c][s])
    BY <1>1, TakenFacts
  <2>2. buf'[c][s] = Taken(c, s) + 1
    BY <1>1, <1>3, <1>4 DEF Exact
  <2>3. Taken(c, s)' = Taken(c, s) + 1
    <3>1. buf'[c][s] # 0
      BY <2>2, TakenFacts
    <3>2. Taken(c, s)' = Len(out'[c][s]) + 1
      BY <3>1 DEF Taken
    <3> QED BY <1>1, <2>1, <3>2
  <2>4. Taken(c, s)' + Len(rx'[c][s]) = sent'[c][s]
    BY <1>1, <1>2, <1>3, <1>4, <2>3, TakenFacts DEF Exact
  <2>5. ASSUME NEW i \in 1..Len(rx'[c][s]) PROVE rx'[c][s][i] = Taken(c, s)' + i
    <3>1. i + 1 \in 1..Len(rx[c][s])
      BY <1>3
    <3>2. rx[c][s][i + 1] = Taken(c, s) + (i + 1)
      BY <1>4, <3>1 DEF Exact
    <3>3. Taken(c, s) + (i + 1) = (Taken(c, s) + 1) + i
      BY TakenFacts
    <3> QED BY <1>3, <2>3, <3>2, <3>3
  <2> QED BY <2>2, <2>3, <2>4, <2>5 DEF Exact
<1> QED BY <1>1, <1>4 DEF FlowOf, Count

\* What CopyWrite delivers is the next chunk.
LEMMA WriteNext ==
    ASSUME Shape, NEW c \in Conns, NEW s \in Sides, FlowOf(c, s), Shape', CopyWrite(c, s)
    PROVE  /\ out'[c][s] = Append(out[c][s], Len(out[c][s]) + 1)
           /\ Len(out[c][s]) < sent[c][s]
           /\ FlowOf(c, s)'
<1>1. /\ buf[c][s] # 0 /\ buf'[c][s] = 0 /\ out'[c][s] = Append(out[c][s], buf[c][s])
      /\ UNCHANGED <<rx, sent, peer>> /\ peer[c][Other(s)] # "gone"
  BY DEF CopyWrite, Shape, Live
<1>2. /\ sent[c][s] \in Nat /\ rx[c][s] \in Seq(Nat) /\ Len(rx[c][s]) \in Nat
      /\ out[c][s] \in Seq(Nat) /\ Len(out[c][s]) \in Nat
  BY DEF Shape
<1>3. Exact(c, s) /\ Taken(c, s) = Len(out[c][s]) + 1
  BY <1>1, TakenFacts DEF FlowOf
<1>4. buf[c][s] = Len(out[c][s]) + 1 /\ Len(out[c][s]) < sent[c][s]
  <2>1. buf[c][s] = Taken(c, s) /\ Taken(c, s) + Len(rx[c][s]) = sent[c][s]
    BY <1>1, <1>3 DEF Exact
  <2>2. \A m, n, k \in Nat : (m + 1) + n = k => m < k
    OBVIOUS
  <2>3. (Len(out[c][s]) + 1) + Len(rx[c][s]) = sent[c][s]
    BY <1>3, <2>1
  <2> QED BY <1>2, <1>3, <2>1, <2>2, <2>3
<1>5. out'[c][s] = Append(out[c][s], Len(out[c][s]) + 1)
  BY <1>1, <1>4
<1>6. Len(out'[c][s]) = Len(out[c][s]) + 1
  BY <1>2, <1>5
<1>7. Taken(c, s)' = Taken(c, s)
  BY <1>1, <1>2, <1>3, <1>6 DEF Taken
<1>8. Exact(c, s)'
  BY <1>1, <1>3, <1>7 DEF Exact
<1>9. out'[c][s] = Count(Len(out'[c][s]))
  BY <1>2, <1>5, <1>6, CountFacts DEF FlowOf
<1>10. FlowOf(c, s)'
  BY <1>1, <1>2, <1>4, <1>6, <1>8, <1>9 DEF FlowOf, Count
<1> QED BY <1>4, <1>5, <1>10

\* A peer that has gone does not come back.
LEMMA GoneStays ==
    ASSUME EndInv, [Next]_vars, NEW d \in Conns, NEW t \in Sides, peer[d][t] = "gone"
    PROVE  peer'[d][t] = "gone"
<1> USE DEF streams, host
<1>1. CASE UNCHANGED peer
  BY <1>1
<1>2. ASSUME NEW c \in Conns, Connect(c) PROVE peer'[d][t] = "gone"
  <2>1. peer[c]["client"] = "none" /\ peer' = [peer EXCEPT ![c]["client"] = "open"]
    BY <1>2 DEF Connect, EndInv, Places
  <2> QED BY <2>1 DEF EndInv, Shape, Sides
<1>3. ASSUME NEW c \in Conns, DialOk(c) PROVE peer'[d][t] = "gone"
  <2>1. peer[c]["honey"] = "none" /\ peer' = [peer EXCEPT ![c]["honey"] = "open"]
    BY <1>3 DEF DialOk, EndInv, Places
  <2> QED BY <2>1 DEF EndInv, Shape, Sides
<1>4. ASSUME NEW c \in Conns, NEW s \in Sides, Finish(c, s) PROVE peer'[d][t] = "gone"
  BY <1>4 DEF Finish, EndInv, Shape
<1>5. ASSUME NEW c \in Conns, NEW s \in Sides, NEW abort \in BOOLEAN,
             Leave(c, s, abort)
      PROVE  peer'[d][t] = "gone"
  BY <1>5 DEF Leave, EndInv, Shape
<1>6. ASSUME NEW c \in Conns,
             Accept(c) \/ DialFail(c) \/ ReportOpen(c) \/ ReportFail(c) \/ HandleEnd(c)
      PROVE  peer'[d][t] = "gone"
  BY <1>1, <1>6 DEF Accept, DialFail, ReportOpen, ReportFail, HandleEnd
<1>7. ASSUME NEW c \in Conns, NEW result \in {"sent", "lost"}, Publish(c, result)
      PROVE  peer'[d][t] = "gone"
  BY <1>1, <1>7 DEF Publish
<1>8. ASSUME NEW c \in Conns, NEW s \in Sides,
             \/ CopyRead(c, s) \/ CopyWrite(c, s) \/ CopyLost(c, s)
             \/ CopyEof(c, s) \/ CopyReset(c, s) \/ Stall(c, s) \/ Send(c, s)
      PROVE  peer'[d][t] = "gone"
  BY <1>1, <1>8 DEF CopyRead, CopyWrite, CopyLost, CopyEof, CopyReset, Stall, Send
<1>9. CASE Down
  BY <1>1, <1>9 DEF Down
<1>10. CASE UNCHANGED vars
  BY <1>1, <1>10 DEF vars
<1> QED BY <1>2, <1>3, <1>4, <1>5, <1>6, <1>7, <1>8, <1>9, <1>10, Steps

LEMMA FlowStep == ASSUME PipeInv, [Next]_vars PROVE Flow'
<1> SUFFICES ASSUME NEW d \in Conns, NEW t \in Sides PROVE FlowOf(d, t)'
  BY DEF Flow
<1> USE DEF streams, host
<1>1. Shape /\ Shape' /\ EndInv /\ FlowOf(d, t)
  BY ShapeStep DEF PipeInv, EndInv, Flow
<1>2. peer[d][Other(t)] = "gone" => peer'[d][Other(t)] = "gone"
  BY <1>1, GoneStays, OtherFacts
<1>3. CASE sent'[d][t] = sent[d][t] /\ out'[d][t] = out[d][t]
           /\ rx'[d][t] = rx[d][t] /\ buf'[d][t] = buf[d][t]
  BY <1>1, <1>2, <1>3, FlowSame
<1>4. CASE UNCHANGED streams
  BY <1>3, <1>4
<1>5. ASSUME NEW c \in Conns,
             \/ Connect(c) \/ Accept(c) \/ DialOk(c) \/ DialFail(c)
             \/ ReportOpen(c) \/ ReportFail(c) \/ HandleEnd(c)
      PROVE  FlowOf(d, t)'
  BY <1>4, <1>5
  DEF Connect, Accept, DialOk, DialFail, ReportOpen, ReportFail, HandleEnd
<1>6. ASSUME NEW c \in Conns, NEW result \in {"sent", "lost"}, Publish(c, result)
      PROVE  FlowOf(d, t)'
  BY <1>4, <1>6 DEF Publish
<1>7. ASSUME NEW c \in Conns, NEW s \in Sides, CopyEof(c, s) \/ CopyReset(c, s) \/ Stall(c, s)
      PROVE  FlowOf(d, t)'
  BY <1>4, <1>7 DEF CopyEof, CopyReset, Stall
<1>8. ASSUME NEW c \in Conns, NEW s \in Sides, CopyRead(c, s) PROVE FlowOf(d, t)'
  <2>1. CASE d = c /\ t = s
    BY <1>1, <1>8, <2>1, FlowRead
  <2>2. CASE ~(d = c /\ t = s)
    <3>1. DOMAIN buf = Conns /\ DOMAIN rx = Conns /\ DOMAIN buf[c] = Sides /\ DOMAIN rx[c] = Sides
      BY <1>1 DEF Shape
    <3>2. /\ UNCHANGED <<sent, out>> /\ buf' = [buf EXCEPT ![c][s] = Head(rx[c][s])]
          /\ rx' = [rx EXCEPT ![c][s] = Tail(rx[c][s])]
      BY <1>8 DEF CopyRead
    <3>3. rx'[d][t] = rx[d][t] /\ buf'[d][t] = buf[d][t]
      BY <2>2, <3>1, <3>2
    <3> QED BY <1>3, <3>2, <3>3
  <2> QED BY <2>1, <2>2
<1>9. ASSUME NEW c \in Conns, NEW s \in Sides, CopyWrite(c, s) PROVE FlowOf(d, t)'
  <2>1. CASE d = c /\ t = s
    BY <1>1, <1>9, <2>1, WriteNext
  <2>2. CASE ~(d = c /\ t = s)
    <3>1. DOMAIN buf = Conns /\ DOMAIN out = Conns /\ DOMAIN buf[c] = Sides /\ DOMAIN out[c] = Sides
      BY <1>1 DEF Shape
    <3>2. /\ UNCHANGED <<sent, rx>> /\ buf' = [buf EXCEPT ![c][s] = 0]
          /\ out' = [out EXCEPT ![c][s] = Append(out[c][s], buf[c][s])]
      BY <1>9 DEF CopyWrite
    <3>3. out'[d][t] = out[d][t] /\ buf'[d][t] = buf[d][t]
      BY <2>2, <3>1, <3>2
    <3> QED BY <1>3, <3>2, <3>3
  <2> QED BY <2>1, <2>2
<1>10. ASSUME NEW c \in Conns, NEW s \in Sides, CopyLost(c, s) PROVE FlowOf(d, t)'
  <2>1. CASE d = c /\ t = s
    <3>1. /\ pc[c] = "copy" /\ peer[c][Other(s)] \notin {"open", "fin"}
          /\ UNCHANGED <<out, sent, peer>>
      BY <1>10 DEF CopyLost, Writing, Live
    <3>2. peer[c][Other(s)] = "gone"
      <4>1. peer[c]["client"] # "none" /\ peer[c]["honey"] # "none"
        BY <1>1, <3>1 DEF EndInv, Places
      <4>2. Other(s) = "client" \/ Other(s) = "honey"
        BY DEF Other
      <4>3. peer[c][Other(s)] \in {"none", "open", "fin", "gone"}
        BY <1>1, OtherFacts DEF Shape
      <4> QED BY <3>1, <4>1, <4>2, <4>3
    <3> QED BY <1>1, <2>1, <3>1, <3>2 DEF FlowOf, Count
  <2>2. CASE ~(d = c /\ t = s)
    BY <1>1, <1>3, <1>10, <2>2 DEF CopyLost, Shape
  <2> QED BY <2>1, <2>2
<1>11. ASSUME NEW c \in Conns, NEW s \in Sides, Send(c, s) PROVE FlowOf(d, t)'
  <2>1. CASE d = c /\ t = s
    BY <1>1, <1>11, <2>1, FlowSend
  <2>2. CASE ~(d = c /\ t = s)
    <3>1. sent'[d][t] = sent[d][t] /\ rx'[d][t] = rx[d][t] /\ UNCHANGED <<out, buf>>
      <4>1. /\ sent' = [sent EXCEPT ![c][s] = @ + 1] /\ UNCHANGED <<out, buf>>
            /\ \E v : rx' = [rx EXCEPT ![c][s] = v]
        BY <1>11 DEF Send
      <4>2. sent \in [Conns -> [Sides -> Nat]] /\ rx \in [Conns -> [Sides -> Seq(Nat)]]
        BY <1>1 DEF Shape
      <4> QED BY <2>2, <4>1, <4>2
    <3> QED BY <1>3, <3>1
  <2> QED BY <2>1, <2>2
<1>12. ASSUME NEW c \in Conns, NEW s \in Sides,
              Finish(c, s) \/ \E abort \in BOOLEAN : Leave(c, s, abort)
       PROVE  FlowOf(d, t)'
  BY <1>4, <1>12 DEF Finish, Leave
<1>13. CASE Down
  BY <1>4, <1>13 DEF Down
<1>14. CASE UNCHANGED vars
  BY <1>4, <1>14 DEF vars
<1> QED
  BY <1>5, <1>6, <1>7, <1>8, <1>9, <1>10, <1>11, <1>12, <1>13, <1>14, Steps

LEMMA PipeInvStep == ASSUME PipeInv, [Next]_vars PROVE PipeInv'
BY EndStep, FlowStep DEF PipeInv

-----------------------------------------------------------------------------
(***************************************************************************)
(* The steps of one lane under the refinement mapping of Pipes.            *)
(***************************************************************************)
LaneStep(l) ==
    \/ Pipes!Send(l) \/ Pipes!Deliver(l) \/ Pipes!Finish(l)
    \/ Pipes!Eof(l) \/ Pipes!Break(l) \/ Pipes!Nothing(l)

Ended(c, s) == peer[c][s] \in {"fin", "gone"}
Told(c, s) == told[c][Other(s)] = "fin"

LEMMA LaneIndex ==
    ASSUME NEW c \in Conns, NEW s \in Sides
    PROVE  <<c, s>> \in Lane /\ <<c, s>>[1] = c /\ <<c, s>>[2] = s
BY DEF Lane

LEMMA LaneNothing ==
    ASSUME NEW c \in Conns, NEW s \in Sides,
           sent'[c][s] = sent[c][s], out'[c][s] = out[c][s],
           Ended(c, s)' <=> Ended(c, s), Told(c, s)' <=> Told(c, s),
           Broken(c, s)' <=> Broken(c, s)
    PROVE  LaneStep(<<c, s>>)
<1>0. <<c, s>> \in Lane /\ <<c, s>>[1] = c /\ <<c, s>>[2] = s
  BY LaneIndex
<1>1. Broken(c, s)' = Broken(c, s)
  BY Zenon DEF Broken
<1>2. Pipes!Nothing(<<c, s>>)
  BY <1>1, <1>0 DEF Pipes!Nothing, Pipes!Keeps, Ended, Told
<1> QED BY <1>2 DEF LaneStep

LEMMA LaneSend ==
    ASSUME NEW c \in Conns, NEW s \in Sides, sent[c][s] \in Nat, ~Ended(c, s),
           sent'[c][s] = sent[c][s] + 1, out'[c][s] = out[c][s],
           Ended(c, s)' <=> Ended(c, s), Told(c, s)' <=> Told(c, s),
           Broken(c, s)' <=> Broken(c, s)
    PROVE  LaneStep(<<c, s>>)
<1>0. <<c, s>> \in Lane /\ <<c, s>>[1] = c /\ <<c, s>>[2] = s
  BY LaneIndex
<1>1. Broken(c, s)' = Broken(c, s)
  BY Zenon DEF Broken
<1>2. ASSUME NEW n \in Nat
      PROVE  /\ Len(Count(n + 1)) = Len(Count(n)) + 1
             /\ SubSeq(Count(n + 1), 1, Len(Count(n))) = Count(n)
  <2>1. Len(Count(n)) = n /\ Len(Count(n + 1)) = n + 1
    BY CountFacts
  <2> QED BY <2>1, CountFacts
<1>3. /\ Len(Count(sent'[c][s])) = Len(Count(sent[c][s])) + 1
      /\ SubSeq(Count(sent'[c][s]), 1, Len(Count(sent[c][s]))) = Count(sent[c][s])
  BY <1>2
<1>4. Pipes!Send(<<c, s>>)
  <2>1. Pipes!Keeps(<<c, s>>, [l \in Lane |-> Broken(l[1], l[2])])
    BY <1>1, <1>0 DEF Pipes!Keeps
  <2>2. ~[l \in Lane |-> peer[l[1]][l[2]] \in {"fin", "gone"}][<<c, s>>]
    BY <1>0 DEF Ended
  <2> QED
    BY <1>3, <2>1, <2>2, <1>0 DEF Pipes!Send, Pipes!Keeps, Ended, Told, Count
<1> QED BY <1>4 DEF LaneStep

LEMMA LaneDeliver ==
    ASSUME NEW c \in Conns, NEW s \in Sides, sent[c][s] \in Nat,
           Len(out[c][s]) \in Nat, Len(out[c][s]) < sent[c][s], ~Told(c, s),
           sent'[c][s] = sent[c][s],
           out'[c][s] = Append(out[c][s], Len(out[c][s]) + 1),
           Ended(c, s)' <=> Ended(c, s), Told(c, s)' <=> Told(c, s),
           Broken(c, s)' <=> Broken(c, s)
    PROVE  LaneStep(<<c, s>>)
<1>0. <<c, s>> \in Lane /\ <<c, s>>[1] = c /\ <<c, s>>[2] = s
  BY LaneIndex
<1>1. Broken(c, s)' = Broken(c, s)
  BY Zenon DEF Broken
<1>2. /\ Len(Count(sent[c][s])) = sent[c][s]
      /\ Count(sent[c][s])[Len(out[c][s]) + 1] = Len(out[c][s]) + 1
  BY CountFacts
<1>3. /\ Len(out[c][s]) < Len(Count(sent[c][s]))
      /\ out'[c][s] = Append(out[c][s], Count(sent[c][s])[Len(out[c][s]) + 1])
  BY <1>2
<1>4. Pipes!Deliver(<<c, s>>)
  <2>1. Pipes!Keeps(<<c, s>>, [l \in Lane |-> Broken(l[1], l[2])])
    BY <1>1, <1>0 DEF Pipes!Keeps
  <2>2. ~[l \in Lane |-> told[l[1]][Other(l[2])] = "fin"][<<c, s>>]
    BY <1>0 DEF Told
  <2> QED
    BY <1>3, <2>1, <2>2, <1>0 DEF Pipes!Deliver, Pipes!Keeps, Ended, Told, Count
<1> QED BY <1>4 DEF LaneStep

LEMMA LaneFinish ==
    ASSUME NEW c \in Conns, NEW s \in Sides,
           sent'[c][s] = sent[c][s], out'[c][s] = out[c][s],
           Ended(c, s)', Told(c, s)' <=> Told(c, s), Broken(c, s)' <=> Broken(c, s)
    PROVE  LaneStep(<<c, s>>)
<1>0. <<c, s>> \in Lane /\ <<c, s>>[1] = c /\ <<c, s>>[2] = s
  BY LaneIndex
<1>1. Broken(c, s)' = Broken(c, s)
  BY Zenon DEF Broken
<1>2. Pipes!Finish(<<c, s>>)
  BY <1>1, <1>0 DEF Pipes!Finish, Pipes!Keeps, Ended, Told
<1> QED BY <1>2 DEF LaneStep

LEMMA LaneEof ==
    ASSUME NEW c \in Conns, NEW s \in Sides,
           (Ended(c, s) /\ out[c][s] = Count(sent[c][s])) \/ Broken(c, s),
           sent'[c][s] = sent[c][s], out'[c][s] = out[c][s],
           Ended(c, s)' <=> Ended(c, s), Told(c, s)', Broken(c, s)' <=> Broken(c, s)
    PROVE  LaneStep(<<c, s>>)
<1>0. <<c, s>> \in Lane /\ <<c, s>>[1] = c /\ <<c, s>>[2] = s
  BY LaneIndex
<1>1. Broken(c, s)' = Broken(c, s)
  BY Zenon DEF Broken
<1>2. Pipes!Eof(<<c, s>>)
  <2>1. Pipes!Keeps(<<c, s>>, [l \in Lane |-> Broken(l[1], l[2])])
    BY <1>0, <1>1 DEF Pipes!Keeps
  <2>2. Broken(c, s) => [l \in Lane |-> Broken(l[1], l[2])][<<c, s>>]
    BY <1>0
  <2>3. Ended(c, s) => [l \in Lane |-> peer[l[1]][l[2]] \in {"fin", "gone"}][<<c, s>>]
    BY <1>0 DEF Ended
  <2>4. out[c][s] = Count(sent[c][s]) =>
          [l \in Lane |-> out[l[1]][l[2]]][<<c, s>>]
            = [l \in Lane |-> [i \in 1..sent[l[1]][l[2]] |-> i]][<<c, s>>]
    BY <1>0 DEF Count
  <2>5. [l \in Lane |-> told[l[1]][Other(l[2])] = "fin"]'[<<c, s>>]
    BY <1>0 DEF Told
  <2>6. /\ Pipes!Keeps(<<c, s>>, [l \in Lane |-> [i \in 1..sent[l[1]][l[2]] |-> i]])
        /\ Pipes!Keeps(<<c, s>>, [l \in Lane |-> out[l[1]][l[2]]])
        /\ Pipes!Keeps(<<c, s>>, [l \in Lane |-> peer[l[1]][l[2]] \in {"fin", "gone"}])
    BY <1>0 DEF Pipes!Keeps, Ended
  <2> QED BY <2>1, <2>2, <2>3, <2>4, <2>5, <2>6, Zenon DEF Pipes!Eof
<1> QED BY <1>2 DEF LaneStep

LEMMA LaneBreak ==
    ASSUME NEW c \in Conns, NEW s \in Sides,
           sent'[c][s] = sent[c][s], out'[c][s] = out[c][s],
           Ended(c, s) => Ended(c, s)', Told(c, s) => Told(c, s)', Broken(c, s)'
    PROVE  LaneStep(<<c, s>>)
<1>0. <<c, s>> \in Lane /\ <<c, s>>[1] = c /\ <<c, s>>[2] = s
  BY LaneIndex
<1>1. Pipes!Break(<<c, s>>)
  BY <1>0 DEF Pipes!Break, Pipes!Keeps, Ended, Told
<1> QED BY <1>1 DEF LaneStep

\* The lanes of a connection that a step leaves alone.
LEMMA LaneStill ==
    ASSUME NEW c \in Conns, NEW s \in Sides, up' = up, pc'[c] = pc[c],
           peer'[c] = peer[c], reset'[c] = reset[c], sent'[c] = sent[c],
           out'[c] = out[c], told'[c] = told[c]
    PROVE  LaneStep(<<c, s>>)
<1>1. (Ended(c, s)' <=> Ended(c, s)) /\ (Told(c, s)' <=> Told(c, s))
  BY DEF Ended, Told
<1>2. Broken(c, s)' <=> Broken(c, s)
  BY Zenon DEF Broken
<1> QED BY <1>1, <1>2, LaneNothing

\* The goroutine of a connection, up to the copying: no lane sees it.
LEMMA LaneOpening ==
    ASSUME PipeInv, NEW c \in Conns, NEW d \in Conns, NEW t \in Sides,
           \/ Connect(c) \/ Accept(c) \/ DialOk(c) \/ ReportOpen(c) \/ ReportFail(c)
           \/ \E result \in {"sent", "lost"} : Publish(c, result)
    PROVE  LaneStep(<<d, t>>)
<1> USE DEF streams, host, StartCopy
<1>1. Shape /\ Places
  BY DEF PipeInv, EndInv
<1>2. /\ up' = up /\ UNCHANGED <<sent, out, reset, told>>
      /\ \A e \in Conns : e # c => pc'[e] = pc[e] /\ peer'[e] = peer[e]
      /\ pc[c] # "closed" /\ pc'[c] # "closed"
  BY <1>1 DEF Connect, Accept, DialOk, ReportOpen, ReportFail, Publish, Shape
<1>3. \A r \in Sides : \/ peer'[c][r] = peer[c][r]
                       \/ peer[c][r] = "none" /\ peer'[c][r] = "open"
  <2>1. CASE Connect(c)
    BY <1>1, <2>1 DEF Connect, Places, Shape, Sides
  <2>2. CASE DialOk(c)
    BY <1>1, <2>2 DEF DialOk, Places, Shape, Sides
  <2>3. CASE peer' = peer
    BY <2>3
  <2> QED BY <2>1, <2>2, <2>3 DEF Accept, ReportOpen, ReportFail, Publish
<1>4. CASE d # c
  BY <1>2, <1>4, LaneStill
<1>5. CASE d = c
  <2>1. Ended(c, t)' <=> Ended(c, t)
    BY <1>3 DEF Ended
  <2>2. Told(c, t)' <=> Told(c, t)
    BY <1>2 DEF Told
  <2>3. peer'[c][Other(t)] = "gone" <=> peer[c][Other(t)] = "gone"
    BY <1>3, OtherFacts
  <2>4. Broken(c, t)' <=> Broken(c, t)
    BY <1>2, <2>3, Zenon DEF Broken
  <2> QED BY <1>2, <1>5, <2>1, <2>2, <2>4, LaneNothing
<1> QED BY <1>4, <1>5

\* A honeypot that cannot be reached breaks both lanes.
LEMMA LaneDialFail ==
    ASSUME PipeInv, NEW c \in Conns, NEW d \in Conns, NEW t \in Sides, DialFail(c)
    PROVE  LaneStep(<<d, t>>)
<1> USE DEF streams, host
<1>1. Shape /\ Places
  BY DEF PipeInv, EndInv
<1>2. /\ up' = up /\ UNCHANGED <<sent, out, reset, peer>>
      /\ \A e \in Conns : e # c => pc'[e] = pc[e] /\ told'[e] = told[e]
      /\ pc[c] = "dial" /\ pc'[c] = "closed"
  BY <1>1 DEF DialFail, Shape
<1>3. CASE d # c
  BY <1>2, <1>3, LaneStill
<1>4. CASE d = c
  <2>1. Broken(c, t)'
    BY <1>1, <1>2 DEF Broken, Places
  <2>2. ~Told(c, t)
    BY <1>1, <1>2, OtherFacts DEF Told, Places
  <2>3. Ended(c, t) => Ended(c, t)'
    BY <1>2 DEF Ended
  <2> QED BY <1>2, <1>4, <2>1, <2>2, <2>3, LaneBreak
<1> QED BY <1>3, <1>4

\* Reads and the ends of io.Copy touch no lane; a write delivers.
LEMMA LaneCopy ==
    ASSUME PipeInv, Shape', NEW c \in Conns, NEW s \in Sides,
           NEW d \in Conns, NEW t \in Sides,
           \/ CopyRead(c, s) \/ CopyWrite(c, s) \/ CopyEof(c, s) \/ CopyReset(c, s)
           \/ Stall(c, s)
    PROVE  LaneStep(<<d, t>>)
<1> USE DEF streams, host
<1>1. Shape /\ Places /\ FlowOf(c, s)
  BY DEF PipeInv, EndInv, Flow
<1>2. up' = up /\ UNCHANGED <<pc, sent, reset, peer, told>>
  BY DEF CopyRead, CopyWrite, CopyEof, CopyReset, Stall
<1>3. (Ended(d, t)' <=> Ended(d, t)) /\ (Told(d, t)' <=> Told(d, t))
  BY <1>2 DEF Ended, Told
<1>4. Broken(d, t)' <=> Broken(d, t)
  BY <1>2, Zenon DEF Broken
<1>5. CASE out'[d][t] = out[d][t]
  BY <1>2, <1>3, <1>4, <1>5, LaneNothing
<1>6. CASE CopyWrite(c, s)
  <2>1. CASE d = c /\ t = s
    <3>1. /\ out'[c][s] = Append(out[c][s], Len(out[c][s]) + 1)
          /\ Len(out[c][s]) < sent[c][s]
      BY <1>1, <1>6, WriteNext
    <3>2. sent[c][s] \in Nat /\ Len(out[c][s]) \in Nat
      <4>1. out[c][s] \in Seq(Nat) /\ sent[c][s] \in Nat
        BY <1>1 DEF Shape
      <4> QED BY <4>1
    <3>3. ~Told(c, s)
      BY <1>1, <1>6, OtherFacts DEF Told, Places, CopyWrite, Copying
    <3> QED BY <1>2, <1>3, <1>4, <2>1, <3>1, <3>2, <3>3, LaneDeliver
  <2>2. CASE ~(d = c /\ t = s)
    BY <1>1, <1>5, <1>6, <2>2 DEF CopyWrite, Shape
  <2> QED BY <2>1, <2>2
<1> QED BY <1>5, <1>6 DEF CopyRead, CopyEof, CopyReset, Stall

\* A chunk lost: its lane was broken already, the opposite one breaks.
LEMMA LaneCopyLost ==
    ASSUME PipeInv, NEW c \in Conns, NEW s \in Sides, NEW d \in Conns, NEW t \in Sides,
           CopyLost(c, s)
    PROVE  LaneStep(<<d, t>>)
<1> USE DEF streams, host
<1>1. Shape /\ Places
  BY DEF PipeInv, EndInv
<1>2. /\ up' = up /\ UNCHANGED <<pc, sent, out, peer, told>>
      /\ reset' = [reset EXCEPT ![c][Other(s)] = TRUE]
      /\ pc[c] = "copy" /\ peer[c][Other(s)] \notin {"open", "fin"}
  BY DEF CopyLost, Writing, Live
<1>3. (Ended(d, t)' <=> Ended(d, t)) /\ (Told(d, t)' <=> Told(d, t))
  BY <1>2 DEF Ended, Told
<1>4. CASE d # c
  <2>1. reset'[d] = reset[d]
    BY <1>1, <1>2, <1>4 DEF Shape
  <2> QED BY <1>2, <2>1, LaneStill
<1>5. CASE d = c /\ t = s
  <2>1. peer[c][Other(s)] = "gone"
    <3>1. peer[c]["client"] # "none" /\ peer[c]["honey"] # "none"
      BY <1>1, <1>2 DEF Places
    <3>2. Other(s) = "client" \/ Other(s) = "honey"
      BY DEF Other
    <3>3. peer[c][Other(s)] \in {"none", "open", "fin", "gone"}
      BY <1>1, OtherFacts DEF Shape
    <3> QED BY <1>2, <3>1, <3>2, <3>3
  <2>2. Broken(c, s) /\ Broken(c, s)'
    BY <1>2, <2>1 DEF Broken
  <2> QED BY <1>2, <1>3, <1>5, <2>2, LaneNothing
<1>6. CASE d = c /\ t = Other(s)
  <2>1. Broken(c, t)'
    BY <1>1, <1>2, <1>6, OtherFacts DEF Broken, Shape
  <2> QED BY <1>2, <1>3, <1>6, <2>1, LaneBreak
<1> QED BY <1>4, <1>5, <1>6, OtherFacts

\* The deferred Close calls: a regular end only after everything.
LEMMA LaneHandleEnd ==
    ASSUME PipeInv, NEW c \in Conns, NEW d \in Conns, NEW t \in Sides, HandleEnd(c)
    PROVE  LaneStep(<<d, t>>)
<1> USE DEF streams, host
<1>1. Shape /\ Places /\ Overs /\ FlowOf(c, t)
  BY DEF PipeInv, EndInv, Flow
<1>2. /\ up /\ up' = up /\ UNCHANGED <<sent, out, reset, peer>>
      /\ \A e \in Conns : e # c => pc'[e] = pc[e] /\ told'[e] = told[e]
      /\ pc[c] = "copy" /\ pc'[c] = "closed" /\ cp[c][t] = "over"
  BY <1>1 DEF HandleEnd, Shape
<1>3. CASE d # c
  BY <1>2, <1>3, LaneStill
<1>4. CASE d = c
  <2>1. Ended(c, t)' <=> Ended(c, t)
    BY <1>2 DEF Ended
  <2>2. ~Told(c, t) /\ peer[c]["honey"] # "none"
    BY <1>1, <1>2, OtherFacts DEF Told, Places
  <2>3. Broken(c, t)' <=> Broken(c, t)
    BY <1>2, <2>2 DEF Broken
  <2>4. (Ended(c, t) /\ out[c][t] = Count(sent[c][t])) \/ Broken(c, t)
    <3>1. CASE reset[c][t] \/ peer[c][Other(t)] = "gone"
      BY <3>1 DEF Broken
    <3>2. CASE reset[c][Other(t)]
      BY <1>1, <3>1, <3>2, OtherFacts DEF Places
    <3>3. CASE /\ peer[c][t] \in {"fin", "gone"} /\ rx[c][t] = <<>> /\ buf[c][t] = 0
               /\ peer[c][Other(t)] # "gone"
      <4>1. Exact(c, t) /\ Taken(c, t) = Len(out[c][t]) /\ Len(out[c][t]) \in Nat
        BY <1>1, <3>3, TakenFacts DEF FlowOf
      <4>2. Len(out[c][t]) = sent[c][t]
        BY <3>3, <4>1 DEF Exact
      <4> QED BY <1>1, <3>3, <4>2 DEF FlowOf, Ended
    <3> QED BY <1>1, <1>2, <3>1, <3>2, <3>3 DEF Overs
  <2>5. CASE Told(c, t)'
    BY <1>2, <1>4, <2>1, <2>3, <2>4, <2>5, LaneEof
  <2>6. CASE ~Told(c, t)'
    BY <1>2, <1>4, <2>1, <2>2, <2>3, <2>6, LaneNothing
  <2> QED BY <2>5, <2>6
<1> QED BY <1>3, <1>4

LEMMA LaneSends ==
    ASSUME PipeInv, NEW c \in Conns, NEW s \in Sides, NEW d \in Conns, NEW t \in Sides,
           Send(c, s)
    PROVE  LaneStep(<<d, t>>)
<1> USE DEF streams, host
<1>1. Shape
  BY DEF PipeInv, EndInv
<1>2. /\ up' = up /\ UNCHANGED <<pc, out, reset, peer, told>>
      /\ sent' = [sent EXCEPT ![c][s] = @ + 1] /\ peer[c][s] = "open"
  BY DEF Send
<1>3. (Ended(d, t)' <=> Ended(d, t)) /\ (Told(d, t)' <=> Told(d, t))
  BY <1>2 DEF Ended, Told
<1>4. Broken(d, t)' <=> Broken(d, t)
  BY <1>2, Zenon DEF Broken
<1>5. sent \in [Conns -> [Sides -> Nat]]
  BY <1>1 DEF Shape
<1>6. CASE d = c /\ t = s
  <2>1. sent'[c][s] = sent[c][s] + 1 /\ sent[c][s] \in Nat /\ ~Ended(c, s)
    BY <1>2, <1>5 DEF Ended
  <2> QED BY <1>2, <1>3, <1>4, <1>6, <2>1, LaneSend
<1>7. CASE ~(d = c /\ t = s)
  <2>1. sent'[d][t] = sent[d][t]
    BY <1>2, <1>5, <1>7
  <2> QED BY <1>2, <1>3, <1>4, <2>1, LaneNothing
<1> QED BY <1>6, <1>7

\* The end of a sender; one that closes its socket also breaks the lane that
\* leads to it, and one that aborts breaks both.
LEMMA LaneEnds ==
    ASSUME PipeInv, NEW c \in Conns, NEW s \in Sides, NEW d \in Conns, NEW t \in Sides,
           Finish(c, s) \/ \E abort \in BOOLEAN : Leave(c, s, abort)
    PROVE  LaneStep(<<d, t>>)
<1> USE DEF streams, host
<1>1. Shape /\ Places
  BY DEF PipeInv, EndInv
<1>2. /\ up' = up /\ UNCHANGED <<pc, sent, out, told>> /\ ~reset[c][s]
      /\ peer[c][s] \in {"open", "fin"}
      /\ peer[c][s] = "fin" => ~Finish(c, s)
  BY <1>1 DEF Finish, Leave, Attached, Live, Places
<1>3. Told(d, t)' <=> Told(d, t)
  BY <1>2 DEF Told
<1>4. \A e \in Conns, r \in Sides :
        ~(e = c /\ r = s) => peer'[e][r] = peer[e][r] /\ reset'[e][r] = reset[e][r]
  <2>1. CASE Finish(c, s)
    BY <1>1, <2>1 DEF Finish, Shape
  <2>2. ASSUME NEW abort \in BOOLEAN, Leave(c, s, abort)
        PROVE  \A e \in Conns, r \in Sides : ~(e = c /\ r = s) =>
                 peer'[e][r] = peer[e][r] /\ reset'[e][r] = reset[e][r]
    <3>1. /\ peer' = [peer EXCEPT ![c][s] = "gone"]
          /\ reset' = [reset EXCEPT ![c][s] = abort]
      BY <2>2 DEF Leave
    <3>2. /\ peer \in [Conns -> [Sides -> {"none", "open", "fin", "gone"}]]
          /\ reset \in [Conns -> [Sides -> BOOLEAN]]
      BY <1>1 DEF Shape
    <3>3. \A e \in Conns, r \in Sides : ~(e = c /\ r = s) => peer'[e][r] = peer[e][r]
      BY <3>1, <3>2
    <3>4. \A e \in Conns, r \in Sides : ~(e = c /\ r = s) => reset'[e][r] = reset[e][r]
      BY <3>1, <3>2
    <3> QED BY <3>3, <3>4
  <2> QED BY <2>1, <2>2
<1>5. (peer'[c][s] = "fin" /\ reset'[c][s] = reset[c][s]) \/ peer'[c][s] = "gone"
  BY <1>1 DEF Finish, Leave, Shape
<1>6. peer'[d]["honey"] = "none" <=> peer[d]["honey"] = "none"
  BY <1>2, <1>4, <1>5 DEF Sides
<1>7. CASE d # c
  <2>1. Ended(d, t)' <=> Ended(d, t)
    BY <1>4, <1>7 DEF Ended
  <2>2. Broken(d, t)' <=> Broken(d, t)
    BY <1>2, <1>4, <1>6, <1>7, OtherFacts DEF Broken
  <2> QED BY <1>2, <1>3, <2>1, <2>2, LaneNothing
<1>8. CASE d = c /\ t = s
  <2>1. Ended(c, s)'
    BY <1>5 DEF Ended
  <2>2. CASE reset'[c][s]
    <3>1. Broken(c, s)'
      BY <2>2 DEF Broken
    <3> QED BY <1>2, <1>3, <1>8, <2>1, <3>1, LaneBreak
  <2>3. CASE ~reset'[c][s]
    <3>1. peer'[c][Other(s)] = peer[c][Other(s)]
      BY <1>4, OtherFacts
    <3>2. Broken(c, s)' <=> Broken(c, s)
      BY <1>2, <1>6, <1>8, <2>3, <3>1 DEF Broken
    <3> QED BY <1>2, <1>3, <1>8, <2>1, <3>2, LaneFinish
  <2> QED BY <2>2, <2>3
<1>9. CASE d = c /\ t = Other(s)
  <2>1. Ended(c, t)' <=> Ended(c, t)
    BY <1>4, <1>9, OtherFacts DEF Ended
  <2>2. reset'[c][t] = reset[c][t] /\ Other(t) = s
    BY <1>4, <1>9, OtherFacts
  <2>3. CASE peer'[c][s] = "gone"
    <3>1. Broken(c, t)'
      BY <2>2, <2>3 DEF Broken
    <3> QED BY <1>2, <1>3, <1>9, <2>1, <3>1, LaneBreak
  <2>4. CASE peer'[c][s] = "fin"
    <3>1. Broken(c, t)' <=> Broken(c, t)
      BY <1>2, <1>6, <1>9, <2>2, <2>4 DEF Broken
    <3> QED BY <1>2, <1>3, <1>9, <2>1, <3>1, LaneNothing
  <2> QED BY <1>5, <2>3, <2>4
<1> QED BY <1>7, <1>8, <1>9, OtherFacts

\* The end of the process breaks every lane of a connection that exists.
LEMMA LaneDown ==
    ASSUME PipeInv, NEW d \in Conns, NEW t \in Sides, Down
    PROVE  LaneStep(<<d, t>>)
<1> USE DEF streams
<1>1. Shape /\ Places
  BY DEF PipeInv, EndInv
<1>2. /\ up /\ ~up' /\ UNCHANGED <<sent, out, peer, reset>>
      /\ pc'[d] = IF pc[d] = "idle" THEN "idle" ELSE "closed"
      /\ \A r \in Sides : told'[d][r] = Closing(d, r)
  BY DEF Down
<1>3. Ended(d, t)' <=> Ended(d, t)
  BY <1>2 DEF Ended
<1>4. CASE pc[d] = "idle"
  <2>1. \A r \in Sides : peer[d][r] = "none" /\ told[d][r] = "no"
    BY <1>1, <1>4 DEF Places, Sides, Shape
  <2>2. ~Told(d, t)' /\ ~Told(d, t)
    BY <1>1, <1>2, <2>1, ClosingType, OtherFacts DEF Told
  <2>3. Broken(d, t)' <=> Broken(d, t)
    BY <1>2, <1>4 DEF Broken
  <2> QED BY <1>2, <1>3, <2>2, <2>3, LaneNothing
<1>5. CASE pc[d] # "idle"
  <2>1. Told(d, t) => Told(d, t)'
    <3>1. ASSUME Told(d, t) PROVE Told(d, t)'
      <4>1. told[d][Other(t)] = "fin" /\ peer[d][Other(t)] # "none"
        BY <1>1, <3>1, OtherFacts DEF Told, Places
      <4>2. Closing(d, Other(t)) = "fin"
        BY <1>1, <4>1, ClosingType, OtherFacts
      <4> QED BY <1>2, <4>2, OtherFacts DEF Told
    <3> QED BY <3>1
  <2>2. Broken(d, t)'
    BY <1>2, <1>5 DEF Broken
  <2> QED BY <1>2, <1>3, <2>1, <2>2, LaneBreak
<1> QED BY <1>4, <1>5

LEMMA RefineInit == ASSUME Init PROVE Pipes!Init
<1>1. ASSUME NEW l \in Lane
      PROVE  /\ l[1] \in Conns /\ l[2] \in Sides
             /\ [i \in 1..sent[l[1]][l[2]] |-> i] = <<>> /\ out[l[1]][l[2]] = <<>>
             /\ peer[l[1]][l[2]] \notin {"fin", "gone"}
             /\ told[l[1]][Other(l[2])] # "fin" /\ ~Broken(l[1], l[2])
  <2>1. l[1] \in Conns /\ l[2] \in Sides
    BY DEF Lane
  <2>2. /\ sent[l[1]][l[2]] = 0 /\ out[l[1]][l[2]] = <<>>
        /\ peer[l[1]][l[2]] \notin {"fin", "gone"}
        /\ told[l[1]][Other(l[2])] # "fin" /\ ~Broken(l[1], l[2])
    BY <2>1, OtherFacts DEF Init, Both, Broken
  <2>3. Count(0) = <<>>
    BY CountFacts
  <2> QED BY <2>1, <2>2, <2>3 DEF Count
<1>2. [l \in Lane |-> [i \in 1..sent[l[1]][l[2]] |-> i]] = [l \in Lane |-> <<>>]
  BY <1>1
<1>3. [l \in Lane |-> out[l[1]][l[2]]] = [l \in Lane |-> <<>>]
  BY <1>1
<1>4. [l \in Lane |-> peer[l[1]][l[2]] \in {"fin", "gone"}] = [l \in Lane |-> FALSE]
  <2>1. \A l \in Lane : (peer[l[1]][l[2]] \in {"fin", "gone"}) = FALSE
    BY <1>1
  <2> QED BY <2>1, Zenon
<1>5. [l \in Lane |-> told[l[1]][Other(l[2])] = "fin"] = [l \in Lane |-> FALSE]
  BY <1>1
<1>6. [l \in Lane |-> Broken(l[1], l[2])] = [l \in Lane |-> FALSE]
  BY <1>1, Zenon DEF Broken
<1> QED BY <1>2, <1>3, <1>4, <1>5, <1>6 DEF Pipes!Init

\* Every step of the relay is a step of the pipes or none.
LEMMA RefineStep ==
    ASSUME PipeInv, [Next]_vars
    PROVE  [Pipes!Next]_Pipes!pipe
<1>1. CASE UNCHANGED vars
  BY <1>1 DEF vars, host, streams, Pipes!pipe, Broken
<1>2. CASE Next
  <2>1. ASSUME NEW d \in Conns, NEW t \in Sides PROVE LaneStep(<<d, t>>)
    <3>1. Shape'
      BY ShapeStep DEF PipeInv, EndInv
    <3> QED
      BY <1>2, <3>1, Steps, LaneOpening, LaneDialFail, LaneCopy, LaneCopyLost,
         LaneHandleEnd, LaneSends, LaneEnds, LaneDown
  <2>2. ASSUME NEW l \in Lane PROVE LaneStep(l)
    <3>1. l = <<l[1], l[2]>> /\ l[1] \in Conns /\ l[2] \in Sides
      BY DEF Lane
    <3> QED BY <2>1, <3>1
  <2>3. Pipes!Next
    BY <2>2 DEF Pipes!Next, LaneStep
  <2> QED BY <2>3
<1> QED BY <1>1, <1>2

\* The relay implements Pipe: each direction of each connection delivers a
\* prefix of what was sent, in order and once, and tells a regular end only
\* after everything (handle, copy).
THEOREM RelayIsPipe == Spec => IsPipe
<1>1. Init => PipeInv /\ Pipes!Init
  BY EndInit, FlowInit, RefineInit DEF PipeInv
<1>2. PipeInv /\ [Next]_vars => PipeInv'
  BY PipeInvStep
<1>3. PipeInv /\ [Next]_vars => [Pipes!Next]_Pipes!pipe
  BY RefineStep
<1> QED BY <1>1, <1>2, <1>3, PTL DEF Spec, IsPipe, Pipes!Spec
=============================================================================
