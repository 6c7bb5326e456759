------------------------- MODULE RedisListenerProofs -------------------------
(***************************************************************************)
(* The pool's books balance for every MaxActive: no sequence of drops,     *)
(* reconnections and answers loses a connection, except a first Subscribe  *)
(* that fails; a process that has lost MaxActive of them so stays deaf and *)
(* mute; and the messages are carried out in the order of publication.     *)
(***************************************************************************)
EXTENDS RedisListener, TLAPS

\* The counts are natural numbers and respect the limit of the pool.
Counts ==
    /\ active \in Nat /\ good \in Nat /\ bad \in Nat /\ leaked \in Nat
    /\ active <= MaxActive
    /\ lconn \in Conns /\ hconn \in Conns

\* Neither goroutine asks for a connection while it holds one, and the server
\* only has a subscriber whose connection works.
Holding ==
    /\ lpc \in {"get", "reget"} => lconn = "none"
    /\ hpc \in {"idle", "answer"} => hconn = "none"
    /\ sub => lconn = "ok" /\ lpc # "close"

\* The inductive invariant.
Balance == Counts /\ Holding /\ SlotsAccounted

\* Whether a connection is real, case by case.
LEMMA RealFacts ==
    /\ Real("ok") = 1 /\ Real("broken") = 1
    /\ Real("none") = 0 /\ Real("err") = 0
    /\ \A c \in Conns : Real(c) \in {0, 1}
BY DEF Real, Conns

\* pool.Get, by a goroutine that holds no connection, keeps the books.
LEMMA GetBalance ==
    ASSUME PoolAssumption, NEW c \in Conns, Counts, Get(c)
    PROVE  /\ active' \in Nat /\ good' \in Nat /\ bad' \in Nat
           /\ active' <= MaxActive
           /\ active' - good' - bad' = active - good - bad + Real(c)
BY RealFacts DEF PoolAssumption, Counts, Get, Conns

\* Balance holds initially.
LEMMA BalanceInit == ASSUME PoolAssumption, Init PROVE Balance
BY RealFacts DEF PoolAssumption, Init, Balance, Counts, Holding, SlotsAccounted, Conns

\* Every step keeps it.
LEMMA BalanceStep ==
    ASSUME PoolAssumption, Balance, [Next]_vars
    PROVE  Balance'
<1> USE RealFacts DEF Balance
<1>1. CASE UNCHANGED vars
  BY <1>1 DEF vars, pool, listener, handler, Counts, Holding, SlotsAccounted
<1>2. CASE Expire
  BY <1>2 DEF Expire, listener, handler, Counts, Holding, SlotsAccounted, Conns
<1>3. CASE NetDown
  BY <1>3 DEF NetDown, Counts, Holding, SlotsAccounted, Conns
<1>4. CASE NetUp
  BY <1>4 DEF NetUp, pool, listener, handler, Counts, Holding, SlotsAccounted
<1>5. CASE CentrePublish
  BY <1>5 DEF CentrePublish, pool, handler, Counts, Holding, SlotsAccounted
<1>6. CASE ListenGet
  <2>1. PICK c \in Conns : Get(c) /\ lconn' = c
    BY <1>6 DEF ListenGet
  <2>2. lconn = "none" /\ ~sub
    BY <1>6 DEF ListenGet, Holding
  <2>3. Counts'
    BY <1>6, <2>1, GetBalance DEF ListenGet, handler, Counts
  <2>4. Holding'
    BY <1>6, <2>2 DEF ListenGet, handler, Holding
  <2>5. SlotsAccounted'
    BY <1>6, <2>1, <2>2, <2>3, GetBalance
    DEF ListenGet, handler, Counts, SlotsAccounted
  <2> QED BY <2>3, <2>4, <2>5
<1>7. CASE Subscribe
  BY <1>7 DEF Subscribe, pool, handler, Counts, Holding, SlotsAccounted
<1>8. CASE ListenFail
  BY <1>8 DEF ListenFail, handler, Counts, Holding, SlotsAccounted, Conns
<1>9. CASE ResubFail
  BY <1>9 DEF ResubFail, pool, handler, Counts, Holding, SlotsAccounted
<1>10. CASE Receive
  BY <1>10 DEF Receive, pool, handler, Counts, Holding, SlotsAccounted
<1>11. CASE PassOn
  BY <1>11 DEF PassOn, pool, handler, Counts, Holding, SlotsAccounted
<1>12. CASE ReceiveError
  BY <1>12 DEF ReceiveError, pool, handler, Counts, Holding, SlotsAccounted, Conns
<1>13. CASE CloseConn
  BY <1>13 DEF CloseConn, handler, Counts, Holding, SlotsAccounted, Conns
<1>14. CASE Take
  BY <1>14 DEF Take, pool, listener, Counts, Holding, SlotsAccounted
<1>15. CASE AnswerGet
  <2>1. PICK c \in Conns : Get(c) /\ hconn' = c
    BY <1>15 DEF AnswerGet
  <2>2. hconn = "none"
    BY <1>15 DEF AnswerGet, Holding
  <2>3. Counts'
    BY <1>15, <2>1, GetBalance DEF AnswerGet, listener, Counts
  <2>4. Holding'
    BY <1>15 DEF AnswerGet, listener, Holding
  <2>5. SlotsAccounted'
    <3>1. /\ Real(lconn) \in Nat /\ Real(c) \in Nat
          /\ lconn' = lconn /\ leaked' = leaked /\ hconn' = c
      BY <1>15, <2>1, RealFacts DEF AnswerGet, listener, Counts
    <3>2. active' - good' - bad' = active - good - bad + Real(c)
      BY <2>1, GetBalance
    <3> QED BY <2>2, <2>3, <3>1, <3>2 DEF Counts, SlotsAccounted
  <2> QED BY <2>3, <2>4, <2>5
<1>16. CASE Answer
  BY <1>16 DEF Answer, PutBack, listener, Counts, Holding, SlotsAccounted, Conns
<1> QED
  BY <1>1, <1>2, <1>3, <1>4, <1>5, <1>6, <1>7, <1>8, <1>9, <1>10, <1>11, <1>12,
     <1>13, <1>14, <1>15, <1>16
  DEF Next, Listener, Silence, Handler

\* Every connection the pool counts is idle, in use, or was dropped by Listen
\* when its first Subscribe failed (redisUtil.go: Listen, PublishMsg).
THEOREM BooksBalance == Spec => []SlotsAccounted
<1>1. Init => Balance
  BY PoolAssumption, BalanceInit
<1>2. Balance /\ [Next]_vars => Balance'
  BY PoolAssumption, BalanceStep
<1>3. Balance => SlotsAccounted
  BY DEF Balance
<1> QED BY <1>1, <1>2, <1>3, PTL DEF Spec

\* A process that has lost MaxActive connections is never subscribed again and
\* holds no connection.
THEOREM DeafWhenExhausted == Spec => []Exhausted
<1>1. Init => Balance
  BY PoolAssumption, BalanceInit
<1>2. Balance /\ [Next]_vars => Balance'
  BY PoolAssumption, BalanceStep
<1>3. Balance => Exhausted
  BY PoolAssumption, RealFacts
  DEF PoolAssumption, Balance, Counts, Holding, SlotsAccounted, Exhausted
<1> QED BY <1>1, <1>2, <1>3, PTL DEF Spec

-----------------------------------------------------------------------------
(***************************************************************************)
(* The order of messages.  On their way from the wire over the listener    *)
(* and the Go channel to the handler they keep their order, whatever a     *)
(* lost connection takes out of the wire.                                  *)
(***************************************************************************)
Rising(s) == \A i, j \in DOMAIN s : i < j => s[i] < s[j]
Before(s, x) == \A i \in DOMAIN s : s[i] < x
Below(s, t) == \A j \in DOMAIN t : Before(s, t[j])

\* The inductive invariant: each of the places a message passes is in order,
\* and everything in a later place is older than what an earlier one holds.
Queues ==
    /\ wire \in Seq(Nat) /\ message \in Seq(Nat) /\ handled \in Seq(Nat)
    /\ got \in Nat /\ sent \in Nat
    /\ Rising(wire) /\ Rising(message) /\ Rising(handled)
    /\ Below(handled, message) /\ Below(handled, wire) /\ Below(message, wire)
    /\ lpc = "put" => /\ Before(handled, got) /\ Before(message, got)
                      /\ Before(<<got>>, sent + 1) /\ Below(<<got>>, wire)
    /\ Before(wire, sent + 1) /\ Before(message, sent + 1) /\ Before(handled, sent + 1)

LEMMA RisingAppend ==
    ASSUME NEW s \in Seq(Nat), NEW x \in Nat, Rising(s), Before(s, x)
    PROVE  Rising(Append(s, x))
BY DEF Rising, Before

LEMMA BeforeAppend ==
    ASSUME NEW s \in Seq(Nat), NEW x \in Nat, NEW y, Before(s, y), x < y
    PROVE  Before(Append(s, x), y)
BY DEF Before

LEMMA BeforeMonotone ==
    ASSUME NEW s \in Seq(Nat), NEW n \in Nat, Before(s, n)
    PROVE  Before(s, n + 1)
BY DEF Before

\* Head and Tail of a queue in order.
LEMMA RisingHead ==
    ASSUME NEW s \in Seq(Nat), s # <<>>, Rising(s)
    PROVE  /\ Tail(s) \in Seq(Nat) /\ Rising(Tail(s)) /\ Head(s) \in Nat
           /\ 1 \in DOMAIN s /\ Head(s) = s[1]
           /\ Below(<<Head(s)>>, Tail(s))
           /\ \A j \in DOMAIN Tail(s) : j + 1 \in DOMAIN s /\ Tail(s)[j] = s[j + 1]
<1>1. /\ Tail(s) \in Seq(Nat) /\ Head(s) \in Nat /\ 1 \in DOMAIN s /\ Head(s) = s[1]
      /\ \A j \in DOMAIN Tail(s) : j \in Nat \ {0} /\ j + 1 \in DOMAIN s
                                   /\ Tail(s)[j] = s[j + 1]
  OBVIOUS
<1>2. Rising(Tail(s))
  BY <1>1 DEF Rising
<1>3. Below(<<Head(s)>>, Tail(s))
  BY <1>1 DEF Rising, Below, Before
<1> QED BY <1>1, <1>2, <1>3

LEMMA BelowTail ==
    ASSUME NEW s \in Seq(Nat), NEW t \in Seq(Nat), t # <<>>, Rising(t), Below(s, t)
    PROVE  Below(s, Tail(t)) /\ Before(s, Head(t))
BY RisingHead DEF Below

LEMMA BeforeTail ==
    ASSUME NEW s \in Seq(Nat), s # <<>>, Rising(s), NEW x, Before(s, x)
    PROVE  Before(Tail(s), x) /\ Before(<<Head(s)>>, x) /\ Head(s) < x
BY RisingHead DEF Before

LEMMA QueuesInit == ASSUME Init PROVE Queues
BY DEF Init, Queues, Rising, Below, Before

\* What breaks off the wire leaves a prefix of it.
LEMMA QueuesDown == ASSUME Queues, NetDown PROVE Queues'
<1>1. PICK k \in 0..Len(wire) : wire' = SubSeq(wire, 1, k)
  BY DEF NetDown
<1>2. UNCHANGED <<got, message, handled, sent, lpc>>
  BY DEF NetDown
<1>3. wire' \in Seq(Nat) /\ \A j \in DOMAIN wire' : j \in DOMAIN wire /\ wire'[j] = wire[j]
  <2>1. wire \in Seq(Nat) /\ Len(wire) \in Nat /\ DOMAIN wire = 1..Len(wire)
    BY DEF Queues
  <2>2. /\ SubSeq(wire, 1, k) \in Seq(Nat) /\ DOMAIN SubSeq(wire, 1, k) = 1..k
        /\ \A j \in 1..k : SubSeq(wire, 1, k)[j] = wire[j]
    BY <2>1
  <2> QED BY <1>1, <2>1, <2>2
<1>4. Rising(wire') /\ Before(wire', sent + 1)
  BY <1>3 DEF Queues, Rising, Before
<1>5. /\ Below(handled, wire') /\ Below(message, wire')
      /\ Below(<<got>>, wire) => Below(<<got>>, wire')
  BY <1>3 DEF Queues, Below
<1> QED BY <1>2, <1>3, <1>4, <1>5 DEF Queues, Rising, Below, Before

LEMMA QueuesPublish == ASSUME Queues, CentrePublish PROVE Queues'
<1>1. UNCHANGED <<got, message, handled, lpc>> /\ sent' = sent + 1
      /\ wire' \in {wire, Append(wire, sent + 1)}
  BY DEF CentrePublish, handler
<1>2. /\ wire \in Seq(Nat) /\ message \in Seq(Nat) /\ handled \in Seq(Nat)
      /\ got \in Nat /\ sent \in Nat /\ sent + 1 \in Nat /\ <<got>> \in Seq(Nat)
  BY DEF Queues
<1>3. wire' \in Seq(Nat) /\ Rising(wire')
  <2>1. Rising(Append(wire, sent + 1)) /\ Append(wire, sent + 1) \in Seq(Nat)
    BY <1>2, RisingAppend DEF Queues
  <2> QED BY <1>1, <1>2, <2>1 DEF Queues
<1>4. Before(wire', sent' + 1)
  <2>1. Before(wire, sent' + 1)
    BY <1>1, <1>2, BeforeMonotone DEF Queues
  <2>2. sent + 1 < sent' + 1
    BY <1>1, <1>2
  <2> QED BY <1>1, <1>2, <2>1, <2>2, BeforeAppend
<1>5. ASSUME NEW s \in Seq(Nat), Below(s, wire), Before(s, sent + 1)
      PROVE  Below(s, wire') /\ Before(s, sent' + 1)
  <2>1. \A j \in DOMAIN wire' :
          \/ j \in DOMAIN wire /\ wire'[j] = wire[j]
          \/ wire'[j] = sent + 1
    <3>1. CASE wire' = wire
      BY <3>1
    <3>2. CASE wire' = Append(wire, sent + 1)
      BY <1>2, <3>2
    <3> QED BY <1>1, <3>1, <3>2
  <2>2. Below(s, wire')
    BY <1>5, <2>1 DEF Below
  <2>3. Before(s, (sent + 1) + 1)
    BY <1>2, <1>5, BeforeMonotone
  <2> QED BY <1>1, <2>2, <2>3
<1>6. ASSUME lpc = "put" PROVE Below(<<got>>, wire') /\ Before(<<got>>, sent' + 1)
  BY <1>2, <1>5, <1>6 DEF Queues
<1>7. Below(handled, wire') /\ Below(message, wire')
  BY <1>2, <1>5 DEF Queues
<1>8. Before(message, sent' + 1) /\ Before(handled, sent' + 1)
  BY <1>2, <1>5 DEF Queues
<1> QED BY <1>1, <1>2, <1>3, <1>4, <1>6, <1>7, <1>8 DEF Queues, Rising, Below, Before

LEMMA QueuesReceive == ASSUME Queues, Receive PROVE Queues'
<1>1. /\ wire # <<>> /\ got' = Head(wire) /\ wire' = Tail(wire) /\ lpc' = "put"
      /\ UNCHANGED <<message, handled, sent>>
  BY DEF Receive, handler
<1>2. wire \in Seq(Nat) /\ message \in Seq(Nat) /\ handled \in Seq(Nat) /\ Rising(wire)
  BY DEF Queues
<1>3. wire' \in Seq(Nat) /\ got' \in Nat /\ Rising(wire') /\ Below(<<got'>>, wire')
  BY <1>1, <1>2, RisingHead
<1>4. /\ Below(handled, wire') /\ Below(message, wire')
      /\ Before(handled, got') /\ Before(message, got')
  BY <1>1, <1>2, BelowTail DEF Queues
<1>5. Before(wire', sent + 1) /\ Before(<<got'>>, sent + 1)
  BY <1>1, <1>2, BeforeTail DEF Queues
<1> QED BY <1>1, <1>2, <1>3, <1>4, <1>5 DEF Queues, Rising, Below, Before

LEMMA QueuesPassOn == ASSUME Queues, PassOn PROVE Queues'
<1>1. /\ lpc = "put" /\ message' = Append(message, got) /\ got' = 0 /\ lpc' = "recv"
      /\ UNCHANGED <<wire, handled, sent>>
  BY DEF PassOn, handler
<1>2. /\ wire \in Seq(Nat) /\ message \in Seq(Nat) /\ handled \in Seq(Nat)
      /\ got \in Nat /\ message' \in Seq(Nat)
  BY <1>1 DEF Queues
<1>3. Rising(message')
  BY <1>1, <1>2, RisingAppend DEF Queues
<1>4. got < sent + 1 /\ \A j \in DOMAIN wire : got < wire[j]
  BY <1>1 DEF Queues, Below, Before
<1>5. Before(message', sent + 1) /\ Below(message', wire)
  BY <1>1, <1>2, <1>4, BeforeAppend DEF Queues, Below
<1>6. Below(handled, message')
  BY <1>1, <1>2 DEF Queues, Below
<1> QED BY <1>1, <1>2, <1>3, <1>5, <1>6 DEF Queues, Rising, Below, Before

LEMMA QueuesTake == ASSUME Queues, Take PROVE Queues'
<1>1. /\ message # <<>> /\ handled' = Append(handled, Head(message))
      /\ message' = Tail(message) /\ UNCHANGED <<wire, got, lpc, sent>>
  BY DEF Take, listener
<1>2. /\ wire \in Seq(Nat) /\ message \in Seq(Nat) /\ handled \in Seq(Nat)
      /\ Rising(message) /\ Rising(handled)
  BY DEF Queues
<1>3. /\ message' \in Seq(Nat) /\ Rising(message') /\ Head(message) \in Nat
      /\ handled' \in Seq(Nat) /\ Below(<<Head(message)>>, message')
  BY <1>1, <1>2, RisingHead
<1>4. Rising(handled')
  BY <1>1, <1>2, <1>3, BelowTail, RisingAppend DEF Queues
<1>5. ASSUME NEW x, Before(handled, x), Before(message, x)
      PROVE  Before(handled', x) /\ Before(message', x)
  BY <1>1, <1>2, <1>3, <1>5, BeforeTail, BeforeAppend
<1>6. Below(handled', message')
  <2> SUFFICES ASSUME NEW j \in DOMAIN message' PROVE Before(handled', message'[j])
    BY DEF Below
  <2>1. Before(handled, message'[j])
    BY <1>1, <1>2, BelowTail DEF Queues, Below
  <2>2. Head(message) < message'[j]
    BY <1>3 DEF Below, Before
  <2> QED BY <1>1, <1>2, <1>3, <2>1, <2>2, BeforeAppend
<1>7. Below(handled', wire) /\ Below(message', wire)
  BY <1>5 DEF Queues, Below
<1>8. Before(handled', sent + 1) /\ Before(message', sent + 1)
  BY <1>5 DEF Queues
<1>9. lpc = "put" => Before(handled', got) /\ Before(message', got)
  BY <1>5 DEF Queues
<1> QED
  BY <1>1, <1>2, <1>3, <1>4, <1>6, <1>7, <1>8, <1>9 DEF Queues, Rising, Below, Before

LEMMA QueuesStep == ASSUME Queues, [Next]_vars PROVE Queues'
<1>1. CASE UNCHANGED <<wire, message, handled, got, sent>> /\ (lpc' = "put" => lpc = "put")
  BY <1>1 DEF Queues, Rising, Below, Before
<1>2. CASE UNCHANGED vars
  BY <1>1, <1>2 DEF vars, listener, handler
<1>3. CASE Expire \/ NetUp \/ AnswerGet \/ Answer
  BY <1>1, <1>3 DEF Expire, NetUp, AnswerGet, Answer, listener, handler
<1>4. CASE ListenGet \/ Subscribe \/ ListenFail \/ ResubFail \/ CloseConn \/ ReceiveError
  BY <1>1, <1>4
  DEF ListenGet, Subscribe, ListenFail, ResubFail, CloseConn, ReceiveError, handler
<1> QED
  BY <1>2, <1>3, <1>4, QueuesDown, QueuesPublish, QueuesReceive, QueuesPassOn,
     QueuesTake DEF Next, Listener, Silence, Handler

\* Strategies are carried out at most once and in the order of publication,
\* across reconnections (redisUtil.go: Listen; the channel; main's loop).
THEOREM CarriedOutInOrder == Spec => []InOrder
<1>1. Init => Queues
  BY QueuesInit
<1>2. Queues /\ [Next]_vars => Queues'
  BY QueuesStep
<1>3. Queues => InOrder
  BY DEF Queues, InOrder, Rising
<1> QED BY <1>1, <1>2, <1>3, PTL DEF Spec
=============================================================================
