--------------------------- MODULE EventLinkProofs ---------------------------
(***************************************************************************)
(* Proofs about MsgSender and EventLink: the types of both ends, that a    *)
(* batch of one address is written exactly, and that the service hands the *)
(* messages of a connection on in the order in which they were written.    *)
(***************************************************************************)
EXTENDS EventLink, FiniteSetTheorems, TLAPS

-----------------------------------------------------------------------------
(***************************************************************************)
(* The sender.                                                             *)
(***************************************************************************)
\* The callers of the messages in s have returned, so that no destination in
\* s changes any more.
Returned(s) == \A i \in DOMAIN s : call[s[i]] = "returned"

\* How the variables of the sender hang together.
Linked ==
    /\ collectors = IF isInit THEN 1 ELSE 0
    /\ \A m \in Msgs : call[m] # "new" => dest[m] \in Addrs
    /\ Returned(msgsToSend) /\ Returned(mm)
    /\ \A b \in DOMAIN batch : Returned(batch[b])
    /\ Len(left) = Len(batch) /\ Len(cur) = Len(batch)
    /\ \A c \in Conns :
         IF spc[c] = "none" THEN sbatch[c] = 0 ELSE sbatch[c] \in DOMAIN batch
    /\ \A c \in Conns : spc[c] = "write" => todo[c] \subseteq DOMAIN batch[sbatch[c]]

SenderInv == STypeOK /\ Linked

LEMMA SenderInit == ASSUME SInit PROVE SenderInv
<1> USE SenderAssumption DEF SenderAssumption, Msgs, Conns
<1>1. STypeOK
  <2>1. /\ batch \in Seq(Seq(Msgs)) /\ left \in Seq(SUBSET Addrs)
        /\ cur \in Seq(Addrs \cup {NoAddr}) /\ mm \in Seq(Msgs) /\ msgsToSend \in Seq(Msgs)
        /\ Len(mm) = 0 /\ Len(msgsToSend) = 0
    BY DEF SInit
  <2>2. /\ sbatch \in [Conns -> 0..Calls] /\ todo \in [Conns -> SUBSET Nat]
        /\ wire \in [Conns -> Seq(Msgs)] /\ written \in [Conns -> Seq(Msgs)]
    BY DEF SInit
  <2>3. /\ isInit \in BOOLEAN /\ collectors \in {0, 1}
        /\ call \in [Msgs -> {"new", "lock", "queue", "returned"}]
        /\ dest \in [Msgs -> Addrs \cup {NoAddr}]
    BY DEF SInit
  <2>4. /\ spc \in [Conns -> {"none", "resolve", "dial", "write", "end"}]
        /\ saddr \in [Conns -> Addrs \cup {NoAddr}]
        /\ cl \in [Conns -> {"none", "open", "closed"}]
    BY DEF SInit
  <2>5. Len(mm) <= MaxBatch /\ Len(msgsToSend) <= QueueCap
    BY <2>1
  <2> HIDE SenderAssumption DEF Msgs, Conns
  <2> QED BY <2>1, <2>2, <2>3, <2>4, <2>5 DEF STypeOK
<1>2. Linked
  BY DEF SInit, Linked, Returned
<1> QED BY <1>1, <1>2 DEF SenderInv

LEMMA SenderSendMsg ==
    ASSUME SenderInv, NEW m \in Msgs, NEW a \in Addrs, SendMsg(m, a)
    PROVE  SenderInv'
<1>1. /\ call[m] = "new" /\ dest' = [dest EXCEPT ![m] = a]
      /\ call' \in {[call EXCEPT ![m] = "queue"], [call EXCEPT ![m] = "lock"]}
      /\ UNCHANGED <<isInit, collectors, msgsToSend, mm, batch, left, cur, spc, sbatch,
                     saddr, todo, cl, wire, written>>
  BY DEF SendMsg, loops, sender, network
<1>2. STypeOK'
  <2>1. dest' \in [Msgs -> Addrs \cup {NoAddr}]
    BY <1>1 DEF SenderInv, STypeOK
  <2>2. call' \in [Msgs -> {"new", "lock", "queue", "returned"}]
    BY <1>1 DEF SenderInv, STypeOK
  <2> QED BY <1>1, <2>1, <2>2 DEF SenderInv, STypeOK
<1>3. \A n \in Msgs : call[n] = "returned" => call'[n] = "returned"
  BY <1>1 DEF SenderInv, STypeOK
<1>4. \A n \in Msgs : call'[n] # "new" => dest'[n] \in Addrs
  BY <1>1 DEF SenderInv, STypeOK, Linked
<1>5. Returned(msgsToSend)' /\ Returned(mm)' /\ \A b \in DOMAIN batch : Returned(batch[b])'
  BY <1>1, <1>3 DEF SenderInv, STypeOK, Linked, Returned
<1> QED BY <1>1, <1>2, <1>4, <1>5 DEF SenderInv, Linked

LEMMA SenderStart == ASSUME SenderInv, NEW m \in Msgs, Start(m) PROVE SenderInv'
<1>1. /\ call[m] = "lock" /\ call' = [call EXCEPT ![m] = "queue"]
      /\ UNCHANGED <<dest, msgsToSend, mm, batch, left, cur, spc, sbatch,
                     saddr, todo, cl, wire, written>>
  BY DEF Start, loops, sender, network
<1>2. isInit' = TRUE /\ collectors' = 1
  <2>1. CASE isInit
    BY <2>1 DEF Start, SenderInv, Linked
  <2>2. CASE ~isInit
    <3>1. collectors = 0 /\ collectors' = collectors + 1
      BY <2>2 DEF Start, SenderInv, Linked
    <3>2. isInit' = TRUE
      BY DEF Start
    <3> QED BY <3>1, <3>2
  <2> QED BY <2>1, <2>2
<1>3. STypeOK'
  <2>1. call' \in [Msgs -> {"new", "lock", "queue", "returned"}]
    BY <1>1 DEF SenderInv, STypeOK
  <2> QED BY <1>1, <1>2, <2>1 DEF SenderInv, STypeOK
<1>4. \A n \in Msgs : call[n] = "returned" => call'[n] = "returned"
  BY <1>1 DEF SenderInv, STypeOK
<1>5. \A n \in Msgs : call'[n] # "new" => dest'[n] \in Addrs
  BY <1>1 DEF SenderInv, STypeOK, Linked
<1>6. Returned(msgsToSend)' /\ Returned(mm)' /\ \A b \in DOMAIN batch : Returned(batch[b])'
  BY <1>1, <1>4 DEF SenderInv, STypeOK, Linked, Returned
<1> QED BY <1>1, <1>2, <1>3, <1>5, <1>6 DEF SenderInv, Linked

LEMMA SenderEnqueue == ASSUME SenderInv, NEW m \in Msgs, Enqueue(m) PROVE SenderInv'
<1>1. /\ call[m] = "queue" /\ call' = [call EXCEPT ![m] = "returned"]
      /\ msgsToSend' = Append(msgsToSend, m) /\ Len(msgsToSend) < QueueCap
      /\ UNCHANGED <<isInit, collectors, dest, mm, batch, left, cur, spc, sbatch,
                     saddr, todo, cl, wire, written>>
  BY DEF Enqueue, loops, sender, network
<1>2. /\ msgsToSend' \in Seq(Msgs) /\ Len(msgsToSend') <= QueueCap
      /\ \A i \in DOMAIN msgsToSend' :
           \/ i \in DOMAIN msgsToSend /\ msgsToSend'[i] = msgsToSend[i]
           \/ msgsToSend'[i] = m
  BY <1>1, SenderAssumption DEF SenderInv, STypeOK, SenderAssumption
<1>3. STypeOK'
  <2>1. call' \in [Msgs -> {"new", "lock", "queue", "returned"}]
    BY <1>1 DEF SenderInv, STypeOK
  <2> QED BY <1>1, <1>2, <2>1 DEF SenderInv, STypeOK
<1>4. \A n \in Msgs : (call[n] = "returned" \/ n = m) => call'[n] = "returned"
  BY <1>1 DEF SenderInv, STypeOK
<1>5. \A n \in Msgs : call'[n] # "new" => dest'[n] \in Addrs
  BY <1>1 DEF SenderInv, STypeOK, Linked
<1>6. Returned(mm)' /\ \A b \in DOMAIN batch : Returned(batch[b])'
  BY <1>1, <1>4 DEF SenderInv, STypeOK, Linked, Returned
<1>7. Returned(msgsToSend)'
  BY <1>2, <1>4 DEF SenderInv, STypeOK, Linked, Returned
<1> QED BY <1>1, <1>3, <1>5, <1>6, <1>7 DEF SenderInv, Linked
\* A flush hands doSend a batch whose callers have returned.
LEMMA FlushFacts ==
    ASSUME SenderInv, NEW s \in Seq(Msgs), Returned(s), Flush(s), UNCHANGED <<call, dest>>
    PROVE  /\ batch' \in Seq(Seq(Msgs)) /\ left' \in Seq(SUBSET Addrs)
           /\ cur' \in Seq(Addrs \cup {NoAddr}) /\ mm' = <<>>
           /\ Len(batch') = Len(batch) + 1
           /\ Len(left') = Len(batch') /\ Len(cur') = Len(batch')
           /\ batch'[Len(batch) + 1] = s
           /\ left'[Len(batch) + 1] = AddrsOf(s)
           /\ \A b \in DOMAIN batch : /\ b \in DOMAIN batch' /\ batch'[b] = batch[b]
                                      /\ left'[b] = left[b] /\ cur'[b] = cur[b]
           /\ \A b \in DOMAIN batch' : b \in DOMAIN batch \/ b = Len(batch) + 1
<1>1. /\ batch' = Append(batch, s) /\ left' = Append(left, AddrsOf(s))
      /\ cur' = Append(cur, NoAddr) /\ mm' = <<>>
  BY DEF Flush
<1>2. /\ batch \in Seq(Seq(Msgs)) /\ left \in Seq(SUBSET Addrs)
      /\ cur \in Seq(Addrs \cup {NoAddr})
      /\ Len(left) = Len(batch) /\ Len(cur) = Len(batch)
  BY DEF SenderInv, STypeOK, Linked
<1>3. AddrsOf(s) \in SUBSET Addrs
  <2>1. \A i \in DOMAIN s : dest[s[i]] \in Addrs
    BY DEF SenderInv, STypeOK, Linked, Returned
  <2> QED BY <2>1 DEF AddrsOf, ToSet
<1>4. /\ batch' \in Seq(Seq(Msgs)) /\ Len(batch') = Len(batch) + 1
      /\ batch'[Len(batch) + 1] = s
      /\ \A b \in DOMAIN batch : b \in DOMAIN batch' /\ batch'[b] = batch[b]
      /\ \A b \in DOMAIN batch' : b \in DOMAIN batch \/ b = Len(batch) + 1
  BY <1>1, <1>2
<1>5. /\ left' \in Seq(SUBSET Addrs) /\ Len(left') = Len(left) + 1
      /\ left'[Len(left) + 1] = AddrsOf(s)
      /\ \A b \in DOMAIN left : left'[b] = left[b]
  BY <1>1, <1>2, <1>3
<1>6. /\ cur' \in Seq(Addrs \cup {NoAddr}) /\ Len(cur') = Len(cur) + 1
      /\ \A b \in DOMAIN cur : cur'[b] = cur[b]
  BY <1>1, <1>2
<1>7. DOMAIN left = DOMAIN batch /\ DOMAIN cur = DOMAIN batch
  BY <1>2
<1> QED BY <1>1, <1>2, <1>4, <1>5, <1>6, <1>7

LEMMA SenderFlush ==
    ASSUME SenderInv, NEW s \in Seq(Msgs), Returned(s), Flush(s),
           msgsToSend' \in Seq(Msgs), Len(msgsToSend') <= QueueCap, Returned(msgsToSend)',
           UNCHANGED <<callers, sender, network>>
    PROVE  SenderInv'
<1>1. UNCHANGED <<isInit, collectors, call, dest, spc, sbatch, saddr, todo, cl, wire,
                  written>>
  BY DEF callers, sender, network
<1>2. /\ batch' \in Seq(Seq(Msgs)) /\ left' \in Seq(SUBSET Addrs)
      /\ cur' \in Seq(Addrs \cup {NoAddr}) /\ mm' = <<>>
      /\ Len(batch') = Len(batch) + 1
      /\ Len(left') = Len(batch') /\ Len(cur') = Len(batch')
      /\ batch'[Len(batch) + 1] = s
      /\ \A b \in DOMAIN batch : b \in DOMAIN batch' /\ batch'[b] = batch[b]
      /\ \A b \in DOMAIN batch' : b \in DOMAIN batch \/ b = Len(batch) + 1
  BY <1>1, FlushFacts
<1>3. mm' \in Seq(Msgs) /\ Len(mm') <= MaxBatch /\ Returned(mm)'
  BY <1>2, SenderAssumption DEF SenderAssumption, Returned
<1>4. STypeOK'
  BY <1>1, <1>2, <1>3 DEF SenderInv, STypeOK
<1>5. \A b \in DOMAIN batch' : Returned(batch[b])'
  <2>1. ASSUME NEW b \in DOMAIN batch' PROVE Returned(batch'[b])
    BY <1>2, <2>1 DEF SenderInv, Linked
  <2> QED BY <1>1, <2>1 DEF Returned
<1>6. \A c \in Conns :
         IF spc[c] = "none" THEN sbatch[c] = 0 ELSE sbatch[c] \in DOMAIN batch'
  BY <1>2 DEF SenderInv, Linked
<1>7. \A c \in Conns : spc[c] = "write" => todo[c] \subseteq DOMAIN batch'[sbatch[c]]
  BY <1>2 DEF SenderInv, Linked
<1> QED BY <1>1, <1>2, <1>3, <1>4, <1>5, <1>6, <1>7 DEF SenderInv, Linked

\* The first message of the channel, and what stays in it.
LEMMA QueueHead ==
    ASSUME SenderInv, msgsToSend # <<>>
    PROVE  /\ Head(msgsToSend) \in Msgs /\ call[Head(msgsToSend)] = "returned"
           /\ Tail(msgsToSend) \in Seq(Msgs) /\ Len(Tail(msgsToSend)) < Len(msgsToSend)
           /\ 1 \in DOMAIN msgsToSend /\ Head(msgsToSend) = msgsToSend[1]
           /\ \A i \in DOMAIN Tail(msgsToSend) :
                i \in Nat \ {0} /\ i + 1 \in DOMAIN msgsToSend
                /\ Tail(msgsToSend)[i] = msgsToSend[i + 1]
BY DEF SenderInv, STypeOK, Linked, Returned

LEMMA SenderCollect == ASSUME SenderInv, Collect PROVE SenderInv'
<1> DEFINE s == Append(mm, Head(msgsToSend))
<1>1. /\ msgsToSend # <<>> /\ msgsToSend' = Tail(msgsToSend)
      /\ UNCHANGED <<callers, sender, network>>
  BY DEF Collect
<1>2. UNCHANGED <<isInit, collectors, call, dest, spc, sbatch, saddr, todo, cl, wire,
                  written>>
  BY <1>1 DEF callers, sender, network
<1>3. /\ msgsToSend' \in Seq(Msgs) /\ Len(msgsToSend') <= QueueCap
  BY <1>1, QueueHead, SenderAssumption DEF SenderInv, STypeOK, SenderAssumption
<1>4. Returned(msgsToSend)'
  BY <1>1, <1>2, QueueHead DEF SenderInv, Linked, Returned
<1>5. s \in Seq(Msgs) /\ Returned(s)
  <2>1. Head(msgsToSend) \in Msgs /\ call[Head(msgsToSend)] = "returned"
    BY <1>1, QueueHead
  <2>2. mm \in Seq(Msgs) /\ Returned(mm)
    BY DEF SenderInv, STypeOK, Linked
  <2> QED BY <2>1, <2>2 DEF Returned
<1>6. CASE Len(s) > MaxBatch /\ Flush(s)
  BY <1>1, <1>3, <1>4, <1>5, <1>6, SenderFlush
<1>7. CASE ~(Len(s) > MaxBatch) /\ mm' = s /\ UNCHANGED loops
  <2>1. mm' \in Seq(Msgs) /\ Len(mm') <= MaxBatch /\ Returned(mm)'
    BY <1>2, <1>5, <1>7, SenderAssumption DEF SenderAssumption, Returned
  <2>2. UNCHANGED <<batch, left, cur>>
    BY <1>7 DEF loops
  <2>3. STypeOK'
    BY <1>2, <1>3, <2>1, <2>2 DEF SenderInv, STypeOK
  <2>4. \A b \in DOMAIN batch : Returned(batch[b])'
    BY <1>2, <2>2 DEF SenderInv, Linked, Returned
  <2> QED BY <1>2, <1>4, <2>1, <2>2, <2>3, <2>4 DEF SenderInv, Linked
<1> QED BY <1>6, <1>7 DEF Collect

LEMMA SenderTick == ASSUME SenderInv, TickFlush PROVE SenderInv'
<1>1. Flush(mm) /\ UNCHANGED <<callers, msgsToSend, sender, network>>
  BY DEF TickFlush
<1>2. mm \in Seq(Msgs) /\ Returned(mm) /\ msgsToSend' \in Seq(Msgs)
      /\ Len(msgsToSend') <= QueueCap
  BY <1>1 DEF SenderInv, STypeOK, Linked
<1>3. Returned(msgsToSend)'
  BY <1>1 DEF SenderInv, Linked, Returned, callers
<1> QED BY <1>1, <1>2, <1>3, SenderFlush

LEMMA SenderLoop ==
    ASSUME SenderInv, NEW b \in Batches, NEW a \in Addrs, Loop(b, a)
    PROVE  SenderInv'
<1>1. /\ b \in DOMAIN batch /\ left' = [left EXCEPT ![b] = left[b] \ {a}]
      /\ cur' = [cur EXCEPT ![b] = a]
      /\ UNCHANGED <<isInit, collectors, call, dest, msgsToSend, mm, batch, saddr, todo,
                     cl, wire, written>>
  BY DEF Loop, callers, network
<1>2. PICK c \in Conns : /\ spc[c] = "none" /\ spc' = [spc EXCEPT ![c] = "resolve"]
                         /\ sbatch' = [sbatch EXCEPT ![c] = b]
  BY DEF Loop
<1>3. /\ left' \in Seq(SUBSET Addrs) /\ cur' \in Seq(Addrs \cup {NoAddr})
      /\ Len(left') = Len(left) /\ Len(cur') = Len(cur)
  BY <1>1 DEF SenderInv, STypeOK, Linked
<1>4. STypeOK'
  <2>1. spc' \in [Conns -> {"none", "resolve", "dial", "write", "end"}]
    BY <1>2 DEF SenderInv, STypeOK
  <2>2. sbatch' \in [Conns -> 0..Calls]
    BY <1>2, SenderAssumption DEF SenderInv, STypeOK, Batches, SenderAssumption
  <2> QED BY <1>1, <1>3, <2>1, <2>2 DEF SenderInv, STypeOK
<1>5. \A d \in Conns :
        IF spc'[d] = "none" THEN sbatch'[d] = 0 ELSE sbatch'[d] \in DOMAIN batch
  BY <1>1, <1>2 DEF SenderInv, STypeOK, Linked
<1>6. \A d \in Conns : spc'[d] = "write" => todo[d] \subseteq DOMAIN batch[sbatch'[d]]
  BY <1>2 DEF SenderInv, STypeOK, Linked
<1>7. Returned(msgsToSend)' /\ Returned(mm)' /\ \A d \in DOMAIN batch : Returned(batch[d])'
  BY <1>1 DEF SenderInv, Linked, Returned
<1> QED BY <1>1, <1>3, <1>4, <1>5, <1>6, <1>7 DEF SenderInv, Linked

\* The goroutines of doSend leave the callers, the collector and the loops
\* alone.
LEMMA SenderKeeps ==
    ASSUME SenderInv, UNCHANGED <<callers, msgsToSend, mm, loops, sbatch>>,
           spc' \in [Conns -> {"none", "resolve", "dial", "write", "end"}],
           saddr' \in [Conns -> Addrs \cup {NoAddr}],
           todo' \in [Conns -> SUBSET Nat], cl' \in [Conns -> {"none", "open", "closed"}],
           wire' \in [Conns -> Seq(Msgs)], written' \in [Conns -> Seq(Msgs)],
           \A c \in Conns : spc'[c] = "none" <=> spc[c] = "none",
           \A c \in Conns :
             spc'[c] = "write" => todo'[c] \subseteq DOMAIN batch[sbatch[c]]
    PROVE  SenderInv'
<1>1. UNCHANGED <<isInit, collectors, call, dest, msgsToSend, mm, batch, left, cur, sbatch>>
  BY DEF callers, loops
<1>2. STypeOK'
  BY <1>1 DEF SenderInv, STypeOK
<1>3. Returned(msgsToSend)' /\ Returned(mm)' /\ \A d \in DOMAIN batch : Returned(batch[d])'
  BY <1>1 DEF SenderInv, Linked, Returned
<1>4. \A c \in Conns :
        IF spc'[c] = "none" THEN sbatch[c] = 0 ELSE sbatch[c] \in DOMAIN batch
  BY DEF SenderInv, Linked
<1> QED BY <1>1, <1>2, <1>3, <1>4 DEF SenderInv, Linked

LEMMA SenderSends == ASSUME SenderInv, NEW c \in Conns, Sender(c) PROVE SenderInv'
<1> USE DEF SenderInv, STypeOK, Linked
<1>1. CASE Resolve(c)
  <2>1. cur[sbatch[c]] \in Addrs \cup {NoAddr}
    <3>1. sbatch[c] \in DOMAIN batch /\ DOMAIN batch = DOMAIN cur
      BY <1>1 DEF Resolve
    <3>2. cur \in Seq(Addrs \cup {NoAddr})
      OBVIOUS
    <3> HIDE DEF SenderInv, STypeOK, Linked
    <3> QED BY <3>1, <3>2
  <2>2. saddr' \in [Conns -> Addrs \cup {NoAddr}]
    BY <1>1, <2>1 DEF Resolve
  <2> QED BY <1>1, <2>2, SenderKeeps DEF Resolve, network
<1>2. CASE Dial(c)
  <2>1. Group(sbatch[c], cur[sbatch[c]]) \subseteq DOMAIN batch[sbatch[c]]
    BY DEF Group
  <2>2. DOMAIN batch[sbatch[c]] \subseteq Nat
    BY <1>2 DEF Dial
  <2>3. todo' \in [Conns -> SUBSET Nat]
    BY <1>2, <2>1, <2>2 DEF Dial
  <2>4. \A d \in Conns : spc'[d] = "write" => todo'[d] \subseteq DOMAIN batch[sbatch[d]]
    BY <1>2, <2>1 DEF Dial
  <2>5. /\ cl' \in [Conns -> {"none", "open", "closed"}]
        /\ spc' \in [Conns -> {"none", "resolve", "dial", "write", "end"}]
        /\ \A d \in Conns : spc'[d] = "none" <=> spc[d] = "none"
    BY <1>2 DEF Dial
  <2>6. UNCHANGED <<callers, msgsToSend, mm, loops, sbatch, saddr, wire, written>>
    BY <1>2 DEF Dial
  <2> QED BY <2>3, <2>4, <2>5, <2>6, SenderKeeps
<1>3. CASE DialFail(c)
  BY <1>3, SenderKeeps DEF DialFail, network
<1>4. CASE WriteMsg(c)
  <2>1. PICK i \in todo[c] : /\ Put(c, batch[sbatch[c]][i])
                             /\ todo' = [todo EXCEPT ![c] = todo[c] \ {i}]
    BY <1>4 DEF WriteMsg
  <2>2. batch[sbatch[c]][i] \in Msgs
    BY <1>4 DEF WriteMsg
  <2>3. wire' \in [Conns -> Seq(Msgs)] /\ written' \in [Conns -> Seq(Msgs)]
    BY <2>1, <2>2 DEF Put
  <2>4. /\ todo' \in [Conns -> SUBSET Nat]
        /\ \A d \in Conns : todo'[d] \subseteq todo[d]
    BY <2>1
  <2> QED BY <1>4, <2>3, <2>4, SenderKeeps DEF WriteMsg
<1>5. CASE SenderClose(c)
  BY <1>5, SenderKeeps DEF SenderClose
<1> HIDE DEF SenderInv
<1> QED BY <1>1, <1>2, <1>3, <1>4, <1>5 DEF Sender

LEMMA SenderStepInv == ASSUME SenderInv, [SNext]_svars PROVE SenderInv'
<1>1. CASE UNCHANGED svars
  BY <1>1, SenderKeeps DEF svars, sender, network, SenderInv, STypeOK, Linked
<1>2. CASE SNext
  BY <1>2, SenderSendMsg, SenderStart, SenderEnqueue, SenderCollect, SenderTick, SenderLoop,
     SenderSends DEF SNext, Caller, Collector
<1> QED BY <1>1, <1>2
-----------------------------------------------------------------------------
(***************************************************************************)
(* A message is in one place at a time: in the channel, in the collector's *)
(* batch, or in one of the batches of doSend.                              *)
(***************************************************************************)
Apart(s, t) == \A i \in DOMAIN s, j \in DOMAIN t : s[i] # t[j]

Once ==
    /\ \A i, j \in DOMAIN msgsToSend : msgsToSend[i] = msgsToSend[j] => i = j
    /\ Apart(msgsToSend, mm)
    /\ \A b \in DOMAIN batch : Apart(msgsToSend, batch[b]) /\ Apart(mm, batch[b])
    /\ \A b, d \in DOMAIN batch : b # d => Apart(batch[b], batch[d])

LEMMA OnceSame == ASSUME Once, UNCHANGED <<msgsToSend, mm, batch>> PROVE Once'
BY DEF Once, Apart

\* The message of a caller that has not returned is nowhere yet.
LEMMA OnceEnqueue == ASSUME SenderInv, Once, NEW m \in Msgs, Enqueue(m) PROVE Once'
<1>1. /\ call[m] = "queue" /\ msgsToSend' = Append(msgsToSend, m)
      /\ UNCHANGED <<mm, batch>>
  BY DEF Enqueue, loops
<1>2. /\ \A i \in DOMAIN msgsToSend : msgsToSend[i] # m
      /\ \A i \in DOMAIN mm : mm[i] # m
      /\ \A b \in DOMAIN batch : \A i \in DOMAIN batch[b] : batch[b][i] # m
  BY <1>1 DEF SenderInv, Linked, Returned
<1>3. \A i \in DOMAIN msgsToSend' :
        \/ i \in DOMAIN msgsToSend /\ msgsToSend'[i] = msgsToSend[i]
        \/ i = Len(msgsToSend) + 1 /\ msgsToSend'[i] = m
  BY <1>1 DEF SenderInv, STypeOK
<1>4. \A i, j \in DOMAIN msgsToSend' : msgsToSend'[i] = msgsToSend'[j] => i = j
  BY <1>2, <1>3 DEF Once
<1>5. Apart(msgsToSend', mm)
  BY <1>2, <1>3 DEF Once, Apart
<1>6. \A b \in DOMAIN batch : Apart(msgsToSend', batch[b])
  BY <1>2, <1>3 DEF Once, Apart
<1> QED BY <1>1, <1>4, <1>5, <1>6 DEF Once, Apart

\* The places after a flush of s, which is apart from all of them.
LEMMA OnceFlush ==
    ASSUME SenderInv, Once, NEW s \in Seq(Msgs), Returned(s), Flush(s),
           UNCHANGED <<call, dest>>,
           \A i, j \in DOMAIN msgsToSend' : msgsToSend'[i] = msgsToSend'[j] => i = j,
           Apart(msgsToSend', s),
           \A b \in DOMAIN batch : Apart(msgsToSend', batch[b]) /\ Apart(s, batch[b])
    PROVE  Once'
<1>1. /\ mm' = <<>> /\ Len(batch) \in Nat
      /\ batch'[Len(batch) + 1] = s
      /\ \A b \in DOMAIN batch : b \in DOMAIN batch' /\ batch'[b] = batch[b]
      /\ \A b \in DOMAIN batch' : b \in DOMAIN batch \/ b = Len(batch) + 1
  BY FlushFacts DEF SenderInv, STypeOK
<1>2. Apart(msgsToSend', mm')
  BY <1>1 DEF Apart
<1>3. \A b \in DOMAIN batch' : Apart(msgsToSend', batch'[b])
  BY <1>1
<1>4. \A b \in DOMAIN batch' : Apart(mm', batch'[b])
  BY <1>1 DEF Apart
<1>5. \A b, d \in DOMAIN batch' : b # d => Apart(batch'[b], batch'[d])
  <2>1. \A b \in DOMAIN batch : Apart(batch[b], s)
    BY DEF Apart
  <2> QED BY <1>1, <2>1 DEF Once
<1> QED BY <1>2, <1>3, <1>4, <1>5 DEF Once, Apart

LEMMA OnceCollect == ASSUME SenderInv, Once, Collect PROVE Once'
<1> DEFINE s == Append(mm, Head(msgsToSend))
<1>1. /\ msgsToSend # <<>> /\ msgsToSend' = Tail(msgsToSend)
      /\ UNCHANGED <<call, dest>>
  BY DEF Collect, callers
<1>2. /\ Head(msgsToSend) \in Msgs /\ call[Head(msgsToSend)] = "returned"
      /\ 1 \in DOMAIN msgsToSend /\ Head(msgsToSend) = msgsToSend[1]
      /\ \A i \in DOMAIN msgsToSend' :
           i \in Nat \ {0} /\ i + 1 \in DOMAIN msgsToSend
           /\ msgsToSend'[i] = msgsToSend[i + 1]
  BY <1>1, QueueHead
<1>3. \A i, j \in DOMAIN msgsToSend' : msgsToSend'[i] = msgsToSend'[j] => i = j
  BY <1>2 DEF Once
<1>4. /\ mm \in Seq(Msgs) /\ s \in Seq(Msgs) /\ Returned(s)
      /\ \A i \in DOMAIN s : \/ i \in DOMAIN mm /\ s[i] = mm[i]
                             \/ s[i] = msgsToSend[1]
  <2>1. mm \in Seq(Msgs) /\ Returned(mm)
    BY DEF SenderInv, STypeOK, Linked
  <2>2. /\ s \in Seq(Msgs)
        /\ \A i \in DOMAIN s : \/ i \in DOMAIN mm /\ s[i] = mm[i]
                               \/ s[i] = Head(msgsToSend)
    BY <1>2, <2>1
  <2> HIDE DEF s
  <2> QED BY <1>2, <2>1, <2>2 DEF Returned
<1>5. Apart(msgsToSend', s)
  <2> SUFFICES ASSUME NEW i \in DOMAIN msgsToSend', NEW j \in DOMAIN s
               PROVE  msgsToSend'[i] # s[j]
    BY DEF Apart
  <2>1. i + 1 # 1
    BY <1>2
  <2> QED BY <1>2, <1>4, <2>1 DEF Once, Apart
<1>6. \A b \in DOMAIN batch : Apart(msgsToSend', batch[b])
  BY <1>2 DEF Once, Apart
<1>7. \A b \in DOMAIN batch : Apart(s, batch[b])
  BY <1>2, <1>4 DEF Once, Apart
<1>8. CASE Flush(s)
  BY <1>1, <1>3, <1>4, <1>5, <1>6, <1>7, <1>8, OnceFlush
<1>9. CASE mm' = s /\ UNCHANGED loops
  <2>1. UNCHANGED batch
    BY <1>9 DEF loops
  <2> HIDE DEF s
  <2> QED BY <1>3, <1>5, <1>6, <1>7, <1>9, <2>1 DEF Once, Apart
<1> QED BY <1>8, <1>9 DEF Collect

LEMMA OnceTick == ASSUME SenderInv, Once, TickFlush PROVE Once'
<1>1. Flush(mm) /\ UNCHANGED <<call, dest, msgsToSend>>
  BY DEF TickFlush, callers
<1>2. mm \in Seq(Msgs) /\ Returned(mm)
  BY DEF SenderInv, STypeOK, Linked
<1> QED BY <1>1, <1>2, OnceFlush DEF Once, Apart

LEMMA OnceStep == ASSUME SenderInv, Once, [SNext]_svars PROVE Once'
<1>1. CASE UNCHANGED svars
  BY <1>1, OnceSame DEF svars, loops
<1>2. ASSUME NEW m \in Msgs, NEW a \in Addrs, SendMsg(m, a) PROVE Once'
  BY <1>2, OnceSame DEF SendMsg, loops
<1>3. ASSUME NEW m \in Msgs, Start(m) PROVE Once'
  BY <1>3, OnceSame DEF Start, loops
<1>4. ASSUME NEW b \in Batches, NEW a \in Addrs, Loop(b, a) PROVE Once'
  BY <1>4, OnceSame DEF Loop
<1>5. ASSUME NEW c \in Conns, Sender(c) PROVE Once'
  BY <1>5, OnceSame
  DEF Sender, Resolve, Dial, DialFail, WriteMsg, SenderClose, loops
<1> QED BY <1>1, <1>2, <1>3, <1>4, <1>5, OnceEnqueue, OnceCollect, OnceTick
    DEF SNext, Caller, Collector
-----------------------------------------------------------------------------
(***************************************************************************)
(* Batches of one address.                                                 *)
(***************************************************************************)
Pure(b, a) == batch[b] # <<>> /\ \A i \in DOMAIN batch[b] : dest[batch[b][i]] = a
Serves(c, b) == spc[c] # "none" /\ sbatch[c] = b

\* Goroutine c of batch b writes the batch from its start, to address a.
Writes(c, b, a) ==
    /\ (spc[c] \in {"dial", "write"} \/ written[c] # <<>>) => saddr[c] = a
    /\ spc[c] = "write" => todo[c] = (Len(written[c]) + 1)..Len(batch[b])
    /\ Len(written[c]) <= Len(batch[b])
    /\ \A i \in DOMAIN written[c] : written[c][i] = batch[b][i]

\* The range loop of such a batch takes one round: the variables it shares
\* with its only goroutine never change again.
Served(b, a) ==
    /\ left[b] \subseteq {a}
    /\ \A c \in Conns :
         Serves(c, b) => /\ left[b] = {} /\ cur[b] = a
                         /\ \A d \in Conns : Serves(d, b) => d = c
                         /\ Writes(c, b, a)

\* Whatever its address, a goroutine writes messages of its own batch.
OwnBatch ==
    \A c \in Conns :
      /\ spc[c] \in {"none", "resolve", "dial"} => written[c] = <<>>
      /\ \A i \in DOMAIN written[c] :
           \E j \in DOMAIN batch[sbatch[c]] : written[c][i] = batch[sbatch[c]][j]

Exact ==
    /\ OwnBatch
    /\ \A b \in DOMAIN batch, a \in Addrs : Pure(b, a) => Served(b, a)

LEMMA ExactInit == ASSUME SInit PROVE Once /\ Exact
<1>1. Once
  BY DEF SInit, Once, Apart
<1>2. OwnBatch
  BY DEF SInit, OwnBatch
<1>3. DOMAIN batch = {}
  BY DEF SInit
<1> QED BY <1>1, <1>2, <1>3 DEF Exact

\* Calls change no destination of a batch.
LEMMA ExactCalls ==
    ASSUME SenderInv, Exact, UNCHANGED <<batch, left, cur, spc, sbatch, saddr, todo, written>>,
           \A m \in Msgs : call[m] = "returned" => dest'[m] = dest[m]
    PROVE  Exact'
<1>1. OwnBatch'
  BY DEF Exact, OwnBatch
<1>2. ASSUME NEW b \in DOMAIN batch', NEW a \in Addrs, Pure(b, a)' PROVE Served(b, a)'
  <2>1. Pure(b, a)
    <3>1. \A i \in DOMAIN batch[b] : batch[b][i] \in Msgs /\ call[batch[b][i]] = "returned"
      BY DEF SenderInv, STypeOK, Linked, Returned
    <3> QED BY <1>2, <3>1 DEF Pure
  <2>2. Served(b, a)
    BY <2>1 DEF Exact
  <2> QED BY <2>2 DEF Served, Serves, Writes
<1> QED BY <1>1, <1>2 DEF Exact

\* A new batch has no goroutine yet.
LEMMA ExactFlush ==
    ASSUME SenderInv, Exact, NEW s \in Seq(Msgs), Returned(s), Flush(s),
           UNCHANGED <<callers, sender, network>>
    PROVE  Exact'
<1>1. UNCHANGED <<call, dest, spc, sbatch, saddr, todo, written>>
  BY DEF callers, sender, network
<1>2. /\ Len(batch) \in Nat /\ batch'[Len(batch) + 1] = s
      /\ left'[Len(batch) + 1] = AddrsOf(s)
      /\ \A b \in DOMAIN batch : /\ b \in DOMAIN batch' /\ batch'[b] = batch[b]
                                 /\ left'[b] = left[b] /\ cur'[b] = cur[b]
      /\ \A b \in DOMAIN batch' : b \in DOMAIN batch \/ b = Len(batch) + 1
  BY <1>1, FlushFacts DEF SenderInv, STypeOK
<1>3. OwnBatch'
  <2>1. \A c \in Conns : written[c] # <<>> => sbatch[c] \in DOMAIN batch
    BY DEF Exact, OwnBatch, SenderInv, Linked
  <2>2. \A c \in Conns : DOMAIN written[c] # {} => sbatch[c] \in DOMAIN batch
    BY <2>1
  <2> QED BY <1>1, <1>2, <2>2 DEF Exact, OwnBatch
<1>4. ASSUME NEW b \in DOMAIN batch', NEW a \in Addrs, Pure(b, a)' PROVE Served(b, a)'
  <2>1. CASE b \in DOMAIN batch
    <3>1. Pure(b, a)
      BY <1>1, <1>2, <1>4, <2>1 DEF Pure
    <3>2. Served(b, a)
      BY <2>1, <3>1 DEF Exact
    <3> QED BY <1>1, <1>2, <2>1, <3>2 DEF Served, Serves, Writes
  <2>2. CASE b = Len(batch) + 1
    <3>1. b \notin DOMAIN batch
      BY <2>2 DEF SenderInv, STypeOK
    <3>2. \A c \in Conns : ~Serves(c, b)'
      BY <1>1, <3>1 DEF SenderInv, Linked, Serves
    <3>3. \A i \in DOMAIN s : dest[s[i]] = a
      BY <1>1, <1>2, <1>4, <2>2 DEF Pure
    <3>4. AddrsOf(s) \subseteq {a}
      BY <3>3 DEF AddrsOf, ToSet
    <3> QED BY <1>2, <2>2, <3>2, <3>4 DEF Served
  <2> QED BY <1>2, <2>1, <2>2
<1> QED BY <1>3, <1>4 DEF Exact

LEMMA ExactLoop ==
    ASSUME SenderInv, Exact, NEW b \in Batches, NEW a \in Addrs, Loop(b, a)
    PROVE  Exact'
<1>1. /\ b \in DOMAIN batch /\ a \in left[b] /\ left' = [left EXCEPT ![b] = left[b] \ {a}]
      /\ cur' = [cur EXCEPT ![b] = a]
      /\ UNCHANGED <<dest, batch, saddr, todo, written>>
  BY DEF Loop, callers, network
<1>2. PICK c \in Conns : /\ spc[c] = "none" /\ spc' = [spc EXCEPT ![c] = "resolve"]
                         /\ sbatch' = [sbatch EXCEPT ![c] = b]
  BY DEF Loop
<1>3. /\ \A d \in Conns : d # c => spc'[d] = spc[d] /\ sbatch'[d] = sbatch[d]
      /\ spc'[c] = "resolve" /\ sbatch'[c] = b
  BY <1>2 DEF SenderInv, STypeOK
<1>4. DOMAIN left = DOMAIN batch /\ DOMAIN cur = DOMAIN batch
  BY DEF SenderInv, STypeOK, Linked
<1>5. /\ \A e \in DOMAIN batch : e # b => left'[e] = left[e] /\ cur'[e] = cur[e]
      /\ left'[b] = left[b] \ {a} /\ cur'[b] = a
  BY <1>1, <1>4
<1>6. written[c] = <<>>
  BY <1>2 DEF Exact, OwnBatch
<1>7. OwnBatch'
  <2>1. DOMAIN written[c] = {}
    BY <1>6
  <2> QED BY <1>1, <1>3, <1>6, <2>1 DEF Exact, OwnBatch
<1>8. ASSUME NEW e \in DOMAIN batch', NEW x \in Addrs, Pure(e, x)' PROVE Served(e, x)'
  <2>1. Pure(e, x) /\ e \in DOMAIN batch
    BY <1>1, <1>8 DEF Pure
  <2>2. Served(e, x)
    BY <2>1 DEF Exact
  <2>3. CASE e # b
    <3>1. \A d \in Conns : Serves(d, e)' => Serves(d, e) /\ d # c
      BY <1>3, <2>3 DEF Serves
    <3> QED BY <1>1, <1>3, <1>5, <2>1, <2>2, <2>3, <3>1 DEF Served, Writes
  <2>4. CASE e = b
    <3>1. a = x /\ left'[b] = {}
      BY <1>1, <1>5, <2>2, <2>4 DEF Served
    <3>2. \A d \in Conns : ~Serves(d, b)
      BY <1>1, <2>2, <2>4 DEF Served
    <3>3. \A d \in Conns : Serves(d, b)' => d = c
      BY <1>3, <3>2 DEF Serves
    <3>4. Writes(c, b, x)'
      <4>1. Len(written[c]) = 0 /\ DOMAIN written[c] = {} /\ Len(batch[b]) \in Nat
        BY <1>1, <1>6 DEF SenderInv, STypeOK
      <4> QED BY <1>1, <1>3, <1>6, <4>1 DEF Writes
    <3> QED BY <1>5, <2>4, <3>1, <3>3, <3>4 DEF Served
  <2> QED BY <2>3, <2>4
<1> QED BY <1>7, <1>8 DEF Exact
\* The goroutines of doSend: a step of c leaves the other goroutines alone and
\* keeps what holds of c.
LEMMA ExactSends ==
    ASSUME SenderInv, Exact, NEW c \in Conns,
           UNCHANGED <<dest, batch, left, cur, sbatch>>, spc[c] # "none", spc'[c] # "none",
           \A d \in Conns : d # c => /\ spc'[d] = spc[d] /\ saddr'[d] = saddr[d]
                                     /\ todo'[d] = todo[d] /\ written'[d] = written[d],
           spc'[c] \in {"resolve", "dial"} => written'[c] = <<>>,
           \A i \in DOMAIN written'[c] :
             \E j \in DOMAIN batch[sbatch[c]] : written'[c][i] = batch[sbatch[c]][j],
           \A a \in Addrs : Pure(sbatch[c], a) /\ Served(sbatch[c], a) /\ Writes(c, sbatch[c], a)
                              => Writes(c, sbatch[c], a)'
    PROVE  Exact'
<1>1. OwnBatch'
  BY DEF Exact, OwnBatch
<1>2. ASSUME NEW b \in DOMAIN batch', NEW a \in Addrs, Pure(b, a)' PROVE Served(b, a)'
  <2>1. Pure(b, a)
    BY <1>2 DEF Pure
  <2>2. Served(b, a)
    BY <2>1 DEF Exact
  <2>3. \A d \in Conns : Serves(d, b)' <=> Serves(d, b)
    BY DEF Serves
  <2>4. ASSUME NEW d \in Conns, Serves(d, b) PROVE Writes(d, b, a)'
    <3>1. Writes(d, b, a)
      BY <2>2, <2>4 DEF Served
    <3>2. CASE d # c
      BY <3>1, <3>2 DEF Writes
    <3>3. CASE d = c
      <4>1. sbatch[c] = b
        BY <2>4, <3>3 DEF Serves
      <4>2. Writes(c, sbatch[c], a)'
        BY <2>1, <2>2, <3>1, <3>3, <4>1
      <4> QED BY <3>3, <4>1, <4>2 DEF Writes
    <3> QED BY <3>2, <3>3
  <2> QED BY <2>2, <2>3, <2>4 DEF Served
<1> QED BY <1>1, <1>2 DEF Exact

LEMMA ExactSender == ASSUME SenderInv, Exact, NEW c \in Conns, Sender(c) PROVE Exact'
<1>1. /\ written[c] \in Seq(Msgs)
      /\ spc[c] \in {"none", "resolve", "dial"} => written[c] = <<>>
      /\ \A i \in DOMAIN written[c] :
           \E j \in DOMAIN batch[sbatch[c]] : written[c][i] = batch[sbatch[c]][j]
      /\ \A a \in Addrs : Served(sbatch[c], a) /\ spc[c] # "none" => cur[sbatch[c]] = a
  BY DEF Exact, OwnBatch, SenderInv, STypeOK, Served, Serves
<1>2. CASE Resolve(c)
  <2>1. /\ spc[c] = "resolve" /\ spc'[c] = "dial" /\ saddr'[c] = cur[sbatch[c]]
        /\ \A d \in Conns : d # c => spc'[d] = spc[d] /\ saddr'[d] = saddr[d]
        /\ UNCHANGED <<dest, batch, left, cur, sbatch, todo, written>>
    BY <1>2 DEF Resolve, SenderInv, STypeOK, callers, loops, network
  <2>2. \A a \in Addrs : Served(sbatch[c], a) /\ Writes(c, sbatch[c], a)
                           => Writes(c, sbatch[c], a)'
    BY <1>1, <2>1 DEF Writes
  <2> QED BY <1>1, <2>1, <2>2, ExactSends
<1>3. CASE Dial(c)
  <2>1. /\ spc[c] = "dial" /\ spc'[c] = "write"
        /\ todo'[c] = Group(sbatch[c], cur[sbatch[c]])
        /\ \A d \in Conns : d # c => spc'[d] = spc[d] /\ todo'[d] = todo[d]
        /\ UNCHANGED <<dest, batch, left, cur, sbatch, saddr, written>>
    BY <1>3 DEF Dial, SenderInv, STypeOK, callers, loops
  <2>2. ASSUME NEW a \in Addrs, Pure(sbatch[c], a), Served(sbatch[c], a),
               Writes(c, sbatch[c], a)
        PROVE  Writes(c, sbatch[c], a)'
    <3>1. sbatch[c] \in DOMAIN batch
      BY <2>1 DEF SenderInv, Linked
    <3>2. Group(sbatch[c], a) = 1..Len(batch[sbatch[c]])
      BY <2>2, <3>1 DEF Group, Pure, SenderInv, STypeOK
    <3>3. Len(written[c]) = 0
      BY <1>1, <2>1
    <3>4. todo'[c] = (Len(written[c]) + 1)..Len(batch[sbatch[c]])
      BY <1>1, <2>1, <2>2, <3>2, <3>3
    <3> QED BY <2>1, <2>2, <3>4 DEF Writes
  <2> QED BY <1>1, <2>1, <2>2, ExactSends
<1>4. CASE DialFail(c)
  <2>1. /\ spc[c] \in {"resolve", "dial"} /\ spc'[c] = "end"
        /\ \A d \in Conns : d # c => spc'[d] = spc[d]
        /\ UNCHANGED <<dest, batch, left, cur, sbatch, saddr, todo, written>>
    BY <1>4 DEF DialFail, SenderInv, STypeOK, callers, loops, network
  <2>2. \A a \in Addrs : Writes(c, sbatch[c], a) => Writes(c, sbatch[c], a)'
    BY <2>1 DEF Writes
  <2> QED BY <1>1, <2>1, <2>2, ExactSends
<1>5. CASE WriteMsg(c)
  <2>1. PICK i \in todo[c] : /\ \A j \in todo[c] : i <= j
                             /\ Put(c, batch[sbatch[c]][i])
                             /\ todo' = [todo EXCEPT ![c] = todo[c] \ {i}]
    BY <1>5 DEF WriteMsg
  <2>2. /\ spc[c] = "write" /\ todo'[c] = todo[c] \ {i}
        /\ written'[c] = Append(written[c], batch[sbatch[c]][i])
        /\ \A d \in Conns : d # c => todo'[d] = todo[d] /\ written'[d] = written[d]
        /\ UNCHANGED <<dest, batch, left, cur, spc, sbatch, saddr>>
    BY <1>5, <2>1 DEF WriteMsg, Put, SenderInv, STypeOK, callers, loops
  <2>3. /\ sbatch[c] \in DOMAIN batch /\ i \in DOMAIN batch[sbatch[c]]
        /\ batch[sbatch[c]] \in Seq(Msgs) /\ batch[sbatch[c]][i] \in Msgs /\ i \in Nat
    BY <2>2 DEF SenderInv, STypeOK, Linked
  <2>4. /\ \A j \in DOMAIN written'[c] :
             \/ j \in DOMAIN written[c] /\ written'[c][j] = written[c][j]
             \/ j = Len(written[c]) + 1 /\ written'[c][j] = batch[sbatch[c]][i]
        /\ Len(written'[c]) = Len(written[c]) + 1 /\ Len(written[c]) \in Nat
    BY <1>1, <2>2, <2>3
  <2>5. ASSUME NEW a \in Addrs, Writes(c, sbatch[c], a) PROVE Writes(c, sbatch[c], a)'
    <3>1. todo[c] = (Len(written[c]) + 1)..Len(batch[sbatch[c]]) /\ saddr[c] = a
      BY <2>2, <2>5 DEF Writes
    <3>2. i = Len(written[c]) + 1 /\ i <= Len(batch[sbatch[c]])
          /\ Len(batch[sbatch[c]]) \in Nat
      <4> DEFINE k == Len(written[c]) + 1
                 n == Len(batch[sbatch[c]])
      <4>1. n \in Nat /\ k \in Nat /\ i \in k..n
        BY <2>3, <2>4, <3>1
      <4>2. k \in k..n
        BY <4>1
      <4>3. i <= k
        BY <2>1, <3>1, <4>2
      <4> QED BY <4>1, <4>3
    <3>3. todo'[c] = (i + 1)..Len(batch[sbatch[c]])
      BY <2>2, <2>3, <3>1, <3>2
    <3>4. \A j \in DOMAIN written'[c] : written'[c][j] = batch[sbatch[c]][j]
      BY <2>4, <2>5, <3>2 DEF Writes
    <3> QED BY <2>2, <2>4, <3>1, <3>2, <3>3, <3>4 DEF Writes
  <2>6. \A j \in DOMAIN written'[c] :
          \E k \in DOMAIN batch[sbatch[c]] : written'[c][j] = batch[sbatch[c]][k]
    BY <1>1, <2>3, <2>4
  <2> QED BY <2>2, <2>5, <2>6, ExactSends
<1>6. CASE SenderClose(c)
  <2>1. /\ spc[c] = "write" /\ spc'[c] = "end"
        /\ \A d \in Conns : d # c => spc'[d] = spc[d]
        /\ UNCHANGED <<dest, batch, left, cur, sbatch, saddr, todo, written>>
    BY <1>6 DEF SenderClose, SenderInv, STypeOK, callers, loops
  <2>2. \A a \in Addrs : Writes(c, sbatch[c], a) => Writes(c, sbatch[c], a)'
    BY <2>1 DEF Writes
  <2> QED BY <1>1, <2>1, <2>2, ExactSends
<1> QED BY <1>2, <1>3, <1>4, <1>5, <1>6 DEF Sender

LEMMA ExactStep == ASSUME SenderInv, Exact, [SNext]_svars PROVE Exact'
<1>1. CASE UNCHANGED svars
  BY <1>1, ExactCalls DEF svars, callers, loops, sender, network
<1>2. ASSUME NEW m \in Msgs, NEW a \in Addrs, SendMsg(m, a) PROVE Exact'
  <2>1. \A n \in Msgs : call[n] = "returned" => dest'[n] = dest[n]
    BY <1>2 DEF SendMsg, SenderInv, STypeOK
  <2> QED BY <1>2, <2>1, ExactCalls DEF SendMsg, loops, sender, network
<1>3. ASSUME NEW m \in Msgs, Start(m) \/ Enqueue(m) PROVE Exact'
  BY <1>3, ExactCalls DEF Start, Enqueue, loops, sender, network
<1>4. CASE Collect
  <2> DEFINE s == Append(mm, Head(msgsToSend))
  <2>1. msgsToSend # <<>> /\ UNCHANGED <<callers, sender, network>>
    BY <1>4 DEF Collect
  <2>2. s \in Seq(Msgs) /\ Returned(s)
    <3>1. Head(msgsToSend) \in Msgs /\ call[Head(msgsToSend)] = "returned"
      BY <2>1, QueueHead
    <3>2. mm \in Seq(Msgs) /\ Returned(mm)
      BY DEF SenderInv, STypeOK, Linked
    <3> QED BY <3>1, <3>2 DEF Returned
  <2>3. CASE Flush(s)
    BY <2>1, <2>2, <2>3, ExactFlush
  <2>4. CASE UNCHANGED loops
    BY <2>1, <2>4, ExactCalls DEF loops, callers, sender, network
  <2> QED BY <1>4, <2>3, <2>4 DEF Collect
<1>5. CASE TickFlush
  <2>1. mm \in Seq(Msgs) /\ Returned(mm)
    BY DEF SenderInv, STypeOK, Linked
  <2> QED BY <1>5, <2>1, ExactFlush DEF TickFlush
<1> QED BY <1>1, <1>2, <1>3, <1>4, <1>5, ExactLoop, ExactSender
    DEF SNext, Caller, Collector

\* What PlainBatchExact says of a batch of one address follows.
LEMMA ExactEnough == ASSUME SenderInv, Once, Exact PROVE PlainBatchExact
<1> SUFFICES ASSUME NEW b \in DOMAIN batch, Cardinality(AddrsOf(batch[b])) = 1
             PROVE  /\ \A m \in ToSet(batch[b]) :
                         /\ Cardinality(Copies(m)) <= 1
                         /\ \A c \in Copies(m) : saddr[c] = dest[m]
                    /\ \A c \in Conns : sbatch[c] = b => IsPrefix(written[c], batch[b])
  BY DEF PlainBatchExact
<1>1. batch[b] \in Seq(Msgs) /\ b # 0 /\ written \in [Conns -> Seq(Msgs)]
  BY DEF SenderInv, STypeOK
<1>2. PICK a : AddrsOf(batch[b]) = {a}
  <2>1. IsFiniteSet(DOMAIN batch[b])
    BY <1>1, FS_Interval
  <2> DEFINE f == [i \in DOMAIN batch[b] |-> dest[batch[b][i]]]
  <2>2. /\ \A i \in DOMAIN batch[b] : dest[batch[b][i]] \in AddrsOf(batch[b])
        /\ \A x \in AddrsOf(batch[b]) : \E i \in DOMAIN batch[b] : dest[batch[b][i]] = x
    BY DEF AddrsOf, ToSet
  <2>3. f \in Surjection(DOMAIN batch[b], AddrsOf(batch[b]))
    BY <2>2 DEF Surjection
  <2>4. IsFiniteSet(AddrsOf(batch[b]))
    BY <2>1, <2>3, FS_Surjection
  <2> QED BY <2>4, FS_Singleton
<1>3. \A i \in DOMAIN batch[b] : dest[batch[b][i]] = a
  BY <1>2 DEF AddrsOf, ToSet
<1>4. Pure(b, a) /\ a \in Addrs
  <2>1. PICK i \in DOMAIN batch[b] : TRUE
    BY <1>2 DEF AddrsOf, ToSet
  <2>2. dest[batch[b][i]] \in Addrs
    BY <1>1, <2>1 DEF SenderInv, Linked, Returned
  <2> QED BY <1>1, <1>3, <2>1, <2>2 DEF Pure
<1>5. Served(b, a)
  BY <1>4 DEF Exact
<1>6. ASSUME NEW c \in Conns, sbatch[c] = b PROVE IsPrefix(written[c], batch[b])
  <2>1. Writes(c, b, a)
    BY <1>1, <1>5, <1>6 DEF Served, Serves, SenderInv, Linked
  <2>2. written[c] \in Seq(Msgs) /\ Len(written[c]) <= Len(batch[b])
        /\ \A i \in DOMAIN written[c] : written[c][i] = batch[b][i]
    BY <1>1, <2>1 DEF Writes
  <2> QED BY <1>1, <2>2 DEF IsPrefix
<1>7. ASSUME NEW m \in ToSet(batch[b]), NEW c \in Copies(m)
      PROVE  c \in Conns /\ Serves(c, b) /\ saddr[c] = dest[m]
  <2>1. PICK i \in DOMAIN written[c] : written[c][i] = m
    BY DEF Copies, ToSet
  <2>2. c \in Conns /\ written[c] # <<>>
    BY <2>1 DEF Copies
  <2>3. spc[c] # "none" /\ sbatch[c] \in DOMAIN batch
    BY <2>2 DEF Exact, OwnBatch, SenderInv, Linked
  <2>4. PICK j \in DOMAIN batch[sbatch[c]] : m = batch[sbatch[c]][j]
    BY <2>1, <2>2 DEF Exact, OwnBatch
  <2>5. PICK k \in DOMAIN batch[b] : m = batch[b][k]
    BY DEF ToSet
  <2>6. sbatch[c] = b
    <3>1. \A d, e \in DOMAIN batch : d # e =>
            \A x \in DOMAIN batch[d], y \in DOMAIN batch[e] : batch[d][x] # batch[e][y]
      BY DEF Once, Apart
    <3> QED BY <2>3, <2>4, <2>5, <3>1
  <2>7. Serves(c, b)
    BY <2>3, <2>6 DEF Serves
  <2> QED BY <1>3, <1>5, <2>2, <2>5, <2>7 DEF Served, Writes
<1>8. ASSUME NEW m \in ToSet(batch[b]) PROVE Cardinality(Copies(m)) <= 1
  <2>1. CASE Copies(m) = {}
    BY <2>1, FS_EmptySet
  <2>2. ASSUME NEW c \in Copies(m) PROVE Cardinality(Copies(m)) <= 1
    <3>1. Copies(m) = {c}
      BY <1>5, <1>7, <2>2 DEF Served
    <3>2. Cardinality({c}) = 1
      BY FS_Singleton
    <3> QED BY <3>1, <3>2
  <2> QED BY <2>1, <2>2
<1> QED BY <1>6, <1>7, <1>8

\* In a batch of one address each message is written at most once, to its own
\* address and in order (SendMsg, doSend): the loop variables which doSend's
\* goroutines share are set once for it.
THEOREM PlainBatchesAreExact == SSpec => []PlainBatchExact
<1>1. SInit => SenderInv /\ Once /\ Exact
  BY SenderInit, ExactInit
<1>2. SenderInv /\ Once /\ Exact /\ [SNext]_svars => (SenderInv /\ Once /\ Exact)'
  BY SenderStepInv, OnceStep, ExactStep
<1>3. SenderInv /\ Once /\ Exact => PlainBatchExact
  BY ExactEnough
<1> QED BY <1>1, <1>2, <1>3, PTL DEF SSpec
-----------------------------------------------------------------------------
(***************************************************************************)
(* The service.  A connection whose handler has not begun has neither a    *)
(* reader nor a writer.                                                    *)
(***************************************************************************)
Begun == \A c \in Conns : h[c] \in {"none", "start"} => rd[c] = "none" /\ wr[c] = "none"

Channels ==
    /\ held \in [Conns -> Seq(Msgs)] /\ messageCh \in [Conns -> Seq(Msgs)]
    /\ got \in [Conns -> Seq(Msgs)]

ServiceInv == zero!ZTypeOK /\ Channels /\ Begun

LEMMA ServiceInit == ASSUME zero!ZInit PROVE ServiceInv
<1> USE LinkAssumption DEF LinkAssumption
<1>1. Channels
  BY DEF zero!ZInit, Channels
<1>2. Begun
  BY DEF zero!ZInit, Begun
<1>3. zero!ZTypeOK
  <2>1. \A c \in Conns : Len(held[c]) = 0 /\ Len(messageCh[c]) = 0 /\ held[c] = <<>>
    BY DEF zero!ZInit
  <2>2. /\ h = [c \in Conns |-> "none"] /\ rd = [c \in Conns |-> "none"]
        /\ wr = [c \in Conns |-> "none"] /\ sessions = {}
    BY DEF zero!ZInit
  <2>3. sendCh \in [Conns -> 0..Cap] /\ casts \in 0..MaxCasts
    BY DEF zero!ZInit
  <2>4. closed \in [Conns -> BOOLEAN]
    BY DEF zero!ZInit
  <2>5. /\ heartBeat \in BOOLEAN /\ serv \in {"run", "stopped", "dead"}
        /\ ctx \subseteq Conns /\ timer \subseteq Conns /\ ticked \subseteq Conns
        /\ cast \in Conns \cup {0}
    BY DEF zero!ZInit
  <2>6. \A c \in Conns :
         /\ Len(held[c]) <= 1 /\ Len(messageCh[c]) <= Cap
         /\ rd[c] \in {"reset", "push"} <=> held[c] # <<>>
         /\ c \in sessions <=> h[c] \in {"run", "cancel", "close", "delete"}
    BY <2>1, <2>2
  <2> QED BY <2>2, <2>3, <2>4, <2>5, <2>6 DEF zero!ZTypeOK
<1> QED BY <1>1, <1>2, <1>3 DEF ServiceInv

\* Steps of a handler, a reader and a writer; the data of the channels stays
\* as it is unless said otherwise.
LEMMA ServiceSteps ==
    ASSUME ServiceInv, NEW c \in Conns,
           \/ zero!Accept(c) \/ zero!Connect(c) \/ zero!HandleDone(c) \/ zero!Cancel(c)
           \/ zero!Delete(c) \/ zero!UnicastLoad(c) \/ zero!ResetTimer(c)
           \/ zero!ReadCancelled(c) \/ zero!ReadError(c) \/ zero!TimerFires(c)
           \/ zero!WriteSelf(c) \/ zero!WriteCancelled(c) \/ zero!Close(c)
    PROVE  ServiceInv' /\ UNCHANGED <<held, messageCh, got, wire>>
<1> USE DEF ServiceInv, zero!ZTypeOK, Begun, Channels, zero!Set, zero!service,
        zero!coroutines, zero!clock, zero!channels, zero!unicast
<1>1. CASE zero!Accept(c)
  BY <1>1 DEF zero!Accept
<1>2. CASE zero!Connect(c)
  BY <1>2, SMTT(30) DEF zero!Connect
<1>3. CASE zero!HandleDone(c)
  <2>1. /\ h[c] = "run" /\ h' = [h EXCEPT ![c] = "cancel"]
        /\ UNCHANGED <<wire, heartBeat, serv, ctx, sessions, held, messageCh, sendCh, closed,
                       timer, ticked, got, cast, casts>>
    BY <1>3 DEF zero!HandleDone
  <2>2. CASE rd[c] = "done" /\ rd' = [rd EXCEPT ![c] = "end"] /\ UNCHANGED wr
    BY <2>1, <2>2
  <2>3. CASE wr[c] = "done" /\ wr' = [wr EXCEPT ![c] = "select"] /\ UNCHANGED rd
    BY <2>1, <2>3
  <2> HIDE DEF ServiceInv
  <2> QED BY <1>3, <2>2, <2>3 DEF zero!HandleDone
<1>4. CASE zero!Cancel(c)
  BY <1>4 DEF zero!Cancel
<1>5. CASE zero!Delete(c)
  BY <1>5 DEF zero!Delete
<1>6. CASE zero!UnicastLoad(c)
  <2>1. /\ cast' = c /\ casts < MaxCasts /\ casts' = casts + 1
        /\ UNCHANGED <<wire, heartBeat, serv, ctx, sessions, h, rd, wr, held, messageCh,
                       sendCh, closed, timer, ticked, got>>
    BY <1>6 DEF zero!UnicastLoad
  <2>2. casts' \in 0..MaxCasts /\ cast' \in Conns \cup {0}
    BY <2>1, LinkAssumption DEF LinkAssumption
  <2> QED BY <2>1, <2>2
<1>7. CASE zero!ResetTimer(c)
  BY <1>7 DEF zero!ResetTimer
<1>8. CASE zero!ReadCancelled(c) \/ zero!ReadError(c)
  <2>1. /\ rd[c] = "read" /\ rd' \in {[rd EXCEPT ![c] = "end"], [rd EXCEPT ![c] = "done"]}
        /\ UNCHANGED <<wire, heartBeat, serv, ctx, sessions, h, wr, held, messageCh, sendCh,
                       closed, timer, ticked, got, cast, casts>>
    BY <1>8 DEF zero!ReadCancelled, zero!ReadError
  <2>2. /\ rd' \in [Conns -> {"none", "read", "reset", "push", "done", "end"}]
        /\ \A d \in Conns : rd'[d] \in {"reset", "push"} <=> rd[d] \in {"reset", "push"}
        /\ \A d \in Conns : rd'[d] = "none" <=> rd[d] = "none"
    <3>1. rd \in [Conns -> {"none", "read", "reset", "push", "done", "end"}]
      OBVIOUS
    <3> HIDE DEF ServiceInv
    <3>2. CASE rd' = [rd EXCEPT ![c] = "end"]
      BY <2>1, <3>1, <3>2
    <3>3. CASE rd' = [rd EXCEPT ![c] = "done"]
      BY <2>1, <3>1, <3>3
    <3> QED BY <2>1, <3>2, <3>3
  <2> QED BY <2>1, <2>2
<1>9. CASE zero!TimerFires(c)
  BY <1>9 DEF zero!TimerFires
<1>10. CASE zero!WriteSelf(c)
  BY <1>10 DEF zero!WriteSelf, zero!Panic
<1>11. CASE zero!WriteCancelled(c)
  BY <1>11 DEF zero!WriteCancelled
<1>12. CASE zero!Close(c)
  BY <1>12 DEF zero!Close
<1> HIDE DEF ServiceInv
<1> QED BY <1>1, <1>2, <1>3, <1>4, <1>5, <1>6, <1>7, <1>8, <1>9, <1>10, <1>11, <1>12

LEMMA ServiceStop == ASSUME ServiceInv, zero!Stop
                     PROVE  ServiceInv' /\ UNCHANGED <<held, messageCh, got, wire>>
BY DEF zero!Stop, ServiceInv, zero!ZTypeOK, Begun, Channels, zero!service,
       zero!coroutines, zero!clock, zero!channels, zero!unicast

\* Packets for the peer: sendCh never holds more than its places.
LEMMA ServicePackets ==
    ASSUME ServiceInv,
           \/ zero!UnicastSend
           \/ \E c \in Conns : zero!WritePacket(c) \/ zero!WriteHeartbeat(c)
    PROVE  ServiceInv' /\ UNCHANGED <<held, messageCh, got, wire>>
<1> USE LinkAssumption DEF LinkAssumption, ServiceInv, zero!ZTypeOK, Begun, Channels, zero!Set,
        zero!service, zero!coroutines, zero!clock, zero!channels, zero!unicast
<1>1. CASE zero!UnicastSend
  <2>1. sendCh' \in [Conns -> 0..Cap] /\ serv' \in {"run", "stopped", "dead"}
    <3>1. CASE UNCHANGED sendCh /\ serv' = "dead"
      BY <3>1
    <3>2. CASE /\ sendCh[cast] < Cap /\ sendCh' = [sendCh EXCEPT ![cast] = sendCh[cast] + 1]
               /\ UNCHANGED serv
      <4>1. cast \in Conns
        BY <1>1 DEF zero!UnicastSend
      <4>2. sendCh[cast] + 1 \in 0..Cap
        BY <3>2, <4>1
      <4> QED BY <3>2, <4>1, <4>2
    <3> QED BY <1>1, <3>1, <3>2 DEF zero!UnicastSend, zero!Panic
  <2>2. cast' \in Conns \cup {0}
    BY <1>1 DEF zero!UnicastSend
  <2>3. UNCHANGED <<heartBeat, wire, ctx, sessions, h, rd, wr, held, messageCh, closed,
                    timer, ticked, got, casts>>
    BY <1>1 DEF zero!UnicastSend, zero!Panic
  <2> QED BY <2>1, <2>2, <2>3
<1>2. ASSUME NEW c \in Conns, zero!WritePacket(c)
      PROVE  ServiceInv' /\ UNCHANGED <<held, messageCh, got, wire>>
  <2>1. sendCh' \in [Conns -> 0..Cap]
    BY <1>2 DEF zero!WritePacket
  <2>2. /\ wr' \in [Conns -> {"none", "select", "self", "done", "end"}]
        /\ \A d \in Conns : wr'[d] = "none" <=> wr[d] = "none"
    <3>1. wr' = wr \/ wr' = [wr EXCEPT ![c] = "done"]
      BY <1>2 DEF zero!WritePacket
    <3>2. wr \in [Conns -> {"none", "select", "self", "done", "end"}] /\ wr[c] = "select"
      BY <1>2 DEF zero!WritePacket
    <3> HIDE DEF ServiceInv
    <3> QED BY <3>1, <3>2
  <2>3. UNCHANGED <<heartBeat, serv, wire, ctx, sessions, h, rd, held, messageCh, closed,
                    timer, ticked, got, cast, casts>>
    BY <1>2 DEF zero!WritePacket
  <2> QED BY <2>1, <2>2, <2>3
<1>3. ASSUME NEW c \in Conns, zero!WriteHeartbeat(c)
      PROVE  ServiceInv' /\ UNCHANGED <<held, messageCh, got, wire>>
  <2>1. sendCh' \in [Conns -> 0..Cap] /\ serv' \in {"run", "stopped", "dead"}
    BY <1>3 DEF zero!WriteHeartbeat, zero!Panic
  <2>2. /\ wr' \in [Conns -> {"none", "select", "self", "done", "end"}]
        /\ \A d \in Conns : wr'[d] = "none" <=> wr[d] = "none"
    <3>1. wr' = wr \/ wr' = [wr EXCEPT ![c] = "self"]
      BY <1>3 DEF zero!WriteHeartbeat
    <3>2. wr \in [Conns -> {"none", "select", "self", "done", "end"}] /\ wr[c] = "select"
      BY <1>3 DEF zero!WriteHeartbeat
    <3> HIDE DEF ServiceInv
    <3> QED BY <3>1, <3>2
  <2>3. UNCHANGED <<heartBeat, wire, ctx, sessions, h, rd, held, messageCh, closed,
                    timer, got, cast, casts>> /\ ticked' \subseteq Conns
    BY <1>3 DEF zero!WriteHeartbeat, zero!Panic
  <2> QED BY <2>1, <2>2, <2>3
<1> HIDE DEF ServiceInv
<1> QED BY <1>1, <1>2, <1>3
-----------------------------------------------------------------------------
(***************************************************************************)
(* The way of a message.  What was written to a connection is, in this     *)
(* order, what onMessage has seen, what is in messageCh, what the reader   *)
(* holds, and what is still on the wire: nothing is lost on the way, and   *)
(* what an ended session leaves behind stays behind.                       *)
(***************************************************************************)
Flow ==
    \A c \in Conns : ((got[c] \o messageCh[c]) \o held[c]) \o wire[c] = written[c]

LEMMA MoveHead ==
    ASSUME NEW S, NEW s \in Seq(S), NEW t \in Seq(S), t # <<>>
    PROVE  Append(s, Head(t)) \o Tail(t) = s \o t
<1>1. /\ Append(s, Head(t)) \in Seq(S) /\ Tail(t) \in Seq(S) /\ s \o t \in Seq(S)
      /\ Len(Append(s, Head(t))) = Len(s) + 1 /\ Len(Tail(t)) = Len(t) - 1
      /\ Len(s) \in Nat /\ Len(t) \in Nat \ {0} /\ Len(s \o t) = Len(s) + Len(t)
  OBVIOUS
<1>2. Len(Append(s, Head(t)) \o Tail(t)) = Len(s) + Len(t)
  BY <1>1
<1>3. ASSUME NEW i \in 1..(Len(s) + Len(t))
      PROVE  (Append(s, Head(t)) \o Tail(t))[i] = (s \o t)[i]
  <2>1. CASE i <= Len(s)
    BY <1>1, <2>1
  <2>2. CASE i = Len(s) + 1
    BY <1>1, <2>2
  <2>3. CASE i > Len(s) + 1
    BY <1>1, <2>3
  <2> QED BY <1>1, <2>1, <2>2, <2>3
<1>4. Append(s, Head(t)) \o Tail(t) \in Seq(S)
  BY <1>1
<1> DEFINE a == Append(s, Head(t)) \o Tail(t)
           b == s \o t
<1>5. /\ a \in Seq(S) /\ b \in Seq(S) /\ Len(a) = Len(b)
      /\ \A i \in 1..Len(a) : a[i] = b[i]
  BY <1>1, <1>2, <1>3, <1>4
<1> HIDE DEF a, b
<1>6. a = b
  BY <1>5
<1> QED BY <1>6 DEF a, b

LEMMA AppendLast ==
    ASSUME NEW S, NEW s \in Seq(S), NEW t \in Seq(S), NEW x \in S
    PROVE  s \o Append(t, x) = Append(s \o t, x)
OBVIOUS

LEMMA Regroup ==
    ASSUME NEW S, NEW s \in Seq(S), NEW t \in Seq(S), NEW u \in Seq(S)
    PROVE  s \o (t \o u) = (s \o t) \o u
OBVIOUS

LEMMA NothingHeld ==
    ASSUME NEW S, NEW s \in Seq(S)
    PROVE  s \o <<>> = s
OBVIOUS

LEMMA HoldOne ==
    ASSUME NEW S, NEW s \in Seq(S), NEW x \in S
    PROVE  s \o <<x>> = Append(s, x)
OBVIOUS

LEMMA PrefixOfConcat ==
    ASSUME NEW S, NEW s \in Seq(S), NEW t \in Seq(S)
    PROVE  IsPrefix(s, s \o t)
BY DEF IsPrefix
\* Taken together: both ends typed, and every message accounted for.
LinkInv == SenderInv /\ ServiceInv /\ Flow

LEMMA FlowKept ==
    ASSUME Flow, UNCHANGED <<got, messageCh, held, wire, written>>
    PROVE  Flow'
BY DEF Flow

\* The sender's invariant does not mind what the service takes off the wire.
LEMMA SenderWaits ==
    ASSUME SenderInv, wire' \in [Conns -> Seq(Msgs)],
           UNCHANGED <<callers, msgsToSend, mm, loops, sender, cl, written>>
    PROVE  SenderInv'
BY SenderKeeps DEF sender, SenderInv, STypeOK, Linked

LEMMA LinkRead ==
    ASSUME LinkInv, NEW c \in Conns, zero!ReadMessage(c),
           UNCHANGED <<callers, msgsToSend, mm, loops, sender, cl, written>>
    PROVE  LinkInv'
<1>1. /\ rd[c] = "read" /\ wire[c] # <<>>
      /\ held' = [held EXCEPT ![c] = <<Head(wire[c])>>]
      /\ wire' = [wire EXCEPT ![c] = Tail(wire[c])]
      /\ rd' \in {[rd EXCEPT ![c] = "reset"], [rd EXCEPT ![c] = "push"]}
      /\ UNCHANGED <<heartBeat, serv, ctx, sessions, h, wr, messageCh, sendCh, closed, timer,
                     ticked, got, cast, casts>>
  BY DEF zero!ReadMessage, zero!Set, zero!service, zero!channels, zero!clock, zero!unicast
<1>2. /\ wire \in [Conns -> Seq(Msgs)] /\ held \in [Conns -> Seq(Msgs)]
      /\ messageCh \in [Conns -> Seq(Msgs)] /\ got \in [Conns -> Seq(Msgs)]
      /\ rd \in [Conns -> {"none", "read", "reset", "push", "done", "end"}]
      /\ held[c] = <<>>
  BY <1>1 DEF LinkInv, SenderInv, STypeOK, ServiceInv, Channels, zero!ZTypeOK
<1>3. /\ Head(wire[c]) \in Msgs /\ <<Head(wire[c])>> \in Seq(Msgs)
      /\ Len(<<Head(wire[c])>>) = 1 /\ <<Head(wire[c])>> # <<>> /\ Tail(wire[c]) \in Seq(Msgs)
  BY <1>1, <1>2
<1>4. wire' \in [Conns -> Seq(Msgs)] /\ held' \in [Conns -> Seq(Msgs)]
  BY <1>1, <1>2, <1>3
<1>5. /\ rd' \in [Conns -> {"none", "read", "reset", "push", "done", "end"}]
      /\ rd'[c] \in {"reset", "push"} /\ \A d \in Conns : d # c => rd'[d] = rd[d]
      /\ held'[c] = <<Head(wire[c])>> /\ \A d \in Conns : d # c => held'[d] = held[d]
      /\ wire'[c] = Tail(wire[c]) /\ \A d \in Conns : d # c => wire'[d] = wire[d]
  BY <1>1, <1>2
<1>6. SenderInv'
  BY <1>4, SenderWaits DEF LinkInv
<1>7. ServiceInv'
  <2>1. Channels'
    BY <1>1, <1>4 DEF LinkInv, ServiceInv, Channels
  <2>2. Begun'
    BY <1>1, <1>5 DEF LinkInv, ServiceInv, Begun
  <2>3. \A d \in Conns :
         /\ Len(held'[d]) <= 1 /\ Len(messageCh[d]) <= Cap
         /\ rd'[d] \in {"reset", "push"} <=> held'[d] # <<>>
         /\ d \in sessions <=> h[d] \in {"run", "cancel", "close", "delete"}
    <3> SUFFICES ASSUME NEW d \in Conns
                 PROVE  /\ Len(held'[d]) <= 1 /\ Len(messageCh[d]) <= Cap
                        /\ rd'[d] \in {"reset", "push"} <=> held'[d] # <<>>
                        /\ d \in sessions <=> h[d] \in {"run", "cancel", "close", "delete"}
      OBVIOUS
    <3>1. /\ Len(held[d]) <= 1 /\ Len(messageCh[d]) <= Cap
          /\ rd[d] \in {"reset", "push"} <=> held[d] # <<>>
          /\ d \in sessions <=> h[d] \in {"run", "cancel", "close", "delete"}
      BY DEF LinkInv, ServiceInv, zero!ZTypeOK
    <3>2. CASE d = c
      <4>1. Len(held'[c]) <= 1
        BY <1>3, <1>5
      <4>2. Len(messageCh[c]) <= Cap
        BY <3>1, <3>2
      <4>3. rd'[c] \in {"reset", "push"} <=> held'[c] # <<>>
        BY <1>3, <1>5
      <4> QED BY <3>1, <3>2, <4>1, <4>2, <4>3
    <3>3. CASE d # c
      BY <1>5, <3>1, <3>3
    <3> QED BY <3>2, <3>3
  <2>4. zero!ZTypeOK'
    BY <1>1, <1>5, <2>3 DEF LinkInv, ServiceInv, zero!ZTypeOK
  <2> QED BY <2>1, <2>2, <2>4 DEF ServiceInv
<1>8. Flow'
  <2> SUFFICES ASSUME NEW d \in Conns
               PROVE  ((got[d] \o messageCh[d]) \o held'[d]) \o wire'[d] = written[d]
    BY <1>1 DEF Flow
  <2>1. CASE d # c
    BY <1>5, <2>1 DEF LinkInv, Flow
  <2>2. CASE d = c
    <3> DEFINE s == got[c] \o messageCh[c]
    <3>1. s \in Seq(Msgs)
      BY <1>2
    <3>2. s \o wire[c] = written[c]
      <4>1. (s \o <<>>) \o wire[c] = written[c]
        BY <1>2 DEF LinkInv, Flow
      <4> QED BY <3>1, <4>1, NothingHeld
    <3> HIDE DEF s
    <3>3. s \o <<Head(wire[c])>> = Append(s, Head(wire[c]))
      BY <1>3, <3>1, HoldOne
    <3>4. Append(s, Head(wire[c])) \o Tail(wire[c]) = s \o wire[c]
      <4>1. wire[c] \in Seq(Msgs) /\ wire[c] # <<>>
        BY <1>1, <1>2
      <4> QED BY <3>1, <4>1, MoveHead, Zenon
    <3>5. (s \o held'[c]) \o wire'[c] = written[c]
      BY <1>5, <3>2, <3>3, <3>4
    <3> QED BY <2>2, <3>5 DEF s
  <2> QED BY <2>1, <2>2
<1> QED BY <1>6, <1>7, <1>8 DEF LinkInv

LEMMA LinkPush ==
    ASSUME LinkInv, NEW c \in Conns, zero!Push(c),
           UNCHANGED <<callers, msgsToSend, mm, loops, sender, cl, written>>
    PROVE  LinkInv'
<1>1. /\ rd[c] = "push" /\ Len(messageCh[c]) < Cap
      /\ messageCh' = [messageCh EXCEPT ![c] = messageCh[c] \o held[c]]
      /\ held' = [held EXCEPT ![c] = <<>>] /\ rd' = [rd EXCEPT ![c] = "read"]
      /\ UNCHANGED <<wire, heartBeat, serv, ctx, sessions, h, wr, sendCh, closed, timer,
                     ticked, got, cast, casts>>
  BY DEF zero!Push, zero!Set, zero!service, zero!clock, zero!unicast
<1>2. /\ wire \in [Conns -> Seq(Msgs)] /\ held \in [Conns -> Seq(Msgs)]
      /\ messageCh \in [Conns -> Seq(Msgs)] /\ got \in [Conns -> Seq(Msgs)]
      /\ rd \in [Conns -> {"none", "read", "reset", "push", "done", "end"}]
      /\ Len(held[c]) <= 1
  BY DEF LinkInv, SenderInv, STypeOK, ServiceInv, Channels, zero!ZTypeOK
<1>3. messageCh[c] \o held[c] \in Seq(Msgs) /\ Len(messageCh[c] \o held[c]) <= Cap
  BY <1>1, <1>2, LinkAssumption DEF LinkAssumption
<1>4. messageCh' \in [Conns -> Seq(Msgs)] /\ held' \in [Conns -> Seq(Msgs)]
  BY <1>1, <1>2, <1>3
<1>5. /\ rd' \in [Conns -> {"none", "read", "reset", "push", "done", "end"}]
      /\ rd'[c] = "read" /\ \A d \in Conns : d # c => rd'[d] = rd[d]
      /\ held'[c] = <<>> /\ \A d \in Conns : d # c => held'[d] = held[d]
      /\ messageCh'[c] = messageCh[c] \o held[c]
      /\ \A d \in Conns : d # c => messageCh'[d] = messageCh[d]
  BY <1>1, <1>2
<1>6. SenderInv'
  BY <1>1, <1>2, SenderWaits DEF LinkInv
<1>7. ServiceInv'
  <2>1. Channels'
    BY <1>1, <1>4 DEF LinkInv, ServiceInv, Channels
  <2>2. Begun'
    BY <1>1, <1>5 DEF LinkInv, ServiceInv, Begun
  <2>3. \A d \in Conns :
         /\ Len(held'[d]) <= 1 /\ Len(messageCh'[d]) <= Cap
         /\ rd'[d] \in {"reset", "push"} <=> held'[d] # <<>>
         /\ d \in sessions <=> h[d] \in {"run", "cancel", "close", "delete"}
    <3> SUFFICES ASSUME NEW d \in Conns
                 PROVE  /\ Len(held'[d]) <= 1 /\ Len(messageCh'[d]) <= Cap
                        /\ rd'[d] \in {"reset", "push"} <=> held'[d] # <<>>
                        /\ d \in sessions <=> h[d] \in {"run", "cancel", "close", "delete"}
      OBVIOUS
    <3>1. /\ Len(held[d]) <= 1 /\ Len(messageCh[d]) <= Cap
          /\ rd[d] \in {"reset", "push"} <=> held[d] # <<>>
          /\ d \in sessions <=> h[d] \in {"run", "cancel", "close", "delete"}
      BY DEF LinkInv, ServiceInv, zero!ZTypeOK
    <3>2. CASE d = c
      <4>1. Len(held'[c]) <= 1
        BY <1>5
      <4>2. Len(messageCh'[c]) <= Cap
        BY <1>3, <1>5
      <4>3. rd'[c] \in {"reset", "push"} <=> held'[c] # <<>>
        BY <1>3, <1>5
      <4> QED BY <3>1, <3>2, <4>1, <4>2, <4>3
    <3>3. CASE d # c
      BY <1>5, <3>1, <3>3
    <3> QED BY <3>2, <3>3
  <2>4. zero!ZTypeOK'
    BY <1>1, <1>5, <2>3 DEF LinkInv, ServiceInv, zero!ZTypeOK
  <2> QED BY <2>1, <2>2, <2>4 DEF ServiceInv
<1>8. Flow'
  <2> SUFFICES ASSUME NEW d \in Conns
               PROVE  ((got[d] \o messageCh'[d]) \o held'[d]) \o wire[d] = written[d]
    BY <1>1 DEF Flow
  <2>1. CASE d # c
    BY <1>5, <2>1 DEF LinkInv, Flow
  <2>2. CASE d = c
    <3>1. got[c] \o (messageCh[c] \o held[c]) = (got[c] \o messageCh[c]) \o held[c]
      <4>1. got[c] \in Seq(Msgs) /\ messageCh[c] \in Seq(Msgs) /\ held[c] \in Seq(Msgs)
        BY <1>2
      <4>2. \A s, t, u \in Seq(Msgs) : s \o (t \o u) = (s \o t) \o u
        BY Regroup
      <4> QED BY <4>1, <4>2
    <3>2. (got[c] \o messageCh'[c]) \o held'[c] = got[c] \o (messageCh[c] \o held[c])
      <4>1. got[c] \o (messageCh[c] \o held[c]) \in Seq(Msgs)
        BY <1>2, <1>3
      <4> QED BY <1>5, <4>1, NothingHeld
    <3> QED BY <2>2, <3>1, <3>2 DEF LinkInv, Flow
  <2> QED BY <2>1, <2>2
<1> QED BY <1>6, <1>7, <1>8 DEF LinkInv

LEMMA LinkHandle ==
    ASSUME LinkInv, NEW c \in Conns, zero!HandleMessage(c),
           UNCHANGED <<callers, msgsToSend, mm, loops, sender, cl, written>>
    PROVE  LinkInv'
<1>1. /\ messageCh[c] # <<>>
      /\ got' = [got EXCEPT ![c] = Append(got[c], Head(messageCh[c]))]
      /\ messageCh' = [messageCh EXCEPT ![c] = Tail(messageCh[c])]
      /\ UNCHANGED <<wire, heartBeat, serv, ctx, sessions, h, rd, wr, held, sendCh, closed,
                     timer, ticked, cast, casts>>
  BY DEF zero!HandleMessage, zero!Set, zero!service, zero!coroutines, zero!clock,
         zero!unicast
<1>2. /\ wire \in [Conns -> Seq(Msgs)] /\ messageCh \in [Conns -> Seq(Msgs)]
      /\ got \in [Conns -> Seq(Msgs)] /\ Len(messageCh[c]) <= Cap
  BY DEF LinkInv, SenderInv, STypeOK, ServiceInv, Channels, zero!ZTypeOK
<1>3. /\ Append(got[c], Head(messageCh[c])) \in Seq(Msgs) /\ Tail(messageCh[c]) \in Seq(Msgs)
      /\ Len(Tail(messageCh[c])) <= Cap
  BY <1>1, <1>2, LinkAssumption DEF LinkAssumption
<1>4. messageCh' \in [Conns -> Seq(Msgs)] /\ got' \in [Conns -> Seq(Msgs)]
  BY <1>1, <1>2, <1>3
<1>5. /\ got'[c] = Append(got[c], Head(messageCh[c]))
      /\ \A d \in Conns : d # c => got'[d] = got[d]
      /\ messageCh'[c] = Tail(messageCh[c])
      /\ \A d \in Conns : d # c => messageCh'[d] = messageCh[d]
  BY <1>1, <1>2
<1>6. SenderInv'
  BY <1>1, <1>2, SenderWaits DEF LinkInv
<1>7. ServiceInv'
  <2>1. Channels'
    BY <1>1, <1>4 DEF LinkInv, ServiceInv, Channels
  <2>2. Begun'
    BY <1>1 DEF LinkInv, ServiceInv, Begun
  <2>3. \A d \in Conns : Len(messageCh'[d]) <= Cap
    BY <1>3, <1>5 DEF LinkInv, ServiceInv, zero!ZTypeOK
  <2>4. zero!ZTypeOK'
    BY <1>1, <2>3 DEF LinkInv, ServiceInv, zero!ZTypeOK
  <2> QED BY <2>1, <2>2, <2>4 DEF ServiceInv
<1>8. Flow'
  <2> SUFFICES ASSUME NEW d \in Conns
               PROVE  ((got'[d] \o messageCh'[d]) \o held[d]) \o wire[d] = written[d]
    BY <1>1 DEF Flow
  <2>1. got'[d] \o messageCh'[d] = got[d] \o messageCh[d]
    <3>1. CASE d # c
      BY <1>5, <3>1
    <3>2. CASE d = c
      BY <1>1, <1>2, <1>5, <3>2, MoveHead
    <3> QED BY <3>1, <3>2
  <2> QED BY <2>1 DEF LinkInv, Flow
<1> QED BY <1>6, <1>7, <1>8 DEF LinkInv

\* The other steps of the service move no message.
LEMMA LinkService == ASSUME LinkInv, ServiceStep PROVE LinkInv'
<1>1. UNCHANGED <<callers, msgsToSend, mm, loops, sender, cl, written>>
  BY DEF ServiceStep, Service
<1>2. ASSUME ServiceInv', UNCHANGED <<held, messageCh, got, wire>> PROVE LinkInv'
  <2>1. wire' \in [Conns -> Seq(Msgs)]
    BY <1>2 DEF LinkInv, SenderInv, STypeOK
  <2>2. SenderInv'
    BY <1>1, <2>1, SenderWaits DEF LinkInv
  <2>3. Flow'
    BY <1>1, <1>2, FlowKept DEF LinkInv
  <2> QED BY <1>2, <2>2, <2>3 DEF LinkInv
<1>3. CASE zero!Stop
  BY <1>2, <1>3, ServiceStop DEF LinkInv
<1>4. CASE zero!UnicastSend \/ \E c \in Conns : zero!WritePacket(c) \/ zero!WriteHeartbeat(c)
  BY <1>2, <1>4, ServicePackets DEF LinkInv
<1>5. ASSUME NEW c \in Conns,
             \/ zero!Accept(c) \/ zero!Connect(c) \/ zero!HandleDone(c) \/ zero!Cancel(c)
             \/ zero!Delete(c) \/ zero!UnicastLoad(c) \/ zero!ResetTimer(c)
             \/ zero!ReadCancelled(c) \/ zero!ReadError(c) \/ zero!TimerFires(c)
             \/ zero!WriteSelf(c) \/ zero!WriteCancelled(c) \/ zero!Close(c)
      PROVE  LinkInv'
  BY <1>2, <1>5, ServiceSteps DEF LinkInv
<1>6. ASSUME NEW c \in Conns, zero!ReadMessage(c) \/ zero!Push(c) \/ zero!HandleMessage(c)
      PROVE  LinkInv'
  BY <1>1, <1>6, LinkRead, LinkPush, LinkHandle
<1> QED BY <1>3, <1>4, <1>5, <1>6
    DEF ServiceStep, Service, zero!Handler, zero!Reader, zero!Writer

\* A write adds to both ends of the way; the other steps of the sender leave
\* the way alone.
LEMMA LinkSender == ASSUME LinkInv, SenderStep PROVE LinkInv'
<1>1. SNext /\ UNCHANGED <<heartBeat, serv, ctx, sessions, h, rd, wr, held, messageCh, sendCh,
                           closed, timer, ticked, got, cast, casts>>
  BY DEF SenderStep, zvars
<1>2. SenderInv'
  BY <1>1, SenderStepInv DEF LinkInv
<1>3. ServiceInv'
  BY <1>1 DEF LinkInv, ServiceInv, Channels, Begun, zero!ZTypeOK
<1>4. ASSUME UNCHANGED <<wire, written>> PROVE Flow'
  BY <1>1, <1>4, FlowKept DEF LinkInv
<1>5. ASSUME NEW c \in Conns, WriteMsg(c) PROVE Flow'
  <2>1. PICK i \in todo[c] : Put(c, batch[sbatch[c]][i])
    BY <1>5 DEF WriteMsg
  <2>2. batch[sbatch[c]][i] \in Msgs
    BY <1>5, <2>1 DEF WriteMsg, LinkInv, SenderInv, STypeOK, Linked
  <2> DEFINE m == batch[sbatch[c]][i]
  <2>3. /\ wire'[c] = Append(wire[c], m) /\ written'[c] = Append(written[c], m)
        /\ \A d \in Conns : d # c => wire'[d] = wire[d] /\ written'[d] = written[d]
    BY <2>1 DEF Put, LinkInv, SenderInv, STypeOK
  <2> HIDE DEF m
  <2> SUFFICES ASSUME NEW d \in Conns
               PROVE  ((got[d] \o messageCh[d]) \o held[d]) \o wire'[d] = written'[d]
    BY <1>1 DEF Flow
  <2>4. CASE d # c
    BY <2>3, <2>4 DEF LinkInv, Flow
  <2>5. CASE d = c
    <3> DEFINE s == (got[c] \o messageCh[c]) \o held[c]
    <3>1. s \in Seq(Msgs) /\ wire[c] \in Seq(Msgs)
      BY DEF LinkInv, SenderInv, STypeOK, ServiceInv, Channels
    <3>2. s \o wire[c] = written[c]
      BY DEF LinkInv, Flow
    <3> HIDE DEF s
    <3>3. s \o Append(wire[c], m) = Append(s \o wire[c], m)
      BY <2>2, <3>1, AppendLast DEF m
    <3>4. s \o wire'[c] = written'[c]
      BY <2>3, <3>2, <3>3
    <3> QED BY <2>5, <3>4 DEF s
  <2> QED BY <2>4, <2>5
<1>6. Flow'
  <2>1. ASSUME NEW m \in Msgs, NEW a \in Addrs, SendMsg(m, a) PROVE UNCHANGED <<wire, written>>
    BY <2>1 DEF SendMsg, network
  <2>2. ASSUME NEW m \in Msgs, Start(m) \/ Enqueue(m) PROVE UNCHANGED <<wire, written>>
    BY <2>2 DEF Start, Enqueue, network
  <2>3. CASE Collect \/ TickFlush
    BY <1>4, <2>3 DEF Collect, TickFlush, network
  <2>4. ASSUME NEW b \in Batches, NEW a \in Addrs, Loop(b, a) PROVE UNCHANGED <<wire, written>>
    BY <2>4 DEF Loop, network
  <2>5. ASSUME NEW c \in Conns, Resolve(c) \/ Dial(c) \/ DialFail(c) \/ SenderClose(c)
        PROVE  UNCHANGED <<wire, written>>
    BY <2>5 DEF Resolve, Dial, DialFail, SenderClose, network
  <2> QED BY <1>1, <1>4, <1>5, <2>1, <2>2, <2>3, <2>4, <2>5
      DEF SNext, Caller, Collector, Sender
<1> QED BY <1>2, <1>3, <1>6 DEF LinkInv

LEMMA LinkStutter == ASSUME LinkInv, UNCHANGED vars PROVE LinkInv'
<1>1. UNCHANGED svars /\ UNCHANGED <<heartBeat, serv, ctx, sessions, h, rd, wr, held,
        messageCh, sendCh, closed, timer, ticked, got, cast, casts>>
  BY DEF vars, zvars
<1>2. SenderInv'
  BY <1>1, SenderStepInv DEF LinkInv
<1>3. ServiceInv'
  BY <1>1 DEF LinkInv, ServiceInv, Channels, Begun, zero!ZTypeOK
<1>4. Flow'
  BY <1>1, FlowKept DEF LinkInv, svars, network
<1> QED BY <1>2, <1>3, <1>4 DEF LinkInv

LEMMA LinkInit == ASSUME Init PROVE LinkInv
<1>1. SenderInv /\ ServiceInv
  BY SenderInit, ServiceInit DEF Init
<1>2. Flow
  <2>1. \A c \in Conns : got[c] = <<>> /\ messageCh[c] = <<>> /\ held[c] = <<>>
                         /\ wire[c] = <<>> /\ written[c] = <<>>
    BY DEF Init, SInit, zero!ZInit
  <2>2. ((<<>> \o <<>>) \o <<>>) \o <<>> = <<>>
    OBVIOUS
  <2> QED BY <2>1, <2>2 DEF Flow
<1> QED BY <1>1, <1>2 DEF LinkInv

LEMMA LinkEnough == ASSUME LinkInv PROVE TypeOK /\ InOrder
<1>1. TypeOK
  BY DEF LinkInv, SenderInv, ServiceInv, Channels, TypeOK
<1>2. ASSUME NEW c \in Conns PROVE IsPrefix(got[c], written[c])
  <2>1. /\ got[c] \in Seq(Msgs) /\ messageCh[c] \in Seq(Msgs) /\ held[c] \in Seq(Msgs)
        /\ wire[c] \in Seq(Msgs)
    BY DEF LinkInv, SenderInv, STypeOK, ServiceInv, Channels
  <2>2. messageCh[c] \o held[c] \in Seq(Msgs)
        /\ (messageCh[c] \o held[c]) \o wire[c] \in Seq(Msgs)
    BY <2>1
  <2>3. got[c] \o ((messageCh[c] \o held[c]) \o wire[c]) = written[c]
    <3>1. PICK s \in Seq(Msgs), t \in Seq(Msgs), u \in Seq(Msgs), v \in Seq(Msgs) :
            s = got[c] /\ t = messageCh[c] /\ u = held[c] /\ v = wire[c]
      BY <2>1
    <3>2. s \o ((t \o u) \o v) = ((s \o t) \o u) \o v
      BY SMTT(30)
    <3>3. ((got[c] \o messageCh[c]) \o held[c]) \o wire[c] = written[c]
      BY DEF LinkInv, Flow
    <3>4. ((s \o t) \o u) \o v = written[c]
      BY <3>1, <3>3, Zenon
    <3>5. s \o ((t \o u) \o v) = written[c]
      BY <3>2, <3>4, Zenon
    <3> QED BY <3>1, <3>5, Zenon
  <2> QED BY <2>1, <2>2, <2>3, PrefixOfConcat
<1> QED BY <1>1, <1>2 DEF InOrder

LEMMA LinkHolds == Spec => []LinkInv
<1>1. Init => LinkInv
  BY LinkInit
<1>2. LinkInv /\ [Next]_vars => LinkInv'
  BY LinkService, LinkSender, LinkStutter DEF Next
<1> QED BY <1>1, <1>2, PTL DEF Spec

\* Both ends keep their types: no Go channel holds more than its places, one
\* collector runs, and a session is in the table exactly while its handler is.
THEOREM TypeCorrect == Spec => []TypeOK
<1>1. LinkInv => TypeOK
  BY LinkEnough
<1> QED BY <1>1, LinkHolds, PTL

\* onMessage sees a prefix of what doSend wrote to the connection, for any
\* number of connections and any size of the channels (connectHandler,
\* readCoroutine).
THEOREM HandedOnInOrder == Spec => []InOrder
<1>1. LinkInv => InOrder
  BY LinkEnough
<1> QED BY <1>1, LinkHolds, PTL
=============================================================================
