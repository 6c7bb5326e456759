----------------------------- MODULE MsgSender -----------------------------
(***************************************************************************)
(* comm.SendMsg: callers put messages into a Go channel; a goroutine that  *)
(* the first caller starts collects them into batches; doSend groups a     *)
(* batch by address and starts one goroutine per group that dials, writes  *)
(* and closes.  Those goroutines share the variables of the range loop     *)
(* that starts them, and read them whenever they get there: a goroutine    *)
(* may serve another group than its own, and nothing is promised for a     *)
(* batch of several addresses (a string or slice torn by the race is one   *)
(* more such outcome and is left out).  The network is external: wire is   *)
(* what was written to a connection and not yet read at its other end.     *)
(***************************************************************************)
EXTENDS Integers, Sequences, SequencesExt, FiniteSets

CONSTANTS
    Calls,     \* bound: how often SendMsg is called, each time by another caller
    Addrs,     \* the addresses they are sent to
    QueueCap,  \* the places of msgsToSend (100 in the code)
    MaxBatch   \* a batch is full when it holds more than this (100)

ASSUME SenderAssumption ==
    /\ Calls \in Nat
    /\ QueueCap \in Nat \ {0} /\ MaxBatch \in Nat \ {0}

\* Messages are numbered in the order of the calls; no more batches or
\* connections than messages are needed.
Msgs == 1..Calls
Batches == 1..Calls
Conns == 1..Calls
NoAddr == "none"

VARIABLES
    isInit, collectors,  \* the flag, and how many collectors were started
    call, dest, \* where each caller is, and the address it has given
    msgsToSend, \* the Go channel
    mm,         \* the collector's batch; empty while it waits for the first
    batch,      \* the batches handed to doSend
    left,       \* the addresses whose group has no goroutine yet
    cur,        \* the range loop's variables addr and tm, by their address
    spc,        \* where the goroutine of each connection is
    sbatch,     \* the batch it belongs to
    saddr,      \* the address it has read and dialled
    todo,       \* the places in its batch of the messages of tm still to be written
    cl,         \* the sender's end of each connection
    wire,       \* what is under way on it
    written     \* history: all that was written to it

callers == <<isInit, collectors, call, dest>>
loops == <<batch, left, cur>>
sender == <<spc, sbatch, saddr, todo>>
network == <<cl, wire, written>>
svars == <<callers, msgsToSend, mm, loops, sender, network>>

SInit ==
    /\ isInit = FALSE /\ collectors = 0
    /\ call = [m \in Msgs |-> "new"] /\ dest = [m \in Msgs |-> NoAddr]
    /\ msgsToSend = <<>> /\ mm = <<>>
    /\ batch = <<>> /\ left = <<>> /\ cur = <<>>
    /\ spc = [c \in Conns |-> "none"] /\ sbatch = [c \in Conns |-> 0]
    /\ saddr = [c \in Conns |-> NoAddr] /\ todo = [c \in Conns |-> {}]
    /\ cl = [c \in Conns |-> "none"] /\ wire = [c \in Conns |-> <<>>]
    /\ written = [c \in Conns |-> <<>>]

-----------------------------------------------------------------------------
(***************************************************************************)
(* The callers: isInit is tested without and again with the lock.          *)
(***************************************************************************)
SendMsg(m, a) ==
    /\ call[m] = "new" /\ \A n \in 1..(m - 1) : call[n] # "new"
    /\ dest' = [dest EXCEPT ![m] = a]
    /\ call' = [call EXCEPT ![m] = IF isInit THEN "queue" ELSE "lock"]
    /\ UNCHANGED <<isInit, collectors, msgsToSend, mm, loops, sender, network>>

\* Mutant of Start: the flag is not tested again under the lock.
StartAgain(m) ==
    /\ call[m] = "lock"
    /\ call' = [call EXCEPT ![m] = "queue"]
    /\ isInit' = TRUE
    /\ collectors' = collectors + 1
    /\ UNCHANGED <<dest, msgsToSend, mm, loops, sender, network>>

Start(m) ==
    /\ call[m] = "lock"
    /\ call' = [call EXCEPT ![m] = "queue"]
    /\ isInit' = TRUE
    /\ collectors' = IF isInit THEN collectors ELSE collectors + 1
    /\ UNCHANGED <<dest, msgsToSend, mm, loops, sender, network>>

Enqueue(m) ==
    /\ call[m] = "queue" /\ Len(msgsToSend) < QueueCap
    /\ call' = [call EXCEPT ![m] = "returned"]
    /\ msgsToSend' = Append(msgsToSend, m)
    /\ UNCHANGED <<isInit, collectors, dest, mm, loops, sender, network>>

-----------------------------------------------------------------------------
(***************************************************************************)
(* The collector.                                                          *)
(***************************************************************************)
AddrsOf(b) == {dest[m] : m \in ToSet(b)}

\* go doSend(mm): the messages are grouped and the loop begins.
Flush(b) ==
    /\ batch' = Append(batch, b)
    /\ left' = Append(left, AddrsOf(b))
    /\ cur' = Append(cur, NoAddr)
    /\ mm' = <<>>

Collect ==
    /\ collectors > 0 /\ msgsToSend # <<>>
    /\ msgsToSend' = Tail(msgsToSend)
    /\ LET b == Append(mm, Head(msgsToSend))
       IN  IF Len(b) > MaxBatch THEN Flush(b)
           ELSE mm' = b /\ UNCHANGED loops
    /\ UNCHANGED <<callers, sender, network>>

\* Mutant of TickFlush: only full batches are sent.
TickNever ==
    /\ Len(mm) > MaxBatch /\ Flush(mm)
    /\ UNCHANGED <<callers, msgsToSend, sender, network>>

\* The ticker of one second ends a batch that is not full.
TickFlush ==
    /\ mm # <<>> /\ Flush(mm)
    /\ UNCHANGED <<callers, msgsToSend, sender, network>>

-----------------------------------------------------------------------------
(***************************************************************************)
(* doSend.                                                                 *)
(***************************************************************************)
\* The messages for one address, by their places in the batch: a group has
\* them in the order of the batch.
Group(b, a) == {i \in DOMAIN batch[b] : dest[batch[b][i]] = a}

\* One round of the range loop, in the random order of a Go map.
Loop(b, a) ==
    /\ b \in DOMAIN batch /\ a \in left[b]
    /\ left' = [left EXCEPT ![b] = @ \ {a}]
    /\ cur' = [cur EXCEPT ![b] = a]
    /\ \E c \in Conns :
         /\ spc[c] = "none" /\ \A d \in 1..(c - 1) : spc[d] # "none"
         /\ spc' = [spc EXCEPT ![c] = "resolve"]
         /\ sbatch' = [sbatch EXCEPT ![c] = b]
    /\ UNCHANGED <<callers, msgsToSend, mm, batch, saddr, todo, network>>

\* ResolveTCPAddr reads addr as it is by now.
Resolve(c) ==
    /\ spc[c] = "resolve"
    /\ saddr' = [saddr EXCEPT ![c] = cur[sbatch[c]]]
    /\ spc' = [spc EXCEPT ![c] = "dial"]
    /\ UNCHANGED <<callers, msgsToSend, mm, loops, sbatch, todo, network>>

\* DialTCP succeeds; the loop over the messages then reads tm.
Dial(c) ==
    /\ spc[c] = "dial"
    /\ cl' = [cl EXCEPT ![c] = "open"]
    /\ todo' = [todo EXCEPT ![c] = Group(sbatch[c], cur[sbatch[c]])]
    /\ spc' = [spc EXCEPT ![c] = "write"]
    /\ UNCHANGED <<callers, msgsToSend, mm, loops, sbatch, saddr, wire, written>>

\* ResolveTCPAddr or DialTCP fails: the group is dropped.
DialFail(c) ==
    /\ spc[c] \in {"resolve", "dial"}
    /\ spc' = [spc EXCEPT ![c] = "end"]
    /\ UNCHANGED <<callers, msgsToSend, mm, loops, sbatch, saddr, todo, network>>

\* conn.Write of one message.
Put(c, m) ==
    /\ wire' = [wire EXCEPT ![c] = Append(@, m)]
    /\ written' = [written EXCEPT ![c] = Append(@, m)]

\* Mutant of WriteMsg: a message that was written stays in the list.
WriteMsgKeeps(c) ==
    /\ spc[c] = "write" /\ Len(written[c]) <= Cardinality(todo[c])
    /\ \E i \in todo[c] :
         /\ \A j \in todo[c] : i <= j
         /\ Put(c, batch[sbatch[c]][i])
    /\ UNCHANGED <<callers, msgsToSend, mm, loops, sender, cl>>

WriteMsg(c) ==
    /\ spc[c] = "write"
    /\ \E i \in todo[c] :
         /\ \A j \in todo[c] : i <= j
         /\ Put(c, batch[sbatch[c]][i])
         /\ todo' = [todo EXCEPT ![c] = @ \ {i}]
    /\ UNCHANGED <<callers, msgsToSend, mm, loops, spc, sbatch, saddr, cl>>

\* After all messages and ten seconds, or on an error of Write (the other
\* end has gone), the connection is closed.
SenderClose(c) ==
    /\ spc[c] = "write"
    /\ spc' = [spc EXCEPT ![c] = "end"]
    /\ cl' = [cl EXCEPT ![c] = "closed"]
    /\ UNCHANGED <<callers, msgsToSend, mm, loops, sbatch, saddr, todo, wire,
                   written>>

-----------------------------------------------------------------------------
Caller(m) ==
    \/ \E a \in Addrs : SendMsg(m, a)
    \/ Start(m) \/ Enqueue(m)
Collector == Collect \/ TickFlush
Sender(c) == Resolve(c) \/ Dial(c) \/ DialFail(c) \/ WriteMsg(c) \/ SenderClose(c)

SNext ==
    \/ \E m \in Msgs : Caller(m)
    \/ Collector
    \/ \E b \in Batches, a \in Addrs : Loop(b, a)
    \/ \E c \in Conns : Sender(c)

\* A caller that has begun goes on, and so do the collector, the range loop
\* and the goroutines it starts: each waits for time limits only.
SFairness ==
    /\ \A m \in Msgs : WF_svars(Start(m) \/ Enqueue(m))
    /\ WF_svars(Collect) /\ WF_svars(TickFlush)
    /\ \A b \in Batches, a \in Addrs : WF_svars(Loop(b, a))
    /\ \A c \in Conns : WF_svars(Sender(c))

SSpec == SInit /\ [][SNext]_svars /\ SFairness

-----------------------------------------------------------------------------
(***************************************************************************)
(* Properties.                                                             *)
(***************************************************************************)
\* Every variable keeps its type; one collector is started, however many
\* callers find isInit unset.
STypeOK ==
    /\ isInit \in BOOLEAN /\ collectors \in {0, 1}
    /\ call \in [Msgs -> {"new", "lock", "queue", "returned"}]
    /\ dest \in [Msgs -> Addrs \cup {NoAddr}]
    /\ msgsToSend \in Seq(Msgs) /\ Len(msgsToSend) <= QueueCap
    /\ mm \in Seq(Msgs) /\ Len(mm) <= MaxBatch
    /\ batch \in Seq(Seq(Msgs)) /\ left \in Seq(SUBSET Addrs)
    /\ cur \in Seq(Addrs \cup {NoAddr})
    /\ spc \in [Conns -> {"none", "resolve", "dial", "write", "end"}]
    /\ sbatch \in [Conns -> 0..Calls]
    /\ saddr \in [Conns -> Addrs \cup {NoAddr}]
    /\ todo \in [Conns -> SUBSET Nat]
    /\ cl \in [Conns -> {"none", "open", "closed"}]
    /\ wire \in [Conns -> Seq(Msgs)] /\ written \in [Conns -> Seq(Msgs)]

\* A message that SendMsg was called with gets into a batch for doSend, even
\* when the channel is full and when no further message follows.
Dispatched ==
    \A m \in Msgs :
      call[m] # "new" ~> \E b \in DOMAIN batch : m \in ToSet(batch[b])

\* How often m was written to connections, and to which addresses.
Copies(m) == {c \in Conns : m \in ToSet(written[c])}

\* A message whose batch has one address is written at most once, to its own
\* address, and behind the earlier messages of the batch; only the loop
\* variables shared between the groups of a mixed batch endanger that.
PlainBatchExact ==
    \A b \in DOMAIN batch :
      Cardinality(AddrsOf(batch[b])) = 1 =>
        /\ \A m \in ToSet(batch[b]) :
             /\ Cardinality(Copies(m)) <= 1
             /\ \A c \in Copies(m) : saddr[c] = dest[m]
        /\ \A c \in Conns :
             sbatch[c] = b => IsPrefix(written[c], batch[b])
=============================================================================
