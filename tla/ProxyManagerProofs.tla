------------------------- MODULE ProxyManagerProofs -------------------------
(***************************************************************************)
(* decept-proxy for any number of keys, process ids, strategies and        *)
(* faults: types, the key a proxy serves, what a stopping strategy kills,  *)
(* and the deafness that a damaged proxy-table.json leaves behind.         *)
(***************************************************************************)
EXTENDS ProxyManager, TLAPS

RetLabels == {"off", "fork", "h_exec", "h_stop"}
AfterLabels == {"off", "signal", "sp_done", "panic"}
InKillSelf == {"clear", "signal", "next", "killed"}
InFlush == {"trunc", "write"}
Resting == {"off", "p_touch", "p_made", "h_idle"}
AfterFork == {"sp_done", "panic"}

\* Where the threads can be, and what the labels of Hand say about its
\* strategy.
Control ==
    /\ \A t \in Threads \ {Hand} : pc[t] \in {"off", "c_idle", "c_loop"}
    /\ host[Clean] = host[Hand]
    /\ host[Hand] = 0 => pc[Hand] = "off"
    /\ ret[Hand] \in RetLabels /\ after[Hand] \in AfterLabels
    /\ (ret[Hand] # "off") <=> (pc[Hand] \in InKillSelf \/ after[Hand] = "signal")
    /\ (after[Hand] # "off") <=> (pc[Hand] \in InFlush)
    /\ pc[Hand] \notin Resting => job.key \in Names /\ job.type \in Types
    /\ pc[Hand] \in {"start", "fork"} \/ ret[Hand] = "fork" =>
         cur[Hand] = job.key /\ job.type # "UN"
    /\ pc[Hand] \in AfterFork \/ after[Hand] \in AfterFork => job.type # "UN"
    /\ started[Hand] # 0 => pc[Hand] \in AfterFork \/ after[Hand] \in AfterFork

\* What TypeOK says of decept-proxy's own variables.
ProxyTypeOK ==
    /\ ptable \in Files /\ ptab \in Maps /\ queried \in 0..MaxPid
    /\ job \in [type : Types \cup {"none"}, key : Names \cup {Nobody},
                status : -1..1, pid : 0..MaxPid]
    /\ look \in [Names -> 0..MaxPid]
    /\ kind \in [Pids -> {"none", "tcpProxy", "sh", "relay"}]
    /\ stage \in [Pids -> {"none", "init", "conf", "listen"}]
    /\ serves \in [Pids -> Names \cup {Nobody}]
    /\ jobs \in 0..MaxJobs /\ faults \in 0..MaxFaults

LEMMA TypeParts ==
    TypeOK <=> OsTypeOK /\ ThreadTypeOK(Labels) /\ DataTypeOK /\ ProxyTypeOK
BY DEF TypeOK, ProxyTypeOK

\* Process ids are not used twice, and the programs that run are those of
\* the keys.
Programs ==
    /\ \A p \in Pids : status[p] # "none" => p < nextPid
    /\ host[Hand] < nextPid
    /\ \A p \in Pids : kind[p] # "none" => Alive(p) /\ owner[p] \in Names

Typed ==
    /\ OsTypeOK /\ ThreadTypeOK(Labels) /\ DataTypeOK /\ ProxyTypeOK
    /\ Control /\ Programs

\* The steps of the goroutines outside the operations on the process table.
Reading == TableTouch \/ TableMade \/ HandCheck \/ \E order \in Orders : Receive(order)
Deciding == ExecStop \/ Stopped \/ ExecStart \/ ExecMissing \/ Started \/ ExecUnknown
Ending == ProxyTrunc \/ ProxyWrite \/ ProxyFlushFail \/ Publish
Local == Reading \/ Deciding \/ Ending \/ CleanRead \/ CleanEnd

\* The steps of the proxies.
Tending(p) ==
    \/ ShellExec(p) \/ Bind(p) \/ EdgeRead(p)
    \/ ShellEnd(p) \/ Watch(p) \/ Crash(p)

\* Every action of Next, by name.
LEMMA Steps ==
    ASSUME Next
    PROVE  \/ Local \/ Operation \/ Unlucky \/ \E n \in Names : CleanOne(n)
           \/ \E p \in Pids : ProxyStart(p)
           \/ \E p \in Pids, q \in Pids : ShellFork(p, q)
           \/ \E p \in Pids : Tending(p)
BY DEF Next, Handler, Cleaner, Proxy, Local, Reading, Deciding, Ending, Tending

-----------------------------------------------------------------------------
(***************************************************************************)
(* Maps and files.                                                         *)
(***************************************************************************)
LEMMA MapFacts ==
    /\ NilMap \in Maps /\ NewMap \in Maps
    /\ Absent \in Files /\ Empty \in Files /\ Garbage \in Files
    /\ Nothing \in [Names -> 0..MaxPid]
    /\ \A f \in Files : Unmarshal(f) \in Maps /\ Unmarshal(f).tab = f.tab
    /\ \A m \in Maps : Marshal(m) \in Files /\ Marshal(m).tab = m.tab
<1>1. Nothing \in [Names -> 0..MaxPid]
  BY PidAssumption DEF Nothing
<1>2. /\ NilMap \in Maps /\ NewMap \in Maps
      /\ Absent \in Files /\ Empty \in Files /\ Garbage \in Files
  BY <1>1 DEF NilMap, NewMap, Maps, Absent, Empty, Garbage, Files, Kinds
<1>3. \A f \in Files : Unmarshal(f) \in Maps /\ Unmarshal(f).tab = f.tab
  BY DEF Unmarshal, Files, Maps
<1>4. \A m \in Maps : Marshal(m) \in Files /\ Marshal(m).tab = m.tab
  BY DEF Marshal, Maps, Files, Kinds
<1> QED BY <1>1, <1>2, <1>3, <1>4

LEMMA SetEntry ==
    ASSUME NEW m \in Maps, NEW n, NEW p \in 0..MaxPid
    PROVE  /\ [m EXCEPT !.tab[n] = p] \in Maps
           /\ [m EXCEPT !.tab[n] = p].tab = [m.tab EXCEPT ![n] = p]
BY DEF Maps

-----------------------------------------------------------------------------
(***************************************************************************)
(* Types: the steps outside the operations.                                *)
(***************************************************************************)
\* They leave the host, the process table and the proxies alone.
LEMMA LocalFrame ==
    ASSUME Local
    PROVE  UNCHANGED <<file, status, owner, parent, nextPid, host, after, table, scratch,
                       kind, stage, serves>>
<1> USE DEF osVars, localVars, procVars
<1>1. CASE Reading
  BY <1>1 DEF Reading, TableTouch, TableMade, HandCheck, Receive
<1>2. CASE Deciding
  BY <1>2 DEF Deciding, ExecStop, Stopped, ExecStart, ExecMissing, Started, ExecUnknown
<1>3. CASE Ending
  BY <1>3 DEF Ending, ProxyTrunc, ProxyWrite, ProxyFlushFail, Publish
<1>4. CASE CleanRead \/ CleanEnd
  BY <1>4 DEF CleanRead, CleanEnd
<1> QED BY <1>1, <1>2, <1>3, <1>4 DEF Local

LEMMA LocalThreads ==
    ASSUME Typed, Local
    PROVE  ThreadTypeOK(Labels)'
<1> USE HandAssumption, NamesAssumption, PidAssumption
    DEF Typed, ThreadTypeOK, Goto, osVars, localVars, CallKillSelf, Outcome
<1>0. /\ Labels = Labels' /\ "off" \in Labels
      /\ {"clear", "start", "p_made", "h_idle", "h_check", "h_exec", "h_stop", "p_trunc", "p_write",
          "h_publish", "c_idle", "c_loop"} \subseteq Labels
  BY DEF Labels, TableLabels
<1>1. CASE TableTouch \/ TableMade
  BY <1>0, <1>1 DEF TableTouch, TableMade
<1>2. CASE \E order \in Orders : Receive(order)
  BY <1>0, <1>2 DEF Receive
<1>3. CASE HandCheck
  <2>1. pc[Hand] \notin Resting
    BY <1>3 DEF HandCheck, Resting
  <2>2. job.key \in Names /\ queried \in 0..MaxPid
    BY <2>1 DEF Control, ProxyTypeOK
  <2> QED BY <1>0, <1>3, <2>2 DEF HandCheck
<1>4. CASE ExecStop
  <2>1. pc[Hand] \notin Resting
    BY <1>4 DEF ExecStop, Resting
  <2>2. job.key \in Names /\ queried \in 0..MaxPid
    BY <2>1 DEF Control, ProxyTypeOK
  <2> QED BY <1>0, <1>4, <2>2 DEF ExecStop
<1>5. CASE ExecStart
  <2>1. pc[Hand] \notin Resting
    BY <1>5 DEF ExecStart, Resting
  <2>2. job.key \in Names
    BY <2>1 DEF Control
  <2> QED BY <1>0, <1>5, <2>2 DEF ExecStart, CallStartProject
<1>6. CASE Started
  BY <1>0, <1>6 DEF Started
<1>7. CASE Stopped \/ ExecMissing \/ ExecUnknown
  BY <1>0, <1>7 DEF Stopped, ExecMissing, ExecUnknown
<1>8. CASE Ending
  BY <1>0, <1>8 DEF Ending, ProxyTrunc, ProxyWrite, ProxyFlushFail, Publish
<1>9. CASE CleanRead \/ CleanEnd
  BY <1>0, <1>9 DEF CleanRead, CleanEnd
<1> HIDE DEF Typed, ThreadTypeOK, Goto, osVars, localVars, CallKillSelf, Outcome
<1> QED
  BY <1>1, <1>2, <1>3, <1>4, <1>5, <1>6, <1>7, <1>8, <1>9 DEF Local, Reading, Deciding

\* The steps change only Hand's job, map and query, Clean's list and the file.
LEMMA LocalProxy ==
    ASSUME Typed, Local
    PROVE  ProxyTypeOK'
<1> USE JobAssumption, PidAssumption, HandAssumption
    DEF env, memVars, procVars
<1>0. /\ ProxyTypeOK
      /\ {-1, 0, 1} \subseteq -1..1 /\ 0 \in 0..MaxPid
      /\ \A k \in Types \cup {"none"}, n \in Names \cup {Nobody}, st \in -1..1, p \in 0..MaxPid :
           [type |-> k, key |-> n, status |-> st, pid |-> p]
             \in [type : Types \cup {"none"}, key : Names \cup {Nobody},
                  status : -1..1, pid : 0..MaxPid]
  BY DEF Typed
<1>1. CASE TableTouch \/ TableMade \/ ProxyTrunc \/ ProxyWrite \/ ProxyFlushFail
  <2>1. ptable' \in Files
    BY <1>0, <1>1, MapFacts
    DEF TableTouch, TableMade, ProxyTrunc, ProxyWrite, ProxyFlushFail, ProxyTypeOK
  <2>2. jobs' = jobs /\ faults' \in 0..MaxFaults
    BY <1>0, <1>1
    DEF TableTouch, TableMade, ProxyTrunc, ProxyWrite, ProxyFlushFail, Fault, ProxyTypeOK
  <2>3. UNCHANGED <<ptab, queried, job, look, kind, stage, serves>>
    BY <1>1 DEF TableTouch, TableMade, ProxyTrunc, ProxyWrite, ProxyFlushFail
  <2> QED BY <1>0, <2>1, <2>2, <2>3 DEF ProxyTypeOK
<1>2. CASE \E order \in Orders : Receive(order)
  <2>1. PICK order \in Orders : Receive(order)
    BY <1>2
  <2>2. /\ order \in [type : Types \cup {"none"}, key : Names \cup {Nobody},
                      status : -1..1, pid : 0..MaxPid]
        /\ order.key \in Names
    BY <1>0 DEF Orders
  <2>3. file.tab[order.key] \in 0..MaxPid
    BY <2>2 DEF Typed, DataTypeOK, Files
  <2>4. jobs' \in 0..MaxJobs
    BY <1>0, <2>1 DEF Receive, ProxyTypeOK
  <2>5. /\ job' \in {job, order} /\ ptab' \in {ptab, Unmarshal(ptable)}
        /\ queried' \in {queried, file.tab[order.key]}
    BY <2>1 DEF Receive
  <2>6. UNCHANGED <<ptable, look, kind, stage, serves, faults>>
    BY <2>1 DEF Receive
  <2>7. ptab' \in Maps
    BY <1>0, <2>5, MapFacts DEF ProxyTypeOK
  <2> QED BY <1>0, <2>2, <2>3, <2>4, <2>5, <2>6, <2>7 DEF ProxyTypeOK
<1>3. CASE HandCheck \/ ExecStop \/ ExecStart \/ ExecUnknown
  <2>1. job' = job \/ job' = [job EXCEPT !.status = -1]
    BY <1>3 DEF HandCheck, ExecStop, ExecStart, ExecUnknown
  <2>2. UNCHANGED <<ptable, ptab, queried, look, kind, stage, serves, jobs, faults>>
    BY <1>3 DEF HandCheck, ExecStop, ExecStart, ExecUnknown
  <2> QED BY <1>0, <2>1, <2>2 DEF ProxyTypeOK
<1>4. ASSUME NEW st \in -1..1, NEW p \in 0..MaxPid, Outcome(st, p),
             UNCHANGED <<ptable, queried, look, procVars, env>>
      PROVE  ProxyTypeOK'
  <2>1. ptab' \in Maps
    BY <1>0, <1>4, SetEntry DEF Outcome, ProxyTypeOK
  <2>2. job' = [job EXCEPT !.status = st, !.pid = p]
    BY <1>4 DEF Outcome
  <2> QED BY <1>0, <1>4, <2>1, <2>2 DEF ProxyTypeOK
<1>5. CASE Stopped \/ ExecMissing
  BY <1>0, <1>4, <1>5 DEF Stopped, ExecMissing
<1>6. CASE Started
  <2>1. started[Hand] \in -1..MaxPid
    BY DEF Typed, ThreadTypeOK
  <2>2. CASE started[Hand] = -1
    BY <1>0, <1>4, <1>6, <2>2 DEF Started
  <2>3. CASE started[Hand] # -1
    <3>1. started[Hand] \in 0..MaxPid
      BY <2>1, <2>3
    <3> QED BY <1>0, <1>4, <1>6, <2>3, <3>1 DEF Started
  <2> QED BY <2>2, <2>3
<1>7. CASE Publish
  <2>1. NoJob \in [type : Types \cup {"none"}, key : Names \cup {Nobody},
                   status : -1..1, pid : 0..MaxPid]
    BY <1>0 DEF NoJob
  <2> QED BY <1>0, <1>7, <2>1, MapFacts DEF Publish, ProxyTypeOK
<1>8. CASE CleanRead \/ CleanEnd
  BY <1>0, <1>8 DEF CleanRead, CleanEnd, ProxyTypeOK, Files
<1> HIDE DEF env, memVars, procVars
<1> QED
  BY <1>1, <1>2, <1>3, <1>5, <1>6, <1>7, <1>8 DEF Local, Reading, Deciding, Ending
LEMMA LocalControl ==
    ASSUME Typed, Local
    PROVE  Control'
<1> USE HandAssumption
    DEF Typed, ThreadTypeOK, Control, Goto, osVars, localVars, CallKillSelf, Outcome, Resting,
        InKillSelf, InFlush, AfterFork, RetLabels, AfterLabels
<1>0. UNCHANGED <<host, after>>
  BY LocalFrame
<1>1. CASE TableTouch \/ TableMade
  BY <1>0, <1>1 DEF TableTouch, TableMade, memVars
<1>2. CASE \E order \in Orders : Receive(order)
  <2>1. PICK order \in Orders : Receive(order)
    BY <1>2
  <2>2. order.key \in Names /\ order.type \in Types
    BY DEF Orders
  <2> QED BY <1>0, <2>1, <2>2 DEF Receive
<1>3. CASE HandCheck
  <2>1. job'.key = job.key /\ job'.type = job.type
    BY <1>3 DEF HandCheck, ProxyTypeOK
  <2> QED BY <1>0, <1>3, <2>1 DEF HandCheck
<1>4. CASE ExecStop
  BY <1>0, <1>4 DEF ExecStop, memVars
<1>5. CASE ExecStart
  BY <1>0, <1>5 DEF ExecStart, CallStartProject, memVars
<1>6. CASE Started
  <2>1. job'.key = job.key /\ job'.type = job.type
    <3>1. CASE job'.key = job.key /\ job'.type = job.type
      BY <3>1
    <3> QED BY <1>6, <3>1 DEF Started, ProxyTypeOK
  <2> QED BY <1>0, <1>6, <2>1 DEF Started
<1>7. CASE Stopped \/ ExecMissing
  <2>1. job'.key = job.key /\ job'.type = job.type
    BY <1>7 DEF Stopped, ExecMissing, ProxyTypeOK
  <2> QED BY <1>0, <1>7, <2>1 DEF Stopped, ExecMissing
<1>8. CASE ExecUnknown \/ ProxyTrunc \/ ProxyWrite \/ ProxyFlushFail
  BY <1>0, <1>8 DEF ExecUnknown, ProxyTrunc, ProxyWrite, ProxyFlushFail, memVars
<1>9. CASE Publish
  BY <1>0, <1>9 DEF Publish
<1>10. CASE CleanRead \/ CleanEnd
  BY <1>0, <1>10 DEF CleanRead, CleanEnd, memVars
<1> HIDE DEF Typed, ThreadTypeOK, Control, Goto, osVars, localVars, CallKillSelf, Outcome, Resting,
        InKillSelf, InFlush, AfterFork, RetLabels, AfterLabels
<1> QED
  BY <1>1, <1>2, <1>3, <1>4, <1>5, <1>6, <1>7, <1>8, <1>9, <1>10
  DEF Local, Reading, Deciding, Ending

LEMMA LocalTyped == ASSUME Typed, Local PROVE Typed'
<1>1. OsTypeOK' /\ DataTypeOK'
  BY LocalFrame DEF Typed, OsTypeOK, DataTypeOK
<1>2. Programs'
  BY LocalFrame DEF Typed, Programs, Alive
<1> QED BY <1>1, <1>2, LocalThreads, LocalProxy, LocalControl DEF Typed

-----------------------------------------------------------------------------
(***************************************************************************)
(* Types: the operations on the process table, which Hand alone calls, and *)
(* the end of a process.                                                   *)
(***************************************************************************)
TableTyped == OsTypeOK /\ ThreadTypeOK(Labels) /\ DataTypeOK

\* Reading and writing the table.
LEMMA FlushTyped ==
    ASSUME Typed, Trunc(Hand) \/ Write(Hand) \/ FlushFail(Hand) \/ ClearRead(Hand)
    PROVE  TableTyped'
<1> USE HandAssumption DEF TableTyped, Typed, Goto, osVars, localVars, FlushReturn, CallFlush
<1>0. /\ Labels = Labels' /\ {"off", "write", "trunc", "signal"} \subseteq Labels
  BY DEF Labels, TableLabels
<1>1. OsTypeOK'
  BY DEF Trunc, Write, FlushFail, ClearRead, OsTypeOK
<1>2. ThreadTypeOK(Labels)'
  <2>1. CASE Trunc(Hand)
    BY <1>0, <2>1 DEF Trunc, ThreadTypeOK
  <2>2. CASE Write(Hand) \/ FlushFail(Hand)
    BY <1>0, <2>2 DEF Write, FlushFail, ThreadTypeOK
  <2>3. CASE ClearRead(Hand)
    BY <1>0, <2>3 DEF ClearRead, ThreadTypeOK
  <2> QED BY <2>1, <2>2, <2>3
<1>3. DataTypeOK'
  <2>1. CASE Trunc(Hand)
    BY <2>1, MapFacts DEF Trunc, DataTypeOK
  <2>2. CASE Write(Hand) \/ FlushFail(Hand)
    <3>1. file' \in Files
      BY <2>2, MapFacts DEF Write, FlushFail, Written, DataTypeOK
    <3>2. scratch' \in [Threads -> Maps] /\ table' \in [Threads -> Maps]
      <4>1. /\ scratch' = [scratch EXCEPT ![Hand] = NilMap]
            /\ table' \in {table, [table EXCEPT ![Hand] = NilMap]}
        BY <2>2 DEF Write, FlushFail, DataTypeOK
      <4>2. /\ NilMap \in Maps /\ scratch \in [Threads -> Maps] /\ table \in [Threads -> Maps]
        BY MapFacts DEF DataTypeOK
      <4> HIDE DEF Typed
      <4> QED BY <4>1, <4>2
    <3> QED BY <3>1, <3>2 DEF DataTypeOK
  <2>3. CASE ClearRead(Hand)
    <3>1. [Unmarshal(file) EXCEPT !.tab[cur[Hand]] = 0] \in Maps
      <4>1. Unmarshal(file) \in Maps /\ 0 \in 0..MaxPid
        BY MapFacts, PidAssumption DEF DataTypeOK
      <4> QED BY <4>1, SetEntry
    <3> QED BY <2>3, <3>1 DEF ClearRead, DataTypeOK
  <2> QED BY <2>1, <2>2, <2>3
<1> QED BY <1>1, <1>2, <1>3

\* StartProject.
LEMMA StartTyped ==
    ASSUME Typed, ReadStart(Hand) \/ ForkFail(Hand) \/ \E p \in Pids : Fork(Hand, p)
    PROVE  TableTyped'
<1> USE HandAssumption DEF TableTyped, Typed, Goto, osVars, localVars, CallFlush, CallKillSelf
<1>0. /\ Labels = Labels'
      /\ {"off", "trunc", "sp_done", "panic", "clear", "fork"} \subseteq Labels
  BY DEF Labels, TableLabels
<1>1. CASE ReadStart(Hand)
  <2>1. cur[Hand] \in Names /\ Unmarshal(file) \in Maps
    BY <1>1, MapFacts DEF ReadStart, Control, DataTypeOK, Resting
  <2>2. Unmarshal(file).tab[cur[Hand]] \in 0..MaxPid
    BY <2>1 DEF Maps
  <2>3. OsTypeOK' /\ DataTypeOK'
    BY <1>1, <2>1 DEF ReadStart, OsTypeOK, DataTypeOK
  <2>4. ThreadTypeOK(Labels)'
    BY <1>0, <1>1, <2>2, PidAssumption DEF ReadStart, ThreadTypeOK
  <2> QED BY <2>3, <2>4
<1>2. CASE ForkFail(Hand)
  <2>1. OsTypeOK' /\ DataTypeOK'
    BY <1>2 DEF ForkFail, OsTypeOK, DataTypeOK
  <2>2. ThreadTypeOK(Labels)'
    BY <1>0, <1>2, PidAssumption DEF ForkFail, ThreadTypeOK
  <2> QED BY <2>1, <2>2
<1>3. ASSUME NEW p \in Pids, Fork(Hand, p) PROVE TableTyped'
  <2>1. table[Hand] \in Maps /\ p \in 0..MaxPid
    BY PidAssumption DEF DataTypeOK, Pids
  <2>2. [table[Hand] EXCEPT !.tab[cur[Hand]] = p] \in Maps
    BY <2>1, SetEntry
  <2>3. DataTypeOK'
    <3>1. \E m \in Maps : /\ scratch' = [scratch EXCEPT ![Hand] = m]
                           /\ table' \in {table, [table EXCEPT ![Hand] = m]}
      BY <1>3, <2>2, MapFacts DEF Fork
    <3>2. UNCHANGED file
      BY <1>3 DEF Fork
    <3> QED BY <3>1, <3>2 DEF DataTypeOK
  <2>4. ThreadTypeOK(Labels)'
    BY <1>0, <1>3, <2>1, PidAssumption DEF Fork, ThreadTypeOK
  <2>5. cur[Hand] \in Owners /\ host[Hand] \in 0..MaxPid
    BY DEF ThreadTypeOK, Owners
  <2>6. OsTypeOK'
    BY <1>3, <2>5, PidAssumption DEF Fork, Spawn, OsTypeOK, Pids, Statuses
  <2> QED BY <2>3, <2>4, <2>6
<1> QED BY <1>1, <1>2, <1>3

LEMMA ReturnTyped == ASSUME Typed, KillReturn(Hand) PROVE TableTyped'
<1> USE HandAssumption, PidAssumption DEF TableTyped, Typed, Goto, osVars, KillReturn
<1>1. OsTypeOK' /\ DataTypeOK'
  BY DEF OsTypeOK, DataTypeOK
<1>2. ThreadTypeOK(Labels)'
  <2>1. Labels = Labels' /\ "off" \in Labels
    BY DEF Labels, TableLabels
  <2> QED BY <2>1 DEF ThreadTypeOK
<1> QED BY <1>1, <1>2

\* A process ends, killed or by itself; the threads are where npc puts them.
Death(p, q, npc) == Gone(p, q) /\ ThreadsEnd(p, npc) /\ UNCHANGED file

LEMMA DeathTyped ==
    ASSUME Typed, NEW p \in Pids, NEW q, NEW npc \in [Threads -> Labels], Death(p, q, npc)
    PROVE  TableTyped'
<1> USE HandAssumption, PidAssumption DEF TableTyped, Typed, Death
<1>1. OsTypeOK'
  BY DEF Gone, OsTypeOK, Statuses
<1>2. DataTypeOK'
  BY MapFacts DEF ThreadsEnd, Lost, DataTypeOK
<1>3. ThreadTypeOK(Labels)'
  <2>1. Labels = Labels' /\ "off" \in Labels
    BY DEF Labels, TableLabels
  <2> QED BY <2>1 DEF ThreadsEnd, Lost, ThreadTypeOK
<1> QED BY <1>1, <1>2, <1>3
\* The kinds of steps Operation takes: writing, starting, returning, killing.
Kills(p, l) ==
    /\ \/ pc[Hand] = "signal" /\ l = "next" /\ p = victim[Hand]
       \/ pc[Hand] = "next" /\ l = "killed" /\ p = victim[Hand] + 1
    /\ ProcessIsExist(p)
    /\ Death(p, host[Hand], [pc EXCEPT ![Hand] = l])

Returns ==
    /\ pc[Hand] \in {"signal", "next", "killed"}
    /\ pc[Hand] = "signal" => ~ProcessIsExist(victim[Hand])
    /\ KillReturn(Hand)

Panics == pc[Hand] = "panic" /\ Death(host[Hand], 0, pc)

LEMMA OperationCases ==
    ASSUME Operation
    PROVE  /\ \/ Trunc(Hand) \/ Write(Hand) \/ ClearRead(Hand)
              \/ ReadStart(Hand) \/ ForkFail(Hand) \/ \E p \in Pids : Fork(Hand, p)
              \/ Returns \/ Panics
              \/ \E p \in Pids, l \in {"next", "killed"} : Kills(p, l)
           /\ Processes /\ Memory /\ UNCHANGED <<ptable, jobs, faults>>
<1>0. Processes /\ Memory /\ UNCHANGED <<ptable, jobs, faults>>
  BY DEF Operation, env
<1>1. CASE Signal(Hand)
  BY <1>0, <1>1 DEF Signal, Returns, Kills, ProcessIsExist, KillProcess, Death
<1>2. CASE SignalNext(Hand)
  BY <1>0, <1>2 DEF SignalNext, Returns, Kills, ProcessIsExist, KillProcess, Death
<1>3. CASE Killed(Hand)
  BY <1>0, <1>3 DEF Killed, Returns
<1>4. CASE Panic(Hand)
  BY <1>0, <1>4 DEF Panic, Exit, Panics, Death
<1> QED BY <1>0, <1>1, <1>2, <1>3, <1>4 DEF Operation, TableStep

LEMMA OperationTyped ==
    ASSUME Typed, Operation \/ Unlucky
    PROVE  TableTyped'
<1>1. CASE Unlucky
  BY <1>1, FlushTyped, StartTyped DEF Unlucky
<1>2. CASE Returns
  BY <1>2, ReturnTyped DEF Returns
<1>3. ASSUME NEW p \in Pids, NEW l \in {"next", "killed"}, Kills(p, l) PROVE TableTyped'
  <2>1. [pc EXCEPT ![Hand] = l] \in [Threads -> Labels]
    BY DEF Typed, ThreadTypeOK, Labels, TableLabels
  <2> QED BY <1>3, <2>1, DeathTyped DEF Kills
<1>4. CASE Panics
  <2>1. host[Hand] \in Pids
    BY <1>4, HandAssumption DEF Panics, Typed, Control, ThreadTypeOK, Pids
  <2> QED BY <1>4, <2>1, DeathTyped DEF Panics, Typed, ThreadTypeOK
<1> QED BY <1>1, <1>2, <1>3, <1>4, OperationCases, FlushTyped, StartTyped

\* The label of Hand in an operation.
LEMMA OperationControl ==
    ASSUME Typed, UNCHANGED job,
           \/ Trunc(Hand) \/ Write(Hand) \/ FlushFail(Hand) \/ ClearRead(Hand)
           \/ ReadStart(Hand) \/ ForkFail(Hand) \/ \E p \in Pids : Fork(Hand, p)
           \/ Returns
    PROVE  Control'
<1> USE HandAssumption
    DEF Typed, ThreadTypeOK, Control, Goto, osVars, localVars, CallKillSelf, CallFlush, FlushReturn,
        Resting, InKillSelf, InFlush, AfterFork, RetLabels, AfterLabels
<1>1. CASE Trunc(Hand)
  BY <1>1 DEF Trunc
<1>2. CASE Write(Hand) \/ FlushFail(Hand)
  BY <1>2 DEF Write, FlushFail
<1>3. CASE ClearRead(Hand)
  BY <1>3 DEF ClearRead
<1>4. CASE ReadStart(Hand)
  BY <1>4 DEF ReadStart
<1>5. CASE ForkFail(Hand)
  BY <1>5 DEF ForkFail
<1>6. CASE \E p \in Pids : Fork(Hand, p)
  BY <1>6 DEF Fork
<1>7. CASE Returns
  BY <1>7 DEF Returns, KillReturn
<1> QED BY <1>1, <1>2, <1>3, <1>4, <1>5, <1>6, <1>7

\* The labels when a process ends: its threads end with it.
LEMMA DeathControl ==
    ASSUME Typed, NEW p \in Pids, NEW q, NEW npc \in [Threads -> Labels], Death(p, q, npc),
           \A t \in Threads \ {Hand} : npc[t] \in {"off", "c_idle", "c_loop"},
           \/ npc[Hand] = pc[Hand]
           \/ pc[Hand] \in {"signal", "next"} /\ npc[Hand] \in {"next", "killed"},
           host[Hand] # p => UNCHANGED job
    PROVE  Control'
<1> USE HandAssumption, PidAssumption
    DEF Typed, ThreadTypeOK, Control, Resting, InKillSelf, InFlush, AfterFork, RetLabels, AfterLabels
<1>1. CASE host[Hand] = p
  BY <1>1 DEF Death, ThreadsEnd, Lost
<1>2. CASE host[Hand] # p
  <2>1. /\ pc'[Hand] = npc[Hand] /\ host'[Hand] = host[Hand] /\ host'[Clean] = host[Clean]
        /\ ret'[Hand] = ret[Hand] /\ after'[Hand] = after[Hand] /\ cur'[Hand] = cur[Hand]
        /\ started'[Hand] = started[Hand] /\ UNCHANGED job
    BY <1>2 DEF Death, ThreadsEnd, Lost
  <2>2. \A t \in Threads \ {Hand} : pc'[t] \in {"off", "c_idle", "c_loop"}
    BY DEF Death, ThreadsEnd, Lost
  <2> QED BY <2>1, <2>2
<1> QED BY <1>1, <1>2

\* The processes and their programs.
LEMMA ProcessesTyped ==
    ASSUME Typed, Processes
    PROVE  /\ kind' \in [Pids -> {"none", "tcpProxy", "sh", "relay"}]
           /\ stage' \in [Pids -> {"none", "init", "conf", "listen"}]
           /\ serves' \in [Pids -> Names \cup {Nobody}]
BY DEF Typed, ProxyTypeOK, Processes

LEMMA MemoryTyped ==
    ASSUME Typed, Memory, Processes, ptable' = ptable,
           UNCHANGED <<jobs, faults>> \/ Fault
    PROVE  ProxyTypeOK'
<1>1. /\ ptab' \in Maps /\ queried' \in 0..MaxPid
      /\ job' \in [type : Types \cup {"none"}, key : Names \cup {Nobody},
                   status : -1..1, pid : 0..MaxPid]
      /\ look' \in [Names -> 0..MaxPid]
  BY MapFacts, PidAssumption DEF Memory, memVars, Typed, ProxyTypeOK, NoJob
<1>2. jobs' \in 0..MaxJobs /\ faults' \in 0..MaxFaults
  BY JobAssumption DEF Fault, Typed, ProxyTypeOK
<1> QED BY <1>1, <1>2, ProcessesTyped DEF Typed, ProxyTypeOK

LEMMA QuietPrograms ==
    ASSUME Typed, UNCHANGED <<status, owner, nextPid, host>>, Processes \/ UNCHANGED kind
    PROVE  Programs'
<1>1. \A p \in Pids : kind'[p] # "none" => kind[p] # "none"
  BY DEF Typed, ProxyTypeOK, Programs, Processes, Alive
<1> QED BY <1>1 DEF Typed, Programs, Alive

LEMMA ForkPrograms ==
    ASSUME Typed, NEW p \in Pids, Fork(Hand, p), Processes
    PROVE  Programs'
<1>1. /\ p >= nextPid /\ nextPid' = p + 1 /\ nextPid \in Nat /\ p \in Nat
      /\ status' = [status EXCEPT ![p] = "alive"] /\ host' = host
      /\ owner' = [owner EXCEPT ![p] = cur[Hand]]
  BY PidAssumption DEF Fork, Spawn, Typed, OsTypeOK, Pids
<1>2. cur[Hand] \in Names
  BY HandAssumption DEF Fork, Typed, Control, Resting
<1>3. status \in [Pids -> Statuses] /\ owner \in [Pids -> Owners] /\ host[Hand] \in Nat
  BY HandAssumption DEF Typed, OsTypeOK, ThreadTypeOK
<1>4. host'[Hand] < nextPid'
  BY <1>1, <1>3 DEF Typed, Programs
<1>5. ASSUME NEW r \in Pids, status'[r] # "none" PROVE r < nextPid'
  <2>1. r = p \/ (status[r] # "none" /\ r < nextPid)
    BY <1>1, <1>3, <1>5 DEF Typed, Programs
  <2> QED BY <1>1, <2>1 DEF Pids
<1>6. ASSUME NEW r \in Pids, kind'[r] # "none" PROVE Alive(r)' /\ owner'[r] \in Names
  <2>1. status'[r] = "alive" /\ (Alive(r) => kind[r] # "none")
    BY <1>6 DEF Processes
  <2>2. CASE r = p
    BY <1>1, <1>2, <1>3, <2>1, <2>2 DEF Alive
  <2>3. CASE r # p
    BY <1>1, <1>3, <2>1, <2>3 DEF Alive, Typed, Programs
  <2> QED BY <2>2, <2>3
<1> QED BY <1>4, <1>5, <1>6 DEF Programs

LEMMA DeathPrograms ==
    ASSUME Typed, NEW p \in Pids, p < nextPid, NEW q, NEW npc, Death(p, q, npc), Processes
    PROVE  Programs'
<1>1. nextPid' = nextPid /\ owner' = owner
  BY DEF Death, Gone
<1>2. /\ \A r \in Pids : status'[r] # "none" => r = p \/ status[r] # "none"
      /\ \A r \in Pids : status'[r] = "alive" => status[r] = "alive"
  BY DEF Death, Gone
<1>3. host'[Hand] \in {0, host[Hand]}
  BY HandAssumption DEF Death, ThreadsEnd, Lost
<1>4. 0 < nextPid
  BY PidAssumption DEF Typed, OsTypeOK
<1>5. \A r \in Pids : kind'[r] # "none" => status'[r] = "alive" /\ kind[r] # "none"
  BY <1>2 DEF Processes, Alive
<1> QED BY <1>1, <1>2, <1>3, <1>4, <1>5 DEF Typed, Programs, Alive

LEMMA OperationStep == ASSUME Typed, Operation PROVE Typed'
<1>0. Processes /\ Memory /\ UNCHANGED <<ptable, jobs, faults>>
  BY OperationCases
<1>1. TableTyped' /\ ProxyTypeOK'
  BY <1>0, OperationTyped, MemoryTyped
<1>2. Control' /\ Programs'
  <2>1. CASE \/ Trunc(Hand) \/ Write(Hand) \/ ClearRead(Hand)
             \/ ReadStart(Hand) \/ ForkFail(Hand) \/ Returns
    <3>1. UNCHANGED <<status, owner, nextPid, host>>
      BY <2>1
      DEF Trunc, Write, FlushReturn, ClearRead, ReadStart, ForkFail, Returns, KillReturn, osVars
    <3>2. job' = job
      BY <1>0, <3>1 DEF Memory, memVars
    <3> QED BY <1>0, <2>1, <3>1, <3>2, OperationControl, QuietPrograms
  <2>2. ASSUME NEW p \in Pids, Fork(Hand, p) PROVE Control' /\ Programs'
    <3>1. job' = job
      BY <1>0, <2>2 DEF Memory, memVars, Fork
    <3> QED BY <1>0, <2>2, <3>1, OperationControl, ForkPrograms
  <2>3. ASSUME NEW p \in Pids, NEW l \in {"next", "killed"}, Kills(p, l)
        PROVE  Control' /\ Programs'
    <3> DEFINE npc == [pc EXCEPT ![Hand] = l]
    <3>1. /\ npc \in [Threads -> Labels]
          /\ \A t \in Threads \ {Hand} : npc[t] \in {"off", "c_idle", "c_loop"}
          /\ pc[Hand] \in {"signal", "next"} /\ npc[Hand] = l
      BY <2>3, HandAssumption DEF Typed, ThreadTypeOK, Labels, TableLabels, Control, Kills
    <3>2. p < nextPid
      BY <2>3 DEF Kills, ProcessIsExist, Typed, Programs
    <3>3. host[Hand] # p => UNCHANGED job
      <4>1. host[Hand] # p => host'[Hand] = host[Hand]
        BY <2>3, HandAssumption DEF Kills, Death, ThreadsEnd, Lost
      <4> QED BY <1>0, <4>1 DEF Memory, memVars
    <3>4. Death(p, host[Hand], npc)
      BY <2>3 DEF Kills
    <3> HIDE DEF npc
    <3> QED BY <1>0, <3>1, <3>2, <3>3, <3>4, DeathControl, DeathPrograms
  <2>4. CASE Panics
    <3>1. host[Hand] \in Pids /\ host[Hand] < nextPid
      BY <2>4, HandAssumption DEF Panics, Typed, Control, ThreadTypeOK, Pids, Programs
    <3>2. /\ pc \in [Threads -> Labels]
          /\ \A t \in Threads \ {Hand} : pc[t] \in {"off", "c_idle", "c_loop"}
      BY DEF Typed, ThreadTypeOK, Control
    <3>3. Death(host[Hand], 0, pc)
      BY <2>4 DEF Panics
    <3> QED BY <1>0, <3>1, <3>2, <3>3, DeathControl, DeathPrograms
  <2> QED BY <2>1, <2>2, <2>3, <2>4, OperationCases
<1> QED BY <1>1, <1>2 DEF Typed, TableTyped

LEMMA UnluckyStep == ASSUME Typed, Unlucky PROVE Typed'
<1>1. UNCHANGED <<ptable, ptab, queried, job, look, kind, stage, serves, jobs>> /\ Fault
  BY DEF Unlucky, memVars, procVars, Fault
<1>2. ProxyTypeOK'
  <2>1. faults' \in 0..MaxFaults
    BY <1>1, JobAssumption DEF Fault, Typed, ProxyTypeOK
  <2> QED BY <1>1, <2>1 DEF Typed, ProxyTypeOK
<1>3. UNCHANGED <<status, owner, nextPid, host>>
  BY DEF Unlucky, FlushFail, FlushReturn, ForkFail, osVars
<1> QED
  BY <1>1, <1>2, <1>3, OperationTyped, OperationControl, QuietPrograms
  DEF Unlucky, Typed, TableTyped

\* A process ends of its own accord.
Dies(p) ==
    /\ Exit(p) /\ Processes /\ Memory /\ UNCHANGED ptable
    /\ UNCHANGED <<jobs, faults>> \/ Fault

LEMMA DiesStep == ASSUME Typed, NEW p \in Pids, p < nextPid, Dies(p) PROVE Typed'
<1>1. Death(p, 0, pc)
  BY DEF Dies, Exit, Death
<1>2. /\ pc \in [Threads -> Labels]
      /\ \A t \in Threads \ {Hand} : pc[t] \in {"off", "c_idle", "c_loop"}
  BY DEF Typed, ThreadTypeOK, Control
<1>3. host[Hand] # p => UNCHANGED job
  <2>1. host[Hand] # p => host'[Hand] = host[Hand]
    BY <1>1, HandAssumption DEF Death, ThreadsEnd, Lost
  <2> QED BY <2>1 DEF Dies, Memory, memVars
<1>4. TableTyped' /\ Control' /\ Programs'
  BY <1>1, <1>2, <1>3, DeathTyped, DeathControl, DeathPrograms DEF Dies
<1> QED BY <1>4, MemoryTyped DEF Dies, Typed, TableTyped

LEMMA CleanStep == ASSUME Typed, NEW n \in Names, CleanOne(n) PROVE Typed'
<1>1. look' \in [Names -> 0..MaxPid]
  BY PidAssumption DEF CleanOne, Typed, ProxyTypeOK
<1>2. UNCHANGED <<ptable, ptab, queried, job, jobs, faults>>
  BY DEF CleanOne, env
<1>3. CASE IsZombie(look[n])
  <2> DEFINE p == look[n]
             npc == [pc EXCEPT ![Clean] = "c_loop"]
  <2>1. p \in Pids /\ status[p] # "none" /\ p < nextPid
    BY <1>3 DEF IsZombie, Typed, Programs
  <2>2. Death(p, host[Clean], npc) /\ Processes
    BY <1>3 DEF CleanOne, KillProcess, Death
  <2>3. /\ npc \in [Threads -> Labels] /\ npc[Hand] = pc[Hand]
        /\ \A t \in Threads \ {Hand} : npc[t] \in {"off", "c_idle", "c_loop"}
    BY HandAssumption DEF Typed, ThreadTypeOK, Labels, TableLabels, Control
  <2> HIDE DEF p, npc
  <2>4. TableTyped' /\ Control' /\ Programs'
    BY <1>2, <2>1, <2>2, <2>3, DeathTyped, DeathControl, DeathPrograms
  <2>5. ProxyTypeOK'
    BY <1>1, <1>2, <2>2, ProcessesTyped DEF Typed, ProxyTypeOK
  <2> QED BY <2>4, <2>5 DEF Typed, TableTyped
<1>4. CASE ~IsZombie(look[n])
  <2>1. UNCHANGED <<tableVars, procVars>>
    BY <1>4 DEF CleanOne
  <2> QED
    BY <1>1, <1>2, <2>1
    DEF tableVars, osVars, localVars, procVars, Typed, OsTypeOK, ThreadTypeOK, DataTypeOK,
        ProxyTypeOK, Control, Programs, Alive
<1> QED BY <1>3, <1>4
-----------------------------------------------------------------------------
(***************************************************************************)
(* Types: forks outside the operations, and the proxies.                   *)
(***************************************************************************)
\* A process that is started is a new one.
LEMMA SpawnFacts ==
    ASSUME Typed, NEW p, NEW n, NEW q, Spawn(p, n, q)
    PROVE  /\ p \in Pids /\ nextPid <= p /\ nextPid' = p + 1 /\ nextPid \in Nat /\ p \in Nat
           /\ status[p] = "none" /\ kind[p] = "none"
           /\ status' = [status EXCEPT ![p] = "alive"]
           /\ owner' = [owner EXCEPT ![p] = n]
           /\ parent' = [parent EXCEPT ![p] = q]
<1>1. /\ p \in Pids /\ nextPid <= p /\ nextPid \in Nat /\ p \in Nat
  BY PidAssumption DEF Spawn, Typed, OsTypeOK, Pids
<1>2. status[p] = "none" /\ kind[p] = "none"
  BY <1>1 DEF Typed, Programs, Alive
<1> QED BY <1>1, <1>2 DEF Spawn

LEMMA SpawnTyped ==
    ASSUME Typed, NEW p, NEW n \in Owners, NEW q \in 0..MaxPid, Spawn(p, n, q)
    PROVE  OsTypeOK'
<1>1. OsTypeOK /\ p \in Pids /\ p + 1 \in 1..(MaxPid + 1)
  BY SpawnFacts, PidAssumption DEF Typed, Pids
<1>2. /\ status' = [status EXCEPT ![p] = "alive"] /\ owner' = [owner EXCEPT ![p] = n]
      /\ parent' = [parent EXCEPT ![p] = q] /\ nextPid' = p + 1
  BY SpawnFacts
<1> QED BY <1>1, <1>2 DEF OsTypeOK, Statuses

LEMMA ProxyStartStep == ASSUME Typed, NEW p \in Pids, ProxyStart(p) PROVE Typed'
<1> USE HandAssumption, PidAssumption
<1>1. Spawn(p, Agent, 0)
  BY DEF ProxyStart
<1>2. OsTypeOK'
  <2>1. Agent \in Owners /\ 0 \in 0..MaxPid
    BY DEF Owners
  <2> QED BY <1>1, <2>1, SpawnTyped
<1>3. /\ UNCHANGED <<file, table, scratch, ptable, ptab, queried, job, look, kind, stage,
                     serves, jobs, faults, ret, after, cur, victim, started>>
      /\ host' = [host EXCEPT ![Hand] = p, ![Clean] = p]
      /\ pc' = [pc EXCEPT ![Hand] = "p_touch", ![Clean] = "c_idle"]
      /\ host[Hand] = 0
  BY DEF ProxyStart, ProxyRuns, localVars, memVars, procVars, env
<1>4. DataTypeOK' /\ ProxyTypeOK'
  BY <1>3 DEF Typed, DataTypeOK, ProxyTypeOK
<1>5. ThreadTypeOK(Labels)'
  BY <1>3 DEF Typed, ThreadTypeOK, Labels, TableLabels, Pids
<1>6. Control'
  BY <1>3 DEF Typed, ThreadTypeOK, Control, Resting, InKillSelf, InFlush, AfterFork,
     RetLabels, AfterLabels, Pids
<1>7. Programs'
  <2>1. /\ p >= nextPid /\ nextPid' = p + 1 /\ kind[p] = "none" /\ nextPid \in Nat /\ p \in Nat
        /\ status' = [status EXCEPT ![p] = "alive"] /\ owner' = [owner EXCEPT ![p] = Agent]
    BY <1>1, SpawnFacts
  <2>2. host'[Hand] = p
    BY <1>3 DEF Typed, ThreadTypeOK
  <2>3. \A r \in Pids : r # p => status'[r] = status[r] /\ owner'[r] = owner[r]
    BY <2>1 DEF Typed, OsTypeOK
  <2>4. \A r \in Pids : r \in Nat /\ (status'[r] # "none" => r < nextPid')
    BY <2>1, <2>3 DEF Typed, Programs, Pids
  <2> QED BY <1>3, <2>1, <2>2, <2>3, <2>4 DEF Typed, Programs, Alive
<1> QED BY <1>2, <1>4, <1>5, <1>6, <1>7 DEF Typed

LEMMA ShellForkStep ==
    ASSUME Typed, NEW p \in Pids, NEW q \in Pids, ShellFork(p, q)
    PROVE  Typed'
<1>1. Spawn(q, owner[p], p) /\ kind[p] = "sh"
  BY DEF ShellFork
<1>2. owner[p] \in Names /\ Alive(p)
  BY <1>1 DEF Typed, Programs
<1>3. OsTypeOK'
  <2>1. owner[p] \in Owners /\ p \in 0..MaxPid
    BY <1>2, PidAssumption DEF Owners, Pids
  <2> QED BY <1>1, <2>1, SpawnTyped
<1>4. /\ UNCHANGED <<file, host, pc, ret, after, cur, victim, started, table, scratch,
                     ptable, ptab, queried, job, look, jobs, faults>>
      /\ kind' = [kind EXCEPT ![q] = "relay"]
      /\ stage' = [stage EXCEPT ![p] = "conf", ![q] = "conf"]
      /\ serves' = [serves EXCEPT ![q] = owner[p]]
  BY DEF ShellFork, localVars, memVars, env
<1>5. ThreadTypeOK(Labels)' /\ DataTypeOK' /\ Control'
  BY <1>4 DEF Typed, ThreadTypeOK, DataTypeOK, Control, Labels, TableLabels
<1>6. ProxyTypeOK'
  BY <1>2, <1>4 DEF Typed, ProxyTypeOK
<1>7. Programs'
  <2>1. /\ q >= nextPid /\ nextPid' = q + 1 /\ nextPid \in Nat /\ q \in Nat
        /\ status' = [status EXCEPT ![q] = "alive"] /\ owner' = [owner EXCEPT ![q] = owner[p]]
    BY <1>1, SpawnFacts
  <2>2. host'[Hand] < nextPid' /\ host[Hand] \in Nat
    BY <1>4, <2>1, HandAssumption DEF Typed, Programs, ThreadTypeOK
  <2>3. /\ \A r \in Pids : r # q => status'[r] = status[r] /\ owner'[r] = owner[r]
        /\ status'[q] = "alive" /\ owner'[q] = owner[p]
    BY <2>1 DEF Typed, OsTypeOK
  <2>4. \A r \in Pids : r \in Nat /\ (status'[r] # "none" => r < nextPid')
    BY <2>1, <2>3 DEF Typed, Programs, Pids
  <2>5. \A r \in Pids : r # q => kind'[r] = kind[r]
    BY <1>4 DEF Typed, ProxyTypeOK
  <2> QED BY <1>2, <2>2, <2>3, <2>4, <2>5 DEF Typed, Programs, Alive
<1> QED BY <1>3, <1>5, <1>6, <1>7 DEF Typed

\* A proxy that goes on reads its entry, becomes the relay, or listens.
Finds(p, n) ==
    /\ ptable.tab[n] = p /\ kind[p] # "none"
    /\ serves' = [serves EXCEPT ![p] = n]
    /\ stage' = [stage EXCEPT ![p] = "conf"] /\ kind' = kind

Becomes(p) ==
    /\ kind[p] = "sh"
    /\ serves' = [serves EXCEPT ![p] = owner[p]]
    /\ stage' = [stage EXCEPT ![p] = "conf"] /\ kind' = [kind EXCEPT ![p] = "relay"]

Listens(p) ==
    stage' = [stage EXCEPT ![p] = "listen"] /\ UNCHANGED <<kind, serves>>

LEMMA TendingCases ==
    ASSUME Typed, NEW p \in Pids, Tending(p)
    PROVE  \/ Dies(p) /\ p < nextPid
           \/ /\ Becomes(p) \/ Listens(p) \/ \E n \in Names : Finds(p, n)
              /\ UNCHANGED <<tableVars, ptable, memVars, env>>
<1>1. kind[p] # "none" \/ Alive(p) => p < nextPid
  BY DEF Typed, Programs, Alive
<1>2. ASSUME Ends(p) PROVE Dies(p)
  BY <1>2 DEF Ends, Dies, env
<1>3. CASE EdgeRead(p)
  BY <1>1, <1>2, <1>3 DEF EdgeRead, Finds
<1>4. CASE ShellExec(p)
  BY <1>4 DEF ShellExec, Becomes
<1>5. CASE Bind(p)
  BY <1>1, <1>2, <1>5 DEF Bind, Listens
<1>6. CASE ShellEnd(p) \/ Watch(p)
  BY <1>1, <1>2, <1>6 DEF ShellEnd, Watch
<1>7. CASE Crash(p)
  BY <1>1, <1>7 DEF Crash, Dies
<1> QED BY <1>3, <1>4, <1>5, <1>6, <1>7 DEF Tending

LEMMA TendingStep == ASSUME Typed, NEW p \in Pids, Tending(p) PROVE Typed'
<1>1. CASE Dies(p) /\ p < nextPid
  BY <1>1, DiesStep
<1>2. CASE /\ Becomes(p) \/ Listens(p) \/ \E n \in Names : Finds(p, n)
           /\ UNCHANGED <<tableVars, ptable, memVars, env>>
  <2>1. ProxyTypeOK' /\ \A r \in Pids : kind'[r] # "none" => kind[r] # "none"
    <3>1. Becomes(p) => owner[p] \in Names
      BY DEF Becomes, Typed, Programs
    <3>2. UNCHANGED <<ptable, ptab, queried, job, look, jobs, faults>>
      BY <1>2 DEF memVars, env
    <3>3. /\ kind' \in [Pids -> {"none", "tcpProxy", "sh", "relay"}]
          /\ stage' \in [Pids -> {"none", "init", "conf", "listen"}]
          /\ serves' \in [Pids -> Names \cup {Nobody}]
          /\ \A r \in Pids : kind'[r] # "none" => kind[r] # "none"
      BY <1>2, <3>1 DEF Becomes, Listens, Finds, Typed, ProxyTypeOK
    <3> QED BY <3>2, <3>3 DEF Typed, ProxyTypeOK
  <2>2. TableTyped' /\ Control'
    BY <1>2 DEF tableVars, osVars, localVars, memVars, TableTyped, Typed, OsTypeOK,
       ThreadTypeOK, DataTypeOK, Control
  <2>3. Programs'
    BY <1>2, <2>1 DEF tableVars, osVars, Typed, Programs, Alive
  <2> QED BY <2>1, <2>2, <2>3 DEF Typed, TableTyped
<1> QED BY <1>1, <1>2, TendingCases

LEMMA TypedInit == Init => Typed
<1> SUFFICES ASSUME Init PROVE Typed
  OBVIOUS
<1> USE HandAssumption, NamesAssumption, PidAssumption, JobAssumption DEF Init, TableInit
<1>1. OsTypeOK
  BY DEF OsTypeOK, Statuses, Owners
<1>2. ThreadTypeOK(Labels)
  BY DEF ThreadTypeOK, Labels, TableLabels
<1>3. DataTypeOK
  BY MapFacts DEF DataTypeOK
<1>4. ProxyTypeOK
  <2>1. job \in [type : Types \cup {"none"}, key : Names \cup {Nobody},
                 status : -1..1, pid : 0..MaxPid]
    BY DEF NoJob
  <2>2. ptable \in Files /\ ptab \in Maps /\ look \in [Names -> 0..MaxPid]
    BY MapFacts
  <2> QED BY <2>1, <2>2 DEF ProxyTypeOK
<1>5. Control
  BY DEF Control, Resting, InKillSelf, InFlush, AfterFork, RetLabels, AfterLabels
<1>6. Programs
  BY DEF Programs
<1> QED BY <1>1, <1>2, <1>3, <1>4, <1>5, <1>6 DEF Typed

LEMMA TypedStep == ASSUME Typed, [Next]_vars PROVE Typed'
<1>1. CASE UNCHANGED vars
  BY <1>1
  DEF vars, tableVars, osVars, localVars, memVars, procVars, env, Typed, OsTypeOK,
      ThreadTypeOK, DataTypeOK, ProxyTypeOK, Control, Programs, Alive
<1> QED
  BY <1>1, Steps, LocalTyped, OperationStep, UnluckyStep, CleanStep, ProxyStartStep,
     ShellForkStep, TendingStep

\* Every variable stays in its type: no strategy is carried out without a
\* key, no process id is used twice, and only the proxies of keys run.
THEOREM TypeCorrect == Spec => []TypeOK
<1>1. Init => Typed
  BY TypedInit
<1>2. Typed /\ [Next]_vars => Typed'
  BY TypedStep
<1>3. Typed => TypeOK
  BY TypeParts DEF Typed
<1> QED BY <1>1, <1>2, <1>3, PTL DEF Spec
-----------------------------------------------------------------------------
(***************************************************************************)
(* A damaged proxy-table.json.                                             *)
(***************************************************************************)
LEMMA DeafStep == ASSUME Typed, Deaf, [Next]_vars PROVE Deaf'
<1>0. /\ ptable \in {Empty, Garbage} /\ pc[Hand] \in {"off", "p_touch", "h_idle"}
      /\ ~Readable(ptable) /\ ptable # Absent
      /\ pc \in [Threads -> Labels] /\ Hand \in Threads /\ Clean \in Threads /\ Hand # Clean
  BY HandAssumption
  DEF Deaf, Readable, Empty, Garbage, Absent, Typed, ThreadTypeOK
<1>1. ASSUME ptable' = ptable, pc'[Hand] \in {pc[Hand], "off"} PROVE Deaf'
  BY <1>0, <1>1 DEF Deaf, Empty, Garbage, Nothing
<1> USE DEF Goto
<1>2. CASE UNCHANGED vars
  BY <1>1, <1>2 DEF vars, tableVars
<1>3. CASE Local
  <2>1. CASE TableTouch
    BY <1>0, <2>1 DEF TableTouch, Deaf
  <2>2. CASE \E order \in Orders : Receive(order)
    BY <1>0, <1>1, <2>2 DEF Receive
  <2>3. CASE CleanRead \/ CleanEnd
    BY <1>0, <1>1, <2>3 DEF CleanRead, CleanEnd
  <2>4. ~(TableMade \/ HandCheck \/ Deciding \/ Ending)
    BY <1>0 DEF TableMade, HandCheck, Deciding, Ending, ExecStop, Stopped, ExecStart,
       ExecMissing, Started, ExecUnknown, ProxyTrunc, ProxyWrite, ProxyFlushFail, Publish
  <2> QED BY <1>3, <2>1, <2>2, <2>3, <2>4 DEF Local, Reading
<1>4. ~(Operation \/ Unlucky)
  BY <1>0 DEF Operation, Unlucky, TableStep, Trunc, Write, ClearRead, Signal, SignalNext,
     Killed, ReadStart, Panic, Fork, ForkFail, FlushFail
<1>5. ASSUME NEW n \in Names, CleanOne(n) PROVE Deaf'
  <2>1. ptable' = ptable /\ pc'[Hand] \in {pc[Hand], "off"}
    BY <1>0, <1>5 DEF CleanOne, KillProcess, ThreadsEnd, Lost, tableVars
  <2> QED BY <1>1, <2>1
<1>6. ASSUME NEW p \in Pids, ProxyStart(p) PROVE Deaf'
  BY <1>0, <1>6 DEF ProxyStart, Deaf
<1>7. ASSUME NEW p \in Pids, NEW q \in Pids, ShellFork(p, q) PROVE Deaf'
  BY <1>1, <1>7 DEF ShellFork
<1>8. ASSUME NEW p \in Pids, Tending(p) PROVE Deaf'
  <2>1. Dies(p) => ptable' = ptable /\ pc'[Hand] \in {pc[Hand], "off"}
    BY <1>0 DEF Dies, Exit, ThreadsEnd, Lost
  <2>2. UNCHANGED <<tableVars, ptable, memVars, env>> => ptable' = ptable /\ pc'[Hand] = pc[Hand]
    BY DEF tableVars
  <2> QED BY <1>1, <1>8, <2>1, <2>2, TendingCases
<1> QED BY <1>2, <1>3, <1>4, <1>5, <1>6, <1>7, <1>8, Steps

\* Once proxy-table.json is damaged decept-proxy takes no strategy any more,
\* whatever crashes, restarts, faults and strategies follow.
THEOREM DeafForEver == Spec => DeafStable
<1>1. Init => Typed
  BY TypedInit
<1>2. Typed /\ [Next]_vars => Typed'
  BY TypedStep
<1>3. Typed /\ [Next]_vars => [Deaf => Deaf']_vars
  BY DeafStep
<1> QED BY <1>1, <1>2, <1>3, PTL DEF Spec, DeafStable

-----------------------------------------------------------------------------
(***************************************************************************)
(* The key a proxy serves.  The entries of proxy-table.json, and of the    *)
(* map Hand will write into it, are processes that were started for the    *)
(* key they stand under; this outlives the process, because no process id  *)
(* is used twice.                                                          *)
(***************************************************************************)
\* No step changes whom an old process was started for, or revives it.
LEMMA Later ==
    ASSUME Typed, [Next]_vars
    PROVE  /\ nextPid \in Nat /\ nextPid' \in Nat /\ nextPid <= nextPid'
           /\ \A p \in Pids : p < nextPid =>
                owner'[p] = owner[p] /\ (status'[p] = "alive" => status[p] = "alive")
<1>0. nextPid \in Nat /\ nextPid' \in Nat
  BY TypedStep DEF Typed, OsTypeOK
<1>1. CASE UNCHANGED <<status, owner, nextPid>>
  BY <1>0, <1>1
<1>2. ASSUME NEW p \in Pids, NEW q, NEW npc, Death(p, q, npc)
      PROVE  /\ nextPid <= nextPid'
             /\ \A r \in Pids : r < nextPid =>
                  owner'[r] = owner[r] /\ (status'[r] = "alive" => status[r] = "alive")
  BY <1>0, <1>2 DEF Death, Gone
<1>3. ASSUME NEW p, NEW n, NEW q, Spawn(p, n, q)
      PROVE  /\ nextPid <= nextPid'
             /\ \A r \in Pids : r < nextPid =>
                  owner'[r] = owner[r] /\ (status'[r] = "alive" => status[r] = "alive")
  <2>1. /\ p \in Pids /\ nextPid <= p /\ nextPid' = p + 1 /\ p \in Nat
        /\ status' = [status EXCEPT ![p] = "alive"] /\ owner' = [owner EXCEPT ![p] = n]
    BY <1>3, SpawnFacts
  <2>2. \A r \in Pids : r < nextPid => r # p
    BY <1>0, <2>1 DEF Pids
  <2> QED BY <1>0, <2>1, <2>2 DEF Typed, OsTypeOK
<1>4. CASE UNCHANGED vars \/ Local
  BY <1>1, <1>4, LocalFrame DEF vars, tableVars, osVars
<1>5. CASE Operation
  <2>1. CASE \/ Trunc(Hand) \/ Write(Hand) \/ ClearRead(Hand)
             \/ ReadStart(Hand) \/ ForkFail(Hand) \/ Returns
    BY <1>1, <2>1
    DEF Trunc, Write, FlushReturn, ClearRead, ReadStart, ForkFail, Returns, KillReturn, osVars
  <2>2. CASE \E p \in Pids : Fork(Hand, p)
    BY <1>0, <1>3, <2>2 DEF Fork
  <2>3. CASE Panics
    <3>1. host[Hand] \in Pids
      BY <2>3, HandAssumption DEF Panics, Typed, Control, ThreadTypeOK, Pids
    <3> QED BY <1>0, <1>2, <2>3, <3>1 DEF Panics
  <2>4. CASE \E p \in Pids, l \in {"next", "killed"} : Kills(p, l)
    BY <1>0, <1>2, <2>4 DEF Kills
  <2> QED BY <1>5, <2>1, <2>2, <2>3, <2>4, OperationCases
<1>6. CASE Unlucky
  BY <1>1, <1>6 DEF Unlucky, FlushFail, FlushReturn, ForkFail, osVars
<1>7. ASSUME NEW n \in Names, CleanOne(n)
      PROVE  \/ UNCHANGED <<status, owner, nextPid>>
             \/ \E p \in Pids : \E q, npc : Death(p, q, npc)
  BY <1>7 DEF CleanOne, IsZombie, KillProcess, Death, tableVars, osVars
<1>8. ASSUME NEW p \in Pids, Tending(p)
      PROVE  UNCHANGED <<status, owner, nextPid>> \/ Death(p, 0, pc)
  BY <1>8, TendingCases DEF Dies, Exit, Death, tableVars, osVars
<1>9. CASE \E p \in Pids : ProxyStart(p)
  BY <1>0, <1>3, <1>9 DEF ProxyStart
<1>10. CASE \E p \in Pids, q \in Pids : ShellFork(p, q)
  BY <1>0, <1>3, <1>10 DEF ShellFork
<1> QED BY <1>0, <1>1, <1>2, <1>4, <1>5, <1>6, <1>7, <1>8, <1>9, <1>10, Steps

-----------------------------------------------------------------------------
(***************************************************************************)
(* The key a proxy serves.  Whatever copy of proxy-table.json a tcpProxy   *)
(* reads, an id in it belongs to a process that was started for its key.   *)
(***************************************************************************)
\* p is no process, or one that was started for n.
For(p, n) == p # 0 => p < nextPid /\ owner[p] = n
Entered(tab) == \A n \in Names : For(tab[n], n)

Owned ==
    /\ Entered(ptable.tab) /\ Entered(ptab.tab)
    /\ started[Hand] > 0 => For(started[Hand], job.key)

\* The same of the next state.
ForNext(p, n) == p # 0 => p < nextPid' /\ owner'[p] = n

LEMMA ForStays ==
    ASSUME Typed, [Next]_vars
    PROVE  \A p \in 0..MaxPid : \A n : For(p, n) => ForNext(p, n)
<1> SUFFICES ASSUME NEW p \in 0..MaxPid, NEW n, For(p, n), p # 0 PROVE ForNext(p, n)
  BY DEF ForNext
<1>1. p \in Pids /\ p < nextPid /\ owner[p] = n
  BY PidAssumption DEF For, Pids
<1>2. owner'[p] = n /\ p < nextPid'
  BY <1>1, Later DEF Pids
<1> QED BY <1>2 DEF ForNext

\* A step that moves the maps around keeps them right.
LEMMA OwnedMoves ==
    ASSUME Typed, Owned, [Next]_vars,
           ptable'.tab \in {ptable.tab, ptab.tab, Nothing},
           \/ ptab'.tab \in {ptable.tab, ptab.tab, Nothing}
           \/ \A n \in Names : ForNext(ptab'.tab[n], n),
           \/ started'[Hand] \in {0, -1}
           \/ started'[Hand] = started[Hand] /\ job'.key = job.key
           \/ ForNext(started'[Hand], job'.key)
    PROVE  Owned'
<1>0. /\ ptable.tab \in [Names -> 0..MaxPid] /\ ptab.tab \in [Names -> 0..MaxPid]
      /\ started[Hand] \in -1..MaxPid
  BY HandAssumption DEF Typed, ProxyTypeOK, ThreadTypeOK, Files, Maps
<1>1. \A tab \in {ptable.tab, ptab.tab, Nothing} : \A n \in Names : ForNext(tab[n], n)
  <2>1. \A n \in Names : ForNext(Nothing[n], n)
    BY DEF ForNext, Nothing
  <2>2. \A n \in Names : ForNext(ptable.tab[n], n) /\ ForNext(ptab.tab[n], n)
    BY <1>0, ForStays DEF Owned, Entered
  <2> QED BY <2>1, <2>2
<1>2. Entered(ptable.tab)' /\ Entered(ptab.tab)'
  BY <1>1 DEF Entered, For, ForNext
<1>3. started'[Hand] > 0 => ForNext(started'[Hand], job'.key)
  <2>1. started[Hand] > 0 => ForNext(started[Hand], job.key)
    BY <1>0, ForStays, PidAssumption DEF Owned
  <2> QED BY <2>1
<1>4. (started[Hand] > 0 => For(started[Hand], job.key))'
  BY <1>3 DEF For, ForNext
<1> QED BY <1>2, <1>4 DEF Owned

LEMMA OwnedLocal == ASSUME Typed, Owned, Local, [Next]_vars PROVE Owned'
<1>0. /\ job \in [type : Types \cup {"none"}, key : Names \cup {Nobody},
                  status : -1..1, pid : 0..MaxPid]
      /\ ptable \in Files /\ ptab \in Maps /\ started \in [Threads -> -1..MaxPid]
      /\ Hand \in Threads
  BY HandAssumption DEF Typed, ProxyTypeOK, ThreadTypeOK
<1>1. pc[Hand] \notin InFlush \cup AfterFork => started[Hand] = 0
  BY DEF Typed, Control, InFlush, AfterFork
<1> USE DEF localVars, memVars
<1>2. CASE \/ TableTouch \/ TableMade \/ ProxyTrunc \/ ProxyWrite \/ ProxyFlushFail
  <2>1. ptable'.tab \in {ptable.tab, ptab.tab, Nothing}
    BY <1>0, <1>2, MapFacts
    DEF TableTouch, TableMade, ProxyTrunc, ProxyWrite, ProxyFlushFail, Empty, NewMap, Marshal
  <2>2. UNCHANGED <<ptab, job, started>>
    BY <1>2 DEF TableTouch, TableMade, ProxyTrunc, ProxyWrite, ProxyFlushFail
  <2> QED BY <2>1, <2>2, OwnedMoves
<1>3. ASSUME NEW order, Receive(order) PROVE Owned'
  <2>1. /\ ptable' = ptable /\ ptab'.tab \in {ptable.tab, ptab.tab} /\ started' = started
    BY <1>0, <1>3, MapFacts DEF Receive
  <2>2. started[Hand] = 0
    BY <1>1, <1>3 DEF Receive, InFlush, AfterFork
  <2> QED BY <2>1, <2>2, OwnedMoves
<1>4. CASE HandCheck \/ ExecStop \/ ExecStart \/ ExecUnknown
  <2>1. UNCHANGED <<ptable, ptab, started>>
    BY <1>4 DEF HandCheck, ExecStop, ExecStart, ExecUnknown
  <2>2. job'.key = job.key
    BY <1>0, <1>4 DEF HandCheck, ExecStop, ExecStart, ExecUnknown
  <2> QED BY <2>1, <2>2, OwnedMoves
<1>5. ASSUME NEW st, NEW p \in 0..MaxPid, Outcome(st, p), For(p, job.key),
             ptable' = ptable, started'[Hand] \in {0, started[Hand]}
      PROVE  Owned'
  <2>1. ptab'.tab = [ptab.tab EXCEPT ![job.key] = p]
    BY <1>0, <1>5, SetEntry DEF Outcome
  <2>2. ForNext(p, job.key)
    BY <1>5, ForStays
  <2>3. ptab.tab \in [Names -> 0..MaxPid]
    BY <1>0 DEF Maps
  <2>4. \A n \in Names : ForNext(ptab.tab[n], n)
    BY <2>3, ForStays DEF Owned, Entered
  <2>5. \A n \in Names : ForNext(ptab'.tab[n], n)
    BY <2>1, <2>2, <2>3, <2>4
  <2>6. job'.key = job.key
    BY <1>0, <1>5 DEF Outcome
  <2> QED BY <1>5, <2>5, <2>6, OwnedMoves
<1>6. For(0, job.key) /\ 0 \in 0..MaxPid
  BY PidAssumption DEF For
<1>7. CASE Stopped \/ ExecMissing
  BY <1>5, <1>6, <1>7 DEF Stopped, ExecMissing
<1>8. CASE Started
  <2>1. ptable' = ptable /\ started'[Hand] = 0
    BY <1>0, <1>8 DEF Started
  <2>2. CASE started[Hand] \in {-1, 0}
    BY <1>5, <1>6, <1>8, <2>1, <2>2 DEF Started
  <2>3. CASE started[Hand] > 0
    <3>1. For(started[Hand], job.key) /\ started[Hand] \in 0..MaxPid /\ started[Hand] # -1
      BY <1>0, <2>3 DEF Owned
    <3> QED BY <1>5, <1>8, <2>1, <3>1 DEF Started
  <2> QED BY <1>0, <2>2, <2>3
<1>9. CASE Publish
  <2>1. ptable' = ptable /\ ptab'.tab = Nothing /\ started' = started
    BY <1>9 DEF Publish, NilMap
  <2>2. started[Hand] = 0
    BY <1>1, <1>9 DEF Publish, InFlush, AfterFork
  <2> QED BY <2>1, <2>2, OwnedMoves
<1>10. CASE CleanRead \/ CleanEnd
  <2>1. UNCHANGED <<ptable, ptab, job, started>>
    BY <1>10 DEF CleanRead, CleanEnd
  <2> QED BY <2>1, OwnedMoves
<1> QED
  BY <1>2, <1>3, <1>4, <1>7, <1>8, <1>9, <1>10 DEF Local, Reading, Deciding, Ending

LEMMA OwnedDeath ==
    ASSUME Typed, Owned, [Next]_vars, NEW p, NEW q, NEW npc, Death(p, q, npc),
           ptable' = ptable, Memory \/ UNCHANGED <<ptab, job>>
    PROVE  Owned'
<1>1. /\ started'[Hand] \in {0, started[Hand]}
      /\ host'[Hand] # host[Hand] => started'[Hand] = 0
  BY HandAssumption DEF Death, ThreadsEnd, Lost
<1>2. \/ ptab'.tab \in {ptab.tab, Nothing} /\ (host'[Hand] = host[Hand] => job' = job)
      \/ UNCHANGED <<ptab, job>>
  BY DEF Memory, memVars, NilMap
<1> QED BY <1>1, <1>2, OwnedMoves

LEMMA OwnedStep == ASSUME Typed, Owned, [Next]_vars PROVE Owned'
<1> USE HandAssumption
<1>1. CASE UNCHANGED <<ptable, ptab, job>> /\ started'[Hand] \in {0, -1, started[Hand]}
  BY <1>1, OwnedMoves
<1>2. CASE UNCHANGED vars
  BY <1>1, <1>2 DEF vars, tableVars, localVars, memVars
<1>3. CASE Operation
  <2>0. Memory /\ ptable' = ptable /\ started \in [Threads -> -1..MaxPid]
    BY <1>3, OperationCases DEF Typed, ThreadTypeOK
  <2>1. CASE \/ Trunc(Hand) \/ Write(Hand) \/ ClearRead(Hand)
             \/ ReadStart(Hand) \/ ForkFail(Hand) \/ Returns
    <3>1. host' = host /\ started'[Hand] \in {0, -1, started[Hand]}
      BY <2>0, <2>1
      DEF Trunc, Write, FlushReturn, ClearRead, ReadStart, ForkFail, Returns, KillReturn,
          localVars
    <3> QED BY <1>1, <2>0, <3>1 DEF Memory, memVars
  <2>2. ASSUME NEW p \in Pids, Fork(Hand, p) PROVE Owned'
    <3>1. Spawn(p, cur[Hand], host[Hand]) /\ host' = host /\ started'[Hand] = p
      BY <2>0, <2>2 DEF Fork
    <3>2. cur[Hand] = job.key
      BY <2>2 DEF Fork, Typed, Control
    <3>3. UNCHANGED <<ptab, job>>
      BY <2>0, <3>1 DEF Memory, memVars
    <3>4. owner'[p] = cur[Hand] /\ p < nextPid'
      BY <3>1, SpawnFacts DEF Typed, OsTypeOK
    <3> QED BY <2>0, <3>1, <3>2, <3>3, <3>4, OwnedMoves DEF ForNext
  <2>3. CASE Panics \/ \E p \in Pids, l \in {"next", "killed"} : Kills(p, l)
    BY <2>0, <2>3, OwnedDeath DEF Panics, Kills
  <2> QED BY <1>3, <2>1, <2>2, <2>3, OperationCases
<1>4. CASE Unlucky
  <2>1. started'[Hand] \in {-1, started[Hand]}
    BY <1>4 DEF Unlucky, FlushFail, FlushReturn, ForkFail, Typed, ThreadTypeOK
  <2> QED BY <1>1, <1>4, <2>1 DEF Unlucky, memVars
<1>5. ASSUME NEW n \in Names, CleanOne(n) PROVE Owned'
  <2>1. UNCHANGED <<ptable, ptab, job>>
    BY <1>5 DEF CleanOne
  <2>2. CASE UNCHANGED <<tableVars, procVars>>
    BY <1>1, <2>1, <2>2 DEF tableVars, localVars
  <2>3. CASE KillProcess(Clean, look[n], "c_loop")
    BY <2>1, <2>3, OwnedDeath DEF KillProcess, Death
  <2> QED BY <1>5, <2>2, <2>3 DEF CleanOne
<1>6. CASE \/ \E p \in Pids : ProxyStart(p)
           \/ \E p \in Pids, q \in Pids : ShellFork(p, q)
  BY <1>1, <1>6 DEF ProxyStart, ShellFork, localVars, memVars
<1>7. ASSUME NEW p \in Pids, Tending(p) PROVE Owned'
  <2>1. CASE Dies(p)
    BY <2>1, OwnedDeath DEF Dies, Exit, Death
  <2>2. CASE UNCHANGED <<tableVars, ptable, memVars, env>>
    BY <1>1, <2>2 DEF tableVars, localVars, memVars
  <2> QED BY <1>7, <2>1, <2>2, TendingCases
<1> QED BY <1>2, <1>3, <1>4, <1>5, <1>6, <1>7, OwnedLocal, Steps
\* The proxies that live on serve what they served before.
LEMMA ServesProcesses ==
    ASSUME Typed, ServesItsKey, [Next]_vars, Processes
    PROVE  ServesItsKey'
<1> SUFFICES ASSUME NEW p \in Pids, serves'[p] # Nobody
             PROVE  Alive(p)' /\ serves'[p] = owner'[p]
  BY DEF ServesItsKey
<1>1. status'[p] = "alive" /\ Alive(p) /\ serves'[p] = serves[p]
  BY DEF Processes
<1>2. p < nextPid /\ serves[p] = owner[p]
  BY <1>1 DEF ServesItsKey, Typed, Programs, Alive
<1> QED BY <1>1, <1>2, Later DEF Alive

LEMMA ServesStep == ASSUME Typed, Owned, ServesItsKey, [Next]_vars PROVE ServesItsKey'
<1>1. CASE UNCHANGED <<status, owner, serves>>
  BY <1>1 DEF ServesItsKey, Alive
<1>2. CASE UNCHANGED vars
  BY <1>1, <1>2 DEF vars, tableVars, osVars, procVars
<1>3. CASE Local
  BY <1>1, <1>3, LocalFrame
<1>4. CASE Operation
  BY <1>4, OperationCases, ServesProcesses
<1>5. CASE Unlucky
  BY <1>1, <1>5 DEF Unlucky, FlushFail, FlushReturn, ForkFail, osVars, procVars
<1>6. ASSUME NEW n \in Names, CleanOne(n) PROVE ServesItsKey'
  BY <1>1, <1>6, ServesProcesses DEF CleanOne, tableVars, osVars, procVars
<1>7. ASSUME NEW q, NEW n, NEW r, Spawn(q, n, r),
             \A p \in Pids : p # q => serves'[p] = serves[p],
             serves'[q] \in {n, Nobody}
      PROVE  ServesItsKey'
  <2> SUFFICES ASSUME NEW p \in Pids, serves'[p] # Nobody
               PROVE  Alive(p)' /\ serves'[p] = owner'[p]
    BY DEF ServesItsKey
  <2>1. /\ q \in Pids /\ status' = [status EXCEPT ![q] = "alive"]
        /\ owner' = [owner EXCEPT ![q] = n]
    BY <1>7, SpawnFacts
  <2>2. status \in [Pids -> Statuses] /\ owner \in [Pids -> Owners]
    BY DEF Typed, OsTypeOK
  <2> QED BY <1>7, <2>1, <2>2 DEF Alive, ServesItsKey
<1>8. ASSUME NEW q \in Pids, ProxyStart(q) PROVE ServesItsKey'
  <2>1. Spawn(q, Agent, 0) /\ serves' = serves
    BY <1>8 DEF ProxyStart, procVars
  <2>2. serves[q] = Nobody
    BY <2>1, SpawnFacts DEF ServesItsKey, Alive
  <2> QED BY <1>7, <2>1, <2>2
<1>9. ASSUME NEW p \in Pids, NEW q \in Pids, ShellFork(p, q) PROVE ServesItsKey'
  <2>1. Spawn(q, owner[p], p) /\ serves' = [serves EXCEPT ![q] = owner[p]]
    BY <1>9 DEF ShellFork
  <2>2. \A r \in Pids : serves'[r] = IF r = q THEN owner[p] ELSE serves[r]
    BY <2>1 DEF Typed, ProxyTypeOK
  <2> QED BY <1>7, <2>1, <2>2
<1>10. ASSUME NEW p \in Pids, Tending(p) PROVE ServesItsKey'
  <2>1. CASE Dies(p)
    BY <2>1, ServesProcesses DEF Dies
  <2>2. CASE /\ Becomes(p) \/ Listens(p) \/ \E n \in Names : Finds(p, n)
             /\ UNCHANGED <<tableVars, ptable, memVars, env>>
    <3>0. UNCHANGED <<status, owner>> /\ serves \in [Pids -> Names \cup {Nobody}]
      BY <2>2 DEF tableVars, osVars, Typed, ProxyTypeOK
    <3>1. CASE Listens(p)
      BY <1>1, <3>0, <3>1 DEF Listens
    <3>2. ASSUME kind[p] # "none", serves' = [serves EXCEPT ![p] = owner[p]]
          PROVE  ServesItsKey'
      <4>1. Alive(p)
        BY <3>2 DEF Typed, Programs
      <4> QED BY <3>0, <3>2, <4>1 DEF ServesItsKey, Alive
    <3>3. CASE Becomes(p)
      BY <3>2, <3>3 DEF Becomes
    <3>4. ASSUME NEW n \in Names, Finds(p, n) PROVE ServesItsKey'
      <4>1. p # 0 /\ ptable.tab[n] = p
        BY <3>4, PidAssumption DEF Finds, Pids
      <4>2. owner[p] = n
        BY <4>1 DEF Owned, Entered, For
      <4> QED BY <3>2, <3>4, <4>2 DEF Finds
    <3> QED BY <2>2, <3>1, <3>3, <3>4
  <2> QED BY <1>10, <2>1, <2>2, TendingCases
<1> QED BY <1>2, <1>3, <1>4, <1>5, <1>6, <1>8, <1>9, <1>10, Steps

\* A proxy serves the key it was started for, although it learns that key
\* from a file that later strategies rewrite while it starts.
THEOREM ServesTheRightKey == Spec => []ServesItsKey
<1>1. Init => Typed /\ Owned /\ ServesItsKey
  <2> SUFFICES ASSUME Init PROVE Owned /\ ServesItsKey
    BY TypedInit
  <2>1. ptable.tab = Nothing /\ ptab.tab = Nothing /\ started[Hand] = 0
    BY HandAssumption DEF Init, TableInit, Absent, NilMap
  <2>2. Owned
    BY <2>1 DEF Owned, Entered, For, Nothing
  <2> QED BY <2>2 DEF Init, ServesItsKey
<1>2. Typed /\ [Next]_vars => Typed'
  BY TypedStep
<1>3. Typed /\ Owned /\ [Next]_vars => Owned'
  BY OwnedStep
<1>4. Typed /\ Owned /\ ServesItsKey /\ [Next]_vars => ServesItsKey'
  BY ServesStep
<1> QED BY <1>1, <1>2, <1>3, <1>4, PTL DEF Spec
-----------------------------------------------------------------------------
(***************************************************************************)
(* What a stopping strategy kills.  The process recorded when it arrived   *)
(* is dead once KillSelf has passed its first signal; it stays dead, since *)
(* what the tables record are ids that are not given out again.            *)
(***************************************************************************)
Past(tab) == \A n \in Names : tab[n] < nextPid
PastNext(tab) == \A n \in Names : tab[n] < nextPid'

Known ==
    /\ Past(file.tab) /\ Past(table[Hand].tab) /\ Past(scratch[Hand].tab)
    /\ queried < nextPid /\ victim[Hand] < nextPid

\* The tables at hand, and the ids in them.
Tabs == {file.tab, table[Hand].tab, scratch[Hand].tab, Nothing}
Given(p) == p \in {0, queried, victim[Hand]} \/ \E n \in Names : p = file.tab[n]

LEMMA KnownFacts ==
    ASSUME Typed, Known, [Next]_vars
    PROVE  /\ \A tab \in Tabs : tab \in [Names -> 0..MaxPid] /\ PastNext(tab)
           /\ \A p : Given(p) => p \in 0..MaxPid /\ p < nextPid /\ p < nextPid'
<1>1. /\ nextPid \in Nat /\ nextPid' \in Nat /\ 0 < nextPid /\ nextPid <= nextPid'
  BY Later DEF Typed, OsTypeOK
<1>2. /\ file.tab \in [Names -> 0..MaxPid] /\ table[Hand].tab \in [Names -> 0..MaxPid]
      /\ scratch[Hand].tab \in [Names -> 0..MaxPid] /\ Nothing \in [Names -> 0..MaxPid]
      /\ queried \in 0..MaxPid /\ victim[Hand] \in 0..MaxPid /\ 0 \in 0..MaxPid
  BY HandAssumption, PidAssumption
  DEF Typed, DataTypeOK, ProxyTypeOK, ThreadTypeOK, Files, Maps, Nothing
<1>3. Past(Nothing)
  BY <1>1 DEF Past, Nothing
<1>4. \A tab \in Tabs : tab \in [Names -> 0..MaxPid] /\ Past(tab)
  BY <1>2, <1>3 DEF Tabs, Known
<1>5. \A tab \in Tabs : PastNext(tab)
  BY <1>1, <1>4 DEF Past, PastNext
<1>6. \A p : Given(p) => p \in 0..MaxPid /\ p < nextPid
  BY <1>1, <1>2 DEF Given, Known, Past
<1> QED BY <1>1, <1>4, <1>5, <1>6

LEMMA KnownMoves ==
    ASSUME Typed, Known, [Next]_vars,
           file'.tab \in Tabs,
           table'[Hand].tab \in Tabs \/ PastNext(table'[Hand].tab),
           scratch'[Hand].tab \in Tabs \/ PastNext(scratch'[Hand].tab),
           Given(queried'), Given(victim'[Hand])
    PROVE  Known'
<1>1. PastNext(file'.tab) /\ PastNext(table'[Hand].tab) /\ PastNext(scratch'[Hand].tab)
  BY KnownFacts
<1>2. queried' < nextPid' /\ victim'[Hand] < nextPid'
  BY KnownFacts
<1> QED BY <1>1, <1>2 DEF Known, Past, PastNext

LEMMA KnownDeath ==
    ASSUME Typed, Known, [Next]_vars, NEW p, NEW q, NEW npc, Death(p, q, npc),
           queried' \in {0, queried}
    PROVE  Known'
<1>1. /\ file' = file /\ table'[Hand] \in {table[Hand], NilMap}
      /\ scratch'[Hand] \in {scratch[Hand], NilMap} /\ victim'[Hand] \in {0, victim[Hand]}
  BY HandAssumption DEF Death, ThreadsEnd, Lost
<1>2. NilMap.tab = Nothing
  BY DEF NilMap
<1> QED BY <1>1, <1>2, KnownMoves DEF Tabs, Given

LEMMA KnownStep == ASSUME Typed, Known, [Next]_vars PROVE Known'
<1>0. /\ Hand \in Threads /\ file \in Files /\ table \in [Threads -> Maps]
      /\ scratch \in [Threads -> Maps] /\ victim \in [Threads -> 0..MaxPid]
      /\ NilMap.tab = Nothing /\ Empty.tab = Nothing /\ Garbage.tab = Nothing
  BY HandAssumption DEF Typed, DataTypeOK, ThreadTypeOK, NilMap, Empty, Garbage
<1>1. CASE UNCHANGED <<file, table, scratch>> /\ Given(queried') /\ Given(victim'[Hand])
  BY <1>1, KnownMoves DEF Tabs
<1>2. CASE UNCHANGED vars
  BY <1>1, <1>2 DEF vars, tableVars, localVars, memVars, Given
<1>3. CASE Local
  <2>1. Given(queried') /\ Given(victim'[Hand])
    <3>1. CASE \E order \in Orders : Receive(order)
      BY <3>1 DEF Receive, localVars, Given, Orders
    <3>2. CASE HandCheck \/ ExecStop
      <4>1. queried' = queried
        BY <3>2 DEF HandCheck, ExecStop, memVars
      <4>2. victim'[Hand] \in {victim[Hand], queried}
        BY <1>0, <3>2 DEF HandCheck, ExecStop, CallKillSelf
      <4> QED BY <4>1, <4>2 DEF Given
    <3>3. CASE TableTouch \/ TableMade \/ CleanRead \/ CleanEnd
      BY <3>3 DEF TableTouch, TableMade, CleanRead, CleanEnd, localVars, memVars, Given
    <3>4. CASE Stopped \/ ExecStart \/ ExecMissing \/ Started \/ ExecUnknown
      BY <3>4
      DEF Stopped, ExecStart, ExecMissing, Started, ExecUnknown, localVars, memVars, Given
    <3>5. CASE Ending
      BY <3>5
      DEF Ending, ProxyTrunc, ProxyWrite, ProxyFlushFail, Publish, localVars, memVars, Given
    <3> QED BY <1>3, <3>1, <3>2, <3>3, <3>4, <3>5 DEF Local, Reading, Deciding
  <2> QED BY <1>1, <1>3, <2>1, LocalFrame
<1>4. ASSUME Trunc(Hand) \/ Write(Hand) \/ FlushFail(Hand), queried' = queried PROVE Known'
  <2>1. file'.tab \in Tabs
    BY <1>0, <1>4, MapFacts DEF Trunc, Write, FlushFail, Written, Tabs
  <2>2. /\ table'[Hand].tab \in Tabs /\ scratch'[Hand].tab \in Tabs /\ victim' = victim
    BY <1>0, <1>4 DEF Trunc, Write, FlushFail, FlushReturn, localVars, Tabs
  <2> QED BY <1>4, <2>1, <2>2, KnownMoves DEF Given
<1>5. ASSUME ClearRead(Hand), queried' = queried PROVE Known'
  <2>1. Unmarshal(file) \in Maps /\ Unmarshal(file).tab = file.tab /\ 0 \in 0..MaxPid
    BY <1>0, MapFacts, PidAssumption
  <2>2. [Unmarshal(file) EXCEPT !.tab[cur[Hand]] = 0].tab = [file.tab EXCEPT ![cur[Hand]] = 0]
    BY <2>1, SetEntry
  <2>3. PastNext([file.tab EXCEPT ![cur[Hand]] = 0])
    <3>1. PastNext(file.tab) /\ file.tab \in [Names -> 0..MaxPid] /\ 0 < nextPid'
      BY KnownFacts DEF Tabs, Given
    <3> QED BY <3>1 DEF PastNext
  <2>4. UNCHANGED <<file, table, victim>>
    BY <1>5 DEF ClearRead
  <2>5. \/ scratch' = scratch
        \/ scratch'[Hand].tab = [file.tab EXCEPT ![cur[Hand]] = 0]
    BY <1>0, <1>5, <2>2 DEF ClearRead, CallFlush
  <2> QED BY <1>5, <2>3, <2>4, <2>5, KnownMoves DEF Given, Tabs
<1>6. ASSUME ReadStart(Hand), queried' = queried PROVE Known'
  <2>1. Unmarshal(file).tab = file.tab
    BY <1>0, MapFacts
  <2>2. UNCHANGED <<file, scratch>> /\ table'[Hand].tab \in Tabs
    BY <1>0, <1>6, <2>1 DEF ReadStart, Tabs
  <2>3. cur[Hand] \in Names
    BY <1>6 DEF ReadStart, Typed, Control, Resting
  <2>4. Given(victim'[Hand])
    BY <1>0, <1>6, <2>1, <2>3 DEF ReadStart, CallKillSelf, Given
  <2> QED BY <1>6, <2>2, <2>4, KnownMoves DEF Tabs, Given
<1>7. ASSUME NEW p \in Pids, Fork(Hand, p), queried' = queried PROVE Known'
  <2>1. table[Hand] \in Maps /\ p \in 0..MaxPid
    BY <1>0, PidAssumption DEF Pids
  <2>2. [table[Hand] EXCEPT !.tab[cur[Hand]] = p].tab = [table[Hand].tab EXCEPT ![cur[Hand]] = p]
    BY <2>1, SetEntry
  <2>3. PastNext([table[Hand].tab EXCEPT ![cur[Hand]] = p])
    <3>1. PastNext(table[Hand].tab) /\ table[Hand].tab \in [Names -> 0..MaxPid]
      BY KnownFacts DEF Tabs
    <3>2. p < nextPid'
      BY <1>7, SpawnFacts DEF Fork
    <3> QED BY <3>1, <3>2 DEF PastNext
  <2>4. UNCHANGED <<file, victim>>
    BY <1>7 DEF Fork
  <2>5. /\ \/ table'[Hand] = table[Hand]
           \/ table'[Hand].tab = [table[Hand].tab EXCEPT ![cur[Hand]] = p]
        /\ \/ scratch'[Hand].tab = Nothing
           \/ scratch'[Hand].tab = [table[Hand].tab EXCEPT ![cur[Hand]] = p]
    BY <1>0, <1>7, <2>2 DEF Fork, CallFlush
  <2> QED BY <1>7, <2>3, <2>4, <2>5, KnownMoves DEF Given, Tabs
<1>8. ASSUME ForkFail(Hand), queried' = queried PROVE Known'
  <2>1. UNCHANGED <<file, victim, table>> /\ scratch'[Hand] = table[Hand]
    BY <1>0, <1>8 DEF ForkFail, CallFlush
  <2> QED BY <1>8, <2>1, KnownMoves DEF Given, Tabs
<1>9. ASSUME Returns, queried' = queried PROVE Known'
  <2>1. UNCHANGED <<file, table, scratch>> /\ victim'[Hand] = 0
    BY <1>0, <1>9 DEF Returns, KillReturn
  <2> QED BY <1>1, <1>9, <2>1 DEF Given
<1>10. CASE Operation
  <2>1. queried' \in {0, queried} /\ (host' = host => queried' = queried)
    BY <1>10, OperationCases DEF Memory, memVars
  <2>2. CASE Panics \/ \E p \in Pids, l \in {"next", "killed"} : Kills(p, l)
    BY <2>1, <2>2, KnownDeath DEF Panics, Kills
  <2>3. Trunc(Hand) \/ Write(Hand) \/ ClearRead(Hand) => host' = host
    BY DEF Trunc, Write, FlushReturn, ClearRead
  <2>4. ReadStart(Hand) \/ ForkFail(Hand) \/ Returns => host' = host
    BY DEF ReadStart, ForkFail, Returns, KillReturn
  <2>5. \A p \in Pids : Fork(Hand, p) => host' = host
    BY DEF Fork
  <2> QED
    BY <1>4, <1>5, <1>6, <1>7, <1>8, <1>9, <1>10, <2>1, <2>2, <2>3, <2>4, <2>5, OperationCases
<1>11. CASE Unlucky
  BY <1>4, <1>8, <1>11 DEF Unlucky, memVars
<1>12. ASSUME NEW n \in Names, CleanOne(n) PROVE Known'
  <2>1. queried' = queried
    BY <1>12 DEF CleanOne
  <2>2. CASE UNCHANGED <<tableVars, procVars>>
    BY <1>1, <2>1, <2>2 DEF tableVars, localVars, Given
  <2>3. CASE KillProcess(Clean, look[n], "c_loop")
    BY <2>1, <2>3, KnownDeath DEF KillProcess, Death
  <2> QED BY <1>12, <2>2, <2>3 DEF CleanOne
<1>13. CASE \/ \E p \in Pids : ProxyStart(p)
            \/ \E p \in Pids, q \in Pids : ShellFork(p, q)
  BY <1>1, <1>13 DEF ProxyStart, ShellFork, localVars, memVars, Given
<1>14. ASSUME NEW p \in Pids, Tending(p) PROVE Known'
  <2>1. CASE Dies(p)
    <3>1. queried' \in {0, queried}
      BY <2>1 DEF Dies, Memory, memVars
    <3> QED BY <2>1, <3>1, KnownDeath DEF Dies, Exit, Death
  <2>2. CASE UNCHANGED <<tableVars, ptable, memVars, env>>
    BY <1>1, <2>2 DEF tableVars, localVars, memVars, Given
  <2> QED BY <1>14, <2>1, <2>2, TendingCases
<1> QED BY <1>2, <1>3, <1>10, <1>11, <1>12, <1>13, <1>14, Steps

\* The recorded process is dead from the first signal on to the answer.
Signalled == {"next", "killed"}
Answering == {"p_trunc", "p_write", "h_publish"}

Doomed ==
    /\ pc[Hand] \in Signalled => ~Alive(victim[Hand])
    /\ ret[Hand] = "h_stop" => victim[Hand] = queried
    /\ pc[Hand] = "h_stop" => ~Alive(queried)
    /\ pc[Hand] \in Answering /\ job.type = "UN" => ~Alive(queried)

\* The dead stay dead.
LEMMA DeadStays ==
    ASSUME Typed, Known, [Next]_vars
    PROVE  \A p : Given(p) => (~Alive(p) => ~(p \in Pids /\ status'[p] = "alive"))
BY KnownFacts, Later DEF Alive

\* A step of somebody else.
LEMMA DoomedOther ==
    ASSUME Typed, Known, Doomed, [Next]_vars,
           pc'[Hand] = pc[Hand], ret'[Hand] = ret[Hand], victim'[Hand] = victim[Hand],
           queried' = queried, job' = job
    PROVE  Doomed'
<1>1. Given(queried) /\ Given(victim[Hand])
  BY DEF Given
<1>2. /\ ~Alive(queried) => ~(queried \in Pids /\ status'[queried] = "alive")
      /\ ~Alive(victim[Hand]) => ~(victim[Hand] \in Pids /\ status'[victim[Hand]] = "alive")
  BY <1>1, DeadStays
<1> QED BY <1>2 DEF Doomed, Alive

\* A step of Hand to a label at which nothing is claimed.
LEMMA DoomedFree ==
    ASSUME Doomed, pc'[Hand] \notin Signalled \cup Answering \cup {"h_stop"},
           \/ ret'[Hand] # "h_stop"
           \/ UNCHANGED <<ret, victim, queried>>
    PROVE  Doomed'
BY DEF Doomed

\* A process ends, and Hand with it or not.
LEMMA DoomedDeath ==
    ASSUME Typed, Known, Doomed, [Next]_vars, NEW p, NEW q, NEW npc, Death(p, q, npc),
           npc[Hand] = pc[Hand], host[Hand] # p => UNCHANGED <<queried, job>>
    PROVE  Doomed'
<1>1. CASE host[Hand] = p
  <2>1. pc'[Hand] = "off" /\ ret'[Hand] = "off"
    BY <1>1, HandAssumption DEF Death, ThreadsEnd, Lost
  <2> QED BY <2>1, DoomedFree DEF Signalled, Answering
<1>2. CASE host[Hand] # p
  <2>1. pc'[Hand] = pc[Hand] /\ ret'[Hand] = ret[Hand] /\ victim'[Hand] = victim[Hand]
    BY <1>2, HandAssumption DEF Death, ThreadsEnd, Lost
  <2> QED BY <1>2, <2>1, DoomedOther
<1> QED BY <1>1, <1>2

LEMMA DoomedLocal == ASSUME Typed, Known, Doomed, Local, [Next]_vars PROVE Doomed'
<1>0. /\ pc \in [Threads -> Labels] /\ ret \in [Threads -> Labels]
      /\ victim \in [Threads -> 0..MaxPid] /\ Hand \in Threads /\ Clean \in Threads
      /\ Hand # Clean /\ status' = status
      /\ job \in [type : Types \cup {"none"}, key : Names \cup {Nobody},
                  status : -1..1, pid : 0..MaxPid]
  BY HandAssumption, LocalFrame DEF Typed, ThreadTypeOK, ProxyTypeOK
<1>1. pc[Hand] \notin InKillSelf \cup InFlush => ret[Hand] = "off"
  BY DEF Typed, Control, InKillSelf, InFlush, AfterLabels
<1> USE DEF Goto, localVars, memVars, Signalled, Answering
<1>2. CASE TableTouch \/ TableMade
  <2>1. pc'[Hand] \in {"p_made", "h_idle"} /\ UNCHANGED <<ret, victim, queried>>
    BY <1>0, <1>2 DEF TableTouch, TableMade
  <2> QED BY <2>1, DoomedFree
<1>3. ASSUME NEW order, Receive(order) PROVE Doomed'
  <2>1. pc'[Hand] \in {"h_idle", "h_check"} /\ ret'[Hand] = "off"
    BY <1>0, <1>1, <1>3 DEF Receive, InKillSelf, InFlush
  <2> QED BY <2>1, DoomedFree
<1>4. CASE HandCheck
  <2>1. ret[Hand] = "off" /\ queried' = queried
    BY <1>1, <1>4 DEF HandCheck, InKillSelf, InFlush
  <2>2. CASE ~checkProxyStrategy(job)
    <3>1. job.type # "UN" /\ job' = [job EXCEPT !.status = -1]
      BY <1>4, <2>2 DEF HandCheck, checkProxyStrategy
    <3>2. job'.type # "UN" /\ pc'[Hand] = "h_publish" /\ ret'[Hand] = "off"
      BY <1>0, <1>4, <2>1, <2>2, <3>1 DEF HandCheck
    <3> QED BY <3>2 DEF Doomed
  <2>3. CASE checkProxyStrategy(job)
    <3>1. pc'[Hand] \in {"clear", "h_exec"} /\ ret'[Hand] \in {"off", "h_exec"}
      BY <1>0, <1>4, <2>1, <2>3 DEF HandCheck, CallKillSelf
    <3> QED BY <3>1, DoomedFree
  <2> QED BY <2>2, <2>3
<1>5. CASE ExecStop
  <2>1. ret[Hand] = "off" /\ queried' = queried
    BY <1>1, <1>5 DEF ExecStop, InKillSelf, InFlush
  <2>2. \/ pc'[Hand] = "clear" /\ victim'[Hand] = queried
        \/ pc'[Hand] = "h_stop" /\ queried = 0 /\ ret'[Hand] = "off"
    BY <1>0, <1>5, <2>1 DEF ExecStop, CallKillSelf
  <2>3. 0 \notin Pids
    BY PidAssumption DEF Pids
  <2> QED BY <2>1, <2>2, <2>3 DEF Doomed, Alive
<1>6. CASE ExecStart
  BY <1>0, <1>6, DoomedFree DEF ExecStart, CallStartProject
<1>7. CASE Stopped
  <2>1. /\ pc'[Hand] = "p_trunc" /\ ret'[Hand] = "off" /\ queried' = queried
        /\ pc[Hand] = "h_stop"
    BY <1>0, <1>1, <1>7 DEF Stopped, Outcome, InKillSelf, InFlush
  <2> QED BY <1>0, <2>1 DEF Doomed, Alive
<1>8. CASE ExecMissing \/ Started \/ ExecUnknown
  <2>1. job.type # "UN" /\ ret[Hand] = "off"
    BY <1>1, <1>8
    DEF ExecMissing, Started, ExecUnknown, Typed, Control, AfterFork, InKillSelf, InFlush
  <2>2. pc'[Hand] = "p_trunc" /\ ret' = ret /\ job'.type = job.type
    BY <1>0, <1>8 DEF ExecMissing, Started, ExecUnknown, Outcome
  <2> QED BY <2>1, <2>2 DEF Doomed
<1>9. CASE ProxyTrunc \/ ProxyWrite \/ ProxyFlushFail
  <2>1. /\ pc[Hand] \in {"p_trunc", "p_write"} /\ pc'[Hand] \in {"p_write", "h_publish"}
        /\ UNCHANGED <<ret, queried, job>>
    BY <1>0, <1>9 DEF ProxyTrunc, ProxyWrite, ProxyFlushFail
  <2>2. ret[Hand] = "off"
    BY <1>1, <2>1 DEF InKillSelf, InFlush
  <2> QED BY <1>0, <2>1, <2>2 DEF Doomed, Alive
<1>10. CASE Publish
  <2>1. pc'[Hand] = "h_idle" /\ ret'[Hand] = "off"
    BY <1>0, <1>1, <1>10 DEF Publish, InKillSelf, InFlush
  <2> QED BY <2>1, DoomedFree
<1>11. CASE CleanRead \/ CleanEnd
  <2>1. pc'[Hand] = pc[Hand] /\ UNCHANGED <<ret, victim, queried, job>>
    BY <1>0, <1>11 DEF CleanRead, CleanEnd
  <2> QED BY <2>1, DoomedOther
<1> QED
  BY <1>2, <1>3, <1>4, <1>5, <1>6, <1>7, <1>8, <1>9, <1>10, <1>11
  DEF Local, Reading, Deciding, Ending

LEMMA DoomedTable ==
    ASSUME Typed, Doomed, queried' = queried,
           \/ Trunc(Hand) \/ Write(Hand) \/ FlushFail(Hand) \/ ClearRead(Hand)
           \/ ReadStart(Hand) \/ ForkFail(Hand) \/ \E p \in Pids : Fork(Hand, p)
    PROVE  Doomed'
<1>0. /\ pc \in [Threads -> Labels] /\ ret \in [Threads -> Labels] /\ Hand \in Threads
      /\ after[Hand] \in AfterLabels
  BY HandAssumption DEF Typed, ThreadTypeOK, Control
<1> USE DEF Goto, localVars, CallFlush
<1>1. /\ pc'[Hand] \in AfterLabels \cup {"write", "trunc", "clear", "fork"}
      /\ ret'[Hand] = "fork" \/ UNCHANGED <<ret, victim>>
  <2>1. CASE Trunc(Hand) \/ Write(Hand) \/ FlushFail(Hand) \/ ClearRead(Hand)
    BY <1>0, <2>1 DEF Trunc, Write, FlushFail, FlushReturn, ClearRead, AfterLabels
  <2>2. CASE ReadStart(Hand)
    BY <1>0, <2>2 DEF ReadStart, CallKillSelf, AfterLabels
  <2>3. CASE ForkFail(Hand) \/ \E p \in Pids : Fork(Hand, p)
    BY <1>0, <2>3 DEF ForkFail, Fork
  <2> QED BY <2>1, <2>2, <2>3
<1> QED BY <1>1, DoomedFree DEF AfterLabels, Signalled, Answering

LEMMA DoomedReturns ==
    ASSUME Typed, Doomed, queried' = queried, Returns
    PROVE  Doomed'
<1>1. /\ pc'[Hand] = ret[Hand] /\ ret'[Hand] = "off" /\ status' = status
      /\ ret[Hand] \in RetLabels
  BY HandAssumption DEF Returns, KillReturn, Goto, osVars, Typed, ThreadTypeOK, Control
<1>2. ~Alive(victim[Hand])
  BY DEF Returns, ProcessIsExist, Alive, Doomed, Signalled
<1>3. ret[Hand] = "h_stop" => ~Alive(queried)
  BY <1>2 DEF Doomed
<1> QED BY <1>1, <1>3 DEF Doomed, RetLabels, Signalled, Answering, Alive

LEMMA DoomedKills ==
    ASSUME Typed, Known, Doomed, [Next]_vars, NEW p \in Pids, NEW l \in Signalled, Kills(p, l),
           host[Hand] # p => UNCHANGED <<queried, job>>
    PROVE  Doomed'
<1>1. CASE host[Hand] = p
  <2>1. pc'[Hand] = "off" /\ ret'[Hand] = "off"
    BY <1>1, HandAssumption DEF Kills, Death, ThreadsEnd, Lost
  <2> QED BY <2>1, DoomedFree DEF Signalled, Answering
<1>2. CASE host[Hand] # p
  <2>1. pc'[Hand] = l /\ ret'[Hand] = ret[Hand] /\ victim'[Hand] = victim[Hand]
    BY <1>2, HandAssumption DEF Kills, Death, ThreadsEnd, Lost, Typed, ThreadTypeOK
  <2>2. ~(victim[Hand] \in Pids /\ status'[victim[Hand]] = "alive")
    <3>1. CASE p = victim[Hand]
      BY <3>1 DEF Kills, Death, Gone
    <3>2. CASE p # victim[Hand]
      <4>1. ~Alive(victim[Hand])
        BY <3>2 DEF Kills, Doomed, Signalled
      <4> QED BY <4>1, DeadStays DEF Given
    <3> QED BY <3>1, <3>2
  <2> QED BY <1>2, <2>1, <2>2 DEF Doomed, Alive, Signalled, Answering
<1> QED BY <1>1, <1>2

LEMMA DoomedStep == ASSUME Typed, Known, Doomed, [Next]_vars PROVE Doomed'
<1>1. CASE UNCHANGED vars
  BY <1>1, DoomedOther DEF vars, tableVars, localVars, memVars
<1>2. CASE Operation
  <2>0. \/ UNCHANGED <<queried, job>>
        \/ host'[Hand] # host[Hand]
    BY <1>2, OperationCases DEF Memory, memVars
  <2>1. CASE \/ Trunc(Hand) \/ Write(Hand) \/ ClearRead(Hand)
             \/ ReadStart(Hand) \/ ForkFail(Hand) \/ Returns
    <3>1. host' = host
      BY <2>1 DEF Trunc, Write, FlushReturn, ClearRead, ReadStart, ForkFail, Returns, KillReturn
    <3> QED BY <2>0, <2>1, <3>1, DoomedTable, DoomedReturns
  <2>2. CASE \E p \in Pids : Fork(Hand, p)
    <3>1. host' = host
      BY <2>2 DEF Fork
    <3> QED BY <2>0, <2>2, <3>1, DoomedTable
  <2>3. ASSUME NEW p \in Pids, NEW l \in {"next", "killed"}, Kills(p, l) PROVE Doomed'
    <3>1. host[Hand] # p => host'[Hand] = host[Hand]
      BY <2>3, HandAssumption DEF Kills, Death, ThreadsEnd, Lost
    <3> QED BY <2>0, <2>3, <3>1, DoomedKills DEF Signalled
  <2>4. CASE Panics
    BY <2>4, DoomedDeath DEF Panics
  <2> QED BY <1>2, <2>1, <2>2, <2>3, <2>4, OperationCases
<1>3. CASE Unlucky
  BY <1>3, DoomedTable DEF Unlucky, memVars
<1>4. ASSUME NEW n \in Names, CleanOne(n) PROVE Doomed'
  <2>1. UNCHANGED <<queried, job>>
    BY <1>4 DEF CleanOne
  <2>2. CASE UNCHANGED <<tableVars, procVars>>
    BY <2>1, <2>2, DoomedOther DEF tableVars, localVars
  <2>3. CASE KillProcess(Clean, look[n], "c_loop")
    <3>1. Death(look[n], host[Clean], [pc EXCEPT ![Clean] = "c_loop"])
      BY <2>3 DEF KillProcess, Death
    <3>2. [pc EXCEPT ![Clean] = "c_loop"][Hand] = pc[Hand]
      BY HandAssumption DEF Typed, ThreadTypeOK
    <3> QED BY <2>1, <3>1, <3>2, DoomedDeath
  <2> QED BY <1>4, <2>2, <2>3 DEF CleanOne
<1>5. ASSUME NEW p \in Pids, ProxyStart(p) PROVE Doomed'
  <2>1. host[Hand] = 0 /\ pc'[Hand] = "p_touch" /\ ret' = ret
    BY <1>5, HandAssumption DEF ProxyStart, ProxyRuns, localVars, Typed, ThreadTypeOK
  <2>2. ret[Hand] = "off"
    BY <2>1 DEF Typed, Control, InKillSelf, InFlush, AfterLabels
  <2> QED BY <2>1, <2>2, DoomedFree DEF Signalled, Answering
<1>6. CASE \E p \in Pids, q \in Pids : ShellFork(p, q)
  BY <1>6, DoomedOther DEF ShellFork, localVars, memVars
<1>7. ASSUME NEW p \in Pids, Tending(p) PROVE Doomed'
  <2>1. CASE Dies(p)
    <3>1. Death(p, 0, pc) /\ Memory
      BY <2>1 DEF Dies, Exit, Death
    <3>2. host[Hand] # p => host'[Hand] = host[Hand]
      BY <3>1, HandAssumption DEF Death, ThreadsEnd, Lost
    <3>3. host[Hand] # p => UNCHANGED <<queried, job>>
      BY <3>1, <3>2 DEF Memory, memVars
    <3> QED BY <3>1, <3>3, DoomedDeath
  <2>2. CASE UNCHANGED <<tableVars, ptable, memVars, env>>
    BY <2>2, DoomedOther DEF tableVars, localVars, memVars
  <2> QED BY <1>7, <2>1, <2>2, TendingCases
<1> QED BY <1>1, <1>2, <1>3, <1>4, <1>5, <1>6, <1>7, DoomedLocal, Steps

\* When a stopping strategy is answered, the process that was recorded for
\* its key when it arrived no longer runs.
THEOREM StoppedIsDead == Spec => []StopKills
<1>1. Init => Typed /\ Known /\ Doomed
  <2> SUFFICES ASSUME Init PROVE Known /\ Doomed
    BY TypedInit
  <2> USE HandAssumption DEF Init, TableInit
  <2>1. /\ file.tab = Nothing /\ table[Hand].tab = Nothing /\ scratch[Hand].tab = Nothing
        /\ queried = 0 /\ victim[Hand] = 0 /\ nextPid = 1
    BY DEF Marshal, NewMap, NilMap
  <2>2. Known
    BY <2>1 DEF Known, Past, Nothing
  <2>3. Doomed
    BY DEF Doomed, Signalled, Answering
  <2> QED BY <2>2, <2>3
<1>2. Typed /\ [Next]_vars => Typed'
  BY TypedStep
<1>3. Typed /\ Known /\ [Next]_vars => Known'
  BY KnownStep
<1>4. Typed /\ Known /\ Doomed /\ [Next]_vars => Doomed'
  BY DoomedStep
<1>5. Doomed => StopKills
  BY DEF Doomed, StopKills, Answering
<1> QED BY <1>1, <1>2, <1>3, <1>4, <1>5, PTL DEF Spec
=============================================================================
