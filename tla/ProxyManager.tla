---------------------------- MODULE ProxyManager ----------------------------
(***************************************************************************)
(* decept-proxy: the goroutine that carries out proxy strategies           *)
(* (handleProxyAndCallback, thread Hand), the goroutine that reaps dead    *)
(* proxies (zombieProcessClean, thread Clean), and the proxies they start: *)
(* tcpProxy for an EDGE strategy, and a relay program behind "sh -c" for a *)
(* RELAY strategy.                                                         *)
(*                                                                         *)
(* The names of ProcessTable are the proxy keys, ServerType-ListenPort.    *)
(* Agent stands for decept-proxy itself, whose own entry belongs to        *)
(* Supervisor.  A tcpProxy learns what to serve by looking for its own     *)
(* process id in proxy/proxy-table.json, which Hand writes only after      *)
(* StartProject has started it.                                            *)
(***************************************************************************)
EXTENDS ProcessTable

CONSTANTS
    Hand, Clean,    \* the two goroutines
    PortOf,         \* the listen port of a key
    MaxJobs,        \* bound: how many strategies arrive
    MaxFaults       \* bound: how many faults there may be

ASSUME HandAssumption == {Hand, Clean} \subseteq Threads /\ Hand # Clean
ASSUME PortAssumption == DOMAIN PortOf = Names
ASSUME JobAssumption == MaxJobs \in Nat /\ MaxFaults \in Nat

\* UN_EDGE and UN_RELAY are treated alike; Other is any other text.
Types == {"EDGE", "RELAY", "UN", "Other"}
NoJob == [type |-> "none", key |-> Nobody, status |-> 0, pid |-> 0]

\* The strategies the centre sends.
Orders == [type : Types, key : Names, status : {0, 1}, pid : {0}]

VARIABLES
    ptable,     \* the contents of proxy-table.json: the Pid of each key
    ptab,       \* Hand's local proxyTable
    queried,    \* Hand's queryPid: what processTable[key] was when read
    job,        \* the strategy Hand works on
    look,       \* the entries of the proxy table Clean has still to visit
    kind,       \* what program a live process runs
    stage,      \* how far it has come
    serves,     \* the key whose port it listens on, or is about to
    jobs,       \* how many strategies have arrived
    faults      \* how many faults there have been

memVars == <<ptab, queried, job, look>>
procVars == <<kind, stage, serves>>
env == <<jobs, faults>>
vars == <<tableVars, ptable, memVars, procVars, env>>

Labels == TableLabels \cup
    {"p_touch", "p_made", "h_idle", "h_check", "h_exec", "h_stop",
     "p_trunc", "p_write", "h_publish", "c_idle", "c_loop"}

\* decept-agent has created process-table.json; decept-proxy is not started.
Init ==
    /\ TableInit(Marshal(NewMap))
    /\ ptable = Absent
    /\ ptab = NilMap
    /\ queried = 0
    /\ job = NoJob
    /\ look = Nothing
    /\ kind = [p \in Pids |-> "none"]
    /\ stage = [p \in Pids |-> "none"]
    /\ serves = [p \in Pids |-> Nobody]
    /\ jobs = 0
    /\ faults = 0

Fault == faults < MaxFaults /\ faults' = faults + 1 /\ UNCHANGED jobs

ProxyRuns == host[Hand] # 0

\* Some process listens on the port of key n (lsof -i:port prints a line).
CheckPort(n) == \E p \in Pids : stage[p] = "listen" /\ PortOf[serves[p]] = PortOf[n]

\* What becomes of the processes when one ends, or StartProject starts one.
Processes ==
    LET Keep(v, none, new) == [p \in Pids |->
            IF status'[p] # "alive" THEN none
            ELSE IF Alive(p) THEN v[p] ELSE new]
    IN  /\ kind' = Keep(kind, "none", IF job.type = "RELAY" THEN "sh" ELSE "tcpProxy")
        /\ stage' = Keep(stage, "none", "init")
        /\ serves' = Keep(serves, Nobody, Nobody)

\* What the goroutines of decept-proxy held is lost when it ends.
Memory ==
    IF host'[Hand] = host[Hand]
    THEN UNCHANGED memVars
    ELSE ptab' = NilMap /\ queried' = 0 /\ job' = NoJob /\ look' = Nothing

-----------------------------------------------------------------------------
(***************************************************************************)
(* main: decept-agent starts decept-proxy, which makes sure that           *)
(* proxy-table.json exists and then listens for strategies.                *)
(***************************************************************************)
ProxyStart(p) ==
    /\ ~ProxyRuns
    /\ Spawn(p, Agent, 0)
    /\ host' = [host EXCEPT ![Hand] = p, ![Clean] = p]
    /\ pc' = [pc EXCEPT ![Hand] = "p_touch", ![Clean] = "c_idle"]
    /\ UNCHANGED <<file, localVars, ptable, memVars, procVars, env>>

\* ReadProxyTable creates the file and then writes "{}" into it.
TableTouch ==
    /\ pc[Hand] = "p_touch"
    /\ IF ptable = Absent
       THEN ptable' = Empty /\ Goto(Hand, "p_made")
       ELSE Goto(Hand, "h_idle") /\ UNCHANGED ptable
    /\ UNCHANGED <<file, osVars, host, localVars, memVars, procVars, env>>

TableMade ==
    /\ pc[Hand] = "p_made"
    /\ ptable' = Marshal(NewMap)
    /\ Goto(Hand, "h_idle")
    /\ UNCHANGED <<file, osVars, host, localVars, memVars, procVars, env>>

-----------------------------------------------------------------------------
(***************************************************************************)
(* handleProxyAndCallback, one strategy after the other.                   *)
(***************************************************************************)
\* Mutant of Receive: the result of ReadProxyTable is not looked at.
ReceiveUnread(order) ==
    /\ pc[Hand] = "h_idle"
    /\ jobs < MaxJobs
    /\ jobs' = jobs + 1
    /\ Readable(file)
    /\ job' = order
    /\ ptab' = Unmarshal(ptable)
    /\ queried' = file.tab[order.key]
    /\ Goto(Hand, "h_check")
    /\ UNCHANGED <<file, osVars, host, localVars, ptable, look, procVars, faults>>

\* A strategy for this agent arrives and both tables are read; when one
\* cannot be, the strategy is dropped without an answer.
Receive(order) ==
    /\ pc[Hand] = "h_idle"
    /\ jobs < MaxJobs
    /\ jobs' = jobs + 1
    /\ IF Readable(ptable) /\ Readable(file)
       THEN /\ job' = order
            /\ ptab' = Unmarshal(ptable)
            /\ queried' = file.tab[order.key]
            /\ Goto(Hand, "h_check")
       ELSE UNCHANGED <<job, ptab, queried, pc>>
    /\ UNCHANGED <<file, osVars, host, localVars, ptable, look, procVars, faults>>

\* A port that is too large is only logged.
checkProxyStrategy(j) == ~(j.type \in {"EDGE", "RELAY"} /\ CheckPort(j.key))

\* An occupied port is answered with status -1, whoever holds it.  Otherwise
\* the instance recorded under this key is killed.
HandCheck ==
    /\ pc[Hand] = "h_check"
    /\ IF ~checkProxyStrategy(job)
       THEN /\ job' = [job EXCEPT !.status = -1]
            /\ Goto(Hand, "h_publish")
            /\ UNCHANGED <<cur, victim, ret>>
       ELSE /\ IF queried # 0
               THEN CallKillSelf(Hand, job.key, queried, "h_exec")
               ELSE Goto(Hand, "h_exec") /\ UNCHANGED <<cur, victim, ret>>
            /\ UNCHANGED job
    /\ UNCHANGED <<file, osVars, host, after, started, table, scratch>>
    /\ UNCHANGED <<ptable, ptab, queried, look, procVars, env>>

\* UN_EDGE, UN_RELAY: the same instance is killed once more.
ExecStop ==
    /\ pc[Hand] = "h_exec" /\ job.type = "UN"
    /\ IF queried # 0
       THEN CallKillSelf(Hand, job.key, queried, "h_stop")
       ELSE Goto(Hand, "h_stop") /\ UNCHANGED <<cur, victim, ret>>
    /\ UNCHANGED <<file, osVars, host, after, started, table, scratch>>
    /\ UNCHANGED <<ptable, memVars, procVars, env>>

\* The outcome of a strategy: its status, and what proxyTable[key] becomes.
Outcome(st, p) ==
    /\ job' = [job EXCEPT !.status = st, !.pid = p]
    /\ ptab' = [ptab EXCEPT !.tab[job.key] = p]
    /\ Goto(Hand, "p_trunc")

Stopped ==
    /\ pc[Hand] = "h_stop"
    /\ Outcome(1, 0)
    /\ UNCHANGED <<file, osVars, host, localVars>>
    /\ UNCHANGED <<ptable, queried, look, procVars, env>>

\* Any other type with status 1 is started; the executable of an unknown
\* type is "".
ExecStart ==
    /\ pc[Hand] = "h_exec" /\ job.type # "UN" /\ job.status = 1
    /\ CallStartProject(Hand, job.key)
    /\ UNCHANGED <<file, osVars, host, ret, after, victim, started, table, scratch>>
    /\ UNCHANGED <<ptable, memVars, procVars, env>>

\* The relay program of a RELAY strategy does not exist.
ExecMissing ==
    /\ pc[Hand] = "h_exec" /\ job.type = "RELAY" /\ job.status = 1
    /\ Outcome(-1, 0)
    /\ UNCHANGED <<file, osVars, host, localVars>>
    /\ UNCHANGED <<ptable, queried, look, procVars, env>>

\* StartProject has returned.
Started ==
    /\ pc[Hand] = "sp_done"
    /\ IF started[Hand] = -1 THEN Outcome(-1, 0) ELSE Outcome(1, started[Hand])
    /\ cur' = [cur EXCEPT ![Hand] = Nobody]
    /\ started' = [started EXCEPT ![Hand] = 0]
    /\ UNCHANGED <<file, osVars, host, ret, after, victim, table, scratch>>
    /\ UNCHANGED <<ptable, queried, look, procVars, env>>

\* "unknown type of proxy strategy": the table is flushed as it was read.
ExecUnknown ==
    /\ pc[Hand] = "h_exec" /\ job.type # "UN" /\ job.status # 1
    /\ Goto(Hand, "p_trunc")
    /\ UNCHANGED <<file, osVars, host, localVars, ptable, memVars, procVars, env>>

\* FlushData2File of the proxy table, of which Hand is the only writer.
ProxyTrunc ==
    /\ pc[Hand] = "p_trunc"
    /\ ptable' = Empty
    /\ Goto(Hand, "p_write")
    /\ UNCHANGED <<file, osVars, host, localVars, memVars, procVars, env>>

ProxyWrite ==
    /\ pc[Hand] = "p_write"
    /\ ptable' = Marshal(ptab)
    /\ Goto(Hand, "h_publish")
    /\ UNCHANGED <<file, osVars, host, localVars, memVars, procVars, env>>

ProxyFlushFail ==
    /\ pc[Hand] \in {"p_trunc", "p_write"}
    /\ Fault
    /\ Goto(Hand, "h_publish")
    /\ UNCHANGED <<file, osVars, host, localVars, ptable, memVars, procVars>>

\* PublishMsg of the outcome; Hand is ready for the next strategy.
Publish ==
    /\ pc[Hand] = "h_publish"
    /\ Goto(Hand, "h_idle")
    /\ job' = NoJob /\ ptab' = NilMap /\ queried' = 0
    /\ UNCHANGED <<file, osVars, host, localVars, ptable, look, procVars, env>>

\* The steps of Hand inside the operations on the process table.  An unknown
\* type has no executable, so its os.StartProcess fails; it fails as well when
\* the host has no process id left.
Operation ==
    /\ \/ TableStep(Hand) /\ (pc[Hand] = "fork" => job.type # "Other")
       \/ ForkFail(Hand) /\ (job.type = "Other" \/ nextPid > MaxPid)
    /\ Processes /\ Memory
    /\ UNCHANGED <<ptable, env>>

Unlucky ==
    /\ FlushFail(Hand) \/ ForkFail(Hand)
    /\ Fault
    /\ UNCHANGED <<ptable, memVars, procVars>>

Handler ==
    \/ TableTouch \/ TableMade \/ HandCheck \/ ExecStop \/ Stopped \/ ExecStart
    \/ ExecMissing \/ Started \/ ExecUnknown \/ ProxyTrunc \/ ProxyWrite
    \/ Publish \/ Operation

-----------------------------------------------------------------------------
(***************************************************************************)
(* zombieProcessClean, every 200 seconds.                                  *)
(***************************************************************************)
CleanRead ==
    /\ pc[Clean] = "c_idle"
    /\ Readable(ptable)
    /\ look' = ptable.tab
    /\ Goto(Clean, "c_loop")
    /\ UNCHANGED <<file, osVars, host, localVars, ptable>>
    /\ UNCHANGED <<ptab, queried, job, procVars, env>>

\* Mutant of CleanOne: the zombie is not waited for.
CleanNone(n) ==
    /\ pc[Clean] = "c_loop"
    /\ look[n] # 0
    /\ look' = [look EXCEPT ![n] = 0]
    /\ UNCHANGED <<tableVars, procVars, ptable, ptab, queried, job, env>>

\* One entry: a zombie is killed and waited for.
CleanOne(n) ==
    /\ pc[Clean] = "c_loop"
    /\ look[n] # 0
    /\ look' = [look EXCEPT ![n] = 0]
    /\ IF IsZombie(look[n])
       THEN KillProcess(Clean, look[n], "c_loop") /\ Processes
       ELSE UNCHANGED <<tableVars, procVars>>
    /\ UNCHANGED <<ptable, ptab, queried, job, env>>

CleanEnd ==
    /\ pc[Clean] = "c_loop"
    /\ look = Nothing
    /\ Goto(Clean, "c_idle")
    /\ UNCHANGED <<file, osVars, host, localVars, ptable, memVars, procVars, env>>

Cleaner == CleanRead \/ CleanEnd \/ \E n \in Names : CleanOne(n)

-----------------------------------------------------------------------------
(***************************************************************************)
(* The proxies.                                                            *)
(***************************************************************************)
\* A process ends, by itself or by a signal from elsewhere.
Ends(p) == Exit(p) /\ Processes /\ Memory /\ UNCHANGED <<ptable, env>>

\* Mutant of EdgeRead: any entry of the table will do.
EdgeReadAny(p) ==
    /\ kind[p] = "tcpProxy" /\ stage[p] = "init"
    /\ \E n \in Names :
        /\ ptable.tab[n] # 0
        /\ serves' = [serves EXCEPT ![p] = n]
        /\ stage' = [stage EXCEPT ![p] = "conf"]
        /\ UNCHANGED <<tableVars, ptable, memVars, kind, env>>

\* tcpProxy looks for its own process id in proxy-table.json.  When it is
\* not there, or the file cannot be read, it returns from main.
EdgeRead(p) ==
    /\ kind[p] = "tcpProxy" /\ stage[p] = "init"
    /\ \/ \E n \in Names :
            /\ ptable.tab[n] = p
            /\ serves' = [serves EXCEPT ![p] = n]
            /\ stage' = [stage EXCEPT ![p] = "conf"]
            /\ UNCHANGED <<tableVars, ptable, memVars, kind, env>>
       \/ (\A n \in Names : ptable.tab[n] # p) /\ Ends(p)

\* "sh -c" replaces itself by the relay program, or runs it as a child q.
ShellExec(p) ==
    /\ kind[p] = "sh" /\ stage[p] = "init"
    /\ kind' = [kind EXCEPT ![p] = "relay"]
    /\ stage' = [stage EXCEPT ![p] = "conf"]
    /\ serves' = [serves EXCEPT ![p] = owner[p]]
    /\ UNCHANGED <<tableVars, ptable, memVars, env>>

ShellFork(p, q) ==
    /\ kind[p] = "sh" /\ stage[p] = "init"
    /\ Spawn(q, owner[p], p)
    /\ kind' = [kind EXCEPT ![q] = "relay"]
    /\ stage' = [stage EXCEPT ![p] = "conf", ![q] = "conf"]
    /\ serves' = [serves EXCEPT ![q] = owner[p]]
    /\ UNCHANGED <<file, host, pc, localVars, ptable, memVars, env>>

ShellEnd(p) ==
    /\ kind[p] = "sh" /\ stage[p] = "conf"
    /\ \A q \in Pids : Alive(q) => parent[q] # p
    /\ Ends(p)

\* net.Listen, by tcpProxy (which looks at the port first) or by a relay.
Bind(p) ==
    /\ kind[p] \in {"tcpProxy", "relay"} /\ stage[p] = "conf"
    /\ IF CheckPort(serves[p])
       THEN Ends(p)
       ELSE /\ stage' = [stage EXCEPT ![p] = "listen"]
            /\ UNCHANGED <<tableVars, ptable, memVars, kind, serves, env>>

Recorded(p) == \E n \in Names : file.tab[n] = p

\* MonitForKillSelfTask, which tcpProxy starts once it listens.
Watch(p) ==
    /\ kind[p] = "tcpProxy" /\ stage[p] = "listen"
    /\ ~Recorded(p)
    /\ Ends(p)

\* A crash, StartMemCpuMonitor, or a kill from elsewhere.
Crash(p) ==
    /\ Alive(p)
    /\ Fault
    /\ Exit(p) /\ Processes /\ Memory
    /\ UNCHANGED ptable

Proxy(p) ==
    \/ EdgeRead(p) \/ ShellExec(p) \/ ShellEnd(p) \/ Bind(p) \/ Watch(p)
    \/ \E q \in Pids : ShellFork(p, q)

Next ==
    \/ Handler \/ Cleaner \/ Unlucky \/ ProxyFlushFail
    \/ \E order \in Orders : Receive(order)
    \/ \E p \in Pids : ProxyStart(p) \/ Proxy(p) \/ Crash(p)

Spec == Init /\ [][Next]_vars

\* Goroutines and processes are scheduled; a proxy takes a few steps only, so
\* that no one can starve another.  Strategies need not arrive, and
\* decept-proxy need not be started again.
Fairness ==
    /\ WF_vars(Handler) /\ WF_vars(Cleaner)
    /\ WF_vars(\E p \in Pids : Proxy(p))

FairSpec == Spec /\ Fairness

-----------------------------------------------------------------------------
(***************************************************************************)
(* Properties.                                                             *)
(***************************************************************************)
\* Every variable stays in its type.
TypeOK ==
    /\ OsTypeOK /\ ThreadTypeOK(Labels) /\ DataTypeOK
    /\ ptable \in Files /\ ptab \in Maps
    /\ queried \in 0..MaxPid
    /\ job \in [type : Types \cup {"none"}, key : Names \cup {Nobody},
                status : -1..1, pid : 0..MaxPid]
    /\ look \in [Names -> 0..MaxPid]
    /\ kind \in [Pids -> {"none", "tcpProxy", "sh", "relay"}]
    /\ stage \in [Pids -> {"none", "init", "conf", "listen"}]
    /\ serves \in [Pids -> Names \cup {Nobody}]
    /\ jobs \in 0..MaxJobs /\ faults \in 0..MaxFaults

\* A proxy serves the key it was started for: what a tcpProxy finds in
\* proxy-table.json under its own process id is never another key's strategy,
\* although the file is rewritten by later strategies while it starts.
ServesItsKey ==
    \A p \in Pids : serves[p] # Nobody => Alive(p) /\ serves[p] = owner[p]

\* When an UN_EDGE or UN_RELAY strategy is answered with status 1, the
\* process its key was recorded with when it arrived no longer runs.
StopKills ==
    pc[Hand] = "h_publish" /\ job.type = "UN" => ~Alive(queried)

\* proxy-table.json does not parse and no write is under way.
Deaf == ptable \in {Empty, Garbage} /\ pc[Hand] \in {"off", "p_touch", "h_idle"}

\* Once proxy-table.json is damaged decept-proxy drops every strategy without
\* an answer, for ever and across restarts: nothing rewrites the file.
DeafStable == [][Deaf => Deaf']_vars

\* A tcpProxy serves and is recorded in both tables; decept-proxy is ready
\* for the next strategy and has no zombie that it could still find.
Quiet ==
    /\ \A p \in Pids : kind[p] = "tcpProxy" => stage[p] = "listen" /\ Recorded(p)
    /\ ProxyRuns => /\ pc[Hand] = "h_idle"
                    /\ Readable(ptable) => \A n \in Names : ~IsZombie(ptable.tab[n])

\* When strategies and faults stop, everything they left behind is sorted
\* out: half-started tcpProxies have exited or serve, unrecorded ones have
\* ended themselves, recorded zombies have been reaped.
Settles == <>[]Quiet
=============================================================================
