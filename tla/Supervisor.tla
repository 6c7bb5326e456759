----------------------------- MODULE Supervisor -----------------------------
(***************************************************************************)
(* decept-agent: the goroutine that keeps decept-proxy and decept-bait     *)
(* running (moduleLifecycleManagementTask, thread Life, which also runs    *)
(* prepare before it), the goroutine that kills overloaded modules and     *)
(* drops dead entries (processResourceOccupancyMonitoring, thread Mon),    *)
(* and MonitForKillSelfTask, by which a module that is not recorded in     *)
(* process-table.json ends itself.                                         *)
(*                                                                         *)
(* Life and Mon share the package variable PidTable.  Crashes, overloads,  *)
(* failed forks and failed writes are faults of the environment and may    *)
(* strike at any step.  What the agent promises in the end it can only     *)
(* promise once they stop: the specification with fairness adds a step     *)
(* CalmDown, after which there are no more faults and the few milliseconds *)
(* of an iteration no longer fall into one another.                        *)
(***************************************************************************)
EXTENDS ProcessTable

CONSTANTS
    Life, Mon,      \* the two goroutines
    Proxy, Bait,    \* ProxyName and BaitName
    MaxFaults,      \* bound: how many faults there may be
    Reserve         \* bound: how many free ids the calm phase starts with

ASSUME ModulesAssumption ==
    /\ {Life, Mon} \subseteq Threads /\ Life # Mon
    /\ Names = {Proxy, Bait} /\ Proxy # Bait
ASSUME FaultAssumption == MaxFaults \in Nat /\ Reserve \in Nat

VARIABLES
    pidTable,   \* the package variable PidTable, shared by Life and Mon
    seen,       \* the entries a thread copied out of the table it read
    todo,       \* the names a thread's range loop has still to visit
    update,     \* Mon's local variable update
    faults,     \* how many faults there have been
    calm        \* whether the faults have stopped

agentVars == <<pidTable, seen, todo, update>>
env == <<faults, calm>>
vars == <<tableVars, agentVars, env>>

Labels == TableLabels \cup
    {"b_read", "b_loop", "b_touch", "wait",
     "l_read", "l_zproxy", "l_zbait", "l_proxy", "l_bait",
     "m_read", "m_loop", "m_dead"}

Init ==
    /\ TableInit(Absent)
    /\ pidTable = NilMap
    /\ seen = [t \in Threads |-> Nothing]
    /\ todo = [t \in Threads |-> {}]
    /\ update = FALSE
    /\ faults = 0
    /\ calm = FALSE

\* The environment does something it no longer does once it is calm.
Fault == ~calm /\ faults < MaxFaults /\ faults' = faults + 1 /\ UNCHANGED calm

\* The names recorded in a map.
KeysOf(tab) == {n \in Names : tab[n] # 0}

AgentRuns == host[Life] # 0

-----------------------------------------------------------------------------
(***************************************************************************)
(* Start-up: prepare().                                                    *)
(***************************************************************************)
\* start.sh, or an operator with -mode clear, starts the agent.
AgentStart(p, mode) ==
    /\ ~AgentRuns /\ ~calm
    /\ Spawn(p, Agent, 0)
    /\ host' = [host EXCEPT ![Life] = p, ![Mon] = p]
    /\ pc' = [pc EXCEPT ![Life] = IF mode = "clear" THEN "b_read" ELSE "b_touch",
                        ![Mon] = "wait"]
    /\ pidTable' = NewMap
    /\ UNCHANGED <<file, localVars, seen, todo, update, env>>

\* ReadProcessTable creates the file and then writes "{}" into it.
BootCreate ==
    /\ pc[Life] \in {"b_read", "b_touch"}
    /\ file = Absent
    /\ file' = Empty
    /\ pc' = [pc EXCEPT ![Life] = "write"]
    /\ scratch' = [scratch EXCEPT ![Life] = NewMap]
    /\ after' = [after EXCEPT ![Life] = pc[Life]]
    /\ UNCHANGED <<osVars, host, ret, cur, victim, started, table>>
    /\ UNCHANGED <<agentVars, env>>

\* Mode clear: read what the last generation recorded.
BootRead ==
    /\ pc[Life] = "b_read"
    /\ file # Absent
    /\ pidTable' = Unmarshal(file)
    /\ seen' = [seen EXCEPT ![Life] = file.tab]
    /\ todo' = [todo EXCEPT ![Life] = KeysOf(file.tab)]
    /\ Goto(Life, "b_loop")
    /\ UNCHANGED <<file, osVars, host, localVars, update, env>>

\* Mode clear: kill one of them, if it still exists.
BootKill(n) ==
    /\ pc[Life] = "b_loop"
    /\ n \in todo[Life]
    /\ todo' = [todo EXCEPT ![Life] = @ \ {n}]
    /\ IF ProcessIsExist(seen[Life][n])
       THEN CallKillSelf(Life, n, seen[Life][n], "b_loop")
       ELSE UNCHANGED <<pc, cur, victim, ret>>
    /\ UNCHANGED <<file, osVars, host, after, started, table, scratch>>
    /\ UNCHANGED <<pidTable, seen, update, env>>

BootKillDone ==
    /\ pc[Life] = "b_loop"
    /\ todo[Life] = {}
    /\ Goto(Life, "b_touch")
    /\ seen' = [seen EXCEPT ![Life] = Nothing]
    /\ UNCHANGED <<file, osVars, host, localVars, pidTable, todo, update, env>>

\* The file is there (its contents are ignored); main starts the goroutines.
BootDone ==
    /\ pc[Life] = "b_touch" /\ pc[Mon] = "wait"
    /\ file # Absent
    /\ pc' = [pc EXCEPT ![Life] = "l_read", ![Mon] = "m_read"]
    /\ UNCHANGED <<file, osVars, host, localVars, agentVars, env>>

Boot == BootCreate \/ BootRead \/ BootKillDone \/ BootDone
            \/ \E n \in Names : BootKill(n)

-----------------------------------------------------------------------------
(***************************************************************************)
(* moduleLifecycleManagementTask, one iteration every 30 seconds.          *)
(***************************************************************************)
LifeRead ==
    /\ pc[Life] = "l_read"
    /\ calm => pc[Mon] = "m_read"
    /\ pidTable' = Unmarshal(file)
    /\ seen' = [seen EXCEPT ![Life] = file.tab]
    /\ Goto(Life, "l_zproxy")
    /\ UNCHANGED <<file, osVars, host, localVars, todo, update, env>>

\* Mutant of LifeZombie: zombies are left alone.
LifeZombieKeeps(l, n, next) ==
    /\ pc[Life] = l
    /\ Goto(Life, next)
    /\ UNCHANGED <<file, osVars, host, localVars, agentVars, env>>

\* A zombie is killed, which here reaps it.
LifeZombie(l, n, next) ==
    /\ pc[Life] = l
    /\ IF IsZombie(seen[Life][n])
       THEN CallKillSelf(Life, n, seen[Life][n], next)
       ELSE Goto(Life, next) /\ UNCHANGED <<cur, victim, ret>>
    /\ UNCHANGED <<file, osVars, host, after, started, table, scratch>>
    /\ UNCHANGED <<agentVars, env>>

\* The local copies end with the iteration.
LifeNext(l) ==
    seen' = [seen EXCEPT ![Life] = IF l = "l_read" THEN Nothing ELSE @]

\* proxyStart, baitStart: a module that is not recorded, or whose recorded
\* process is gone, is started.
LifeCheck(l, n, next) ==
    /\ pc[Life] = l
    /\ IF seen[Life][n] = 0 \/ ~ProcessIsExist(seen[Life][n])
       THEN CallStartProject(Life, n) /\ UNCHANGED seen
       ELSE Goto(Life, next) /\ LifeNext(next) /\ UNCHANGED cur
    /\ UNCHANGED <<file, osVars, host, ret, after, victim, started, table, scratch>>
    /\ UNCHANGED <<pidTable, todo, update, env>>

\* StartProject has returned; both callers only log the outcome.
LifeStarted ==
    /\ pc[Life] = "sp_done"
    /\ LET next == IF cur[Life] = Proxy THEN "l_bait" ELSE "l_read"
       IN  Goto(Life, next) /\ LifeNext(next)
    /\ cur' = [cur EXCEPT ![Life] = Nobody]
    /\ started' = [started EXCEPT ![Life] = 0]
    /\ UNCHANGED <<file, osVars, host, ret, after, victim, table, scratch>>
    /\ UNCHANGED <<pidTable, todo, update, env>>

Lifecycle ==
    \/ LifeRead \/ LifeStarted
    \/ LifeZombie("l_zproxy", Proxy, "l_zbait")
    \/ LifeZombie("l_zbait", Bait, "l_proxy")
    \/ LifeCheck("l_proxy", Proxy, "l_bait")
    \/ LifeCheck("l_bait", Bait, "l_read")

-----------------------------------------------------------------------------
(***************************************************************************)
(* processResourceOccupancyMonitoring, one iteration every 5 seconds.      *)
(***************************************************************************)
MonRead ==
    /\ pc[Mon] = "m_read"
    /\ calm => pc[Life] = "l_read"
    /\ pidTable' = Unmarshal(file)
    /\ seen' = [seen EXCEPT ![Mon] = file.tab]
    /\ todo' = [todo EXCEPT ![Mon] = KeysOf(file.tab)]
    /\ update' = FALSE
    /\ Goto(Mon, "m_loop")
    /\ UNCHANGED <<file, osVars, host, localVars, env>>

\* isMemOverloaded answers TRUE.  The entry to kill is looked up again, in
\* what PidTable is by now.
MonOverload(n) ==
    /\ pc[Mon] = "m_loop"
    /\ n \in todo[Mon]
    /\ ProcessIsExist(seen[Mon][n])
    /\ Fault
    /\ IF pidTable.tab[n] # 0
       THEN CallKillSelf(Mon, n, pidTable.tab[n], "m_dead")
       ELSE /\ Goto(Mon, "m_dead")
            /\ cur' = [cur EXCEPT ![Mon] = n]
            /\ UNCHANGED <<victim, ret>>
    /\ UNCHANGED <<file, osVars, host, after, started, table, scratch, agentVars>>

\* The loop body after the overload test: an entry whose process is gone is
\* deleted from what PidTable is by now.
DropDead(n) ==
    /\ todo' = [todo EXCEPT ![Mon] = @ \ {n}]
    /\ IF ProcessIsExist(seen[Mon][n])
       THEN UNCHANGED <<pidTable, update>>
       ELSE /\ pidTable' = [pidTable EXCEPT !.tab[n] = 0]
            /\ update' = TRUE
    /\ UNCHANGED <<file, osVars, host, env, seen>>

MonFine(n) ==
    /\ pc[Mon] = "m_loop"
    /\ n \in todo[Mon]
    /\ DropDead(n)
    /\ UNCHANGED <<pc, localVars>>

MonDead ==
    /\ pc[Mon] = "m_dead"
    /\ DropDead(cur[Mon])
    /\ Goto(Mon, "m_loop")
    /\ cur' = [cur EXCEPT ![Mon] = Nobody]
    /\ UNCHANGED <<ret, after, victim, started, table, scratch>>

\* The end of an iteration: PidTable is written back if an entry was dropped.
MonEnd ==
    /\ pc[Mon] = "m_loop"
    /\ todo[Mon] = {}
    /\ IF update
       THEN CallFlush(Mon, pidTable, "m_read")
       ELSE Goto(Mon, "m_read") /\ UNCHANGED <<scratch, after>>
    /\ update' = FALSE
    /\ seen' = [seen EXCEPT ![Mon] = Nothing]
    /\ UNCHANGED <<file, osVars, host, ret, cur, victim, started, table>>
    /\ UNCHANGED <<pidTable, todo, env>>

Monitor == MonRead \/ MonDead \/ MonEnd \/ \E n \in Names : MonFine(n)

-----------------------------------------------------------------------------
(***************************************************************************)
(* The modules and the environment.                                        *)
(***************************************************************************)
\* What the agent's goroutines shared is lost when their process ends.
AgentMemory ==
    IF host'[Life] = host[Life]
    THEN UNCHANGED agentVars
    ELSE /\ pidTable' = NilMap
         /\ seen' = [t \in Threads |-> Nothing]
         /\ todo' = [t \in Threads |-> {}]
         /\ update' = FALSE

Recorded(p) == \E n \in Names : file.tab[n] = p
Flushing == \E t \in Threads : pc[t] \in {"trunc", "write"}

\* MonitForKillSelfTask: every ten seconds a module reads the table and ends
\* itself when its id is not there, a table it cannot read included.
Watch(p) ==
    /\ Alive(p) /\ owner[p] \in Names
    /\ ~Recorded(p)
    /\ calm => ~Flushing
    /\ Exit(p)
    /\ UNCHANGED <<agentVars, env>>

\* A module ends by itself: a crash, logger.Fatal, StartMemCpuMonitor, a kill.
ModuleExit(p) ==
    /\ Alive(p) /\ owner[p] \in Names
    /\ Fault
    /\ Exit(p)
    /\ UNCHANGED agentVars

\* The agent ends: a crash, StartMemCpuMonitor, or start.sh's kill -9.
AgentExit ==
    /\ AgentRuns
    /\ Fault
    /\ Exit(host[Life])
    /\ AgentMemory

\* The steps of thread t inside the operations on the process table.
Operation(t) ==
    TableStep(t) /\ AgentMemory /\ UNCHANGED env

Unlucky(t) ==
    (FlushFail(t) \/ ForkFail(t)) /\ Fault /\ UNCHANGED agentVars

Next ==
    \/ \E p \in Pids, mode \in {"edge", "clear"} : AgentStart(p, mode)
    \/ Boot \/ Lifecycle \/ Monitor
    \/ \E n \in Names : MonOverload(n)
    \/ \E t \in Threads : Operation(t) \/ Unlucky(t)
    \/ \E p \in Pids : Watch(p) \/ ModuleExit(p)
    \/ AgentExit

Spec == Init /\ [][Next]_vars

\* The faults stop.
CalmDown ==
    /\ ~calm
    /\ calm' = TRUE
    /\ UNCHANGED <<tableVars, agentVars, faults>>

\* Every goroutine of a running process is scheduled, and comes round again
\* between two iterations of the other; every module's watcher wakes up.
\* Nothing in the repository restarts the agent, so no fairness of AgentStart.
Fairness ==
    /\ WF_vars(CalmDown)
    /\ WF_vars(Boot \/ Lifecycle \/ Operation(Life)) /\ SF_vars(LifeRead)
    /\ WF_vars(Monitor \/ Operation(Mon)) /\ SF_vars(MonRead)
    /\ \A p \in Pids : WF_vars(Watch(p))

\* Bound: the last Reserve ids are for the time after CalmDown.
Spare == calm \/ nextPid' + Reserve <= MaxPid + 1

FairSpec == Init /\ [][(Next /\ Spare) \/ CalmDown]_vars /\ Fairness

-----------------------------------------------------------------------------
(***************************************************************************)
(* Properties.                                                             *)
(***************************************************************************)
AgentTypeOK ==
    /\ pidTable \in Maps
    /\ seen \in [Threads -> [Names -> 0..MaxPid]]
    /\ todo \in [Threads -> SUBSET Names]
    /\ update \in BOOLEAN
    /\ faults \in 0..MaxFaults
    /\ calm \in BOOLEAN

\* Every variable stays in its type.
TypeOK == OsTypeOK /\ ThreadTypeOK(Labels) /\ DataTypeOK /\ AgentTypeOK

\* tab only records, under each name, a process that own says was started
\* under that name.
Named(own, tab) == \A n \in Names : tab[n] # 0 => own[tab[n]] = n

\* Whatever the interleaving, an id recorded under a name - in the file or in
\* any copy a goroutine still holds - is one StartProject started under that
\* name, so KillSelf never takes one module for another.
EntriesNamed ==
    /\ Named(owner, file.tab) /\ Named(owner, pidTable.tab)
    /\ \A t \in Threads : /\ Named(owner, table[t].tab)
                          /\ Named(owner, scratch[t].tab)
                          /\ Named(owner, seen[t])

\* StartProject never starts a module while the instance it found recorded
\* is still running.
SpawnSafe ==
    \A t \in Threads : pc[t] = "fork" => ~Alive(table[t].tab[cur[t]])

\* No goroutine holds a table that it may still write without reading the
\* file again.
NoHolder ==
    /\ \A t \in Threads : /\ pc[t] \notin {"trunc", "write", "fork", "m_dead"}
                          /\ ret[t] \notin {"fork", "m_dead"}
    /\ todo[Mon] = {} /\ ~update

\* The file does not parse and nobody is about to overwrite it.
Wedged == file.kind \in {"empty", "garbage"} /\ NoHolder

\* Once the file is unreadable and no goroutine still holds a readable copy,
\* it stays so for ever, through every restart of the agent in either mode,
\* and no module is ever started again: ReadProcessTable recreates a missing
\* file but never a damaged one, and StartProject gives up silently.
WedgeStable ==
    [][Wedged => /\ Wedged'
                 /\ \A p \in Pids : status[p] # "alive" /\ status'[p] = "alive"
                                        => owner'[p] = Agent]_vars

\* Every module runs, once, and is recorded.
Healthy ==
    \A n \in Names : \E p \in Pids :
        /\ file.kind = "json" /\ file.tab[n] = p
        /\ \A q \in Pids : Alive(q) /\ owner[q] = n <=> q = p

\* What the agent may come to rest in.
Settled ==
    \/ ~AgentRuns
    \/ Healthy
    \/ Wedged /\ \A p \in Pids : Alive(p) => owner[p] = Agent

\* When faults stop, the races stop too: unless the agent itself is gone or
\* the file is damaged for good (and then every module ends itself), each
\* module ends up running exactly once and recorded.
Converges == <>[](calm => Settled)

\* The comment at decept-agent.go:257-260: the lifecycle task depends on the
\* table alone, so no process may escape it.  A live module is recorded, or a
\* goroutine is about to record or to kill it.
NoEscape ==
    \A p \in Pids : Alive(p) /\ owner[p] \in Names =>
        \/ Recorded(p)
        \/ \E t \in Threads : victim[t] = p \/ \E n \in Names : scratch[t].tab[n] = p
=============================================================================
