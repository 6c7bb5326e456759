-------------------------- MODULE SupervisorProofs --------------------------
(***************************************************************************)
(* Proofs, for every set of threads, every number of process ids and every *)
(* number of faults, of the safety properties of Supervisor, and of the    *)
(* guards (ResourceGuard) whose verdicts Supervisor leaves open.           *)
(***************************************************************************)
EXTENDS Supervisor, Sequences, TLAPS

RetLabels == {"off", "fork", "b_loop", "l_zbait", "l_proxy", "m_dead"}
AfterLabels == {"off", "signal", "sp_done", "panic", "m_read", "b_read",
                "b_touch"}
InKillSelf == {"clear", "signal", "next", "killed"}

\* What the labels of one thread say about one another.
ThreadOK(t) ==
    /\ ret[t] \in RetLabels /\ after[t] \in AfterLabels
    /\ ret[t] = "fork" => \/ pc[t] \in InKillSelf
                          \/ pc[t] \in {"trunc", "write"} /\ after[t] = "signal"
    /\ pc[t] \in {"start", "fork"} \/ ret[t] = "fork" => cur[t] \in Names
    /\ host[t] = 0 => pc[t] = "off" /\ ret[t] = "off"

Control ==
    /\ \A t \in Threads : ThreadOK(t)
    /\ host[Life] = host[Mon]

-----------------------------------------------------------------------------
(***************************************************************************)
(* Maps and files.                                                         *)
(***************************************************************************)
\* The constants are maps and files, and reading and writing go from the one
\* to the other (ReadProcessTable, FlushData2File).
LEMMA MapFacts ==
  /\ NilMap \in Maps /\ NewMap \in Maps /\ Empty \in Files /\ Garbage \in Files
  /\ \A f \in Files : Unmarshal(f) \in Maps /\ Unmarshal(f).tab = f.tab
  /\ \A m \in Maps : Marshal(m) \in Files /\ Marshal(m).tab = m.tab
<1>1. /\ NilMap \in Maps /\ NewMap \in Maps
      /\ Empty \in Files /\ Garbage \in Files
  BY PidAssumption DEF NilMap, NewMap, Maps, Nothing, Empty, Garbage, Files,
     Kinds
<1>2. \A f \in Files : Unmarshal(f) \in Maps /\ Unmarshal(f).tab = f.tab
  BY DEF Unmarshal, Files, Maps
<1>3. \A m \in Maps : Marshal(m) \in Files /\ Marshal(m).tab = m.tab
  BY DEF Marshal, Maps, Files, Kinds
<1> QED BY <1>1, <1>2, <1>3

\* Starting the agent.
LEMMA AgentStartType ==
  ASSUME TypeOK, Control,
         NEW p \in Pids, NEW mode,
         AgentStart(p, mode)
  PROVE  TypeOK' /\ Control'
<1> USE NamesAssumption, PidAssumption, ModulesAssumption DEF TypeOK
<1>1. OsTypeOK'
  BY DEF AgentStart, Spawn, OsTypeOK, Pids, Statuses, Owners
<1>2. DataTypeOK'
  BY DEF AgentStart, AgentRuns, Pids, DataTypeOK, osVars, localVars
<1>3. AgentTypeOK'
  BY MapFacts DEF AgentStart, AgentRuns, Pids, AgentTypeOK, agentVars, env
<1>4. ThreadTypeOK(Labels)'
  BY DEF AgentStart, AgentRuns, Pids, ThreadTypeOK, Labels, TableLabels,
     localVars
<1>5. Control'
  BY DEF AgentStart, AgentRuns, Pids, ThreadTypeOK, ThreadOK, Control,
     RetLabels, AfterLabels, InKillSelf, localVars
<1> QED BY <1>1, <1>2, <1>3, <1>4, <1>5

\* Creating the file.
LEMMA BootCreateType ==
  ASSUME TypeOK, Control,
         BootCreate
  PROVE  TypeOK' /\ Control'
<1> USE NamesAssumption, PidAssumption, ModulesAssumption DEF TypeOK
<1>1. OsTypeOK'
  BY DEF BootCreate, OsTypeOK, osVars
<1>2. DataTypeOK'
  BY MapFacts DEF BootCreate, DataTypeOK, osVars, localVars
<1>3. AgentTypeOK'
  BY MapFacts DEF BootCreate, AgentTypeOK, agentVars, env
<1>4. ThreadTypeOK(Labels)'
  BY MapFacts DEF BootCreate, ThreadTypeOK, Labels, TableLabels, localVars
<1>5. Control'
  BY MapFacts DEF BootCreate, ThreadTypeOK, ThreadOK, Control, RetLabels,
     AfterLabels, InKillSelf, localVars
<1> QED BY <1>1, <1>2, <1>3, <1>4, <1>5

\* Reading the table in mode clear.
LEMMA BootReadType ==
  ASSUME TypeOK, Control,
         BootRead
  PROVE  TypeOK' /\ Control'
<1> USE NamesAssumption, PidAssumption, ModulesAssumption DEF TypeOK
<1>1. OsTypeOK'
  BY DEF BootRead, Goto, OsTypeOK, osVars
<1>2. DataTypeOK'
  BY MapFacts DEF BootRead, Goto, DataTypeOK, osVars, localVars
<1>3. AgentTypeOK'
  BY MapFacts DEF BootRead, Goto, AgentTypeOK, agentVars, env, DataTypeOK,
     KeysOf, Files
<1>4. ThreadTypeOK(Labels)'
  BY MapFacts DEF BootRead, Goto, ThreadTypeOK, Labels, TableLabels, localVars
<1>5. Control'
  BY MapFacts DEF BootRead, Goto, ThreadTypeOK, ThreadOK, Control, RetLabels,
     AfterLabels, InKillSelf, localVars
<1> QED BY <1>1, <1>2, <1>3, <1>4, <1>5

\* Killing one process of the last generation.
LEMMA BootKillType ==
  ASSUME TypeOK, Control,
         NEW n \in Names,
         BootKill(n)
  PROVE  TypeOK' /\ Control'
<1> USE NamesAssumption, PidAssumption, ModulesAssumption DEF TypeOK
<1>0. seen[Life][n] \in 0..MaxPid
  BY DEF AgentTypeOK
<1>1. OsTypeOK'
  BY DEF BootKill, CallKillSelf, Goto, OsTypeOK, osVars
<1>2. DataTypeOK'
  BY <1>0 DEF BootKill, CallKillSelf, Goto, DataTypeOK, osVars, localVars
<1>3. AgentTypeOK'
  BY <1>0 DEF BootKill, CallKillSelf, Goto, AgentTypeOK, agentVars, env
<1>4. ThreadTypeOK(Labels)'
  BY <1>0 DEF BootKill, CallKillSelf, Goto, ThreadTypeOK, Labels, TableLabels,
     localVars
<1>5. Control'
  BY <1>0 DEF BootKill, CallKillSelf, Goto, ThreadTypeOK, ThreadOK, Control,
     RetLabels, AfterLabels, InKillSelf, localVars
<1> QED BY <1>1, <1>2, <1>3, <1>4, <1>5

\* The end of mode clear.
LEMMA BootKillDoneType ==
  ASSUME TypeOK, Control,
         BootKillDone
  PROVE  TypeOK' /\ Control'
<1> USE NamesAssumption, PidAssumption, ModulesAssumption DEF TypeOK
<1>1. OsTypeOK'
  BY DEF BootKillDone, Goto, OsTypeOK, osVars
<1>2. DataTypeOK'
  BY DEF BootKillDone, Goto, DataTypeOK, osVars, localVars
<1>3. AgentTypeOK'
  BY DEF BootKillDone, Goto, AgentTypeOK, agentVars, env, Nothing
<1>4. ThreadTypeOK(Labels)'
  BY DEF BootKillDone, Goto, ThreadTypeOK, Labels, TableLabels, localVars
<1>5. Control'
  BY DEF BootKillDone, Goto, ThreadTypeOK, ThreadOK, Control, RetLabels,
     AfterLabels, InKillSelf, localVars
<1> QED BY <1>1, <1>2, <1>3, <1>4, <1>5

\* The start of the two goroutines.
LEMMA BootDoneType ==
  ASSUME TypeOK, Control,
         BootDone
  PROVE  TypeOK' /\ Control'
<1> USE NamesAssumption, PidAssumption, ModulesAssumption DEF TypeOK
<1>1. OsTypeOK'
  BY DEF BootDone, OsTypeOK, osVars
<1>2. DataTypeOK'
  BY DEF BootDone, DataTypeOK, osVars, localVars
<1>3. AgentTypeOK'
  BY DEF BootDone, AgentTypeOK, agentVars, env
<1>4. ThreadTypeOK(Labels)'
  BY DEF BootDone, ThreadTypeOK, Labels, TableLabels, localVars
<1>5. Control'
  BY DEF BootDone, ThreadTypeOK, ThreadOK, Control, RetLabels, AfterLabels,
     InKillSelf, localVars
<1> QED BY <1>1, <1>2, <1>3, <1>4, <1>5

\* Reading the table in the lifecycle task.
LEMMA LifeReadType ==
  ASSUME TypeOK, Control,
         LifeRead
  PROVE  TypeOK' /\ Control'
<1> USE NamesAssumption, PidAssumption, ModulesAssumption DEF TypeOK
<1>1. OsTypeOK'
  BY DEF LifeRead, Goto, OsTypeOK, osVars
<1>2. DataTypeOK'
  BY MapFacts DEF LifeRead, Goto, DataTypeOK, osVars, localVars
<1>3. AgentTypeOK'
  BY MapFacts DEF LifeRead, Goto, AgentTypeOK, agentVars, env, DataTypeOK, Files
<1>4. ThreadTypeOK(Labels)'
  BY MapFacts DEF LifeRead, Goto, ThreadTypeOK, Labels, TableLabels, localVars
<1>5. Control'
  BY MapFacts DEF LifeRead, Goto, ThreadTypeOK, ThreadOK, Control, RetLabels,
     AfterLabels, InKillSelf, localVars
<1> QED BY <1>1, <1>2, <1>3, <1>4, <1>5

\* The zombie checks.
LEMMA LifeZombieType ==
  ASSUME TypeOK, Control,
         NEW l, NEW n \in Names, NEW next \in {"l_zbait", "l_proxy"},
         l \in {"l_zproxy", "l_zbait"},
         LifeZombie(l, n, next)
  PROVE  TypeOK' /\ Control'
<1> USE NamesAssumption, PidAssumption, ModulesAssumption DEF TypeOK
<1>0. seen[Life][n] \in 0..MaxPid
  BY DEF AgentTypeOK
<1>1. OsTypeOK'
  BY DEF LifeZombie, CallKillSelf, Goto, OsTypeOK, osVars
<1>2. DataTypeOK'
  BY <1>0 DEF LifeZombie, CallKillSelf, Goto, DataTypeOK, osVars, localVars
<1>3. AgentTypeOK'
  BY <1>0 DEF LifeZombie, CallKillSelf, Goto, AgentTypeOK, agentVars, env
<1>4. ThreadTypeOK(Labels)'
  BY <1>0 DEF LifeZombie, CallKillSelf, Goto, ThreadTypeOK, Labels,
     TableLabels, localVars
<1>5. Control'
  BY <1>0 DEF LifeZombie, CallKillSelf, Goto, ThreadTypeOK, ThreadOK, Control,
     RetLabels, AfterLabels, InKillSelf, localVars
<1> QED BY <1>1, <1>2, <1>3, <1>4, <1>5

\* The existence checks.
LEMMA LifeCheckType ==
  ASSUME TypeOK, Control,
         NEW l, NEW n \in Names, NEW next \in {"l_bait", "l_read"},
         l \in {"l_proxy", "l_bait"},
         LifeCheck(l, n, next)
  PROVE  TypeOK' /\ Control'
<1> USE NamesAssumption, PidAssumption, ModulesAssumption DEF TypeOK
<1>0. Nothing \in [Names -> 0..MaxPid]
  BY DEF Nothing
<1>1. OsTypeOK'
  BY DEF LifeCheck, CallStartProject, Goto, LifeNext, OsTypeOK, osVars
<1>2. DataTypeOK'
  BY <1>0 DEF LifeCheck, CallStartProject, Goto, LifeNext, DataTypeOK, osVars,
     localVars
<1>3. AgentTypeOK'
  BY <1>0 DEF LifeCheck, CallStartProject, Goto, LifeNext, AgentTypeOK,
     agentVars, env
<1>4. ThreadTypeOK(Labels)'
  BY <1>0 DEF LifeCheck, CallStartProject, Goto, LifeNext, ThreadTypeOK,
     Labels, TableLabels, localVars
<1>5. Control'
  BY <1>0 DEF LifeCheck, CallStartProject, Goto, LifeNext, ThreadTypeOK,
     ThreadOK, Control, RetLabels, AfterLabels, InKillSelf, localVars
<1> QED BY <1>1, <1>2, <1>3, <1>4, <1>5

\* The return of StartProject.
LEMMA LifeStartedType ==
  ASSUME TypeOK, Control,
         LifeStarted
  PROVE  TypeOK' /\ Control'
<1> USE NamesAssumption, PidAssumption, ModulesAssumption DEF TypeOK
<1>0. Nothing \in [Names -> 0..MaxPid]
  BY DEF Nothing
<1>1. OsTypeOK'
  BY DEF LifeStarted, Goto, LifeNext, OsTypeOK, osVars
<1>2. DataTypeOK'
  BY <1>0 DEF LifeStarted, Goto, LifeNext, DataTypeOK, osVars, localVars
<1>3. AgentTypeOK'
  BY <1>0 DEF LifeStarted, Goto, LifeNext, AgentTypeOK, agentVars, env
<1>4. ThreadTypeOK(Labels)'
  BY <1>0 DEF LifeStarted, Goto, LifeNext, ThreadTypeOK, Labels, TableLabels,
     localVars
<1>5. Control'
  BY <1>0 DEF LifeStarted, Goto, LifeNext, ThreadTypeOK, ThreadOK, Control,
     RetLabels, AfterLabels, InKillSelf, localVars
<1> QED BY <1>1, <1>2, <1>3, <1>4, <1>5

\* Reading the table in the monitoring task.
LEMMA MonReadType ==
  ASSUME TypeOK, Control,
         MonRead
  PROVE  TypeOK' /\ Control'
<1> USE NamesAssumption, PidAssumption, ModulesAssumption DEF TypeOK
<1>1. OsTypeOK'
  BY DEF MonRead, Goto, OsTypeOK, osVars
<1>2. DataTypeOK'
  BY MapFacts DEF MonRead, Goto, DataTypeOK, osVars, localVars
<1>3. AgentTypeOK'
  BY MapFacts DEF MonRead, Goto, AgentTypeOK, agentVars, env, DataTypeOK, KeysOf,
     Files
<1>4. ThreadTypeOK(Labels)'
  BY MapFacts DEF MonRead, Goto, ThreadTypeOK, Labels, TableLabels, localVars
<1>5. Control'
  BY MapFacts DEF MonRead, Goto, ThreadTypeOK, ThreadOK, Control, RetLabels,
     AfterLabels, InKillSelf, localVars
<1> QED BY <1>1, <1>2, <1>3, <1>4, <1>5

\* An overloaded module.
LEMMA MonOverloadType ==
  ASSUME TypeOK, Control,
         NEW n \in Names,
         MonOverload(n)
  PROVE  TypeOK' /\ Control'
<1> USE NamesAssumption, PidAssumption, ModulesAssumption DEF TypeOK
<1>0. pidTable.tab[n] \in 0..MaxPid
  BY DEF AgentTypeOK, Maps
<1>1. OsTypeOK'
  BY DEF MonOverload, CallKillSelf, Goto, Fault, OsTypeOK, osVars
<1>2. DataTypeOK'
  BY <1>0, FaultAssumption DEF MonOverload, CallKillSelf, Goto, Fault,
     DataTypeOK, osVars, localVars
<1>3. AgentTypeOK'
  <2>1. faults' \in 0..MaxFaults
    BY FaultAssumption DEF MonOverload, Fault, AgentTypeOK
  <2>2. UNCHANGED <<agentVars, calm>>
    BY DEF MonOverload, Fault
  <2> QED BY <2>1, <2>2 DEF AgentTypeOK, agentVars
<1>4. ThreadTypeOK(Labels)'
  BY <1>0, FaultAssumption DEF MonOverload, CallKillSelf, Goto, Fault,
     ThreadTypeOK, Labels, TableLabels, localVars
<1>5. Control'
  BY <1>0, FaultAssumption DEF MonOverload, CallKillSelf, Goto, Fault,
     ThreadTypeOK, ThreadOK, Control, RetLabels, AfterLabels, InKillSelf,
     localVars
<1> QED BY <1>1, <1>2, <1>3, <1>4, <1>5

\* Dropping one dead entry.
LEMMA MonFineType ==
  ASSUME TypeOK, Control,
         NEW n \in Names,
         MonFine(n)
  PROVE  TypeOK' /\ Control'
<1> USE NamesAssumption, PidAssumption, ModulesAssumption DEF TypeOK
<1>0. [pidTable EXCEPT !.tab[n] = 0] \in Maps
  BY DEF AgentTypeOK, Maps
<1>1. OsTypeOK'
  BY DEF MonFine, DropDead, OsTypeOK, osVars
<1>2. DataTypeOK'
  BY <1>0 DEF MonFine, DropDead, DataTypeOK, osVars, localVars
<1>3. AgentTypeOK'
  BY <1>0 DEF MonFine, DropDead, AgentTypeOK, agentVars, env
<1>4. ThreadTypeOK(Labels)'
  BY <1>0 DEF MonFine, DropDead, ThreadTypeOK, Labels, TableLabels, localVars
<1>5. Control'
  BY <1>0 DEF MonFine, DropDead, ThreadTypeOK, ThreadOK, Control, RetLabels,
     AfterLabels, InKillSelf, localVars
<1> QED BY <1>1, <1>2, <1>3, <1>4, <1>5

\* Dropping a killed entry.
LEMMA MonDeadType ==
  ASSUME TypeOK, Control,
         MonDead
  PROVE  TypeOK' /\ Control'
<1> USE NamesAssumption, PidAssumption, ModulesAssumption DEF TypeOK
<1>0. [pidTable EXCEPT !.tab[cur[Mon]] = 0] \in Maps
  BY DEF AgentTypeOK, Maps
<1>1. OsTypeOK'
  BY DEF MonDead, DropDead, Goto, OsTypeOK, osVars
<1>2. DataTypeOK'
  BY <1>0 DEF MonDead, DropDead, Goto, DataTypeOK, osVars, localVars
<1>3. AgentTypeOK'
  BY <1>0 DEF MonDead, DropDead, Goto, AgentTypeOK, agentVars, env
<1>4. ThreadTypeOK(Labels)'
  BY <1>0 DEF MonDead, DropDead, Goto, ThreadTypeOK, Labels, TableLabels,
     localVars
<1>5. Control'
  BY <1>0 DEF MonDead, DropDead, Goto, ThreadTypeOK, ThreadOK, Control,
     RetLabels, AfterLabels, InKillSelf, localVars
<1> QED BY <1>1, <1>2, <1>3, <1>4, <1>5

\* Writing PidTable back.
LEMMA MonEndType ==
  ASSUME TypeOK, Control,
         MonEnd
  PROVE  TypeOK' /\ Control'
<1> USE NamesAssumption, PidAssumption, ModulesAssumption DEF TypeOK
<1>0. Nothing \in [Names -> 0..MaxPid]
  BY DEF Nothing
<1>1. OsTypeOK'
  BY DEF MonEnd, CallFlush, Goto, OsTypeOK, osVars
<1>2. DataTypeOK'
  BY <1>0 DEF MonEnd, CallFlush, Goto, DataTypeOK, osVars, localVars,
     AgentTypeOK
<1>3. AgentTypeOK'
  BY <1>0 DEF MonEnd, CallFlush, Goto, AgentTypeOK, agentVars, env
<1>4. ThreadTypeOK(Labels)'
  BY <1>0 DEF MonEnd, CallFlush, Goto, ThreadTypeOK, Labels, TableLabels,
     localVars
<1>5. Control'
  BY <1>0 DEF MonEnd, CallFlush, Goto, ThreadTypeOK, ThreadOK, Control,
     RetLabels, AfterLabels, InKillSelf, localVars
<1> QED BY <1>1, <1>2, <1>3, <1>4, <1>5

-----------------------------------------------------------------------------
(***************************************************************************)
(* The steps inside the operations on the process table.                   *)
(***************************************************************************)
\* The first half of a flush.
LEMMA TruncType ==
  ASSUME TypeOK, Control, NEW t \in Threads,
         Trunc(t)
  PROVE  OsTypeOK' /\ DataTypeOK' /\ ThreadTypeOK(Labels)' /\ Control'
<1> USE NamesAssumption, PidAssumption, ModulesAssumption DEF TypeOK
<1>1. OsTypeOK'
  BY DEF Trunc, Goto, OsTypeOK, osVars
<1>2. DataTypeOK'
  BY MapFacts DEF Trunc, Goto, DataTypeOK, osVars, localVars
<1>3. ThreadTypeOK(Labels)'
  BY MapFacts DEF Trunc, Goto, ThreadTypeOK, Labels, TableLabels, localVars
<1>4. Control'
  BY MapFacts DEF Trunc, Goto, ThreadTypeOK, ThreadOK, Control, RetLabels,
     AfterLabels, InKillSelf, localVars
<1> QED BY <1>1, <1>2, <1>3, <1>4

\* The second half of a flush.
LEMMA WriteType ==
  ASSUME TypeOK, Control, NEW t \in Threads,
         Write(t)
  PROVE  OsTypeOK' /\ DataTypeOK' /\ ThreadTypeOK(Labels)' /\ Control'
<1> USE NamesAssumption, PidAssumption, ModulesAssumption DEF TypeOK
<1>1. OsTypeOK'
  BY DEF Write, FlushReturn, Goto, Written, OsTypeOK, osVars
<1>2. DataTypeOK'
  BY MapFacts DEF Write, FlushReturn, Goto, Written, DataTypeOK, osVars,
     localVars
<1>3. ThreadTypeOK(Labels)'
  BY MapFacts DEF Write, FlushReturn, Goto, Written, ThreadTypeOK, Labels,
     TableLabels, localVars
<1>4. Control'
  BY MapFacts DEF Write, FlushReturn, Goto, Written, ThreadTypeOK, ThreadOK,
     Control, RetLabels, AfterLabels, InKillSelf, localVars
<1> QED BY <1>1, <1>2, <1>3, <1>4

\* A failed flush.
LEMMA FlushFailType ==
  ASSUME TypeOK, Control, NEW t \in Threads,
         FlushFail(t)
  PROVE  OsTypeOK' /\ DataTypeOK' /\ ThreadTypeOK(Labels)' /\ Control'
<1> USE NamesAssumption, PidAssumption, ModulesAssumption DEF TypeOK
<1>1. OsTypeOK'
  BY DEF FlushFail, FlushReturn, Goto, OsTypeOK, osVars
<1>2. DataTypeOK'
  BY MapFacts DEF FlushFail, FlushReturn, Goto, DataTypeOK, osVars, localVars
<1>3. ThreadTypeOK(Labels)'
  BY MapFacts DEF FlushFail, FlushReturn, Goto, ThreadTypeOK, Labels,
     TableLabels, localVars
<1>4. Control'
  BY MapFacts DEF FlushFail, FlushReturn, Goto, ThreadTypeOK, ThreadOK,
     Control, RetLabels, AfterLabels, InKillSelf, localVars
<1> QED BY <1>1, <1>2, <1>3, <1>4

\* clearProcessTable.
LEMMA ClearReadType ==
  ASSUME TypeOK, Control, NEW t \in Threads,
         ClearRead(t)
  PROVE  OsTypeOK' /\ DataTypeOK' /\ ThreadTypeOK(Labels)' /\ Control'
<1> USE NamesAssumption, PidAssumption, ModulesAssumption DEF TypeOK
<1> DEFINE m == Unmarshal(file)
<1>a. m \in Maps
  BY MapFacts DEF DataTypeOK
<1>0. [m EXCEPT !.tab[cur[t]] = 0] \in Maps
  BY <1>a DEF Maps
<1>1. OsTypeOK'
  BY DEF ClearRead, CallFlush, Goto, OsTypeOK, osVars
<1>2. DataTypeOK'
  BY <1>0 DEF ClearRead, CallFlush, Goto, DataTypeOK, osVars, localVars
<1>3. ThreadTypeOK(Labels)'
  BY <1>0 DEF ClearRead, CallFlush, Goto, ThreadTypeOK, Labels, TableLabels,
     localVars
<1>4. Control'
  BY <1>0 DEF ClearRead, CallFlush, Goto, ThreadTypeOK, ThreadOK, Control,
     RetLabels, AfterLabels, InKillSelf, localVars
<1> QED BY <1>1, <1>2, <1>3, <1>4

\* The return of KillSelf.
LEMMA KillReturnType ==
  ASSUME TypeOK, Control, NEW t \in Threads, pc[t] \in InKillSelf,
         KillReturn(t)
  PROVE  OsTypeOK' /\ DataTypeOK' /\ ThreadTypeOK(Labels)' /\ Control'
<1> USE NamesAssumption, PidAssumption, ModulesAssumption DEF TypeOK
<1>1. OsTypeOK'
  BY DEF KillReturn, Goto, OsTypeOK, osVars
<1>2. DataTypeOK'
  BY DEF KillReturn, Goto, DataTypeOK, osVars, localVars
<1>3. ThreadTypeOK(Labels)'
  BY DEF KillReturn, Goto, ThreadTypeOK, Labels, TableLabels, localVars
<1>4. Control'
  BY DEF KillReturn, Goto, ThreadTypeOK, ThreadOK, Control, RetLabels,
     AfterLabels, InKillSelf, localVars
<1> QED BY <1>1, <1>2, <1>3, <1>4

\* The read of StartProject.
LEMMA ReadStartType ==
  ASSUME TypeOK, Control, NEW t \in Threads,
         ReadStart(t)
  PROVE  OsTypeOK' /\ DataTypeOK' /\ ThreadTypeOK(Labels)' /\ Control'
<1> USE NamesAssumption, PidAssumption, ModulesAssumption DEF TypeOK
<1> DEFINE m == Unmarshal(file)
<1>0. m \in Maps /\ cur[t] \in Names /\ m.tab[cur[t]] \in 0..MaxPid
  BY MapFacts DEF DataTypeOK, ThreadTypeOK, Control, ThreadOK, ReadStart, Maps
<1>1. OsTypeOK'
  BY DEF ReadStart, CallKillSelf, Goto, OsTypeOK, osVars
<1>2. DataTypeOK'
  BY <1>0 DEF ReadStart, CallKillSelf, Goto, DataTypeOK, osVars, localVars
<1>3. ThreadTypeOK(Labels)'
  BY <1>0 DEF ReadStart, CallKillSelf, Goto, ThreadTypeOK, Labels, TableLabels,
     localVars
<1>4. Control'
  BY <1>0 DEF ReadStart, CallKillSelf, Goto, ThreadTypeOK, ThreadOK, Control,
     RetLabels, AfterLabels, InKillSelf, localVars
<1> QED BY <1>1, <1>2, <1>3, <1>4

\* A successful fork.
LEMMA ForkType ==
  ASSUME TypeOK, Control, NEW t \in Threads, NEW p \in Pids,
         Fork(t, p)
  PROVE  OsTypeOK' /\ DataTypeOK' /\ ThreadTypeOK(Labels)' /\ Control'
<1> USE NamesAssumption, PidAssumption, ModulesAssumption DEF TypeOK
<1> DEFINE m == table[t]
<1>a. m \in Maps /\ p \in 0..MaxPid
  BY DEF DataTypeOK, Pids
<1> HIDE DEF m
<1>b. [m EXCEPT !.tab[cur[t]] = p] \in Maps
  BY <1>a DEF Maps
<1>0. [table[t] EXCEPT !.tab[cur[t]] = p] \in Maps
  BY <1>b DEF m
<1>c. cur[t] \in Owners /\ host[t] \in 0..MaxPid
  BY DEF ThreadTypeOK, Owners
<1>1. OsTypeOK'
  BY <1>c DEF Fork, Spawn, OsTypeOK, Pids, Statuses
<1>2. DataTypeOK'
  BY <1>0, MapFacts DEF Fork, CallFlush, Goto, DataTypeOK, osVars, localVars
<1>3. ThreadTypeOK(Labels)'
  BY DEF Fork, CallFlush, Goto, ThreadTypeOK, Labels, TableLabels, Pids
<1>4. Control'
  BY <1>0, MapFacts DEF Fork, CallFlush, Goto, ThreadTypeOK, ThreadOK, Control,
     RetLabels, AfterLabels, InKillSelf, localVars
<1> QED BY <1>1, <1>2, <1>3, <1>4

\* A failed fork.
LEMMA ForkFailType ==
  ASSUME TypeOK, Control, NEW t \in Threads,
         ForkFail(t)
  PROVE  OsTypeOK' /\ DataTypeOK' /\ ThreadTypeOK(Labels)' /\ Control'
<1> USE NamesAssumption, PidAssumption, ModulesAssumption DEF TypeOK
<1>1. OsTypeOK'
  BY DEF ForkFail, CallFlush, Goto, OsTypeOK, osVars
<1>2. DataTypeOK'
  BY DEF ForkFail, CallFlush, Goto, DataTypeOK, osVars, localVars
<1>3. ThreadTypeOK(Labels)'
  BY DEF ForkFail, CallFlush, Goto, ThreadTypeOK, Labels, TableLabels, localVars
<1>4. Control'
  BY DEF ForkFail, CallFlush, Goto, ThreadTypeOK, ThreadOK, Control, RetLabels,
     AfterLabels, InKillSelf, localVars
<1> QED BY <1>1, <1>2, <1>3, <1>4

\* The death of a process, whoever kills it.
LEMMA DeathType ==
  ASSUME TypeOK, Control, NEW p \in Pids, NEW q,
  NEW npc \in [Threads -> Labels],
         \A t \in Threads : \/ npc[t] = pc[t]
                            \/ /\ pc[t] \in {"signal", "next"}
                               /\ npc[t] \in {"next", "killed"},
         Gone(p, q), ThreadsEnd(p, npc), UNCHANGED file
  PROVE  OsTypeOK' /\ DataTypeOK' /\ ThreadTypeOK(Labels)' /\ Control'
<1> USE PidAssumption, ModulesAssumption DEF TypeOK
<1>1. OsTypeOK'
  BY DEF Gone, OsTypeOK, Statuses
<1>2. DataTypeOK'
  BY MapFacts DEF ThreadsEnd, Lost, DataTypeOK
<1>3. ThreadTypeOK(Labels)'
  BY DEF ThreadsEnd, Lost, ThreadTypeOK, Labels, TableLabels
<1>4. Control'
  BY DEF ThreadsEnd, Lost, ThreadTypeOK, Pids, ThreadOK, Control, RetLabels,
     AfterLabels, InKillSelf
<1> QED BY <1>1, <1>2, <1>3, <1>4

\* The death of a process that nobody is killing.
LEMMA ExitType ==
  ASSUME TypeOK, Control, NEW p \in Pids, Exit(p)
  PROVE  OsTypeOK' /\ DataTypeOK' /\ ThreadTypeOK(Labels)' /\ Control'
BY DeathType DEF Exit, TypeOK, ThreadTypeOK

\* KillProcess.
LEMMA KillProcessType ==
  ASSUME TypeOK, Control, NEW t \in Threads, NEW p \in Pids,
         NEW l \in {"next", "killed"},
         pc[t] \in {"signal", "next"}, KillProcess(t, p, l)
  PROVE  OsTypeOK' /\ DataTypeOK' /\ ThreadTypeOK(Labels)' /\ Control'
<1> DEFINE npc == [pc EXCEPT ![t] = l]
<1>1. npc \in [Threads -> Labels]
  BY DEF TypeOK, ThreadTypeOK, Labels, TableLabels
<1>2. \A x \in Threads : \/ npc[x] = pc[x]
                         \/ /\ pc[x] \in {"signal", "next"}
                            /\ npc[x] \in {"next", "killed"}
  BY DEF TypeOK, ThreadTypeOK
<1>3. Gone(p, host[t]) /\ ThreadsEnd(p, npc) /\ UNCHANGED file
  BY DEF KillProcess
<1> HIDE DEF npc
<1> QED BY <1>1, <1>2, <1>3, DeathType

\* The goroutines' shared memory, kept or lost.
LEMMA MemoryType ==
  ASSUME TypeOK, AgentMemory, UNCHANGED env
  PROVE  AgentTypeOK'
<1>1. CASE UNCHANGED agentVars
  BY <1>1 DEF TypeOK, AgentTypeOK, agentVars, env
<1>2. CASE ~UNCHANGED agentVars
  <2>1. Nothing \in [Names -> 0..MaxPid]
    BY PidAssumption DEF Nothing
  <2> QED BY <1>2, <2>1, MapFacts DEF TypeOK, AgentTypeOK, AgentMemory, env
<1> QED BY <1>1, <1>2

\* The steps of the operations, together.
LEMMA OperationType ==
  ASSUME TypeOK, Control, NEW t \in Threads, Operation(t)
  PROVE  TypeOK' /\ Control'
<1>1. AgentTypeOK'
  BY MemoryType DEF Operation
<1>2. OsTypeOK' /\ DataTypeOK' /\ ThreadTypeOK(Labels)' /\ Control'
  <2>1. CASE Trunc(t) \/ Write(t) \/ ClearRead(t) \/ ReadStart(t)
    BY <2>1, TruncType, WriteType, ClearReadType, ReadStartType
  <2>2. CASE \E p \in Pids : Fork(t, p)
    BY <2>2, ForkType
  <2>3. CASE Signal(t)
    BY <2>3, KillProcessType, KillReturnType DEF Signal, ProcessIsExist,
       InKillSelf
  <2>4. CASE SignalNext(t)
    BY <2>4, KillProcessType, KillReturnType DEF SignalNext, ProcessIsExist,
       InKillSelf
  <2>5. CASE Killed(t)
    BY <2>5, KillReturnType DEF Killed, InKillSelf
  <2>6. CASE Panic(t)
    <3>1. host[t] \in Pids
      BY <2>6 DEF Panic, Control, ThreadOK, TypeOK, ThreadTypeOK, Pids
    <3> QED BY <2>6, <3>1, ExitType DEF Panic
  <2> QED BY <2>1, <2>2, <2>3, <2>4, <2>5, <2>6 DEF Operation, TableStep
<1> QED BY <1>1, <1>2 DEF TypeOK

\* A fault leaves the counters in their type.
LEMMA FaultType ==
  ASSUME TypeOK, Fault, UNCHANGED agentVars
  PROVE  AgentTypeOK'
<1>1. faults' \in 0..MaxFaults
  BY FaultAssumption DEF Fault, TypeOK, AgentTypeOK
<1> QED BY <1>1 DEF Fault, TypeOK, AgentTypeOK, agentVars

\* A flush or a fork that fails.
LEMMA UnluckyType ==
  ASSUME TypeOK, Control, NEW t \in Threads, Unlucky(t)
  PROVE  TypeOK' /\ Control'
<1>1. AgentTypeOK'
  BY FaultAssumption, FaultType DEF Unlucky
<1> QED BY <1>1, FlushFailType, ForkFailType DEF Unlucky, TypeOK

-----------------------------------------------------------------------------
(***************************************************************************)
(* Type correctness.                                                       *)
(***************************************************************************)
LEMMA InitType == Init => TypeOK /\ Control
<1> SUFFICES ASSUME Init PROVE TypeOK /\ Control
  OBVIOUS
<1> USE NamesAssumption, PidAssumption, ModulesAssumption DEF Init, TableInit
<1>1. OsTypeOK
  BY DEF OsTypeOK, Statuses, Owners
<1>2. ThreadTypeOK(Labels)
  BY DEF ThreadTypeOK, Labels, TableLabels
<1>3. DataTypeOK
  BY MapFacts DEF DataTypeOK, Files, Kinds, Absent, Nothing
<1>4. AgentTypeOK
  <2>1. Nothing \in [Names -> 0..MaxPid]
    BY DEF Nothing
  <2>2. faults \in 0..MaxFaults
    BY FaultAssumption
  <2>3. pidTable \in Maps
    BY MapFacts
  <2>4. todo \in [Threads -> SUBSET Names] /\ update \in BOOLEAN
           /\ calm \in BOOLEAN
    OBVIOUS
  <2>5. seen \in [Threads -> [Names -> 0..MaxPid]]
    BY <2>1
  <2> QED BY <2>2, <2>3, <2>4, <2>5 DEF AgentTypeOK
<1>5. Control
  BY DEF Control, ThreadOK, RetLabels, AfterLabels, InKillSelf
<1> QED BY <1>1, <1>2, <1>3, <1>4, <1>5 DEF TypeOK

\* Every step keeps the types and the labels consistent.
LEMMA NextType ==
  ASSUME TypeOK, Control, [Next]_vars
  PROVE  TypeOK' /\ Control'
<1>1. CASE \E p \in Pids, mode \in {"edge", "clear"} : AgentStart(p, mode)
  BY <1>1, AgentStartType
<1>2. CASE Boot
  BY <1>2, BootCreateType, BootReadType, BootKillType, BootKillDoneType,
     BootDoneType
  DEF Boot
<1>3. CASE Lifecycle
  <2>1. CASE LifeRead \/ LifeStarted
    BY <2>1, LifeReadType, LifeStartedType
  <2>2. CASE LifeZombie("l_zproxy", Proxy, "l_zbait") \/ LifeZombie("l_zbait",
  Bait, "l_proxy")
    BY <2>2, LifeZombieType, ModulesAssumption
  <2>3. CASE LifeCheck("l_proxy", Proxy, "l_bait") \/ LifeCheck("l_bait", Bait,
  "l_read")
    BY <2>3, LifeCheckType, ModulesAssumption
  <2> QED BY <1>3, <2>1, <2>2, <2>3 DEF Lifecycle
<1>4. CASE Monitor
  BY <1>4, MonReadType, MonDeadType, MonEndType, MonFineType DEF Monitor
<1>5. CASE \E n \in Names : MonOverload(n)
  BY <1>5, MonOverloadType
<1>6. CASE \E t \in Threads : Operation(t) \/ Unlucky(t)
  BY <1>6, OperationType, UnluckyType
<1>7. CASE \E p \in Pids : Watch(p) \/ ModuleExit(p)
  <2>1. PICK p \in Pids : Watch(p) \/ ModuleExit(p)
    BY <1>7
  <2>2. AgentTypeOK'
    BY <2>1, FaultType DEF Watch, ModuleExit, TypeOK, AgentTypeOK, agentVars,
       env
  <2>3. Exit(p)
    BY <2>1 DEF Watch, ModuleExit
  <2> QED BY <2>2, <2>3, ExitType DEF TypeOK
<1>8. CASE AgentExit
  <2>1. host[Life] \in Pids
    BY <1>8, ModulesAssumption DEF AgentExit, AgentRuns, TypeOK, ThreadTypeOK,
       Pids
  <2>2. AgentTypeOK'
    <3>1. faults' \in 0..MaxFaults /\ calm' = calm
      BY <1>8, FaultAssumption DEF AgentExit, Fault, TypeOK, AgentTypeOK
    <3>2. Nothing \in [Names -> 0..MaxPid]
      BY PidAssumption DEF Nothing
    <3>3. CASE UNCHANGED agentVars
      BY <3>1, <3>3 DEF TypeOK, AgentTypeOK, agentVars
    <3>4. CASE ~UNCHANGED agentVars
      BY <1>8, <3>1, <3>2, <3>4, MapFacts DEF AgentExit, AgentMemory, TypeOK,
         AgentTypeOK
    <3> QED BY <3>3, <3>4
  <2> QED BY <1>8, <2>1, <2>2, ExitType DEF AgentExit, TypeOK
<1>9. CASE UNCHANGED vars
  BY <1>9 DEF vars, tableVars, osVars, localVars, agentVars, env, TypeOK,
     OsTypeOK,
     ThreadTypeOK, DataTypeOK, AgentTypeOK, Control, ThreadOK
<1> QED BY <1>1, <1>2, <1>3, <1>4, <1>5, <1>6, <1>7, <1>8, <1>9 DEF Next

\* The state of the agent, of the table and of every thread stays in its type.
THEOREM TypeCorrect == Spec => []TypeOK
<1>1. Init => TypeOK /\ Control
  BY InitType
<1>2. TypeOK /\ Control /\ [Next]_vars => (TypeOK /\ Control)'
  BY NextType
<1> QED BY <1>1, <1>2, PTL DEF Spec

-----------------------------------------------------------------------------
(***************************************************************************)
(* EntriesNamed and SpawnSafe.  The inductive invariant adds to            *)
(* EntriesNamed that ids not given out yet have no owner (FreshIds), so    *)
(* that a fork can never give a recorded id another owner, and to          *)
(* SpawnSafe what holds on the way there: KillSelf called by StartProject  *)
(* works on the very id StartProject read, and once the signal is sent     *)
(* that process does not run (SpawnOK).                                    *)
(***************************************************************************)
FreshIds == \A p \in Pids : p >= nextPid => owner[p] = Nobody

\* The id recorded for the module StartProject is to start.
Old(t) == table[t].tab[cur[t]]

SpawnOK ==
    \A t \in Threads :
        /\ pc[t] = "fork" => ~Alive(Old(t))
        /\ ret[t] = "fork" => victim[t] = Old(t)
        /\ ret[t] = "fork" /\ pc[t] \in {"next", "killed"} => ~Alive(Old(t))

\* A damaged file records nothing.
FileOK == file.kind \in {"empty", "garbage"} => file.tab = Nothing

IInv == TypeOK /\ Control /\ FreshIds /\ EntriesNamed /\ SpawnOK /\ FileOK

-----------------------------------------------------------------------------
(***************************************************************************)
(* Helpers.                                                                *)
(***************************************************************************)
\* Everything about maps that the owners' invariant needs.
LEMMA NamedFacts ==
  ASSUME NEW own
  PROVE  /\ Named(own, Nothing)
         /\ Named(own, NilMap.tab) /\ Named(own, NewMap.tab)
         /\ Named(own, Empty.tab) /\ Named(own, Garbage.tab)
BY DEF Named, Nothing, NilMap, NewMap, Empty, Garbage

\* A step that starts no process keeps every recorded id's owner; whatever
\* it puts into a map must be named already.
LEMMA KeepNamed ==
  ASSUME EntriesNamed, UNCHANGED owner,
         Named(owner, file'.tab), Named(owner, pidTable'.tab),
         \A t \in Threads : /\ Named(owner, table'[t].tab)
                            /\ Named(owner, scratch'[t].tab)
                            /\ Named(owner, seen'[t])
  PROVE  EntriesNamed'
BY DEF EntriesNamed, Named

\* A fork gives no recorded id a new owner.
LEMMA SpawnNamed ==
  ASSUME TypeOK, FreshIds, NEW tab \in [Names -> 0..MaxPid], Named(owner, tab),
         NEW p \in Pids, NEW n, NEW q, Spawn(p, n, q)
  PROVE  Named(owner', tab)
<1> SUFFICES ASSUME NEW k \in Names, tab[k] # 0
             PROVE  owner'[tab[k]] = k
  BY DEF Named
<1>1. owner[tab[k]] = k /\ tab[k] \in Pids
  BY DEF Named, Pids
<1>2. p >= nextPid
  BY PidAssumption DEF Spawn, TypeOK, OsTypeOK
<1>3. tab[k] # p
  BY <1>1, <1>2, NamesAssumption DEF FreshIds
<1> QED BY <1>1, <1>3 DEF Spawn, TypeOK, OsTypeOK

\* A fork keeps FreshIds.
LEMMA SpawnFresh ==
  ASSUME TypeOK, FreshIds, NEW p \in Pids, NEW n, NEW q, Spawn(p, n, q)
  PROVE  FreshIds'
<1>1. p >= nextPid /\ nextPid' = p + 1 /\ nextPid \in Int
  BY PidAssumption DEF Spawn, TypeOK, OsTypeOK
<1> QED BY <1>1 DEF FreshIds, Spawn, TypeOK, OsTypeOK, Pids

\* A process that does not run never runs again: a fork takes a fresh id.
LEMMA SpawnNotOld ==
  ASSUME TypeOK, Control, FreshIds, EntriesNamed,
         NEW p \in Pids, NEW n, NEW q, Spawn(p, n, q),
         NEW t \in Threads, cur[t] \in Names, ~Alive(Old(t))
  PROVE  ~(Old(t) \in Pids /\ status'[Old(t)] = "alive")
<1>1. p >= nextPid
  BY PidAssumption DEF Spawn, TypeOK, OsTypeOK
<1>2. Old(t) \in Pids => owner[Old(t)] = cur[t]
  BY DEF EntriesNamed, Named, Old, Pids
<1>3. Old(t) # p
  BY <1>1, <1>2, NamesAssumption DEF FreshIds
<1> QED BY <1>3 DEF Spawn, Alive, TypeOK, OsTypeOK

\* Steps that start no process and enter neither "fork" nor a KillSelf of
\* StartProject keep SpawnOK.
LEMMA KeepSpawn ==
  ASSUME SpawnOK, \A p \in Pids : status'[p] = "alive" => status[p] = "alive",
         \A t \in Threads :
            \/ pc'[t] # "fork" /\ ret'[t] # "fork"
            \/ /\ table'[t] = table[t] /\ cur'[t] = cur[t]
               /\ victim'[t] = victim[t] /\ ret'[t] = ret[t]
               /\ pc'[t] = pc[t] \/ pc'[t] \notin {"fork", "next", "killed"}
  PROVE  SpawnOK'
BY DEF SpawnOK, Alive, Old

Rest == FreshIds /\ EntriesNamed /\ SpawnOK /\ FileOK

\* The start of the agent.
LEMMA AgentStartInv ==
  ASSUME IInv, NEW p \in Pids, NEW mode, AgentStart(p, mode)
  PROVE  Rest'
<1> USE DEF IInv
<1>1. FreshIds'
  BY SpawnFresh DEF AgentStart
<1>2. EntriesNamed'
  <2>1. Spawn(p, Agent, 0) /\ UNCHANGED <<file, table, scratch, seen>>
    BY DEF AgentStart, localVars
  <2>2. /\ file.tab \in [Names -> 0..MaxPid]
        /\ \A t \in Threads : /\ table[t].tab \in [Names -> 0..MaxPid]
                              /\ scratch[t].tab \in [Names -> 0..MaxPid]
                              /\ seen[t] \in [Names -> 0..MaxPid]
    BY DEF TypeOK, DataTypeOK, AgentTypeOK, Files, Maps
  <2>3. /\ Named(owner', file.tab)
        /\ \A t \in Threads : /\ Named(owner', table[t].tab)
                              /\ Named(owner', scratch[t].tab)
                              /\ Named(owner', seen[t])
    BY <2>1, <2>2, SpawnNamed DEF EntriesNamed
  <2>4. Named(owner', pidTable'.tab)
    BY DEF AgentStart, NewMap, Nothing, Named
  <2> QED BY <2>1, <2>3, <2>4 DEF EntriesNamed
<1>3. SpawnOK'
  <2>1. Spawn(p, Agent, 0) /\ UNCHANGED <<table, cur, victim, ret>>
    BY DEF AgentStart, localVars
  <2>2. \A t \in Threads : pc'[t] = pc[t] \/ pc'[t] \in {"b_read", "b_touch", "wait"}
    BY DEF AgentStart, TypeOK, ThreadTypeOK
  <2>3. \A t \in Threads : pc[t] = "fork" \/ ret[t] = "fork" => cur[t] \in Names
    BY DEF Control, ThreadOK
  <2>4. \A t \in Threads : cur[t] \in Names /\ ~Alive(Old(t))
            => ~(Old(t) \in Pids /\ status'[Old(t)] = "alive")
    BY <2>1, SpawnNotOld
  <2> QED BY <2>1, <2>2, <2>3, <2>4 DEF SpawnOK, Old, Alive
<1>4. FileOK'
  BY DEF AgentStart, FileOK
<1> QED BY <1>1, <1>2, <1>3, <1>4 DEF Rest

\* prepare().
LEMMA BootInv ==
  ASSUME IInv, Boot
  PROVE  Rest'
<1> USE ModulesAssumption DEF IInv
<1>0. UNCHANGED osVars
  BY DEF Boot, BootCreate, BootRead, BootKillDone, BootDone, BootKill
<1>1. FreshIds'
  BY <1>0 DEF FreshIds, osVars
<1>2. EntriesNamed'
  <2>1. CASE BootCreate
    BY <1>0, <2>1, NamedFacts, KeepNamed
    DEF BootCreate, osVars, agentVars, EntriesNamed, TypeOK, DataTypeOK
  <2>2. CASE BootRead
    BY <1>0, <2>2, NamedFacts, KeepNamed, MapFacts
    DEF BootRead, osVars, localVars, EntriesNamed, TypeOK, DataTypeOK, AgentTypeOK
  <2>3. CASE BootKillDone
    BY <1>0, <2>3, NamedFacts, KeepNamed
    DEF BootKillDone, osVars, localVars, EntriesNamed, TypeOK, AgentTypeOK
  <2>4. CASE BootDone \/ \E n \in Names : BootKill(n)
    BY <1>0, <2>4, KeepNamed
    DEF BootDone, BootKill, osVars, localVars, agentVars, EntriesNamed
  <2> QED BY <2>1, <2>2, <2>3, <2>4 DEF Boot
<1>3. SpawnOK'
  <2>1. \A p \in Pids : status'[p] = "alive" => status[p] = "alive"
    BY <1>0 DEF osVars
  <2>2. CASE BootCreate \/ BootRead \/ BootKillDone \/ BootDone
    BY <2>1, <2>2, KeepSpawn
    DEF BootCreate, BootRead, BootKillDone, BootDone, Goto, localVars,
        TypeOK, ThreadTypeOK
  <2>3. CASE \E n \in Names : BootKill(n)
    BY <2>1, <2>3, KeepSpawn
    DEF BootKill, CallKillSelf, Goto, TypeOK, ThreadTypeOK
  <2> QED BY <2>2, <2>3 DEF Boot
<1>4. FileOK'
  BY DEF Boot, BootCreate, BootRead, BootKillDone, BootDone, BootKill, FileOK, Empty
<1> QED BY <1>1, <1>2, <1>3, <1>4 DEF Rest

\* moduleLifecycleManagementTask.
LEMMA LifecycleInv ==
  ASSUME IInv, Lifecycle
  PROVE  Rest'
<1> USE ModulesAssumption DEF IInv
<1>0. UNCHANGED <<osVars, file, scratch, table>>
  BY DEF Lifecycle, LifeRead, LifeStarted, LifeZombie, LifeCheck, localVars
<1>1. FreshIds'
  BY <1>0 DEF FreshIds, osVars
<1>2. EntriesNamed'
  <2>1. CASE LifeRead
    BY <1>0, <2>1, NamedFacts, KeepNamed, MapFacts
    DEF LifeRead, osVars, EntriesNamed, TypeOK, DataTypeOK, AgentTypeOK
  <2>2. CASE ~LifeRead
    <3>1. pidTable' = pidTable /\ \A t \in Threads : seen'[t] \in {seen[t], Nothing}
      BY <2>2 DEF Lifecycle, LifeStarted, LifeZombie, LifeCheck, LifeNext,
         agentVars, TypeOK, AgentTypeOK
    <3> QED BY <1>0, <3>1, NamedFacts, KeepNamed DEF osVars, EntriesNamed
  <2> QED BY <2>1, <2>2
<1>3. SpawnOK'
  <2>1. \A p \in Pids : status'[p] = "alive" => status[p] = "alive"
    BY <1>0 DEF osVars
  <2>2. CASE LifeRead \/ LifeStarted
    BY <1>0, <2>1, <2>2, KeepSpawn
    DEF LifeRead, LifeStarted, Goto, localVars, TypeOK, ThreadTypeOK, Control, ThreadOK, InKillSelf
  <2>3. ASSUME NEW l, NEW n, NEW next \in {"l_zbait", "l_proxy"}, LifeZombie(l, n, next),
               l \in {"l_zproxy", "l_zbait"}
        PROVE  SpawnOK'
    BY <1>0, <2>1, <2>3, KeepSpawn
    DEF LifeZombie, CallKillSelf, Goto, TypeOK, ThreadTypeOK, Control, ThreadOK, InKillSelf
  <2>4. ASSUME NEW l, NEW n, NEW next \in {"l_bait", "l_read"}, LifeCheck(l, n, next),
               l \in {"l_proxy", "l_bait"}
        PROVE  SpawnOK'
    BY <1>0, <2>1, <2>4, KeepSpawn
    DEF LifeCheck, CallStartProject, Goto, TypeOK, ThreadTypeOK, Control, ThreadOK, InKillSelf
  <2> QED BY <2>2, <2>3, <2>4 DEF Lifecycle
<1>4. FileOK'
  BY <1>0 DEF FileOK
<1> QED BY <1>1, <1>2, <1>3, <1>4 DEF Rest

\* processResourceOccupancyMonitoring.
LEMMA MonitorInv ==
  ASSUME IInv, Monitor \/ \E n \in Names : MonOverload(n)
  PROVE  Rest'
<1> USE ModulesAssumption DEF IInv
<1>0. UNCHANGED <<osVars, file, table>>
  BY DEF Monitor, MonRead, MonDead, DropDead, MonEnd, MonFine, MonOverload, localVars
<1>1. FreshIds'
  BY <1>0 DEF FreshIds, osVars
<1>2. EntriesNamed'
  <2>1. CASE MonRead
    BY <1>0, <2>1, NamedFacts, KeepNamed, MapFacts
    DEF MonRead, osVars, localVars, EntriesNamed, TypeOK, DataTypeOK, AgentTypeOK
  <2>2. ASSUME NEW n, DropDead(n), UNCHANGED scratch
        PROVE  EntriesNamed'
    <3>1. Named(owner, pidTable'.tab)
      BY <2>2 DEF DropDead, EntriesNamed, Named, TypeOK, AgentTypeOK, Maps
    <3>2. UNCHANGED seen
      BY <2>2 DEF DropDead
    <3> QED BY <1>0, <2>2, <3>1, <3>2, KeepNamed DEF osVars, EntriesNamed
  <2>3. CASE MonDead \/ \E n \in Names : MonFine(n)
    BY <2>2, <2>3 DEF MonDead, MonFine, localVars
  <2>4. CASE MonEnd
    BY <1>0, <2>4, NamedFacts, KeepNamed
    DEF MonEnd, CallFlush, osVars, EntriesNamed, TypeOK, DataTypeOK, AgentTypeOK
  <2>5. CASE \E n \in Names : MonOverload(n)
    BY <1>0, <2>5, KeepNamed DEF MonOverload, osVars, agentVars, EntriesNamed
  <2> QED BY <2>1, <2>3, <2>4, <2>5 DEF Monitor
<1>3. SpawnOK'
  <2>1. \A p \in Pids : status'[p] = "alive" => status[p] = "alive"
    BY <1>0 DEF osVars
  <2>2. CASE MonRead \/ MonDead \/ MonEnd
    BY <1>0, <2>1, <2>2, KeepSpawn
    DEF MonRead, MonDead, DropDead, MonEnd, CallFlush, Goto, localVars, TypeOK,
        ThreadTypeOK, Control, ThreadOK, InKillSelf
  <2>3. CASE \E n \in Names : MonFine(n)
    BY <1>0, <2>1, <2>3, KeepSpawn DEF MonFine, localVars
  <2>4. CASE \E n \in Names : MonOverload(n)
    BY <1>0, <2>1, <2>4, KeepSpawn
    DEF MonOverload, CallKillSelf, Goto, TypeOK, ThreadTypeOK, Control, ThreadOK, InKillSelf
  <2> QED BY <2>2, <2>3, <2>4 DEF Monitor
<1>4. FileOK'
  BY <1>0 DEF FileOK
<1> QED BY <1>1, <1>2, <1>3, <1>4 DEF Rest

-----------------------------------------------------------------------------
(***************************************************************************)
(* The operations on the table.                                            *)
(***************************************************************************)
\* Losing what the goroutines shared loses no name.
LEMMA MemoryNamed ==
  ASSUME IInv, AgentMemory
  PROVE  /\ Named(owner, pidTable'.tab)
         /\ \A t \in Threads : Named(owner, seen'[t])
BY NamedFacts DEF IInv, AgentMemory, agentVars, EntriesNamed

\* The two halves of a flush, done or failed.
LEMMA FlushInv ==
  ASSUME IInv, NEW t \in Threads, Trunc(t) \/ Write(t) \/ FlushFail(t),
         Named(owner, pidTable'.tab), \A x \in Threads : Named(owner, seen'[x])
  PROVE  Rest'
<1> USE DEF IInv
<1>0. UNCHANGED osVars
  BY DEF Trunc, Write, FlushFail, FlushReturn
<1>1. FreshIds'
  BY <1>0 DEF FreshIds, osVars
<1>2. EntriesNamed'
  <2>1. Named(owner, file'.tab)
    <3>1. Marshal(scratch[t]).tab = scratch[t].tab
      BY MapFacts DEF TypeOK, DataTypeOK
    <3> QED BY <3>1, NamedFacts
        DEF Trunc, Write, FlushFail, Written, EntriesNamed
  <2>2. \A x \in Threads : Named(owner, table'[x].tab) /\ Named(owner, scratch'[x].tab)
    BY NamedFacts DEF Trunc, Write, FlushFail, FlushReturn, localVars, EntriesNamed,
       TypeOK, DataTypeOK
  <2> QED BY <1>0, <2>1, <2>2, KeepNamed DEF osVars
<1>3. SpawnOK'
  <2>1. \A p \in Pids : status'[p] = "alive" => status[p] = "alive"
    BY <1>0 DEF osVars
  <2>2. CASE Trunc(t)
    BY <2>1, <2>2, KeepSpawn DEF Trunc, Goto, localVars, TypeOK, ThreadTypeOK
  <2>3. CASE Write(t) \/ FlushFail(t)
    <3>1. pc'[t] \notin {"fork", "next", "killed"}
      BY <2>3 DEF Write, FlushFail, FlushReturn, Goto, Control, ThreadOK, AfterLabels,
         TypeOK, ThreadTypeOK
    <3>2. ret[t] = "fork" => table'[t] = table[t]
      BY <2>3 DEF Write, FlushFail, FlushReturn, Control, ThreadOK, InKillSelf, TypeOK,
         DataTypeOK
    <3>3. \A x \in Threads \ {t} : pc'[x] = pc[x] /\ table'[x] = table[x]
      BY <2>3 DEF Write, FlushFail, FlushReturn, Goto, TypeOK, ThreadTypeOK, DataTypeOK
    <3>4. UNCHANGED <<ret, cur, victim>>
      BY <2>3 DEF Write, FlushFail, FlushReturn
    <3> QED BY <2>1, <3>1, <3>2, <3>3, <3>4, KeepSpawn
  <2> QED BY <2>2, <2>3
<1>4. FileOK'
  BY DEF Trunc, Write, FlushFail, Written, Marshal, FileOK, Empty, Garbage
<1> QED BY <1>1, <1>2, <1>3, <1>4 DEF Rest

\* clearProcessTable.
LEMMA ClearReadInv ==
  ASSUME IInv, NEW t \in Threads, ClearRead(t),
         Named(owner, pidTable'.tab), \A x \in Threads : Named(owner, seen'[x])
  PROVE  Rest'
<1> USE DEF IInv
<1>0. UNCHANGED <<osVars, file, table, ret, cur, victim>>
  BY DEF ClearRead
<1>1. FreshIds'
  BY <1>0 DEF FreshIds, osVars
<1>2. EntriesNamed'
  <2> DEFINE m == Unmarshal(file)
  <2>1. m \in Maps /\ Named(owner, m.tab)
    BY MapFacts DEF TypeOK, DataTypeOK, EntriesNamed
  <2>2. Named(owner, [m EXCEPT !.tab[cur[t]] = 0].tab)
    BY <2>1 DEF Named, Maps
  <2>3. \A x \in Threads : Named(owner, scratch'[x].tab)
    BY <2>2 DEF ClearRead, CallFlush, EntriesNamed, TypeOK, DataTypeOK
  <2> QED BY <1>0, <2>3, KeepNamed DEF osVars, EntriesNamed
<1>3. SpawnOK'
  <2>1. \A p \in Pids : status'[p] = "alive" => status[p] = "alive"
    BY <1>0 DEF osVars
  <2> QED BY <1>0, <2>1, KeepSpawn
      DEF ClearRead, CallFlush, Goto, TypeOK, ThreadTypeOK
<1>4. FileOK'
  BY <1>0 DEF FileOK
<1> QED BY <1>1, <1>2, <1>3, <1>4 DEF Rest

\* The return of KillSelf, once the process it was to kill does not run.
LEMMA KillReturnInv ==
  ASSUME IInv, NEW t \in Threads, pc[t] \in InKillSelf, KillReturn(t),
         ret[t] = "fork" => ~Alive(Old(t)),
         Named(owner, pidTable'.tab), \A x \in Threads : Named(owner, seen'[x])
  PROVE  Rest'
<1> USE DEF IInv
<1>0. UNCHANGED <<osVars, file, table, scratch, cur>>
  BY DEF KillReturn
<1>1. FreshIds'
  BY <1>0 DEF FreshIds, osVars
<1>2. EntriesNamed'
  BY <1>0, KeepNamed DEF osVars, EntriesNamed
<1>3. SpawnOK'
  <2>1. \A x \in Threads \ {t} : /\ pc'[x] = pc[x] /\ ret'[x] = ret[x]
                                 /\ victim'[x] = victim[x]
    BY DEF KillReturn, Goto, TypeOK, ThreadTypeOK
  <2>2. pc'[t] = ret[t] /\ ret'[t] = "off"
    BY DEF KillReturn, Goto, TypeOK, ThreadTypeOK
  <2> QED BY <1>0, <2>1, <2>2 DEF SpawnOK, Old, Alive, osVars
<1>4. FileOK'
  BY <1>0 DEF FileOK
<1> QED BY <1>1, <1>2, <1>3, <1>4 DEF Rest

\* The death of p.  If p is what the KillSelf of a StartProject is to kill,
\* it does not run any more.
LEMMA DeathInv ==
  ASSUME IInv, NEW p \in Pids, NEW q, NEW npc \in [Threads -> Labels],
         Gone(p, q), ThreadsEnd(p, npc), UNCHANGED file,
         \A t \in Threads : \/ npc[t] = pc[t]
                            \/ pc[t] = "signal" /\ npc[t] = "next" /\ victim[t] = p
                            \/ pc[t] = "next" /\ npc[t] = "killed",
         Named(owner, pidTable'.tab), \A x \in Threads : Named(owner, seen'[x])
  PROVE  Rest'
<1> USE DEF IInv
<1>1. FreshIds'
  BY DEF FreshIds, Gone
<1>2. EntriesNamed'
  <2>1. \A x \in Threads : Named(owner, table'[x].tab) /\ Named(owner, scratch'[x].tab)
    BY NamedFacts DEF ThreadsEnd, Lost, EntriesNamed
  <2> QED BY <2>1, KeepNamed DEF Gone, EntriesNamed
<1>3. SpawnOK'
  <2>1. \A r \in Pids : status'[r] = "alive" => status[r] = "alive"
    BY DEF Gone
  <2>2. status'[p] # "alive"
    BY DEF Gone
  <2> SUFFICES ASSUME NEW t \in Threads
               PROVE  /\ pc'[t] = "fork" => ~Alive(Old(t))'
                      /\ ret'[t] = "fork" => victim'[t] = Old(t)'
                      /\ ret'[t] = "fork" /\ pc'[t] \in {"next", "killed"}
                            => ~Alive(Old(t))'
    BY DEF SpawnOK
  <2>3. CASE host[t] = p
    BY <2>3 DEF ThreadsEnd, Lost
  <2>4. CASE host[t] # p
    <3>1. /\ pc'[t] = npc[t] /\ ret'[t] = ret[t] /\ victim'[t] = victim[t]
          /\ table'[t] = table[t] /\ cur'[t] = cur[t]
      BY <2>4 DEF ThreadsEnd, Lost
    <3> QED BY <2>1, <2>2, <3>1 DEF SpawnOK, Old, Alive
  <2> QED BY <2>3, <2>4
<1>4. FileOK'
  BY DEF FileOK
<1> QED BY <1>1, <1>2, <1>3, <1>4 DEF Rest

\* The read of StartProject.
LEMMA ReadStartInv ==
  ASSUME IInv, NEW t \in Threads, ReadStart(t),
         Named(owner, pidTable'.tab), \A x \in Threads : Named(owner, seen'[x])
  PROVE  Rest'
<1> USE DEF IInv
<1> DEFINE m == Unmarshal(file)
<1>0. UNCHANGED <<osVars, file, scratch>> /\ UNCHANGED cur
  BY DEF ReadStart, CallKillSelf, TypeOK, ThreadTypeOK
<1>a. m \in Maps /\ Named(owner, m.tab)
  BY MapFacts DEF TypeOK, DataTypeOK, EntriesNamed
<1>b. \A x \in Threads \ {t} : /\ table'[x] = table[x] /\ victim'[x] = victim[x]
                               /\ ret'[x] = ret[x] /\ pc'[x] = pc[x]
  BY DEF ReadStart, CallKillSelf, Goto, TypeOK, ThreadTypeOK, DataTypeOK
<1>1. FreshIds'
  BY <1>0 DEF FreshIds, osVars
<1>2. EntriesNamed'
  <2>1. \A x \in Threads : Named(owner, table'[x].tab)
    BY <1>a DEF ReadStart, EntriesNamed, TypeOK, DataTypeOK
  <2> QED BY <1>0, <2>1, KeepNamed DEF osVars, EntriesNamed
<1>3. SpawnOK'
  <2>1. CASE ~Readable(file)
    <3>1. pc'[t] # "fork" /\ ret'[t] # "fork"
      BY <2>1 DEF ReadStart, Goto, Control, ThreadOK, InKillSelf, TypeOK, ThreadTypeOK
    <3> QED BY <1>0, <1>b, <3>1 DEF SpawnOK, Old, Alive, osVars
  <2>2. CASE Readable(file) /\ m.tab[cur[t]] # 0
    <3>1. /\ pc'[t] = "clear" /\ victim'[t] = m.tab[cur[t]] /\ table'[t] = m
      BY <2>2 DEF ReadStart, CallKillSelf, Goto, TypeOK, ThreadTypeOK, DataTypeOK
    <3> QED BY <1>0, <1>b, <3>1 DEF SpawnOK, Old, Alive, osVars
  <2>3. CASE Readable(file) /\ m.tab[cur[t]] = 0
    <3>1. /\ pc'[t] = "fork" /\ ret'[t] = ret[t] /\ table'[t] = m
      BY <2>3 DEF ReadStart, Goto, TypeOK, ThreadTypeOK, DataTypeOK
    <3>2. ret[t] # "fork"
      BY DEF ReadStart, Control, ThreadOK, InKillSelf
    <3>3. Old(t)' = 0
      BY <1>0, <2>3, <3>1 DEF Old
    <3>4. ~Alive(Old(t))'
      BY <3>3 DEF Alive, Pids
    <3> QED BY <1>0, <1>b, <3>1, <3>2, <3>4 DEF SpawnOK, Old, Alive, osVars
  <2> QED BY <2>1, <2>2, <2>3
<1>4. FileOK'
  BY <1>0 DEF FileOK
<1> QED BY <1>1, <1>2, <1>3, <1>4 DEF Rest

\* A successful fork.  The thread holds no id of a KillSelf any more.
LEMMA ForkInv ==
  ASSUME IInv, NEW t \in Threads, NEW p \in Pids, Fork(t, p),
         UNCHANGED agentVars
  PROVE  Rest'
<1> USE DEF IInv
<1> DEFINE m == [table[t] EXCEPT !.tab[cur[t]] = p]
<1>0. Spawn(p, cur[t], host[t]) /\ UNCHANGED <<file, ret, cur, victim>>
  BY DEF Fork
<1>a. \A x \in Threads \ {t} : /\ table'[x] = table[x] /\ scratch'[x] = scratch[x]
                               /\ pc'[x] = pc[x]
  BY DEF Fork, CallFlush, Goto, TypeOK, ThreadTypeOK, DataTypeOK
<1>b. table'[t] \in {table[t], m} /\ scratch'[t] \in {NilMap, m} /\ pc'[t] = "trunc"
  BY DEF Fork, CallFlush, Goto, TypeOK, ThreadTypeOK, DataTypeOK
<1>1. FreshIds'
  BY <1>0, SpawnFresh
<1>2. EntriesNamed'
  <2>1. /\ file.tab \in [Names -> 0..MaxPid] /\ pidTable.tab \in [Names -> 0..MaxPid]
        /\ \A x \in Threads : /\ table[x].tab \in [Names -> 0..MaxPid]
                              /\ scratch[x].tab \in [Names -> 0..MaxPid]
                              /\ seen[x] \in [Names -> 0..MaxPid]
    BY DEF TypeOK, DataTypeOK, AgentTypeOK, Files, Maps
  <2>2. /\ Named(owner', file.tab) /\ Named(owner', pidTable.tab)
        /\ \A x \in Threads : /\ Named(owner', table[x].tab)
                              /\ Named(owner', scratch[x].tab)
                              /\ Named(owner', seen[x])
    BY <1>0, <2>1, SpawnNamed DEF EntriesNamed
  <2>3. Named(owner', m.tab)
    <3>1. owner'[p] = cur[t]
      BY <1>0 DEF Spawn, TypeOK, OsTypeOK
    <3>2. table[t] \in Maps
      BY DEF TypeOK, DataTypeOK
    <3>3. \A n \in Names : m.tab[n] = IF n = cur[t] THEN p ELSE table[t].tab[n]
      BY <3>2 DEF Maps
    <3> HIDE DEF m
    <3> QED BY <2>2, <3>1, <3>3 DEF Named
  <2>4. Named(owner', NilMap.tab)
    BY NamedFacts
  <2> HIDE DEF m
  <2>5. \A x \in Threads : Named(owner', table'[x].tab) /\ Named(owner', scratch'[x].tab)
    BY <1>a, <1>b, <2>2, <2>3, <2>4
  <2> QED BY <1>0, <2>2, <2>5 DEF EntriesNamed, agentVars
<1>3. SpawnOK'
  <2>1. ret[t] # "fork"
    BY DEF Fork, Control, ThreadOK, InKillSelf
  <2>2. \A x \in Threads : pc[x] = "fork" \/ ret[x] = "fork" => cur[x] \in Names
    BY DEF Control, ThreadOK
  <2>3. \A x \in Threads : cur[x] \in Names /\ ~Alive(Old(x))
            => ~(Old(x) \in Pids /\ status'[Old(x)] = "alive")
    BY <1>0, SpawnNotOld
  <2> SUFFICES ASSUME NEW x \in Threads
               PROVE  /\ pc'[x] = "fork" => ~Alive(Old(x))'
                      /\ ret'[x] = "fork" => victim'[x] = Old(x)'
                      /\ ret'[x] = "fork" /\ pc'[x] \in {"next", "killed"}
                            => ~Alive(Old(x))'
    BY DEF SpawnOK
  <2>4. CASE x = t
    BY <1>0, <1>b, <2>1, <2>4
  <2>5. CASE x # t
    <3>1. Old(x)' = Old(x) /\ pc'[x] = pc[x] /\ ret'[x] = ret[x]
            /\ victim'[x] = victim[x]
      BY <1>0, <1>a, <2>5 DEF Old
    <3> QED BY <2>2, <2>3, <3>1 DEF SpawnOK, Alive
  <2> QED BY <2>4, <2>5
<1>4. FileOK'
  BY <1>0 DEF FileOK
<1> QED BY <1>1, <1>2, <1>3, <1>4 DEF Rest

\* A failed fork.
LEMMA ForkFailInv ==
  ASSUME IInv, NEW t \in Threads, ForkFail(t), UNCHANGED agentVars
  PROVE  Rest'
<1> USE DEF IInv
<1>0. UNCHANGED <<osVars, file, table, ret, cur, victim>>
  BY DEF ForkFail
<1>1. FreshIds'
  BY <1>0 DEF FreshIds, osVars
<1>2. EntriesNamed'
  <2>1. \A x \in Threads : Named(owner, scratch'[x].tab)
    BY DEF ForkFail, CallFlush, EntriesNamed, TypeOK, DataTypeOK
  <2> QED BY <1>0, <2>1, KeepNamed DEF osVars, EntriesNamed, agentVars
<1>3. SpawnOK'
  <2>1. \A p \in Pids : status'[p] = "alive" => status[p] = "alive"
    BY <1>0 DEF osVars
  <2> QED BY <1>0, <2>1, KeepSpawn
      DEF ForkFail, CallFlush, Goto, TypeOK, ThreadTypeOK
<1>4. FileOK'
  BY <1>0 DEF FileOK
<1> QED BY <1>1, <1>2, <1>3, <1>4 DEF Rest

\* A process ends by itself.
LEMMA ExitInv ==
  ASSUME IInv, NEW p \in Pids, Exit(p),
         Named(owner, pidTable'.tab), \A x \in Threads : Named(owner, seen'[x])
  PROVE  Rest'
<1>1. pc \in [Threads -> Labels]
  BY DEF IInv, TypeOK, ThreadTypeOK
<1>2. Gone(p, 0) /\ ThreadsEnd(p, pc) /\ UNCHANGED file
  BY DEF Exit
<1> QED BY <1>1, <1>2, DeathInv

\* Pid.KillSelf sends its two signals.
LEMMA SignalInv ==
  ASSUME IInv, NEW t \in Threads, Signal(t) \/ SignalNext(t) \/ Killed(t),
         Named(owner, pidTable'.tab), \A x \in Threads : Named(owner, seen'[x])
  PROVE  Rest'
<1> USE DEF IInv
<1>0. pc[t] \in InKillSelf
  BY DEF Signal, SignalNext, Killed, InKillSelf
<1>1. CASE Signal(t) /\ ProcessIsExist(victim[t])
  <2> DEFINE npc == [pc EXCEPT ![t] = "next"]
  <2>1. npc \in [Threads -> Labels] /\ victim[t] \in Pids
    BY <1>1 DEF TypeOK, ThreadTypeOK, Labels, TableLabels, ProcessIsExist
  <2>2. \A x \in Threads : npc[x] = pc[x] \/ (x = t /\ npc[x] = "next")
    BY DEF TypeOK, ThreadTypeOK
  <2>3. pc[t] = "signal" /\ Gone(victim[t], host[t]) /\ ThreadsEnd(victim[t], npc)
          /\ UNCHANGED file
    BY <1>1 DEF Signal, KillProcess
  <2> HIDE DEF npc
  <2> QED BY <2>1, <2>2, <2>3, DeathInv
<1>2. CASE SignalNext(t) /\ ProcessIsExist(victim[t] + 1)
  <2> DEFINE npc == [pc EXCEPT ![t] = "killed"]
  <2>1. npc \in [Threads -> Labels] /\ victim[t] + 1 \in Pids
    BY <1>2 DEF TypeOK, ThreadTypeOK, Labels, TableLabels, ProcessIsExist
  <2>2. \A x \in Threads : npc[x] = pc[x] \/ (x = t /\ npc[x] = "killed")
    BY DEF TypeOK, ThreadTypeOK
  <2>3. pc[t] = "next" /\ Gone(victim[t] + 1, host[t])
          /\ ThreadsEnd(victim[t] + 1, npc) /\ UNCHANGED file
    BY <1>2 DEF SignalNext, KillProcess
  <2> HIDE DEF npc
  <2> QED BY <2>1, <2>2, <2>3, DeathInv
<1>3. CASE Signal(t) /\ ~ProcessIsExist(victim[t])
  <2>1. ret[t] = "fork" => ~Alive(Old(t))
    BY <1>3 DEF SpawnOK, ProcessIsExist, Alive
  <2> QED BY <1>0, <1>3, <2>1, KillReturnInv DEF Signal
<1>4. CASE (SignalNext(t) /\ ~ProcessIsExist(victim[t] + 1)) \/ Killed(t)
  <2>1. ret[t] = "fork" => ~Alive(Old(t))
    BY <1>4 DEF SpawnOK, SignalNext, Killed
  <2> QED BY <1>0, <1>4, <2>1, KillReturnInv DEF SignalNext, Killed
<1> QED BY <1>1, <1>2, <1>3, <1>4

-----------------------------------------------------------------------------
(***************************************************************************)
(* The invariants.                                                         *)
(***************************************************************************)
LEMMA InitInv == Init => IInv
<1> SUFFICES ASSUME Init PROVE IInv
  OBVIOUS
<1>1. FreshIds /\ FileOK
  BY DEF Init, TableInit, FreshIds, FileOK, Absent
<1>2. EntriesNamed
  <2>1. Absent.tab = Nothing
    BY DEF Absent
  <2> QED BY <2>1, NamedFacts DEF Init, TableInit, EntriesNamed
<1>3. SpawnOK
  BY DEF Init, TableInit, SpawnOK
<1> QED BY <1>1, <1>2, <1>3, InitType DEF IInv

\* Every step keeps the inductive invariant.
LEMMA NextInv ==
  ASSUME IInv, [Next]_vars
  PROVE  IInv'
<1>0. TypeOK' /\ Control'
  BY NextType DEF IInv
<1>1. CASE \E p \in Pids, mode \in {"edge", "clear"} : AgentStart(p, mode)
  BY <1>0, <1>1, AgentStartInv DEF IInv, Rest
<1>2. CASE Boot
  BY <1>0, <1>2, BootInv DEF IInv, Rest
<1>3. CASE Lifecycle
  BY <1>0, <1>3, LifecycleInv DEF IInv, Rest
<1>4. CASE Monitor \/ \E n \in Names : MonOverload(n)
  BY <1>0, <1>4, MonitorInv DEF IInv, Rest
<1>5. CASE \E t \in Threads : Operation(t)
  <2>1. PICK t \in Threads : Operation(t)
    BY <1>5
  <2>2. Named(owner, pidTable'.tab) /\ \A x \in Threads : Named(owner, seen'[x])
    BY <2>1, MemoryNamed DEF Operation
  <2>3. CASE Trunc(t) \/ Write(t)
    BY <1>0, <2>2, <2>3, FlushInv DEF IInv, Rest
  <2>4. CASE ClearRead(t) \/ ReadStart(t)
    BY <1>0, <2>2, <2>4, ClearReadInv, ReadStartInv DEF IInv, Rest
  <2>5. CASE Signal(t) \/ SignalNext(t) \/ Killed(t)
    BY <1>0, <2>2, <2>5, SignalInv DEF IInv, Rest
  <2>6. CASE \E p \in Pids : Fork(t, p)
    <3>1. UNCHANGED host
      BY <2>6 DEF Fork
    <3>2. UNCHANGED agentVars
      BY <2>1, <3>1 DEF Operation, AgentMemory
    <3> QED BY <1>0, <2>6, <3>2, ForkInv DEF IInv, Rest
  <2>7. CASE Panic(t)
    <3>1. host[t] \in Pids
      BY <2>7 DEF Panic, IInv, Control, ThreadOK, TypeOK, ThreadTypeOK, Pids
    <3> QED BY <1>0, <2>2, <2>7, <3>1, ExitInv DEF Panic, IInv, Rest
  <2> QED BY <2>1, <2>3, <2>4, <2>5, <2>6, <2>7 DEF Operation, TableStep
<1>6. CASE \E t \in Threads : Unlucky(t)
  <2>1. PICK t \in Threads : Unlucky(t)
    BY <1>6
  <2>2. UNCHANGED agentVars
    BY <2>1 DEF Unlucky
  <2>3. Named(owner, pidTable'.tab) /\ \A x \in Threads : Named(owner, seen'[x])
    BY <2>2 DEF IInv, EntriesNamed, agentVars
  <2> QED BY <1>0, <2>1, <2>2, <2>3, FlushInv, ForkFailInv DEF Unlucky, IInv, Rest
<1>7. CASE \E p \in Pids : Watch(p) \/ ModuleExit(p)
  <2>1. PICK p \in Pids : Watch(p) \/ ModuleExit(p)
    BY <1>7
  <2>2. Exit(p) /\ UNCHANGED agentVars
    BY <2>1 DEF Watch, ModuleExit
  <2>3. Named(owner, pidTable'.tab) /\ \A x \in Threads : Named(owner, seen'[x])
    BY <2>2 DEF IInv, EntriesNamed, agentVars
  <2> QED BY <1>0, <2>2, <2>3, ExitInv DEF IInv, Rest
<1>8. CASE AgentExit
  <2>1. host[Life] \in Pids
    BY <1>8, ModulesAssumption
    DEF AgentExit, AgentRuns, IInv, TypeOK, ThreadTypeOK, Pids
  <2>2. Named(owner, pidTable'.tab) /\ \A x \in Threads : Named(owner, seen'[x])
    BY <1>8, MemoryNamed DEF AgentExit
  <2> QED BY <1>0, <1>8, <2>1, <2>2, ExitInv DEF AgentExit, IInv, Rest
<1>9. CASE UNCHANGED vars
  BY <1>0, <1>9 DEF vars, tableVars, osVars, localVars, agentVars, IInv, FreshIds,
     EntriesNamed, SpawnOK, Alive, Old, FileOK
<1> QED BY <1>1, <1>2, <1>3, <1>4, <1>5, <1>6, <1>7, <1>8, <1>9 DEF Next

\* Whatever the interleaving of the agent's goroutines, the crashes and the
\* lost updates, an id recorded under a name was started under that name.
THEOREM EntriesAreNamed == Spec => []EntriesNamed
<1>1. IInv /\ [Next]_vars => IInv'
  BY NextInv
<1>2. IInv => EntriesNamed
  BY DEF IInv
<1> QED BY InitInv, <1>1, <1>2, PTL DEF Spec

\* StartProject never starts a second instance beside the one it read.
THEOREM SpawnIsSafe == Spec => []SpawnSafe
<1>1. IInv /\ [Next]_vars => IInv'
  BY NextInv
<1>2. IInv => SpawnSafe
  BY DEF IInv, SpawnOK, SpawnSafe, Old
<1> QED BY InitInv, <1>1, <1>2, PTL DEF Spec

-----------------------------------------------------------------------------
(***************************************************************************)
(* WedgeStable: nothing in the agent ever repairs a damaged process table. *)
(***************************************************************************)
\* No module is started by this step.
NoStart ==
    \A p \in Pids : status[p] # "alive" /\ status'[p] = "alive" => owner'[p] = Agent

\* A damaged file is there, does not parse and records nothing.
LEMMA DamagedFile ==
  ASSUME IInv, Wedged
  PROVE  ~Readable(file) /\ file # Absent /\ file.tab = Nothing /\ KeysOf(file.tab) = {}
BY DEF IInv, Wedged, FileOK, Readable, Absent, KeysOf, Nothing

\* Where a thread may move without becoming a holder of a readable copy.
Harmless(l) == l \notin {"trunc", "write", "fork", "m_dead"}

\* A step is harmless when the file, the return labels and Mon's loop stay
\* as they are and no thread moves to where it would write or fork.
LEMMA KeepWedged ==
  ASSUME Wedged, UNCHANGED file,
         \A t \in Threads : pc'[t] = pc[t] \/ Harmless(pc'[t]),
         \A t \in Threads : ret'[t] = ret[t] \/ ret'[t] \notin {"fork", "m_dead"},
         todo'[Mon] = {}, update' = FALSE
  PROVE  Wedged'
BY ModulesAssumption DEF Wedged, NoHolder, Harmless

\* The death of a process only takes holders away.
LEMMA DeathWedged ==
  ASSUME IInv, Wedged, NEW p \in Pids, NEW q, NEW npc \in [Threads -> Labels],
         Gone(p, q), ThreadsEnd(p, npc), UNCHANGED file,
         \A t \in Threads : npc[t] = pc[t] \/ Harmless(npc[t]),
         AgentMemory \/ UNCHANGED agentVars
  PROVE  Wedged' /\ NoStart
<1>1. \A t \in Threads : pc'[t] = pc[t] \/ Harmless(pc'[t])
  BY DEF ThreadsEnd, Lost, Harmless
<1>2. \A t \in Threads : ret'[t] = ret[t] \/ ret'[t] \notin {"fork", "m_dead"}
  BY DEF ThreadsEnd, Lost
<1>3. todo'[Mon] = {} /\ update' = FALSE
  BY ModulesAssumption
  DEF AgentMemory, agentVars, Wedged, NoHolder, IInv, TypeOK, AgentTypeOK
<1>4. NoStart
  BY DEF Gone, NoStart, IInv, TypeOK, OsTypeOK, Statuses
<1> QED BY <1>1, <1>2, <1>3, <1>4, KeepWedged

\* The agent may be started again, in either mode.
LEMMA AgentStartWedged ==
  ASSUME IInv, Wedged, NEW p \in Pids, NEW mode, AgentStart(p, mode)
  PROVE  Wedged' /\ NoStart
<1>1. NoStart
  BY DEF AgentStart, Spawn, NoStart, IInv, TypeOK, OsTypeOK
<1>2. \A t \in Threads : pc'[t] = pc[t] \/ Harmless(pc'[t])
  BY DEF AgentStart, Harmless, IInv, TypeOK, ThreadTypeOK
<1>3. UNCHANGED <<file, ret, todo, update>>
  BY DEF AgentStart, localVars, agentVars
<1> QED BY <1>1, <1>2, <1>3, KeepWedged
    DEF Wedged, NoHolder, IInv, TypeOK, AgentTypeOK

\* prepare() reads nothing and creates nothing.
LEMMA BootWedged ==
  ASSUME IInv, Wedged, Boot
  PROVE  Wedged' /\ NoStart
<1> USE ModulesAssumption, DamagedFile DEF IInv
<1>1. ~BootCreate /\ UNCHANGED <<file, osVars>>
  BY DEF Boot, BootCreate, BootRead, BootKillDone, BootDone, BootKill
<1>2. \A t \in Threads : pc'[t] = pc[t] \/ Harmless(pc'[t])
  BY <1>1 DEF Boot, BootRead, BootKillDone, BootDone, BootKill, CallKillSelf, Goto,
     Harmless, TypeOK, ThreadTypeOK
<1>3. \A t \in Threads : ret'[t] = ret[t] \/ ret'[t] \notin {"fork", "m_dead"}
  BY <1>1 DEF Boot, BootRead, BootKillDone, BootDone, BootKill, CallKillSelf,
     localVars, TypeOK, ThreadTypeOK
<1>4. todo'[Mon] = {} /\ update' = FALSE
  BY <1>1 DEF Boot, BootRead, BootKillDone, BootDone, BootKill, agentVars, Wedged,
     NoHolder, TypeOK, AgentTypeOK
<1>5. NoStart
  BY <1>1 DEF NoStart, osVars
<1> QED BY <1>1, <1>2, <1>3, <1>4, <1>5, KeepWedged

\* The lifecycle task reads an empty map and asks StartProject in vain.
LEMMA LifecycleWedged ==
  ASSUME IInv, Wedged, Lifecycle
  PROVE  Wedged' /\ NoStart
<1> USE ModulesAssumption DEF IInv
<1>1. UNCHANGED <<file, osVars, todo, update>>
  BY DEF Lifecycle, LifeRead, LifeStarted, LifeZombie, LifeCheck, agentVars
<1>2. \A t \in Threads : pc'[t] = pc[t] \/ Harmless(pc'[t])
  BY DEF Lifecycle, LifeRead, LifeStarted, LifeZombie, LifeCheck, CallKillSelf,
     CallStartProject, Goto, Harmless, TypeOK, ThreadTypeOK
<1>3. \A t \in Threads : ret'[t] = ret[t] \/ ret'[t] \notin {"fork", "m_dead"}
  BY DEF Lifecycle, LifeRead, LifeStarted, LifeZombie, LifeCheck, CallKillSelf,
     localVars, TypeOK, ThreadTypeOK
<1>4. NoStart
  BY <1>1 DEF NoStart, osVars
<1> QED BY <1>1, <1>2, <1>3, <1>4, KeepWedged
    DEF Wedged, NoHolder, TypeOK, AgentTypeOK

\* The monitoring task reads an empty map, so its loop body never runs.
LEMMA MonitorWedged ==
  ASSUME IInv, Wedged, Monitor \/ \E n \in Names : MonOverload(n)
  PROVE  Wedged' /\ NoStart
<1> USE ModulesAssumption DEF IInv
<1>1. MonRead \/ MonEnd
  BY DEF Monitor, MonFine, MonDead, MonOverload, Wedged, NoHolder
<1>2. UNCHANGED <<file, osVars, ret>>
  BY <1>1 DEF MonRead, MonEnd, localVars
<1>3. update' = FALSE /\ todo'[Mon] = {}
  BY <1>1, DamagedFile DEF MonRead, MonEnd, Wedged, NoHolder, TypeOK, AgentTypeOK
<1>4. \A t \in Threads : pc'[t] = pc[t] \/ Harmless(pc'[t])
  BY <1>1 DEF MonRead, MonEnd, Goto, Harmless, Wedged, NoHolder, TypeOK, ThreadTypeOK
<1>5. NoStart
  BY <1>2 DEF NoStart, osVars
<1> QED BY <1>2, <1>3, <1>4, <1>5, KeepWedged

\* KillSelf and StartProject find the file unreadable; only kills remain.
LEMMA OperationWedged ==
  ASSUME IInv, Wedged, NEW t \in Threads, Operation(t)
  PROVE  Wedged' /\ NoStart
<1> USE ModulesAssumption, DamagedFile DEF IInv
<1>0. /\ pc[t] \notin {"trunc", "write", "fork"}
      /\ ret[t] \notin {"fork", "m_dead"}
  BY DEF Wedged, NoHolder
<1>1. CASE ClearRead(t) \/ ReadStart(t)
  <2>1. UNCHANGED <<file, osVars, host, ret>>
    BY <1>1 DEF ClearRead, ReadStart
  <2>2. \A x \in Threads : pc'[x] = pc[x] \/ Harmless(pc'[x])
    BY <1>1 DEF ClearRead, ReadStart, Goto, Harmless, TypeOK, ThreadTypeOK
  <2>3. UNCHANGED agentVars
    BY <2>1 DEF Operation, AgentMemory
  <2> QED BY <2>1, <2>2, <2>3, KeepWedged
      DEF agentVars, osVars, NoStart, Wedged, NoHolder, TypeOK, AgentTypeOK
<1>2. ASSUME KillReturn(t)
      PROVE  Wedged' /\ NoStart
  <2>1. UNCHANGED <<file, osVars, host>>
    BY <1>2 DEF KillReturn
  <2>2. \A x \in Threads : pc'[x] = pc[x] \/ Harmless(pc'[x])
    BY <1>0, <1>2 DEF KillReturn, Goto, Harmless, TypeOK, ThreadTypeOK, Control,
       ThreadOK, RetLabels
  <2>3. UNCHANGED agentVars
    BY <2>1 DEF Operation, AgentMemory
  <2>4. \A x \in Threads : ret'[x] = ret[x] \/ ret'[x] \notin {"fork", "m_dead"}
    BY <1>2 DEF KillReturn, TypeOK, ThreadTypeOK
  <2> QED BY <2>1, <2>2, <2>3, <2>4, KeepWedged
      DEF agentVars, osVars, NoStart, Wedged, NoHolder, TypeOK, AgentTypeOK
<1>3. ASSUME NEW p \in Pids, NEW l \in {"next", "killed"}, KillProcess(t, p, l)
      PROVE  Wedged' /\ NoStart
  <2> DEFINE npc == [pc EXCEPT ![t] = l]
  <2>1. npc \in [Threads -> Labels]
    BY DEF TypeOK, ThreadTypeOK, Labels, TableLabels
  <2>2. \A x \in Threads : npc[x] = pc[x] \/ Harmless(npc[x])
    BY DEF TypeOK, ThreadTypeOK, Harmless
  <2>3. Gone(p, host[t]) /\ ThreadsEnd(p, npc) /\ UNCHANGED file /\ AgentMemory
    BY <1>3 DEF KillProcess, Operation
  <2> HIDE DEF npc
  <2> QED BY <2>1, <2>2, <2>3, DeathWedged
<1>4. CASE Signal(t) \/ SignalNext(t) \/ Killed(t)
  BY <1>0, <1>2, <1>3, <1>4 DEF Signal, SignalNext, Killed, ProcessIsExist
<1>5. CASE Panic(t)
  <2>1. host[t] \in Pids
    BY <1>5 DEF Panic, Control, ThreadOK, TypeOK, ThreadTypeOK, Pids
  <2>2. pc \in [Threads -> Labels]
    BY DEF TypeOK, ThreadTypeOK
  <2>3. Gone(host[t], 0) /\ ThreadsEnd(host[t], pc) /\ UNCHANGED file /\ AgentMemory
    BY <1>5 DEF Panic, Exit, Operation
  <2> QED BY <2>1, <2>2, <2>3, DeathWedged
<1> QED BY <1>0, <1>1, <1>4, <1>5
    DEF Operation, TableStep, Trunc, Write, Fork

\* No step repairs the file or starts a module.
LEMMA NextWedged ==
  ASSUME IInv, Wedged, Next
  PROVE  Wedged' /\ NoStart
<1>1. CASE \E p \in Pids, mode \in {"edge", "clear"} : AgentStart(p, mode)
  BY <1>1, AgentStartWedged
<1>2. CASE Boot \/ Lifecycle
  BY <1>2, BootWedged, LifecycleWedged
<1>3. CASE Monitor \/ \E n \in Names : MonOverload(n)
  BY <1>3, MonitorWedged
<1>4. CASE \E t \in Threads : Operation(t) \/ Unlucky(t)
  <2>1. \A t \in Threads : ~Unlucky(t)
    BY DEF Unlucky, FlushFail, ForkFail, Wedged, NoHolder
  <2> QED BY <1>4, <2>1, OperationWedged
<1>5. ASSUME NEW p \in Pids, Exit(p), AgentMemory \/ UNCHANGED agentVars
      PROVE  Wedged' /\ NoStart
  <2>1. pc \in [Threads -> Labels]
    BY DEF IInv, TypeOK, ThreadTypeOK
  <2>2. Gone(p, 0) /\ ThreadsEnd(p, pc) /\ UNCHANGED file
    BY <1>5 DEF Exit
  <2> QED BY <1>5, <2>1, <2>2, DeathWedged
<1>6. CASE \E p \in Pids : Watch(p) \/ ModuleExit(p)
  BY <1>5, <1>6 DEF Watch, ModuleExit
<1>7. CASE AgentExit
  <2>1. host[Life] \in Pids
    BY <1>7, ModulesAssumption
    DEF AgentExit, AgentRuns, IInv, TypeOK, ThreadTypeOK, Pids
  <2> QED BY <1>5, <1>7, <2>1 DEF AgentExit
<1> QED BY <1>1, <1>2, <1>3, <1>4, <1>6, <1>7 DEF Next

\* A damaged process table is damaged for good, and no module is ever
\* started again, whatever crashes and restarts follow.
THEOREM WedgeIsStable == Spec => WedgeStable
<1>1. IInv /\ [Next]_vars => IInv'
  BY NextInv
<1>2. IInv /\ [Next]_vars =>
        [Wedged => Wedged' /\ \A p \in Pids :
            status[p] # "alive" /\ status'[p] = "alive" => owner'[p] = Agent]_vars
  BY NextWedged DEF NoStart
<1> QED BY InitInv, <1>1, <1>2, PTL DEF Spec, WedgeStable

-----------------------------------------------------------------------------
(***************************************************************************)
(* The guards.  Supervisor takes any verdict of isMemOverloaded and any    *)
(* end of a module; ResourceGuard, of which guard is the instance for the  *)
(* supervisor's modules, says which verdicts the code can give.            *)
(***************************************************************************)
CONSTANTS ProxyKeys, OwnLoads, Loads, Followed, MaxHis
VARIABLES up, cpuHis, his, streak, high

guard == INSTANCE ResourceGuard WITH Modules <- Names, Keys <- ProxyKeys

\* What ResourceGuard assumes of its constants.
GuardAssumption ==
    /\ Loads \cup OwnLoads \subseteq Nat
    /\ Names \cap ProxyKeys = {} /\ Followed \subseteq Names \cup ProxyKeys
    /\ MaxHis \in Nat

\* r is how many of the latest loads in s are at or above the limit: there are
\* that many, and the one before them, if there is one, is below it.
LatestRun(s, r, limit) ==
    /\ r \in Nat /\ r <= Len(s)
    /\ \A i \in DOMAIN s : i > Len(s) - r => s[i] >= limit
    /\ r < Len(s) => s[Len(s) - r] < limit

\* The window of a process has the run the plain count says; a process with
\* six in a row has ended.
Windows ==
    \A n \in guard!Names : /\ LatestRun(cpuHis[n], streak[n], 5)
                           /\ up[n] => streak[n] < 6

\* So has the agent's history of a module.  Keys have no history.
Histories ==
    \A n \in guard!Names :
      IF n \in Names THEN LatestRun(his[n], high[n], 6) /\ Len(his[n]) <= MaxHis
      ELSE high[n] = 0

\* The inductive invariant.
GuardInv == guard!TypeOK /\ Windows /\ Histories

\* A further load prolongs the run or ends it.
LEMMA RunAppend ==
    ASSUME NEW s \in Seq(Nat), NEW r, NEW c \in Nat, NEW limit \in Nat, LatestRun(s, r, limit)
    PROVE  LatestRun(Append(s, c), guard!Run(r, c, limit), limit)
<1>1. /\ Len(Append(s, c)) = Len(s) + 1 /\ Len(s) \in Nat /\ DOMAIN Append(s, c) = 1..(Len(s) + 1)
      /\ DOMAIN s = 1..Len(s) /\ Append(s, c)[Len(s) + 1] = c
      /\ \A i \in 1..Len(s) : Append(s, c)[i] = s[i] /\ s[i] \in Nat
  OBVIOUS
<1>2. CASE c >= limit
  <2>1. guard!Run(r, c, limit) = r + 1
    BY <1>2 DEF guard!Run
  <2>2. \A i \in 1..(Len(s) + 1) : i > Len(s) - r => Append(s, c)[i] >= limit
    BY <1>1, <1>2 DEF LatestRun
  <2>3. r < Len(s) => Append(s, c)[Len(s) - r] < limit
    <3> SUFFICES ASSUME r < Len(s) PROVE Append(s, c)[Len(s) - r] < limit
      OBVIOUS
    <3>1. Len(s) - r \in 1..Len(s)
      BY <1>1 DEF LatestRun
    <3> QED BY <1>1, <3>1 DEF LatestRun
  <2>4. /\ r \in Nat /\ r + 1 <= Len(s) + 1 /\ (Len(s) + 1) - (r + 1) = Len(s) - r
        /\ r + 1 < Len(s) + 1 => r < Len(s)
    BY <1>1 DEF LatestRun
  <2>5. LatestRun(Append(s, c), r + 1, limit)
    <3> DEFINE t == Append(s, c)
    <3>1. Len(t) = Len(s) + 1 /\ DOMAIN t = 1..(Len(s) + 1)
      BY <1>1
    <3>2. \A i \in 1..(Len(s) + 1) : i > Len(s) - r => t[i] >= limit
      BY <2>2
    <3>3. r < Len(s) => t[Len(s) - r] < limit
      BY <2>3
    <3> HIDE DEF t
    <3>4. LatestRun(t, r + 1, limit)
      <4>1. r + 1 \in 0..Len(t)
        BY <2>4, <3>1
      <4>2. \A i \in 1..Len(t) : i > Len(t) - (r + 1) => t[i] >= limit
        BY <2>4, <3>1, <3>2
      <4>3. r + 1 < Len(t) => t[Len(t) - (r + 1)] < limit
        BY <2>4, <3>1, <3>3
      <4> QED BY <4>1, <4>2, <4>3 DEF LatestRun
    <3> QED BY <3>4 DEF t
  <2> QED BY <2>1, <2>5
<1>3. CASE c < limit
  <2>1. guard!Run(r, c, limit) = 0
    BY <1>3 DEF guard!Run
  <2> QED BY <1>1, <1>3, <2>1 DEF LatestRun
<1> QED BY <1>2, <1>3

\* Cutting the oldest load off leaves the run alone, unless it reaches there.
LEMMA RunTail ==
    ASSUME NEW s \in Seq(Nat), NEW r, NEW limit \in Nat, LatestRun(s, r, limit), r < Len(s)
    PROVE  LatestRun(Tail(s), r, limit)
<1>1. /\ Len(Tail(s)) = Len(s) - 1 /\ Len(s) \in Nat \ {0} /\ r \in Nat
      /\ DOMAIN Tail(s) = 1..(Len(s) - 1) /\ DOMAIN s = 1..Len(s)
      /\ \A i \in 1..(Len(s) - 1) : Tail(s)[i] = s[i + 1]
  BY DEF LatestRun
<1>2. \A i \in 1..(Len(s) - 1) : i > (Len(s) - 1) - r => Tail(s)[i] >= limit
  <2> SUFFICES ASSUME NEW i \in 1..(Len(s) - 1), i > (Len(s) - 1) - r
               PROVE  s[i + 1] >= limit
    BY <1>1
  <2>1. i + 1 \in DOMAIN s /\ i + 1 > Len(s) - r
    BY <1>1
  <2> QED BY <2>1 DEF LatestRun
<1>3. r < Len(s) - 1 => Tail(s)[(Len(s) - 1) - r] < limit
  <2> SUFFICES ASSUME r < Len(s) - 1
               PROVE  Tail(s)[(Len(s) - 1) - r] < limit
    OBVIOUS
  <2>1. (Len(s) - 1) - r \in 1..(Len(s) - 1) /\ ((Len(s) - 1) - r) + 1 = Len(s) - r
    BY <1>1
  <2> QED BY <1>1, <2>1 DEF LatestRun
<1>4. r <= Len(s) - 1
  BY <1>1 DEF LatestRun
<1> QED BY <1>1, <1>2, <1>3, <1>4 DEF LatestRun

\* Loads are numbers.
LEMMA SeqOfNats == ASSUME NEW S, S \subseteq Nat, NEW s \in Seq(S) PROVE s \in Seq(Nat)
<1>1. s \in [1..Len(s) -> S] /\ Len(s) \in Nat
  OBVIOUS
<1>2. s \in [1..Len(s) -> Nat]
  BY <1>1
<1> QED BY <1>1, <1>2

LEMMA GuardInit == ASSUME GuardAssumption, guard!Init PROVE GuardInv
<1>1. /\ Len(<<>>) = 0 /\ DOMAIN <<>> = {} /\ <<>> \in Seq(Loads) /\ <<>> \in Seq(OwnLoads)
      /\ 0 \in 0..MaxHis /\ 0 \in 0..6 /\ Names \subseteq guard!Names
  BY DEF GuardAssumption, guard!Names
<1>2. \A limit : LatestRun(<<>>, 0, limit)
  BY <1>1 DEF LatestRun
<1>3. guard!TypeOK
  BY <1>1 DEF guard!Init, guard!TypeOK
<1> QED BY <1>1, <1>2, <1>3 DEF guard!Init, GuardAssumption, GuardInv, Windows, Histories

\* What StartMemCpuMonitor looks for in its window.
LEMMA SixInARow ==
    ASSUME NEW w \in Seq(Nat), NEW r, LatestRun(w, r, 5), Len(w) <= 6
    PROVE  (Len(w) = 6 /\ guard!AllAtLeast(w, 5)) <=> r = 6
<1>1. Len(w) \in Nat /\ r \in Nat /\ r <= Len(w) /\ DOMAIN w = 1..Len(w)
  BY DEF LatestRun
<1>2. ASSUME r = 6 PROVE Len(w) = 6 /\ guard!AllAtLeast(w, 5)
  <2>1. Len(w) = 6
    BY <1>1, <1>2
  <2>2. \A i \in DOMAIN w : i > Len(w) - r
    BY <1>1, <1>2, <2>1
  <2> QED BY <2>1, <2>2 DEF LatestRun, guard!AllAtLeast
<1>3. ASSUME Len(w) = 6, guard!AllAtLeast(w, 5), r # 6 PROVE FALSE
  <2>1. Len(w) - r \in DOMAIN w /\ r < Len(w)
    BY <1>1, <1>3
  <2>2. w[Len(w) - r] \in Nat
    BY <2>1
  <2>3. w[Len(w) - r] >= 5
    BY <1>3, <2>1 DEF guard!AllAtLeast
  <2>4. w[Len(w) - r] < 5
    BY <2>1 DEF LatestRun
  <2> QED BY <2>2, <2>3, <2>4
<1> QED BY <1>2, <1>3

\* What isBigTooLong looks for in a history.
LEMMA FiveInARow ==
    ASSUME NEW s \in Seq(Nat), NEW r, LatestRun(s, r, 6), guard!isBigTooLong(s, 6)
    PROVE  r >= 5 /\ Len(s) \in {5, 6}
<1>1. Len(s) \in Nat /\ r \in Nat /\ r <= Len(s) /\ DOMAIN s = 1..Len(s)
  BY DEF LatestRun
<1>2. Len(s) \in {5, 6} /\ \A i \in DOMAIN s : i > Len(s) - 5 => s[i] >= 6
  <2>1. CASE Len(s) > 5
    <3>1. /\ Len(Tail(s)) = Len(s) - 1 /\ DOMAIN Tail(s) = 1..(Len(s) - 1)
          /\ \A i \in 1..(Len(s) - 1) : Tail(s)[i] = s[i + 1]
      BY <1>1, <2>1
    <3>2. Len(Tail(s)) = 5 /\ guard!AllAtLeast(Tail(s), 6)
      BY <2>1 DEF guard!isBigTooLong
    <3>3. Len(s) = 6
      BY <1>1, <3>1, <3>2
    <3>4. \A i \in 2..6 : s[i] >= 6
      <4> SUFFICES ASSUME NEW i \in 2..6 PROVE s[i] >= 6
        OBVIOUS
      <4>1. i - 1 \in 1..(Len(s) - 1) /\ (i - 1) + 1 = i
        BY <3>3
      <4>2. Tail(s)[i - 1] = s[i]
        BY <3>1, <4>1
      <4> QED BY <3>1, <3>2, <4>1, <4>2 DEF guard!AllAtLeast
    <3> QED BY <1>1, <3>3, <3>4
  <2>2. CASE ~(Len(s) > 5)
    BY <1>1, <2>2 DEF guard!isBigTooLong, guard!AllAtLeast
  <2> QED BY <2>1, <2>2
<1>3. Len(s) \in {5, 6}
  BY <1>2
<1>4. ASSUME r < 5 PROVE FALSE
  <2>1. Len(s) - r \in DOMAIN s /\ Len(s) - r > Len(s) - 5 /\ r < Len(s)
    BY <1>1, <1>3, <1>4
  <2>2. s[Len(s) - r] \in Nat
    BY <2>1
  <2>3. s[Len(s) - r] >= 6
    BY <1>2, <2>1
  <2>4. s[Len(s) - r] < 6
    BY <2>1 DEF LatestRun
  <2> QED BY <2>2, <2>3, <2>4
<1>5. r >= 5
  BY <1>1, <1>4
<1> QED BY <1>3, <1>5

\* A process samples itself.
LEMMA OwnStep ==
    ASSUME GuardAssumption, GuardInv, NEW n \in guard!Names, NEW c \in OwnLoads,
           guard!SelfSample(n, FALSE, c)
    PROVE  /\ n \in DOMAIN up /\ up' = [up EXCEPT ![n] = up'[n]] /\ up'[n] \in BOOLEAN
           /\ \E w \in Seq(OwnLoads) : /\ cpuHis' = [cpuHis EXCEPT ![n] = w] /\ Len(w) <= 6
                                       /\ LatestRun(w, streak'[n], 5)
           /\ streak' = [streak EXCEPT ![n] = streak'[n]] /\ streak'[n] \in 0..6
           /\ up'[n] <=> streak'[n] < 6
<1> DEFINE s == Append(cpuHis[n], c)
           w == IF Len(s) > 6 THEN Tail(s) ELSE s
           r == guard!Run(streak[n], c, 5)
<1>1. /\ cpuHis' = [cpuHis EXCEPT ![n] = w] /\ streak' = [streak EXCEPT ![n] = r]
      /\ up' = [up EXCEPT ![n] = ~(Len(w) = 6 /\ guard!AllAtLeast(w, 5))] /\ up[n]
  BY DEF guard!SelfSample, guard!OwnLimit
<1>2. /\ up \in [guard!Names -> BOOLEAN] /\ cpuHis[n] \in Seq(OwnLoads) /\ Len(cpuHis[n]) <= 6
      /\ streak \in [guard!Names -> 0..6] /\ streak[n] < 6 /\ OwnLoads \subseteq Nat
      /\ LatestRun(cpuHis[n], streak[n], 5) /\ cpuHis[n] \in Seq(Nat) /\ c \in Nat
  <2>1. /\ up \in [guard!Names -> BOOLEAN] /\ cpuHis[n] \in Seq(OwnLoads) /\ Len(cpuHis[n]) <= 6
        /\ streak \in [guard!Names -> 0..6] /\ OwnLoads \subseteq Nat
    BY DEF GuardAssumption, GuardInv, guard!TypeOK
  <2>2. LatestRun(cpuHis[n], streak[n], 5) /\ streak[n] < 6
    BY <1>1 DEF GuardInv, Windows
  <2>3. cpuHis[n] \in Seq(Nat) /\ c \in Nat
    BY <2>1, SeqOfNats
  <2> QED BY <2>1, <2>2, <2>3
<1>3. /\ s \in Seq(OwnLoads) /\ s \in Seq(Nat) /\ Len(s) = Len(cpuHis[n]) + 1
      /\ Len(s) \in Nat \ {0} /\ Len(s) <= 7
  BY <1>2
<1>4. LatestRun(s, r, 5)
  BY <1>2, RunAppend
<1>5. r \in 0..6 /\ r \in Nat
  BY <1>2 DEF guard!Run
<1> HIDE DEF s, r
<1>6. /\ w \in Seq(OwnLoads) /\ w \in Seq(Nat) /\ Len(w) <= 6 /\ Len(w) \in Nat
      /\ LatestRun(w, r, 5)
  <2>1. CASE Len(s) > 6
    <3>1. w = Tail(s) /\ r < Len(s)
      BY <1>3, <1>5, <2>1
    <3>2. Tail(s) \in Seq(OwnLoads) /\ Tail(s) \in Seq(Nat) /\ Len(Tail(s)) = Len(s) - 1
      BY <1>3
    <3>3. LatestRun(Tail(s), r, 5)
      BY <1>3, <1>4, <3>1, RunTail
    <3> QED BY <1>3, <2>1, <3>1, <3>2, <3>3
  <2>2. CASE ~(Len(s) > 6)
    BY <1>3, <1>4, <2>2
  <2> QED BY <2>1, <2>2
<1> HIDE DEF w
<1>7. (Len(w) = 6 /\ guard!AllAtLeast(w, 5)) <=> r = 6
  BY <1>6, SixInARow
<1>8. streak'[n] = r /\ (up'[n] <=> ~(r = 6)) /\ up'[n] \in BOOLEAN
  BY <1>1, <1>2, <1>7, Zenon
<1>9. up' = [up EXCEPT ![n] = up'[n]]
  BY <1>1, <1>2
<1>10. streak' = [streak EXCEPT ![n] = streak'[n]] /\ streak'[n] \in 0..6
  BY <1>1, <1>5, <1>8
<1>11. up'[n] <=> streak'[n] < 6
  BY <1>5, <1>8
<1>12. LatestRun(w, streak'[n], 5)
  BY <1>6, <1>8
<1> QED BY <1>1, <1>2, <1>6, <1>8, <1>9, <1>10, <1>11, <1>12

\* The agent samples a process.
LEMMA AgentStep ==
    ASSUME GuardAssumption, GuardInv, NEW n \in guard!Names, NEW big \in BOOLEAN, NEW c \in Loads,
           guard!AgentSample(n, big, c)
    PROVE  /\ up' \in [guard!Names -> BOOLEAN] /\ \A m \in guard!Names : up'[m] => up[m]
           /\ UNCHANGED <<cpuHis, streak>>
           /\ \/ UNCHANGED <<his, high>>
              \/ /\ n \in Names /\ ~big /\ c <= 15
                 /\ his' = [his EXCEPT ![n] = Append(his[n], c)] /\ Len(his[n]) < MaxHis
                 /\ high' = [high EXCEPT ![n] = guard!Run(high[n], c, 6)]
                 /\ LatestRun(Append(his[n], c), guard!Run(high[n], c, 6), 6)
<1>1. up \in [guard!Names -> BOOLEAN] /\ up[n]
  BY DEF GuardInv, guard!TypeOK, guard!AgentSample
<1>2. up' = [up EXCEPT ![n] = ~big /\ ~guard!CpuOverloaded(n, c)]
  BY DEF guard!AgentSample
<1>3. up' \in [guard!Names -> BOOLEAN] /\ \A m \in guard!Names : up'[m] => up[m]
  BY <1>1, <1>2, Zenon
<1>4. UNCHANGED <<cpuHis, streak>>
  BY DEF guard!AgentSample
<1>5. CASE ~(n \in Names /\ ~big /\ c <= 15)
  BY <1>3, <1>4, <1>5 DEF guard!AgentSample, guard!Burst
<1>6. CASE n \in Names /\ ~big /\ c <= 15
  <2>1. /\ his' = [his EXCEPT ![n] = Append(his[n], c)] /\ Len(his[n]) < MaxHis
        /\ high' = [high EXCEPT ![n] = guard!Run(high[n], c, 6)]
    BY <1>6 DEF guard!AgentSample, guard!Burst, guard!Limit
  <2>2. his[n] \in Seq(Nat) /\ c \in Nat /\ LatestRun(his[n], high[n], 6)
    BY <1>6, SeqOfNats DEF GuardAssumption, GuardInv, guard!TypeOK, Histories
  <2>3. LatestRun(Append(his[n], c), guard!Run(high[n], c, 6), 6)
    BY <2>2, RunAppend
  <2> QED BY <1>3, <1>4, <1>6, <2>1, <2>3
<1> QED BY <1>5, <1>6

LEMMA GuardStep == ASSUME GuardAssumption, GuardInv, [guard!Next]_guard!vars PROVE GuardInv'
<1>0. /\ up \in [guard!Names -> BOOLEAN] /\ cpuHis \in [guard!Names -> Seq(OwnLoads)]
      /\ \A m \in guard!Names : Len(cpuHis[m]) <= 6
      /\ his \in [Names -> Seq(Loads)] /\ streak \in [guard!Names -> 0..6]
      /\ high \in [guard!Names -> 0..MaxHis] /\ Names \subseteq guard!Names
  BY DEF GuardInv, guard!TypeOK, guard!Names
<1>1. /\ Len(<<>>) = 0 /\ <<>> \in Seq(Loads) /\ <<>> \in Seq(OwnLoads)
      /\ 0 \in 0..MaxHis /\ 0 \in 0..6 /\ 0 <= MaxHis /\ 0 < 6 /\ 0 <= 6
      /\ \A limit : LatestRun(<<>>, 0, limit)
  BY DEF GuardAssumption, LatestRun
<1>2. CASE UNCHANGED guard!vars
  BY <1>2 DEF guard!vars, GuardInv, guard!TypeOK, Windows, Histories
<1>3. CASE guard!AgentRestart
  BY <1>0, <1>1, <1>3 DEF guard!AgentRestart, GuardInv, guard!TypeOK, Windows, Histories
<1>4. ASSUME NEW n \in guard!Names, guard!Restart(n) PROVE GuardInv'
  BY <1>0, <1>1, <1>4 DEF guard!Restart, GuardInv, guard!TypeOK, Windows, Histories
<1>5. ASSUME NEW n \in guard!Names, NEW big \in BOOLEAN, NEW c \in Loads,
             guard!AgentSample(n, big, c)
      PROVE  GuardInv'
  <2>1. Windows'
    BY <1>5, AgentStep DEF GuardInv, Windows
  <2>2. CASE UNCHANGED <<his, high>>
    <3>1. Histories' /\ guard!TypeOK'
      BY <1>0, <1>5, <2>2, AgentStep DEF GuardInv, guard!TypeOK, Histories
    <3> QED BY <2>1, <3>1 DEF GuardInv
  <2>3. CASE /\ n \in Names
             /\ his' = [his EXCEPT ![n] = Append(his[n], c)] /\ Len(his[n]) < MaxHis
             /\ high' = [high EXCEPT ![n] = guard!Run(high[n], c, 6)]
             /\ LatestRun(Append(his[n], c), guard!Run(high[n], c, 6), 6)
    <3> DEFINE s == Append(his[n], c)
               r == guard!Run(high[n], c, 6)
    <3>1. s \in Seq(Loads) /\ Len(s) <= MaxHis /\ Len(s) \in Nat
      BY <1>0, <2>3 DEF GuardAssumption
    <3>2. r \in 0..MaxHis
      BY <2>3, <3>1 DEF GuardAssumption, LatestRun
    <3> HIDE DEF s, r
    <3>3. his' = [his EXCEPT ![n] = s] /\ high' = [high EXCEPT ![n] = r] /\ LatestRun(s, r, 6)
      BY <2>3 DEF s, r
    <3>4. guard!TypeOK'
      BY <1>0, <1>5, <3>1, <3>2, <3>3, AgentStep DEF guard!TypeOK
    <3>5. Histories'
      BY <1>0, <2>3, <3>1, <3>3 DEF GuardInv, Histories
    <3> QED BY <2>1, <3>4, <3>5 DEF GuardInv
  <2> QED BY <1>5, <2>2, <2>3, AgentStep
<1>6. ASSUME NEW n \in guard!Names, NEW c \in OwnLoads, guard!SelfSample(n, TRUE, c)
      PROVE  GuardInv'
  BY <1>0, <1>6 DEF guard!SelfSample, GuardInv, guard!TypeOK, Windows, Histories
<1>7. ASSUME NEW n \in guard!Names, NEW c \in OwnLoads, guard!SelfSample(n, FALSE, c)
      PROVE  GuardInv'
  <2>1. PICK w \in Seq(OwnLoads) : /\ cpuHis' = [cpuHis EXCEPT ![n] = w] /\ Len(w) <= 6
                                   /\ LatestRun(w, streak'[n], 5)
    BY <1>7, OwnStep
  <2>2. /\ up' \in [guard!Names -> BOOLEAN] /\ \A m \in guard!Names : m # n => up'[m] = up[m]
        /\ up'[n] => streak'[n] < 6
    BY <1>0, <1>7, OwnStep, Zenon
  <2>3. /\ streak' \in [guard!Names -> 0..6]
        /\ \A m \in guard!Names : m # n => streak'[m] = streak[m]
    BY <1>0, <1>7, OwnStep
  <2>4. UNCHANGED <<his, high>>
    BY <1>7 DEF guard!SelfSample
  <2>5. guard!TypeOK'
    BY <1>0, <2>1, <2>2, <2>3, <2>4 DEF guard!TypeOK
  <2>6. Windows' /\ Histories'
    BY <1>0, <2>1, <2>2, <2>3, <2>4 DEF GuardInv, Windows, Histories
  <2> QED BY <2>5, <2>6 DEF GuardInv
<1> QED BY <1>2, <1>3, <1>4, <1>5, <1>6, <1>7 DEF guard!Next

\* The sliding window of StartMemCpuMonitor ends a process for its CPU load
\* exactly with the sixth high sample in a row.
THEOREM OwnGuardIsExact == GuardAssumption => (guard!Spec => guard!OwnGuardExact)
<1> SUFFICES ASSUME GuardAssumption PROVE guard!Spec => guard!OwnGuardExact
  OBVIOUS
<1>1. guard!Init => GuardInv
  BY GuardInit
<1>2. GuardInv /\ [guard!Next]_guard!vars => GuardInv'
  BY GuardStep
<1>3. GuardInv /\ [guard!Next]_guard!vars =>
        [\A n \in guard!Names, c \in OwnLoads :
          guard!SelfSample(n, FALSE, c) => (up'[n] <=> streak'[n] < 6)]_guard!vars
  BY OwnStep
<1> QED BY <1>1, <1>2, <1>3, PTL DEF guard!Spec, guard!OwnGuardExact

\* What isMemOverloaded found when the agent ends a module for its CPU load.
LEMMA Verdict ==
    ASSUME GuardAssumption, GuardInv, NEW n \in Names, NEW c \in Loads,
           guard!AgentSample(n, FALSE, c), ~up'[n]
    PROVE  high'[n] >= 5 /\ Len(his'[n]) \in {5, 6}
<1> DEFINE s == Append(his[n], c)
           r == guard!Run(high[n], c, 6)
<1>1. n \in guard!Names /\ n \notin ProxyKeys
  BY DEF GuardAssumption, guard!Names
<1>2. c <= 15 /\ guard!isBigTooLong(s, 6)
  BY <1>1
  DEF guard!AgentSample, guard!CpuOverloaded, guard!Burst, guard!Limit, GuardInv, guard!TypeOK
<1>3. his' = [his EXCEPT ![n] = s] /\ high' = [high EXCEPT ![n] = r] /\ LatestRun(s, r, 6)
  <2>1. /\ his' = [his EXCEPT ![n] = s] /\ high' = [high EXCEPT ![n] = r]
    BY <1>2 DEF guard!AgentSample, guard!Burst, guard!Limit
  <2>2. his[n] \in Seq(Nat) /\ c \in Nat /\ LatestRun(his[n], high[n], 6)
    BY <1>1, SeqOfNats DEF GuardAssumption, GuardInv, guard!TypeOK, Histories
  <2> QED BY <2>1, <2>2, RunAppend
<1>4. his'[n] = s /\ high'[n] = r /\ s \in Seq(Nat) /\ Len(s) \in Nat
  <2>1. his \in [Names -> Seq(Loads)] /\ high \in [guard!Names -> 0..MaxHis] /\ Loads \subseteq Nat
    BY DEF GuardInv, guard!TypeOK, GuardAssumption
  <2>2. s \in Seq(Loads) /\ Len(s) \in Nat
    BY <2>1
  <2>3. s \in Seq(Nat)
    BY <2>1, <2>2, SeqOfNats
  <2> HIDE DEF s, r
  <2> QED BY <1>1, <1>3, <2>1, <2>2, <2>3
<1> HIDE DEF s, r
<1>5. r >= 5 /\ Len(s) \in {5, 6}
  BY <1>2, <1>3, <1>4, FiveInARow
<1> QED BY <1>4, <1>5

\* The agent ends a module for its CPU load only after five kept samples in a
\* row at or above the limit, although its histories outlive the module
\* (isMemOverloaded, isBigTooLong).
THEOREM NoModuleFalselyKilled == GuardAssumption => (guard!Spec => guard!NoFalseKill)
<1> SUFFICES ASSUME GuardAssumption PROVE guard!Spec => guard!NoFalseKill
  OBVIOUS
<1>1. guard!Init => GuardInv
  BY GuardInit
<1>2. GuardInv /\ [guard!Next]_guard!vars => GuardInv'
  BY GuardStep
<1>3. GuardInv /\ [guard!Next]_guard!vars =>
        [\A n \in Names, c \in Loads :
          guard!AgentSample(n, FALSE, c) /\ ~up'[n] => high'[n] >= 5]_guard!vars
  BY Verdict
<1> QED BY <1>1, <1>2, <1>3, PTL DEF guard!Spec, guard!NoFalseKill

\* isBigTooLong answers TRUE for the fifth and the sixth sample of a module
\* only: after that the agent's CPU guard of that module is off.
THEOREM GuardGoesDry == GuardAssumption => (guard!Spec => guard!GuardRunsDry)
<1> SUFFICES ASSUME GuardAssumption PROVE guard!Spec => guard!GuardRunsDry
  OBVIOUS
<1>1. guard!Init => GuardInv
  BY GuardInit
<1>2. GuardInv /\ [guard!Next]_guard!vars => GuardInv'
  BY GuardStep
<1>3. GuardInv /\ [guard!Next]_guard!vars =>
        [\A n \in Names, c \in Loads :
          guard!AgentSample(n, FALSE, c) /\ ~up'[n] => Len(his'[n]) \in {5, 6}]_guard!vars
  BY Verdict
<1> QED BY <1>1, <1>2, <1>3, PTL DEF guard!Spec, guard!GuardRunsDry
=============================================================================
