---------------------------- MODULE ProcessTable ----------------------------
(***************************************************************************)
(* conf/process-table.json and the operations on it that every process of  *)
(* the agent shares (util/comm: ReadProcessTable, FlushData2File,          *)
(* Pid.KillSelf, StartProject), together with the part of the operating    *)
(* system they rest on: process ids, parents, zombies and reaping.         *)
(*                                                                         *)
(* No lock protects the file: a flush truncates it, marshals the map and   *)
(* then writes (two steps here), and every operation is a sequence of      *)
(* steps of a thread that any other thread may interleave with, or that a  *)
(* SIGKILL of the hosting process may cut short.  This module declares the *)
(* state and the steps; Supervisor and ProxyManager add the goroutines     *)
(* that call them.                                                         *)
(***************************************************************************)
EXTENDS Integers, FiniteSets

CONSTANTS
    Names,      \* the nick names processes are recorded under
    Agent,      \* what decept-agent itself runs as; never recorded
    Nobody,     \* the owner of an id that is not in use
    Threads,    \* the goroutines that use the table
    MaxPid,     \* bound: process ids are 1..MaxPid
    Gaps        \* ids other programs of the host may take before a fork

ASSUME NamesAssumption ==
    Agent \notin Names /\ Nobody \notin Names /\ Agent # Nobody
ASSUME PidAssumption == MaxPid \in Nat \ {0} /\ Gaps \subseteq Nat

Pids == 1..MaxPid

\* Who a process was started as: a recorded module, the agent, or nobody.
Owners == Names \cup {Agent, Nobody}
Statuses == {"none", "alive", "zombie", "dead"}

VARIABLES
    file,       \* the contents of process-table.json
    status,     \* the kernel's view of every process
    owner,      \* the name under which a process was started
    parent,     \* its parent; 0 is init, which reaps at once
    nextPid,    \* the next free process id
    host,       \* the process a thread runs in; 0 when it does not run
    pc,         \* where a thread is
    ret,        \* where Pid.KillSelf returns to
    after,      \* where FlushData2File returns to
    cur,        \* the nick name a KillSelf or StartProject works on
    victim,     \* the process id KillSelf is to kill
    started,    \* what StartProject returns: an id, 0, or -1 for an error
    table,      \* StartProject's local processTable
    scratch     \* the map a flush is about to write

osVars == <<status, owner, parent, nextPid>>
localVars == <<ret, after, cur, victim, started, table, scratch>>
tableVars == <<file, osVars, host, pc, localVars>>

-----------------------------------------------------------------------------
(***************************************************************************)
(* Go maps and the file.  An entry 0 is an absent key.  A Go map may be    *)
(* nil: json.Marshal turns it into null, and null is read back as nil.  A  *)
(* text that does not parse leaves the caller with a nil map, too.         *)
(***************************************************************************)
Nothing == [n \in Names |-> 0]
NilMap == [nil |-> TRUE, tab |-> Nothing]
NewMap == [nil |-> FALSE, tab |-> Nothing]

Absent == [kind |-> "absent", tab |-> Nothing]
Empty == [kind |-> "empty", tab |-> Nothing]
Garbage == [kind |-> "garbage", tab |-> Nothing]

Readable(f) == f.kind \in {"json", "null"}
Marshal(m) == [kind |-> IF m.nil THEN "null" ELSE "json", tab |-> m.tab]
Unmarshal(f) == [nil |-> f.kind # "json", tab |-> f.tab]

\* What the file holds after new is written at offset 0 over old: a longer
\* old text keeps its tail.  Nothing is shorter than an empty file or "{}".
Written(old, new) ==
    IF old \in {Empty, Marshal(NewMap), new} THEN {new} ELSE {new, Garbage}

\* syscall.Kill(pid, 0) succeeds for a zombie as well.
ProcessIsExist(p) == p \in Pids /\ status[p] \in {"alive", "zombie"}
IsZombie(p) == p \in Pids /\ status[p] = "zombie"
Alive(p) == p \in Pids /\ status[p] = "alive"

-----------------------------------------------------------------------------
TableInit(f) ==
    /\ file = f
    /\ status = [p \in Pids |-> "none"]
    /\ owner = [p \in Pids |-> Nobody]
    /\ parent = [p \in Pids |-> 0]
    /\ nextPid = 1
    /\ host = [t \in Threads |-> 0]
    /\ pc = [t \in Threads |-> "off"]
    /\ ret = [t \in Threads |-> "off"]
    /\ after = [t \in Threads |-> "off"]
    /\ cur = [t \in Threads |-> Nobody]
    /\ victim = [t \in Threads |-> 0]
    /\ started = [t \in Threads |-> 0]
    /\ table = [t \in Threads |-> NilMap]
    /\ scratch = [t \in Threads |-> NilMap]

\* A fork: process p starts as n, a child of q.
Spawn(p, n, q) ==
    /\ p \in Pids
    /\ \E g \in Gaps : p = nextPid + g
    /\ status' = [status EXCEPT ![p] = "alive"]
    /\ owner' = [owner EXCEPT ![p] = n]
    /\ parent' = [parent EXCEPT ![p] = q]
    /\ nextPid' = p + 1

\* Process p is gone and process q waits for it (0: nobody does).  It stays
\* a zombie while its parent lives and does not wait; its own zombies are
\* reaped by init, which adopts its children.
Gone(p, q) ==
    /\ status' = [r \in Pids |->
            IF r = p THEN IF parent[p] \in {0, q} THEN "dead" ELSE "zombie"
            ELSE IF parent[r] = p /\ status[r] = "zombie" THEN "dead"
            ELSE status[r]]
    /\ parent' = [r \in Pids |-> IF parent[r] = p THEN 0 ELSE parent[r]]
    /\ UNCHANGED <<owner, nextPid>>

\* v without what the threads of process p held in memory.
Lost(v, p, none) == [t \in Threads |-> IF host[t] = p THEN none ELSE v[t]]

\* The threads of process p end with it; the others are where npc puts them.
ThreadsEnd(p, npc) ==
    /\ pc' = Lost(npc, p, "off")
    /\ host' = Lost(host, p, 0)
    /\ ret' = Lost(ret, p, "off")
    /\ after' = Lost(after, p, "off")
    /\ cur' = Lost(cur, p, Nobody)
    /\ victim' = Lost(victim, p, 0)
    /\ started' = Lost(started, p, 0)
    /\ table' = Lost(table, p, NilMap)
    /\ scratch' = Lost(scratch, p, NilMap)

\* Process p dies with nobody waiting for it: a crash, os.Exit, or a SIGKILL.
Exit(p) == Gone(p, 0) /\ ThreadsEnd(p, pc) /\ UNCHANGED file

-----------------------------------------------------------------------------
(***************************************************************************)
(* The operations.  A thread that calls one moves to its first label.      *)
(***************************************************************************)
Goto(t, l) == pc' = [pc EXCEPT ![t] = l]

CallKillSelf(t, n, p, back) ==
    /\ Goto(t, "clear")
    /\ cur' = [cur EXCEPT ![t] = n]
    /\ victim' = [victim EXCEPT ![t] = p]
    /\ ret' = [ret EXCEPT ![t] = back]

CallStartProject(t, n) ==
    /\ Goto(t, "start")
    /\ cur' = [cur EXCEPT ![t] = n]

\* FlushData2File(m), to go on at back.
CallFlush(t, m, back) ==
    /\ Goto(t, "trunc")
    /\ scratch' = [scratch EXCEPT ![t] = m]
    /\ after' = [after EXCEPT ![t] = back]

\* FlushData2File: os.OpenFile(..., O_WRONLY|O_TRUNC).
Trunc(t) ==
    /\ pc[t] = "trunc"
    /\ file' = Empty
    /\ Goto(t, "write")
    /\ UNCHANGED <<osVars, host, localVars>>

\* The flush returns to its caller.
FlushReturn(t) ==
    /\ Goto(t, after[t])
    /\ after' = [after EXCEPT ![t] = "off"]
    /\ scratch' = [scratch EXCEPT ![t] = NilMap]
    /\ table' = [table EXCEPT ![t] = IF after[t] = "sp_done" THEN NilMap ELSE @]
    /\ UNCHANGED <<osVars, host, ret, cur, victim, started>>

\* FlushData2File: io.WriteString of the marshalled map.
Write(t) ==
    /\ pc[t] = "write"
    /\ file' \in Written(file, Marshal(scratch[t]))
    /\ FlushReturn(t)

\* FlushData2File: the open or the write fails; it is logged and forgotten.
FlushFail(t) ==
    /\ pc[t] \in {"trunc", "write"}
    /\ FlushReturn(t)
    /\ UNCHANGED file

\* Pid.KillSelf, clearProcessTable: read the table and drop the name.
ClearRead(t) ==
    /\ pc[t] = "clear"
    /\ IF Readable(file)
       THEN CallFlush(t, [Unmarshal(file) EXCEPT !.tab[cur[t]] = 0], "signal")
       ELSE Goto(t, "signal") /\ UNCHANGED <<scratch, after>>
    /\ UNCHANGED <<file, osVars, host, ret, cur, victim, started, table>>

\* KillSelf is over.
KillReturn(t) ==
    /\ Goto(t, ret[t])
    /\ ret' = [ret EXCEPT ![t] = "off"]
    /\ victim' = [victim EXCEPT ![t] = 0]
    /\ UNCHANGED <<file, osVars, host, after, cur, started, table, scratch>>

\* KillProcess(p) by thread t, which goes on at l: SIGKILL, then Wait, which
\* reaps a child of the killer.
KillProcess(t, p, l) ==
    /\ Gone(p, host[t])
    /\ ThreadsEnd(p, [pc EXCEPT ![t] = l])
    /\ UNCHANGED file

\* Mutant of Signal: only a child of the killer is killed.
SignalChild(t) ==
    /\ pc[t] = "signal"
    /\ IF ProcessIsExist(victim[t]) /\ parent[victim[t]] = host[t]
       THEN KillProcess(t, victim[t], "next")
       ELSE KillReturn(t)

\* Pid.KillSelf: kill the process, when there is one.
Signal(t) ==
    /\ pc[t] = "signal"
    /\ IF ProcessIsExist(victim[t])
       THEN KillProcess(t, victim[t], "next")
       ELSE KillReturn(t)

\* Pid.KillSelf: also kill process id + 1, whatever that is.
SignalNext(t) ==
    /\ pc[t] = "next"
    /\ IF ProcessIsExist(victim[t] + 1)
       THEN KillProcess(t, victim[t] + 1, "killed")
       ELSE KillReturn(t)

Killed(t) == pc[t] = "killed" /\ KillReturn(t)

\* Mutant of ReadStart: the recorded instance is not killed first.
ReadStartKeeps(t) ==
    /\ pc[t] = "start"
    /\ IF Readable(file)
       THEN /\ table' = [table EXCEPT ![t] = Unmarshal(file)]
            /\ Goto(t, "fork")
            /\ UNCHANGED started
       ELSE /\ Goto(t, "sp_done")
            /\ started' = [started EXCEPT ![t] = 0]
            /\ UNCHANGED table
    /\ UNCHANGED <<file, osVars, host, ret, after, cur, victim, scratch>>

\* Mutant of ReadStart: a table that cannot be read is taken for an empty one.
ReadStartAnyway(t) ==
    /\ pc[t] = "start"
    /\ LET m == Unmarshal(file) IN
       /\ table' = [table EXCEPT ![t] = [m EXCEPT !.nil = FALSE]]
       /\ IF m.tab[cur[t]] # 0
          THEN CallKillSelf(t, cur[t], m.tab[cur[t]], "fork")
          ELSE Goto(t, "fork") /\ UNCHANGED <<cur, victim, ret>>
    /\ UNCHANGED <<file, osVars, host, after, scratch, started>>

\* StartProject: read the table; kill the recorded instance of this name.
\* A failed read returns an empty Pid and no error.
ReadStart(t) ==
    /\ pc[t] = "start"
    /\ IF Readable(file)
       THEN LET m == Unmarshal(file) IN
            /\ table' = [table EXCEPT ![t] = m]
            /\ IF m.tab[cur[t]] # 0
               THEN CallKillSelf(t, cur[t], m.tab[cur[t]], "fork")
               ELSE Goto(t, "fork") /\ UNCHANGED <<cur, victim, ret>>
            /\ UNCHANGED started
       ELSE /\ Goto(t, "sp_done")
            /\ started' = [started EXCEPT ![t] = 0]
            /\ UNCHANGED <<table, cur, victim, ret>>
    /\ UNCHANGED <<file, osVars, host, after, scratch>>

\* Mutant of Fork: the id expected for the child is recorded, not its own.
ForkGuesses(t, p) ==
    /\ pc[t] = "fork"
    /\ Spawn(p, cur[t], host[t])
    /\ started' = [started EXCEPT ![t] = p]
    /\ LET m == [table[t] EXCEPT !.tab[cur[t]] = nextPid] IN
       table' = [table EXCEPT ![t] = m] /\ CallFlush(t, m, "sp_done")
    /\ UNCHANGED <<file, host, ret, cur, victim>>

\* StartProject: os.StartProcess succeeds and the new process is entered in
\* the local map, which the deferred UpdateProcessTable flushes.  Entering
\* it in a nil map panics: the flush still runs, then the process exits.
Fork(t, p) ==
    /\ pc[t] = "fork"
    /\ Spawn(p, cur[t], host[t])
    /\ started' = [started EXCEPT ![t] = p]
    /\ IF table[t].nil
       THEN CallFlush(t, NilMap, "panic") /\ UNCHANGED table
       ELSE LET m == [table[t] EXCEPT !.tab[cur[t]] = p] IN
            table' = [table EXCEPT ![t] = m] /\ CallFlush(t, m, "sp_done")
    /\ UNCHANGED <<file, host, ret, cur, victim>>

\* Mutant of ForkFail: what os.StartProcess returned is entered all the same.
ForkFailEnters(t) ==
    /\ pc[t] = "fork"
    /\ started' = [started EXCEPT ![t] = -1]
    /\ CallFlush(t, [table[t] EXCEPT !.tab[cur[t]] = -1], "sp_done")
    /\ UNCHANGED <<file, osVars, host, ret, cur, victim, table>>

\* StartProject: os.StartProcess fails; the map is flushed as it was read.
ForkFail(t) ==
    /\ pc[t] = "fork"
    /\ started' = [started EXCEPT ![t] = -1]
    /\ CallFlush(t, table[t], "sp_done")
    /\ UNCHANGED <<file, osVars, host, ret, cur, victim, table>>

\* The panic of a goroutine ends the whole process.
Panic(t) == pc[t] = "panic" /\ Exit(host[t])

\* The steps of thread t inside these operations that need no luck.
TableStep(t) ==
    \/ Trunc(t) \/ Write(t) \/ ClearRead(t) \/ Signal(t) \/ SignalNext(t)
    \/ Killed(t) \/ ReadStart(t) \/ Panic(t) \/ \E p \in Pids : Fork(t, p)

-----------------------------------------------------------------------------
Maps == [nil : BOOLEAN, tab : [Names -> 0..MaxPid]]
Kinds == {"absent", "empty", "garbage", "null", "json"}
Files == [kind : Kinds, tab : [Names -> 0..MaxPid]]
TableLabels == {"off", "trunc", "write", "clear", "signal", "next", "killed",
                "start", "fork", "panic", "sp_done"}

OsTypeOK ==
    /\ status \in [Pids -> Statuses]
    /\ owner \in [Pids -> Owners]
    /\ parent \in [Pids -> 0..MaxPid]
    /\ nextPid \in 1..(MaxPid + 1)

ThreadTypeOK(labels) ==
    /\ host \in [Threads -> 0..MaxPid]
    /\ pc \in [Threads -> labels]
    /\ ret \in [Threads -> labels]
    /\ after \in [Threads -> labels]
    /\ cur \in [Threads -> Names \cup {Nobody}]
    /\ victim \in [Threads -> 0..MaxPid]
    /\ started \in [Threads -> -1..MaxPid]

DataTypeOK ==
    /\ file \in Files
    /\ table \in [Threads -> Maps]
    /\ scratch \in [Threads -> Maps]
=============================================================================
