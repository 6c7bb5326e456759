----------------------------- MODULE FileLogger -----------------------------
(***************************************************************************)
(* The file logger of util/logger: LogWrite, called by every goroutine of  *)
(* a process; createFreshFile, which renames a full or outdated log file   *)
(* under the first free number of its date and opens a new one; newFile;   *)
(* and the goroutine deleteOldLog.  Several processes may log to one file  *)
(* (decept-proxy and every tcpProxy share proxy/log/proxy.log).  A line    *)
(* is its writer, its number and the date it is stamped with; its length   *)
(* is SizeOf its writer and number.  The file system is external.          *)
(***************************************************************************)
EXTENDS Integers, FiniteSets, FiniteSetsExt

CONSTANTS
    Procs,       \* the processes that log to the file
    Writers,     \* their goroutines that call LogWrite
    Owner,       \* the process of each goroutine
    MaxLines,    \* lines after which a file is rotated
    MaxSize,     \* bytes a file may have
    SizeOf,      \* the length of each line
    MaxNum,      \* how many numbered files a date has (999 in the code)
    MaxDays,     \* how many days files are kept
    MaxDay,      \* bound: how many days pass
    MaxMsgs,     \* bound: how often each goroutine logs
    MaxFaults    \* bound: restarts of a process and calls that fail

None == "none"                           \* nobody holds a lock

ASSUME LogAssumption ==
    /\ MaxLines \in Nat \ {0} /\ MaxSize \in Nat \ {0} /\ MaxNum \in Nat \ {0}
    /\ SizeOf \in [Writers -> [1..MaxMsgs -> Nat \ {0}]]
    /\ MaxDays \in Nat /\ MaxDay \in Nat \ {0}
    /\ MaxMsgs \in Nat /\ MaxFaults \in Nat
    /\ Owner \in [Writers -> Procs]
    /\ IsFiniteSet(Writers) /\ None \notin Writers

Days == 1..MaxDay
Log == <<0, 0>>                          \* the file's own name
Closed == <<0, 1>>                       \* a writer without a file
Unlinked == <<0, 2>>                     \* one whose file has no name
Names == {Log} \cup (Days \X (1..MaxNum))
Line == [by : Writers, no : 1..MaxMsgs, day : Days]

VARIABLES
    day,        \* today's date
    lines,      \* the lines of each file
    mtime,      \* the date of its last change; 0 for no such file
    bytes,      \* the size of the file Log
    fd,         \* the file behind each process's fileWriter
    cur, size,  \* its maxLinesCurLines and maxSizeCurSize
    opened,     \* its dailyOpenDate
    holder,     \* the goroutine that holds its lock for writing
    readers,    \* the goroutines that hold it for reading
    cleaning,   \* when its deleteOldLog was started; 0 for not
    pc,         \* where each goroutine is
    no, when,   \* the number and the date of its last line
    target,     \* the name it has found for the old file
    acked,      \* history: the lines whose Write returned no error
    full,       \* history: dates that ran out of numbers
    late,       \* history: whether an old line asked for the open that failed
    asked,      \* history: how long the line was that asked for it
    unmoved,    \* history: a rename failed and left the file in its place
    astray,     \* history: lines written to a file without a name
    blind,      \* history: dates kept because the new file had no Stat
    faults

files == <<lines, mtime, bytes>>
logger == <<fd, cur, size, opened, cleaning>>
locks == <<holder, readers>>
calls == <<no, when, target>>
failures == <<late, asked, unmoved, blind>>
history == <<acked, astray, full, failures>>
vars == <<day, files, logger, locks, pc, calls, history, faults>>

\* Every process has called Init, which opens the file.
Init ==
    /\ day = 1
    /\ lines = [n \in Names |-> {}]
    /\ mtime = [n \in Names |-> IF n = Log THEN 1 ELSE 0]
    /\ fd = [p \in Procs |-> Log]
    /\ bytes = 0
    /\ cur = [p \in Procs |-> 0] /\ size = [p \in Procs |-> 0]
    /\ opened = [p \in Procs |-> 1]
    /\ cleaning = [p \in Procs |-> 0]
    /\ holder = [p \in Procs |-> None]
    /\ readers = [p \in Procs |-> {}]
    /\ pc = [g \in Writers |-> "idle"]
    /\ no = [g \in Writers |-> 0]
    /\ when = [g \in Writers |-> 1]
    /\ target = [g \in Writers |-> Log]
    /\ acked = {} /\ astray = {} /\ full = {} /\ blind = {}
    /\ late = [p \in Procs |-> FALSE] /\ asked = [p \in Procs |-> 0]
    /\ unmoved = FALSE
    /\ faults = 0

Exists(n) == mtime[n] # 0
Goto(g, l) == pc' = [pc EXCEPT ![g] = l]

\* No call and no deleteOldLog lasts longer than a day.
NextDay ==
    /\ day < MaxDay
    /\ \A g \in Writers : pc[g] = "idle" \/ when[g] = day
    /\ \A p \in Procs : cleaning[p] \in {0, day}
    /\ day' = day + 1
    /\ UNCHANGED <<files, logger, locks, pc, calls, history, faults>>

-----------------------------------------------------------------------------
(***************************************************************************)
(* LogWrite: the first test under the read lock, the second one and the    *)
(* rotation under the write lock, the write under another write lock.      *)
(***************************************************************************)
needCreateFresh(p, len, d) ==
    cur[p] >= MaxLines \/ size[p] + len >= MaxSize \/ d # opened[p]

\* The length of the line a goroutine has at hand.
LineSize(g) == SizeOf[g][no[g]]
Asks(g) == needCreateFresh(Owner[g], LineSize(g), when[g])

LogWrite(g) ==
    /\ pc[g] = "idle" /\ no[g] < MaxMsgs
    /\ no' = [no EXCEPT ![g] = @ + 1]
    /\ when' = [when EXCEPT ![g] = day]
    /\ Goto(g, "rlock")
    /\ UNCHANGED <<day, files, logger, locks, target, history, faults>>

RLock(g) ==
    /\ pc[g] = "rlock" /\ holder[Owner[g]] = None
    /\ readers' = [readers EXCEPT ![Owner[g]] = @ \cup {g}]
    /\ Goto(g, "check")
    /\ UNCHANGED <<day, files, logger, holder, calls, history, faults>>

\* Mutant of Check: Lock is called with the read lock still held.
CheckHolding(g) ==
    /\ pc[g] = "check"
    /\ IF Asks(g)
         THEN Goto(g, "lock") /\ UNCHANGED readers
         ELSE /\ Goto(g, "write")
              /\ readers' = [readers EXCEPT ![Owner[g]] = @ \ {g}]
    /\ UNCHANGED <<day, files, logger, holder, calls, history, faults>>

Check(g) ==
    /\ pc[g] = "check"
    /\ readers' = [readers EXCEPT ![Owner[g]] = @ \ {g}]
    /\ Goto(g, IF Asks(g) THEN "lock" ELSE "write")
    /\ UNCHANGED <<day, files, logger, holder, calls, history, faults>>

Free(p) == holder[p] = None /\ readers[p] = {}

Lock(g) ==
    /\ pc[g] = "lock" /\ Free(Owner[g])
    /\ IF Asks(g)
         THEN Goto(g, "find") /\ holder' = [holder EXCEPT ![Owner[g]] = g]
         ELSE Goto(g, "write") /\ UNCHANGED holder
    /\ UNCHANGED <<day, files, logger, readers, calls, history, faults>>

\* Mutant of Write: the counter is left to newFile.
WriteUncounted(g) ==
    LET p == Owner[g]
        line == [by |-> g, no |-> no[g], day |-> when[g]]
    IN  /\ pc[g] = "write" /\ Free(p)
        /\ lines' = [n \in Names |->
             IF n = fd[p] THEN lines[n] \cup {line} ELSE lines[n]]
        /\ mtime' = [n \in Names |-> IF n = fd[p] THEN day ELSE mtime[n]]
        /\ bytes' = IF fd[p] = Log THEN bytes + LineSize(g) ELSE bytes
        /\ acked' = IF fd[p] = Closed THEN acked ELSE acked \cup {line}
        /\ astray' = IF fd[p] = Unlinked THEN astray \cup {line} ELSE astray
        /\ Goto(g, "idle")
        /\ UNCHANGED <<day, logger, locks, calls, full, failures, faults>>

\* A write to a closed file fails and is not repeated; one to a file that
\* has been removed succeeds.
Write(g) ==
    LET p == Owner[g]
        line == [by |-> g, no |-> no[g], day |-> when[g]]
    IN  /\ pc[g] = "write" /\ Free(p)
        /\ lines' = [n \in Names |->
             IF n = fd[p] THEN lines[n] \cup {line} ELSE lines[n]]
        /\ mtime' = [n \in Names |-> IF n = fd[p] THEN day ELSE mtime[n]]
        /\ bytes' = IF fd[p] = Log THEN bytes + LineSize(g) ELSE bytes
        /\ acked' = IF fd[p] = Closed THEN acked ELSE acked \cup {line}
        /\ astray' = IF fd[p] = Unlinked THEN astray \cup {line} ELSE astray
        /\ cur' = [cur EXCEPT ![p] = IF fd[p] = Closed THEN @ ELSE @ + 1]
        /\ size' = [size EXCEPT ![p] =
             IF fd[p] = Closed THEN @ ELSE @ + LineSize(g)]
        /\ Goto(g, "idle")
        /\ UNCHANGED <<day, fd, opened, cleaning, locks, calls, full, failures,
                       faults>>

-----------------------------------------------------------------------------
(***************************************************************************)
(* createFreshFile, under the write lock of its own process only.          *)
(***************************************************************************)
Dated(g) == IF opened[Owner[g]] # when[g] THEN opened[Owner[g]] ELSE when[g]
FreeNums(d) == {n \in 1..MaxNum : ~Exists(<<d, n>>)}

\* Mutant of Find: the numbers in use are not looked up.
FindFirst(g) ==
    /\ pc[g] = "find"
    /\ target' = [target EXCEPT ![g] = <<Dated(g), 1>>]
    /\ fd' = [fd EXCEPT ![Owner[g]] = Closed]
    /\ Goto(g, "rename")
    /\ UNCHANGED <<day, files, cur, size, opened, cleaning, locks, no, when,
                   history, faults>>

Find(g) ==
    /\ pc[g] = "find"
    /\ \/ /\ ~Exists(Log)
          /\ Goto(g, "open")
          /\ UNCHANGED <<fd, holder, target, full>>
       \/ /\ Exists(Log) /\ FreeNums(Dated(g)) = {}
          /\ Goto(g, "write")
          /\ holder' = [holder EXCEPT ![Owner[g]] = None]
          /\ full' = full \cup {Dated(g)}
          /\ UNCHANGED <<fd, target>>
       \/ /\ Exists(Log) /\ FreeNums(Dated(g)) # {}
          /\ target' = [target EXCEPT ![g] =
               <<Dated(g), Min(FreeNums(Dated(g)))>>]
          /\ fd' = [fd EXCEPT ![Owner[g]] = Closed]
          /\ Goto(g, "rename")
          /\ UNCHANGED <<holder, full>>
    /\ UNCHANGED <<day, files, cur, size, opened, cleaning, readers, no, when,
                   acked, astray, failures, faults>>

\* A file that is renamed takes the writers of other processes along; one
\* that is replaced or removed leaves them with a file without a name.
Moved(f, from, to) == CASE f = from -> to [] f = to -> Unlinked [] OTHER -> f

\* Mutant of Rename: the counters are reset before the new file is there.
RenameResets(g) ==
    /\ pc[g] = "rename"
    /\ lines' = [lines EXCEPT ![target[g]] = lines[Log], ![Log] = {}]
    /\ mtime' = [mtime EXCEPT ![target[g]] = mtime[Log], ![Log] = 0]
    /\ bytes' = 0
    /\ fd' = [p \in Procs |-> Moved(fd[p], Log, target[g])]
    /\ cur' = [cur EXCEPT ![Owner[g]] = 0]
    /\ size' = [size EXCEPT ![Owner[g]] = 0]
    /\ opened' = [opened EXCEPT ![Owner[g]] = day]
    /\ Goto(g, "open")
    /\ UNCHANGED <<day, cleaning, locks, calls, history, faults>>

Rename(g) ==
    /\ pc[g] = "rename"
    /\ IF Exists(Log)
         THEN /\ lines' = [lines EXCEPT ![target[g]] = lines[Log], ![Log] = {}]
              /\ mtime' = [mtime EXCEPT ![target[g]] = mtime[Log], ![Log] = 0]
              /\ bytes' = 0
              /\ fd' = [p \in Procs |-> Moved(fd[p], Log, target[g])]
         ELSE UNCHANGED <<files, fd>>
    /\ Goto(g, "open")
    /\ UNCHANGED <<day, cur, size, opened, cleaning, locks, calls, history,
                   faults>>

Fault == faults < MaxFaults /\ faults' = faults + 1

\* os.Rename fails and the file is still there: it is opened again.
RenameFail(g) ==
    /\ pc[g] = "rename" /\ Exists(Log) /\ Fault
    /\ unmoved' = TRUE
    /\ Goto(g, "open")
    /\ UNCHANGED <<day, files, logger, locks, calls, acked, astray, full, late,
                   asked, blind>>

\* newFile: O_APPEND|O_CREATE; then the counters and the date are set, and
\* the lines of a file that is not empty are counted.
Reopen(p) ==
    /\ mtime' = [mtime EXCEPT ![Log] = IF @ = 0 THEN day ELSE @]
    /\ fd' = [fd EXCEPT ![p] = Log]

\* Mutant of newFile: the date of the old file is kept.
newFileUndated(p, count) ==
    /\ Reopen(p)
    /\ cur' = [cur EXCEPT ![p] = count]
    /\ size' = [size EXCEPT ![p] = bytes]
    /\ UNCHANGED opened

newFile(p, count) ==
    /\ Reopen(p)
    /\ cur' = [cur EXCEPT ![p] = count]
    /\ size' = [size EXCEPT ![p] = bytes]
    /\ opened' = [opened EXCEPT ![p] = day]

\* What follows newFile in createFreshFile and in LogWrite.
Rotated(g) ==
    /\ pc[g] = "open"
    /\ cleaning' = [cleaning EXCEPT ![Owner[g]] = day]
    /\ holder' = [holder EXCEPT ![Owner[g]] = None]
    /\ Goto(g, "write")
    /\ UNCHANGED <<day, lines, bytes, readers, calls, acked, astray, full, unmoved>>

\* No failed open is left to be made up for.
Recovered(p) ==
    /\ late' = [late EXCEPT ![p] = FALSE]
    /\ asked' = [asked EXCEPT ![p] = 0]

Open(g) ==
    /\ Rotated(g)
    /\ newFile(Owner[g], Cardinality(lines[Log]))
    /\ Recovered(Owner[g])
    /\ UNCHANGED <<blind, faults>>

\* The lines of the file cannot be counted: their number stays 0.  The file
\* is only there after another failure, and this one needs no bound.
OpenUncounted(g) ==
    /\ Rotated(g)
    /\ bytes > 0 /\ newFile(Owner[g], 0)
    /\ Recovered(Owner[g])
    /\ UNCHANGED <<blind, faults>>

\* Stat of the new file fails: it is used with the counters and the date of
\* the old one.
OpenBlind(g) ==
    /\ Rotated(g) /\ Fault
    /\ Reopen(Owner[g])
    /\ blind' = blind \cup {opened[Owner[g]]}
    /\ Recovered(Owner[g])
    /\ UNCHANGED <<cur, size, opened>>

\* The file cannot be opened: the counters stay as they were.
OpenFail(g) ==
    /\ Rotated(g) /\ Fault
    /\ late' = [late EXCEPT ![Owner[g]] = when[g] < opened[Owner[g]]]
    /\ asked' = [asked EXCEPT ![Owner[g]] = LineSize(g)]
    /\ UNCHANGED <<mtime, fd, cur, size, opened, blind>>

\* 24 * MaxDays hours after its last change, a time of the day that is not
\* modelled: a file may be kept for the whole of the day on which they end.
Old(n) == Exists(n) /\ mtime[n] + MaxDays <= day

\* deleteOldLog, the visits of its walk taken together; an error of
\* os.Remove is ignored.
DeleteOld(p) ==
    /\ cleaning[p] # 0
    /\ \E gone \in SUBSET {n \in Names : Old(n)} :
         /\ lines' = [n \in Names |-> IF n \in gone THEN {} ELSE lines[n]]
         /\ mtime' = [n \in Names |-> IF n \in gone THEN 0 ELSE mtime[n]]
         /\ bytes' = IF Log \in gone THEN 0 ELSE bytes
         /\ fd' = [q \in Procs |-> IF fd[q] \in gone THEN Unlinked ELSE fd[q]]
    /\ cleaning' = [cleaning EXCEPT ![p] = 0]
    /\ UNCHANGED <<day, cur, size, opened, locks, pc, calls, history, faults>>

\* The process ends and is started again: Init calls newFile.  (When that
\* fails the process has no file logger.)
Restart(p) ==
    LET own == {g \in Writers : Owner[g] = p}
    IN  /\ Fault
        /\ newFile(p, Cardinality(lines[Log]))
        /\ cleaning' = [cleaning EXCEPT ![p] = 0]
        /\ holder' = [holder EXCEPT ![p] = None]
        /\ readers' = [readers EXCEPT ![p] = {}]
        /\ Recovered(p)
        /\ pc' = [g \in Writers |-> IF g \in own THEN "idle" ELSE pc[g]]
        /\ UNCHANGED <<day, lines, bytes, calls, acked, astray, full, unmoved, blind>>

-----------------------------------------------------------------------------
Call(g) ==
    \/ RLock(g) \/ Check(g) \/ Lock(g) \/ Write(g)
    \/ Find(g) \/ Rename(g) \/ Open(g)

Fails(g) == RenameFail(g) \/ OpenFail(g) \/ OpenBlind(g) \/ OpenUncounted(g)

Next ==
    \/ NextDay
    \/ \E g \in Writers : LogWrite(g) \/ Call(g) \/ Fails(g)
    \/ \E p \in Procs : DeleteOld(p) \/ Restart(p)

Spec == Init /\ [][Next]_vars

\* A call that has been made goes on; nobody has to log.
FairSpec == Spec /\ \A g \in Writers : WF_vars(Call(g))

-----------------------------------------------------------------------------
(***************************************************************************)
(* Properties.                                                             *)
(***************************************************************************)
\* Every variable keeps its type.
TypeOK ==
    /\ day \in Days
    /\ lines \in [Names -> SUBSET Line] /\ mtime \in [Names -> 0..MaxDay]
    /\ fd \in [Procs -> Names \cup {Closed, Unlinked}]
    /\ bytes \in Nat
    /\ cur \in [Procs -> Nat] /\ size \in [Procs -> Nat]
    /\ opened \in [Procs -> Days]
    /\ holder \in [Procs -> Writers \cup {None}]
    /\ readers \in [Procs -> SUBSET Writers]
    /\ cleaning \in [Procs -> 0..MaxDay] /\ late \in [Procs -> BOOLEAN]
    /\ pc \in [Writers -> {"idle", "rlock", "check", "lock", "write", "find",
                           "rename", "open"}]
    /\ no \in [Writers -> 0..MaxMsgs] /\ when \in [Writers -> Days]
    /\ target \in [Writers -> Names]
    /\ asked \in [Procs -> Nat] /\ unmoved \in BOOLEAN
    /\ acked \subseteq Line /\ astray \subseteq Line
    /\ full \subseteq Days /\ blind \subseteq Days
    /\ faults \in 0..MaxFaults

\* A line whose Write succeeded is in some file until 24 * MaxDays hours may
\* have passed: neither a rotation, nor a failed call, nor a restart in the
\* middle of one, nor deleteOldLog loses it (createFreshFile, deleteOldLog).
\* One way to lose a line is left: an old file that could not be renamed is
\* opened again, and the deleteOldLog of that rotation removes it while it
\* is being written.
Kept ==
    \A l \in acked : l.day + MaxDays > day =>
      (\E n \in Names : l \in lines[n]) \/ (unmoved /\ l \in astray)

\* A file exceeds MaxLines by at most the lines of the other goroutines that
\* had passed the test when it was filled, unless its date has no number
\* left or a rename failed: the full file is written on then (the test and
\* the write of LogWrite hold different locks).
Bounded ==
    full = {} /\ ~unmoved => \A n \in Names :
      Cardinality(lines[n]) < MaxLines + Cardinality(Writers)

\* A file that is named after a date holds no later line, unless that date
\* has run out of numbers or was kept for a file without a Stat
\* (dailyOpenTime in createFreshFile).
NotLater ==
    \A n \in Names \ {Log}, l \in Line :
      l \in lines[n] => l.day <= n[1] \/ n[1] \in full \cup blind

\* A logger whose file could not be opened tries again with the next line
\* that is as long as the one that asked for the rotation: the failure
\* leaves its counters alone.  Shorter lines may be lost until then; and
\* all lines are, until the date changes, when the rotation was asked for by
\* a line older than the file (LogWrite, needCreateFresh).
TriesAgain ==
    \A p \in Procs :
      fd[p] = Closed /\ holder[p] = None =>
        needCreateFresh(p, asked[p], day) \/ late[p]

\* createFreshFile takes "the next available number": the name it moves the
\* old file to is not in use.
NumberAvailable ==
    [][\A g \in Writers : pc[g] = "rename" /\ pc'[g] = "open" /\ Exists(Log)
         => ~Exists(target[g])]_vars

\* Every call of LogWrite returns: the read lock is given up before the
\* write lock is asked for.
Returns == \A g \in Writers : pc[g] # "idle" ~> pc[g] = "idle"
=============================================================================
