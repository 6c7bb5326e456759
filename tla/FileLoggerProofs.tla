-------------------------- MODULE FileLoggerProofs --------------------------
(***************************************************************************)
(* The file logger for any number of goroutines, lines, days and numbers.  *)
(* For any processes: a logger that could not open its file tries again.   *)
(* For one process that logs to a file: no line is lost, no file is        *)
(* overwritten, too long or misdated.                                      *)
(***************************************************************************)
EXTENDS FileLogger, FiniteSetTheorems, TLAPS

\* Every action of Next, by name.
LEMMA Steps ==
    ASSUME Next
    PROVE  \/ NextDay
           \/ \E g \in Writers : LogWrite(g) \/ RLock(g) \/ Check(g) \/ Lock(g)
           \/ \E g \in Writers : Write(g) \/ Find(g) \/ Rename(g)
           \/ \E g \in Writers : RenameFail(g)
           \/ \E g \in Writers : Open(g) \/ OpenUncounted(g) \/ OpenBlind(g)
           \/ \E g \in Writers : OpenFail(g)
           \/ \E p \in Procs : DeleteOld(p) \/ Restart(p)
BY DEF Next, Call, Fails

\* The names of files and the two marks of a writer without one.
LEMMA NameFacts ==
    /\ Log \in Names /\ Closed \notin Names /\ Unlinked \notin Names
    /\ Closed # Unlinked
    /\ \A d \in Days, n \in 1..MaxNum : <<d, n>> \in Names /\ <<d, n>> # Log
    /\ \A d, n : <<d, n>>[1] = d
BY LogAssumption DEF LogAssumption, Names, Log, Closed, Unlinked, Days

\* A set of numbers that is not empty has a smallest one.
LEMMA MinFacts ==
    ASSUME NEW S, S \subseteq 1..MaxNum, S # {}
    PROVE  Min(S) \in S
<1>1. IsWellFoundedOn(OpToRel(<, Nat), Nat)
  BY NatLessThanWellFounded
<1>2. S \subseteq Nat
  BY LogAssumption DEF LogAssumption
<1>3. PICK x \in S : \A y \in S : ~(<<y, x>> \in OpToRel(<, Nat))
  BY <1>1, <1>2, WFMin
<1>4. \A y \in S : ~(y < x)
  BY <1>2, <1>3, Zenon DEF OpToRel
<1>5. \A y \in S : x <= y
  BY <1>2, <1>4
<1> QED BY <1>5 DEF Min

-----------------------------------------------------------------------------
(***************************************************************************)
(* Types.  The count newFile takes is one because a file has finitely many *)
(* lines.                                                                  *)
(***************************************************************************)
Typed ==
    /\ TypeOK
    /\ \A n \in Names : IsFiniteSet(lines[n])
    /\ \A g \in Writers : pc[g] # "idle" => no[g] # 0

\* The line a goroutine has at hand has a length.
LEMMA LineFacts ==
    ASSUME Typed, NEW g \in Writers, pc[g] # "idle"
    PROVE  /\ LineSize(g) \in Nat \ {0} /\ Owner[g] \in Procs
           /\ [by |-> g, no |-> no[g], day |-> when[g]] \in Line
<1>1. no[g] \in 1..MaxMsgs /\ when[g] \in Days
  BY DEF Typed, TypeOK
<1>2. SizeOf[g] \in [1..MaxMsgs -> Nat \ {0}] /\ Owner[g] \in Procs
  BY LogAssumption DEF LogAssumption
<1>3. SizeOf[g][no[g]] \in Nat \ {0}
  BY <1>1, <1>2
<1> QED BY <1>1, <1>2, <1>3 DEF LineSize, Line

LEMMA TypedInit == ASSUME Init PROVE Typed
<1>1. IsFiniteSet({})
  BY FS_EmptySet
<1>2. 1 \in Days /\ 1 \in 0..MaxDay /\ 0 \in 0..MaxDay /\ 0 \in 0..MaxMsgs /\ 0 \in 0..MaxFaults
  BY LogAssumption DEF LogAssumption, Days
<1>3. late \in [Procs -> BOOLEAN] /\ unmoved \in BOOLEAN
  BY Zenon DEF Init
<1> QED BY <1>1, <1>2, <1>3, NameFacts DEF Init, Typed, TypeOK

\* The step of a goroutine that writes no file and asks for none.
LEMMA TypedCall ==
    ASSUME Typed, NEW g \in Writers,
           LogWrite(g) \/ RLock(g) \/ Check(g) \/ Lock(g)
    PROVE  Typed'
<1>0. Owner[g] \in Procs /\ MaxMsgs \in Nat
  BY LogAssumption DEF LogAssumption
<1> USE <1>0 DEF Typed, TypeOK, Goto, files, logger, locks, calls, history, failures
<1>1. CASE LogWrite(g)
  BY <1>1 DEF LogWrite
<1>2. CASE RLock(g)
  BY <1>2 DEF RLock
<1>3. CASE Check(g)
  BY <1>3 DEF Check
<1>4. CASE Lock(g)
  BY <1>4 DEF Lock
<1> QED BY <1>1, <1>2, <1>3, <1>4

\* Write puts one line in a file at most.
LEMMA TypedWrite ==
    ASSUME Typed, NEW g \in Writers, Write(g)
    PROVE  Typed'
<1> DEFINE line == [by |-> g, no |-> no[g], day |-> when[g]]
           p == Owner[g]
<1>1. line \in Line /\ p \in Procs /\ LineSize(g) \in Nat
  BY LineFacts DEF Write
<1>2. lines' = [n \in Names |-> IF n = fd[p] THEN lines[n] \cup {line} ELSE lines[n]]
  BY DEF Write
<1>3. lines' \in [Names -> SUBSET Line]
  BY <1>1, <1>2 DEF Typed, TypeOK
<1>4. \A n \in Names : IsFiniteSet(lines'[n])
  BY <1>2, FS_AddElement DEF Typed
<1>5. mtime' \in [Names -> 0..MaxDay]
  BY DEF Write, Typed, TypeOK, Days
<1>6. acked' \subseteq Line /\ astray' \subseteq Line
  <2>1. /\ acked' = acked \/ acked' = acked \cup {line}
        /\ astray' = astray \/ astray' = astray \cup {line}
    BY DEF Write
  <2> QED BY <1>1, <2>1 DEF Typed, TypeOK
<1>7. cur' \in [Procs -> Nat] /\ size' \in [Procs -> Nat] /\ bytes' \in Nat
  <2>1. /\ cur' = [cur EXCEPT ![p] = IF fd[p] = Closed THEN @ ELSE @ + 1]
        /\ size' = [size EXCEPT ![p] = IF fd[p] = Closed THEN @ ELSE @ + LineSize(g)]
        /\ bytes' \in {bytes, bytes + LineSize(g)}
    BY DEF Write
  <2>2. cur[p] + 1 \in Nat /\ size[p] + LineSize(g) \in Nat /\ bytes + LineSize(g) \in Nat
    BY <1>1 DEF Typed, TypeOK
  <2> QED BY <1>1, <2>1, <2>2 DEF Typed, TypeOK
<1>8. /\ pc' = [pc EXCEPT ![g] = "idle"]
      /\ UNCHANGED <<day, fd, opened, cleaning, holder, readers, no, when, target, full,
                     late, asked, unmoved, blind, faults>>
  BY DEF Write, Goto, locks, calls, failures
<1> QED
  BY <1>3, <1>4, <1>5, <1>6, <1>7, <1>8 DEF Typed, TypeOK

\* The number Find takes is one of a date.
LEMMA FreshName ==
    ASSUME Typed, NEW g \in Writers, FreeNums(Dated(g)) # {}
    PROVE  /\ Min(FreeNums(Dated(g))) \in 1..MaxNum
           /\ ~Exists(<<Dated(g), Min(FreeNums(Dated(g)))>>)
           /\ Dated(g) = opened[Owner[g]] /\ Dated(g) \in Days
           /\ Owner[g] \in Procs
<1>1. Min(FreeNums(Dated(g))) \in FreeNums(Dated(g))
  BY MinFacts DEF FreeNums
<1>2. Owner[g] \in Procs
  BY LogAssumption DEF LogAssumption
<1>3. Dated(g) = opened[Owner[g]] /\ Dated(g) \in Days
  BY <1>2 DEF Dated, Typed, TypeOK
<1> QED BY <1>1, <1>2, <1>3 DEF FreeNums

LEMMA TypedFind ==
    ASSUME Typed, NEW g \in Writers, Find(g)
    PROVE  Typed'
<1> USE DEF files, failures, Goto
<1>1. Owner[g] \in Procs
  BY LogAssumption DEF LogAssumption
<1>2. CASE Goto(g, "open") /\ UNCHANGED <<fd, holder, target, full>>
  BY <1>2 DEF Find, Typed, TypeOK
<1>3. CASE /\ Goto(g, "write") /\ holder' = [holder EXCEPT ![Owner[g]] = None]
           /\ full' = full \cup {Dated(g)} /\ UNCHANGED <<fd, target>>
  <2>1. Dated(g) \in Days
    BY <1>1 DEF Dated, Typed, TypeOK
  <2> QED BY <1>1, <1>3, <2>1 DEF Find, Typed, TypeOK
<1>4. CASE /\ FreeNums(Dated(g)) # {}
           /\ target' = [target EXCEPT ![g] = <<Dated(g), Min(FreeNums(Dated(g)))>>]
           /\ fd' = [fd EXCEPT ![Owner[g]] = Closed]
           /\ Goto(g, "rename") /\ UNCHANGED <<holder, full>>
  <2>1. <<Dated(g), Min(FreeNums(Dated(g)))>> \in Names
    BY <1>4, FreshName, NameFacts
  <2> QED BY <1>1, <1>4, <2>1 DEF Find, Typed, TypeOK
<1> QED BY <1>2, <1>3, <1>4 DEF Find

LEMMA MovedType ==
    ASSUME NEW f \in Names \cup {Closed, Unlinked}, NEW to \in Names
    PROVE  /\ Moved(f, Log, to) \in Names \cup {Closed, Unlinked}
           /\ Moved(f, Log, to) = Closed <=> f = Closed
           /\ f \notin {Log, to} => Moved(f, Log, to) = f
BY NameFacts DEF Moved

LEMMA TypedRename ==
    ASSUME Typed, NEW g \in Writers, Rename(g)
    PROVE  Typed'
<1>1. target[g] \in Names /\ Log \in Names
  BY NameFacts DEF Typed, TypeOK
<1>2. fd' \in [Procs -> Names \cup {Closed, Unlinked}]
  <2>1. CASE fd' = [p \in Procs |-> Moved(fd[p], Log, target[g])]
    BY <1>1, <2>1, MovedType DEF Typed, TypeOK
  <2>2. CASE fd' = fd
    BY <2>2 DEF Typed, TypeOK
  <2> QED BY <2>1, <2>2 DEF Rename
<1>3. lines' \in [Names -> SUBSET Line] /\ \A n \in Names : IsFiniteSet(lines'[n])
  <2>1. CASE lines' = [lines EXCEPT ![target[g]] = lines[Log], ![Log] = {}]
    <3>1. lines \in [Names -> SUBSET Line] /\ \A n \in Names : IsFiniteSet(lines[n])
      BY DEF Typed, TypeOK
    <3>2. \A n \in Names : lines'[n] \in {{}, lines[Log], lines[n]}
      BY <1>1, <2>1, <3>1
    <3>3. DOMAIN lines' = Names /\ lines' = [n \in Names |-> lines'[n]]
      BY <2>1, <3>1
    <3>4. lines' \in [Names -> SUBSET Line]
      BY <1>1, <3>1, <3>2, <3>3
    <3> QED BY <1>1, <3>1, <3>2, <3>4, FS_EmptySet
  <2>2. CASE lines' = lines
    BY <2>2 DEF Typed, TypeOK
  <2> QED BY <2>1, <2>2 DEF Rename, files
<1>4. mtime' \in [Names -> 0..MaxDay]
  <2>1. 0 \in 0..MaxDay
    BY LogAssumption DEF LogAssumption
  <2>2. mtime \in [Names -> 0..MaxDay]
    BY DEF Typed, TypeOK
  <2>3. \/ mtime' = mtime
        \/ mtime' = [mtime EXCEPT ![target[g]] = mtime[Log], ![Log] = 0]
    BY DEF Rename, files
  <2> QED BY <1>1, <2>1, <2>2, <2>3
<1>5. /\ pc' = [pc EXCEPT ![g] = "open"] /\ pc[g] = "rename"
      /\ UNCHANGED <<day, cur, size, opened, cleaning, holder, readers, no, when, target,
                     acked, astray, full, late, asked, unmoved, blind, faults>>
  BY DEF Rename, Goto, locks, calls, history, failures
<1>6. bytes' \in Nat
  BY DEF Rename, files, Typed, TypeOK
<1> QED BY <1>2, <1>3, <1>4, <1>5, <1>6 DEF Typed, TypeOK

\* A call of the file system that fails.
LEMMA TypedFault == ASSUME Typed, Fault PROVE faults' \in 0..MaxFaults
BY LogAssumption DEF LogAssumption, Fault, Typed, TypeOK

LEMMA TypedRenameFail ==
    ASSUME Typed, NEW g \in Writers, RenameFail(g)
    PROVE  Typed'
<1>1. faults' \in 0..MaxFaults
  BY TypedFault DEF RenameFail
<1>2. unmoved' \in BOOLEAN
  BY Zenon DEF RenameFail
<1>3. /\ pc' = [pc EXCEPT ![g] = "open"] /\ pc[g] = "rename"
      /\ UNCHANGED <<day, lines, mtime, bytes, fd, cur, size, opened, cleaning, holder,
                     readers, no, when, target, acked, astray, full, late, asked, blind>>
  BY DEF RenameFail, Goto, files, logger, locks, calls
<1> QED BY <1>1, <1>2, <1>3 DEF Typed, TypeOK

\* newFile, called by a rotation and by a process that starts.
LEMMA TypedReopen ==
    ASSUME Typed, NEW p \in Procs, Reopen(p)
    PROVE  /\ mtime' \in [Names -> 0..MaxDay]
           /\ fd' \in [Procs -> Names \cup {Closed, Unlinked}]
BY NameFacts DEF Reopen, Typed, TypeOK, Days

LEMMA TypedNewFile ==
    ASSUME Typed, NEW p \in Procs, NEW count \in {0, Cardinality(lines[Log])},
           newFile(p, count)
    PROVE  /\ mtime' \in [Names -> 0..MaxDay]
           /\ fd' \in [Procs -> Names \cup {Closed, Unlinked}]
           /\ cur' \in [Procs -> Nat] /\ size' \in [Procs -> Nat]
           /\ opened' \in [Procs -> Days]
<1>1. count \in Nat
  BY NameFacts, FS_CardinalityType DEF Typed
<1> QED BY <1>1, TypedReopen DEF newFile, Typed, TypeOK

LEMMA TypedRecovered ==
    ASSUME Typed, NEW p \in Procs, Recovered(p)
    PROVE  late' \in [Procs -> BOOLEAN] /\ asked' \in [Procs -> Nat]
<1>1. late' \in [Procs -> BOOLEAN]
  BY Zenon DEF Recovered, Typed, TypeOK
<1>2. asked' \in [Procs -> Nat]
  BY DEF Recovered, Typed, TypeOK
<1> QED BY <1>1, <1>2

\* The ways to open a new file that end with one: its counters are set, or
\* stay and leave the date blind.
Reopened(g) == Open(g) \/ OpenUncounted(g) \/ OpenBlind(g)
LEMMA ReopenedFacts ==
    ASSUME Typed, NEW g \in Writers, Reopened(g)
    PROVE  /\ Rotated(g) /\ Reopen(Owner[g]) /\ Recovered(Owner[g])
           /\ faults' \in 0..MaxFaults /\ Owner[g] \in Procs
           /\ \/ /\ UNCHANGED blind
                 /\ newFile(Owner[g], 0) \/ newFile(Owner[g], Cardinality(lines[Log]))
              \/ /\ blind' = blind \cup {opened[Owner[g]]}
                 /\ UNCHANGED <<cur, size, opened>>
<1>1. Owner[g] \in Procs /\ faults \in 0..MaxFaults
  BY LogAssumption DEF LogAssumption, Typed, TypeOK
<1>2. CASE Open(g)
  BY <1>1, <1>2 DEF Open, newFile
<1>3. CASE OpenUncounted(g)
  BY <1>1, <1>3 DEF OpenUncounted, newFile
<1>4. CASE OpenBlind(g)
  BY <1>1, <1>4, TypedFault DEF OpenBlind
<1> QED BY <1>2, <1>3, <1>4 DEF Reopened

\* What the end of a rotation leaves alone, whether or not it has a file.
LEMMA TypedRotated ==
    ASSUME Typed, NEW g \in Writers, Rotated(g),
           mtime' \in [Names -> 0..MaxDay], fd' \in [Procs -> Names \cup {Closed, Unlinked}],
           cur' \in [Procs -> Nat], size' \in [Procs -> Nat], opened' \in [Procs -> Days],
           late' \in [Procs -> BOOLEAN], asked' \in [Procs -> Nat], blind' \subseteq Days,
           faults' \in 0..MaxFaults
    PROVE  Typed'
<1>1. Owner[g] \in Procs
  BY LogAssumption DEF LogAssumption
<1>2. /\ cleaning' = [cleaning EXCEPT ![Owner[g]] = day]
      /\ holder' = [holder EXCEPT ![Owner[g]] = None]
      /\ pc[g] = "open" /\ pc' = [pc EXCEPT ![g] = "write"]
      /\ UNCHANGED <<day, lines, bytes, readers, no, when, target, acked, astray, full,
                     unmoved>>
  BY DEF Rotated, Goto, calls
<1> QED BY <1>1, <1>2 DEF Typed, TypeOK, Days

LEMMA TypedOpen ==
    ASSUME Typed, NEW g \in Writers, Reopened(g) \/ OpenFail(g)
    PROVE  Typed'
<1>1. CASE Reopened(g)
  <2>1. /\ Rotated(g) /\ Reopen(Owner[g]) /\ Recovered(Owner[g])
        /\ faults' \in 0..MaxFaults /\ Owner[g] \in Procs
        /\ \/ /\ UNCHANGED blind
              /\ newFile(Owner[g], 0) \/ newFile(Owner[g], Cardinality(lines[Log]))
           \/ /\ blind' = blind \cup {opened[Owner[g]]}
              /\ UNCHANGED <<cur, size, opened>>
    BY <1>1, ReopenedFacts
  <2>2. late' \in [Procs -> BOOLEAN] /\ asked' \in [Procs -> Nat]
    BY <2>1, TypedRecovered
  <2>3. CASE UNCHANGED blind
    <3>1. /\ cur' \in [Procs -> Nat] /\ size' \in [Procs -> Nat]
          /\ opened' \in [Procs -> Days]
      BY <2>1, <2>3, TypedNewFile DEF Typed, TypeOK
    <3>2. blind' \subseteq Days
      BY <2>3 DEF Typed, TypeOK
    <3> QED BY <2>1, <2>2, <3>1, <3>2, TypedReopen, TypedRotated
  <2>4. CASE blind' = blind \cup {opened[Owner[g]]} /\ UNCHANGED <<cur, size, opened>>
    <3>1. /\ cur' \in [Procs -> Nat] /\ size' \in [Procs -> Nat]
          /\ opened' \in [Procs -> Days] /\ blind' \subseteq Days
      BY <2>1, <2>4 DEF Typed, TypeOK
    <3> QED BY <2>1, <2>2, <3>1, TypedReopen, TypedRotated
  <2> QED BY <2>1, <2>3, <2>4
<1>2. CASE OpenFail(g)
  <2>1. /\ Rotated(g) /\ pc[g] # "idle" /\ UNCHANGED <<mtime, fd, cur, size, opened, blind>>
        /\ late' = [late EXCEPT ![Owner[g]] = when[g] < opened[Owner[g]]]
        /\ asked' = [asked EXCEPT ![Owner[g]] = LineSize(g)]
    BY <1>2 DEF OpenFail, Rotated
  <2>2. late' \in [Procs -> BOOLEAN]
    <3>1. \A b \in BOOLEAN : [late EXCEPT ![Owner[g]] = b] \in [Procs -> BOOLEAN]
      BY Zenon DEF Typed, TypeOK
    <3>2. (when[g] < opened[Owner[g]]) \in BOOLEAN
      OBVIOUS
    <3> QED BY <2>1, <3>1, <3>2, Zenon
  <2>3. asked' \in [Procs -> Nat]
    BY <2>1, LineFacts DEF Typed, TypeOK
  <2>4. faults' \in 0..MaxFaults
    BY <1>2, TypedFault DEF OpenFail
  <2> QED BY <2>1, <2>2, <2>3, <2>4, TypedRotated DEF Typed, TypeOK
<1> QED BY <1>1, <1>2

LEMMA TypedDelete ==
    ASSUME Typed, NEW p \in Procs, DeleteOld(p)
    PROVE  Typed'
<1>1. PICK gone \in SUBSET Names :
        /\ lines' = [n \in Names |-> IF n \in gone THEN {} ELSE lines[n]]
        /\ mtime' = [n \in Names |-> IF n \in gone THEN 0 ELSE mtime[n]]
        /\ bytes' = IF Log \in gone THEN 0 ELSE bytes
        /\ fd' = [q \in Procs |-> IF fd[q] \in gone THEN Unlinked ELSE fd[q]]
  BY DEF DeleteOld
<1>2. lines' \in [Names -> SUBSET Line] /\ \A n \in Names : IsFiniteSet(lines'[n])
  BY <1>1, FS_EmptySet DEF Typed, TypeOK
<1>3. /\ mtime' \in [Names -> 0..MaxDay] /\ cleaning' \in [Procs -> 0..MaxDay]
      /\ fd' \in [Procs -> Names \cup {Closed, Unlinked}] /\ bytes' \in Nat
  BY <1>1, LogAssumption DEF LogAssumption, DeleteOld, Typed, TypeOK
<1>4. UNCHANGED <<day, cur, size, opened, holder, readers, pc, no, when, target, acked,
                  astray, full, late, asked, unmoved, blind, faults>>
  BY DEF DeleteOld, locks, calls, history, failures
<1> QED BY <1>2, <1>3, <1>4 DEF Typed, TypeOK

LEMMA TypedRestart ==
    ASSUME Typed, NEW p \in Procs, Restart(p)
    PROVE  Typed'
<1>1. /\ newFile(p, Cardinality(lines[Log])) /\ Recovered(p)
      /\ UNCHANGED <<day, lines, bytes, no, when, target, acked, astray, full, unmoved, blind>>
  BY DEF Restart, calls
<1>2. late' \in [Procs -> BOOLEAN] /\ asked' \in [Procs -> Nat]
  BY <1>1, TypedRecovered
<1>3. /\ cleaning' \in [Procs -> 0..MaxDay] /\ holder' \in [Procs -> Writers \cup {None}]
      /\ readers' \in [Procs -> SUBSET Writers] /\ faults' \in 0..MaxFaults
  BY LogAssumption, TypedFault DEF LogAssumption, Restart, Typed, TypeOK
<1>4. /\ pc' \in [Writers -> {"idle", "rlock", "check", "lock", "write", "find",
                              "rename", "open"}]
      /\ \A g \in Writers : pc'[g] # "idle" => pc[g] # "idle"
  BY DEF Restart, Typed, TypeOK
<1>5. /\ mtime' \in [Names -> 0..MaxDay]
      /\ fd' \in [Procs -> Names \cup {Closed, Unlinked}]
      /\ cur' \in [Procs -> Nat] /\ size' \in [Procs -> Nat] /\ opened' \in [Procs -> Days]
  BY <1>1, TypedNewFile
<1> QED BY <1>1, <1>2, <1>3, <1>4, <1>5 DEF Typed, TypeOK

LEMMA TypedStep == ASSUME Typed, [Next]_vars PROVE Typed'
<1>1. CASE UNCHANGED vars
  BY <1>1 DEF vars, files, logger, locks, calls, history, failures, Typed, TypeOK
<1>2. CASE NextDay
  BY <1>2, LogAssumption
  DEF LogAssumption, NextDay, files, logger, locks, calls, history, failures, Typed, TypeOK,
      Days
<1> QED
  BY <1>1, <1>2, Steps, TypedCall, TypedWrite, TypedFind, TypedRename, TypedRenameFail,
     TypedOpen, TypedDelete, TypedRestart DEF Reopened

\* Every variable keeps its type: a rotation always finds a name that exists
\* in the walk over the numbers, and every count is one of a finite file.
THEOREM TypeCorrect == Spec => []TypeOK
<1>1. Init => Typed
  BY TypedInit
<1>2. Typed /\ [Next]_vars => Typed'
  BY TypedStep
<1>3. Typed => TypeOK
  BY DEF Typed
<1> QED BY <1>1, <1>2, <1>3, PTL DEF Spec

-----------------------------------------------------------------------------
(***************************************************************************)
(* Dates and locks, for any number of processes.                           *)
(***************************************************************************)
Dates ==
    /\ \A g \in Writers : when[g] <= day
    /\ \A p \in Procs : opened[p] <= day
    /\ \A n \in Names : mtime[n] <= day

\* A goroutine rotates exactly while it holds the lock of its process for
\* writing, and then its line still asks for the rotation.
Rotating == {"find", "rename", "open"}
Locks ==
    /\ \A g \in Writers : pc[g] \in Rotating => holder[Owner[g]] = g
    /\ \A g \in Writers : pc[g] = "check" => g \in readers[Owner[g]]
    /\ \A p \in Procs : holder[p] # None =>
         /\ Owner[holder[p]] = p /\ pc[holder[p]] \in Rotating
         /\ readers[p] = {} /\ Asks(holder[p])

\* A writer without a file will ask for one, unless it is just being opened.
Retries ==
    \A p \in Procs : fd[p] = Closed =>
      \/ needCreateFresh(p, asked[p], day) \/ late[p]
      \/ holder[p] # None /\ pc[holder[p]] \in {"rename", "open"}

Common == Typed /\ Dates /\ Locks

LEMMA DatesStep == ASSUME Typed, Dates, [Next]_vars PROVE Dates'
<1>0. MaxDay \in Nat
  BY LogAssumption DEF LogAssumption
<1> USE <1>0 DEF Typed, TypeOK, Dates, Days, files, logger, calls
<1>1. CASE UNCHANGED vars
  BY <1>1 DEF vars
<1>2. CASE NextDay
  BY <1>2 DEF NextDay
<1>3. ASSUME NEW g \in Writers, LogWrite(g) \/ RLock(g) \/ Check(g) \/ Lock(g)
      PROVE  Dates'
  BY <1>3 DEF LogWrite, RLock, Check, Lock
<1>4. ASSUME NEW g \in Writers, Write(g) PROVE Dates'
  BY <1>4 DEF Write
<1>5. ASSUME NEW g \in Writers, Find(g) PROVE Dates'
  BY <1>5 DEF Find
<1>6. ASSUME NEW g \in Writers, Rename(g) PROVE Dates'
  <2>1. \A n \in Names : mtime'[n] \in {0, mtime[Log], mtime[n]}
    <3>1. \/ UNCHANGED mtime
          \/ mtime' = [mtime EXCEPT ![target[g]] = mtime[Log], ![Log] = 0]
      BY <1>6 DEF Rename
    <3>2. DOMAIN mtime = Names
      OBVIOUS
    <3> HIDE DEF Typed, Dates
    <3> QED BY <3>1, <3>2
  <2>2. UNCHANGED <<day, opened, when>>
    BY <1>6 DEF Rename
  <2>3. mtime[Log] <= day /\ 0 <= day
    BY NameFacts
  <2> QED BY <2>1, <2>2, <2>3
<1>7. ASSUME NEW p \in Procs, Reopen(p), opened'[p] \in {day, opened[p]},
             \A q \in Procs : q # p => opened'[q] = opened[q], UNCHANGED <<day, when>>
      PROVE  Dates'
  <2>1. \A n \in Names : mtime'[n] \in {mtime[n], day}
    BY <1>7, NameFacts DEF Reopen
  <2>2. \A q \in Procs : opened'[q] \in {day, opened[q]}
    BY <1>7
  <2>3. day' = day /\ when' = when /\ day <= day
    BY <1>7
  <2> QED BY <2>1, <2>2, <2>3
<1>8. ASSUME NEW g \in Writers, Reopened(g) PROVE Dates'
  <2>1. /\ Reopen(Owner[g]) /\ Owner[g] \in Procs /\ Rotated(g)
        /\ \/ newFile(Owner[g], 0) \/ newFile(Owner[g], Cardinality(lines[Log]))
           \/ opened' = opened
    BY <1>8, ReopenedFacts
  <2>2. /\ opened'[Owner[g]] \in {day, opened[Owner[g]]}
        /\ \A q \in Procs : q # Owner[g] => opened'[q] = opened[q]
    BY <2>1 DEF newFile
  <2> QED BY <1>7, <2>1, <2>2 DEF Rotated
<1>9. ASSUME NEW g \in Writers, RenameFail(g) \/ OpenFail(g) PROVE Dates'
  BY <1>9 DEF RenameFail, OpenFail, Rotated
<1>10. ASSUME NEW p \in Procs, DeleteOld(p) \/ Restart(p) PROVE Dates'
  <2>1. CASE DeleteOld(p)
    <3>1. /\ \A n \in Names : mtime'[n] \in {0, mtime[n]}
          /\ UNCHANGED <<day, opened, when>>
      BY <2>1 DEF DeleteOld
    <3> QED BY <3>1
  <2>2. CASE Restart(p) BY <1>7, <2>2 DEF Restart, newFile
  <2> QED BY <1>10, <2>1, <2>2
<1> HIDE DEF Typed, TypeOK, Dates, Days, files, logger, calls
<1> QED BY <1>1, <1>2, <1>3, <1>4, <1>5, <1>6, <1>8, <1>9, <1>10, Steps DEF Reopened

LEMMA LocksStep == ASSUME Typed, Locks, [Next]_vars PROVE Locks'
<1>0. None \notin Writers /\ \A g \in Writers : Owner[g] \in Procs
  BY LogAssumption DEF LogAssumption
<1> USE <1>0 DEF Typed, TypeOK, Locks, Rotating, Goto, locks, calls, logger, Asks,
        needCreateFresh, LineSize
<1>1. CASE UNCHANGED vars
  BY <1>1 DEF vars
<1>2. CASE NextDay
  BY <1>2 DEF NextDay
<1>3. ASSUME NEW g \in Writers, LogWrite(g) PROVE Locks'
  BY <1>3 DEF LogWrite
<1>4. ASSUME NEW g \in Writers, RLock(g) PROVE Locks'
  BY <1>4 DEF RLock
<1>5. ASSUME NEW g \in Writers, Check(g) PROVE Locks'
  BY <1>5 DEF Check
<1>6. ASSUME NEW g \in Writers, Lock(g) PROVE Locks'
  <2>1. /\ pc[g] = "lock" /\ holder[Owner[g]] = None /\ readers[Owner[g]] = {}
        /\ UNCHANGED <<cur, size, opened, readers, no, when>>
    BY <1>6 DEF Lock, Free
  <2>2. CASE Asks(g)
    <3>1. pc' = [pc EXCEPT ![g] = "find"] /\ holder' = [holder EXCEPT ![Owner[g]] = g]
      BY <1>6, <2>2 DEF Lock
    <3> QED BY <2>1, <2>2, <3>1
  <2>3. CASE ~Asks(g)
    <3>1. pc' = [pc EXCEPT ![g] = "write"] /\ UNCHANGED holder
      BY <1>6, <2>3 DEF Lock
    <3> QED BY <2>1, <3>1
  <2> QED BY <2>2, <2>3
<1>7. ASSUME NEW g \in Writers, Write(g) PROVE Locks'
  BY <1>7 DEF Write, Free
<1>r. ASSUME NEW g \in Writers, pc[g] \in Rotating, pc' = [pc EXCEPT ![g] = "write"],
             holder' = [holder EXCEPT ![Owner[g]] = None], UNCHANGED <<readers, no, when>>,
             \A q \in Procs : q # Owner[g] =>
               cur'[q] = cur[q] /\ size'[q] = size[q] /\ opened'[q] = opened[q]
      PROVE  Locks'
  <2>2. \A h \in Writers : pc'[h] \in Rotating =>
          pc[h] \in Rotating /\ Owner[h] # Owner[g] /\ holder'[Owner[h]] = h
    BY <1>r
  <2>3. \A h \in Writers : pc'[h] = "check" => h \in readers'[Owner[h]]
    BY <1>r
  <2>4. ASSUME NEW q \in Procs, holder'[q] # None
        PROVE  /\ Owner[holder'[q]] = q /\ pc'[holder'[q]] \in Rotating
               /\ readers'[q] = {} /\ Asks(holder[q])' /\ holder'[q] = holder[q]
    <3>1. q # Owner[g] /\ holder'[q] = holder[q] /\ holder[q] \in Writers
      BY <1>r, <2>4
    <3>2. Owner[holder[q]] = q /\ holder[q] # g
      BY <2>4, <3>1
    <3>3. pc'[holder[q]] = pc[holder[q]]
      BY <1>r, <3>1, <3>2
    <3>4. Asks(holder[q])'
      BY <1>r, <2>4, <3>1, <3>2
    <3> QED BY <1>r, <2>4, <3>1, <3>2, <3>3, <3>4
  <2> HIDE DEF Asks
  <2> QED BY <2>2, <2>3, <2>4
<1>8. ASSUME NEW g \in Writers, Find(g) PROVE Locks'
  <2>1. pc[g] = "find" /\ UNCHANGED <<cur, size, opened, readers, no, when>>
    BY <1>8 DEF Find
  <2>2. CASE /\ UNCHANGED holder
             /\ pc' = [pc EXCEPT ![g] = "open"] \/ pc' = [pc EXCEPT ![g] = "rename"]
    BY <2>1, <2>2
  <2>3. CASE pc' = [pc EXCEPT ![g] = "write"] /\ holder' = [holder EXCEPT ![Owner[g]] = None]
    BY <1>r, <2>1, <2>3
  <2> QED BY <1>8, <2>2, <2>3 DEF Find
<1>9. ASSUME NEW g \in Writers, Rename(g) \/ RenameFail(g) PROVE Locks'
  <2>1. /\ pc[g] = "rename" /\ pc' = [pc EXCEPT ![g] = "open"]
        /\ UNCHANGED <<cur, size, opened, holder, readers, no, when>>
    BY <1>9 DEF Rename, RenameFail
  <2> QED BY <2>1
<1>10. ASSUME NEW g \in Writers, Reopened(g) \/ OpenFail(g) PROVE Locks'
  <2>1. \/ newFile(Owner[g], 0) \/ newFile(Owner[g], Cardinality(lines[Log]))
        \/ UNCHANGED <<cur, size, opened>>
    BY <1>10, ReopenedFacts DEF OpenFail
  <2>2. Rotated(g)
    BY <1>10, ReopenedFacts DEF OpenFail
  <2>3. \A q \in Procs : q # Owner[g] =>
          cur'[q] = cur[q] /\ size'[q] = size[q] /\ opened'[q] = opened[q]
    BY <2>1 DEF newFile
  <2> QED BY <1>r, <2>2, <2>3 DEF Rotated
<1>11. ASSUME NEW p \in Procs, DeleteOld(p) PROVE Locks'
  BY <1>11 DEF DeleteOld
<1>12. ASSUME NEW p \in Procs, Restart(p) PROVE Locks'
  BY <1>12 DEF Restart, newFile
<1> HIDE DEF Typed, TypeOK, Locks, Rotating, Goto, locks, calls, logger, Asks,
             needCreateFresh, LineSize
<1> QED
  BY <1>1, <1>2, <1>3, <1>4, <1>5, <1>6, <1>7, <1>8, <1>9, <1>10, <1>11, <1>12, Steps
  DEF Reopened

LEMMA CommonInit == ASSUME Init PROVE Common
<1>1. Dates /\ Locks
  BY DEF Init, Dates, Locks, Rotating
<1> QED BY <1>1, TypedInit DEF Common

LEMMA CommonStep == ASSUME Common, [Next]_vars PROVE Common'
BY TypedStep, DatesStep, LocksStep DEF Common

\* A rotation that fails leaves the counters as they were, and they ask for it
\* again with the next line of that length, unless the line that asked was an
\* old one.
LEMMA RetriesStep == ASSUME Common, Retries, [Next]_vars PROVE Retries'
<1> SUFFICES ASSUME NEW p \in Procs, fd'[p] = Closed
             PROVE  \/ needCreateFresh(p, asked[p], day)' \/ late'[p]
                    \/ holder'[p] # None /\ pc'[holder'[p]] \in {"rename", "open"}
  BY DEF Retries
<1> DEFINE Again == needCreateFresh(p, asked[p], day) \/ late[p]
           Opening == holder[p] # None /\ pc[holder[p]] \in {"rename", "open"}
<1>0. fd[p] = Closed => Again \/ Opening
  BY DEF Retries
<1> USE DEF files, logger, locks, calls, history, failures
<1>1. CASE /\ fd[p] = Closed /\ UNCHANGED <<day, late, asked, cur, size, opened, holder>>
           /\ Opening => Opening'
  BY <1>0, <1>1 DEF needCreateFresh
<1>2. CASE UNCHANGED vars
  BY <1>1, <1>2 DEF vars
<1>3. CASE NextDay
  <2>1. opened[p] <= day /\ opened[p] \in Nat /\ day \in Nat /\ day' = day + 1
    BY <1>3, LogAssumption DEF LogAssumption, NextDay, Common, Typed, TypeOK, Dates, Days
  <2>2. opened' = opened
    BY <1>3 DEF NextDay
  <2> QED BY <2>1, <2>2 DEF needCreateFresh
<1>4. ASSUME NEW g \in Writers, LogWrite(g) \/ RLock(g) \/ Check(g) PROVE Again' \/ Opening'
  <2>1. pc[g] \notin Rotating /\ \A h \in Writers : h # g => pc'[h] = pc[h]
    BY <1>4 DEF LogWrite, RLock, Check, Rotating, Goto, Common, Typed, TypeOK
  <2>2. UNCHANGED <<day, late, asked, cur, size, opened, holder, fd>>
    BY <1>4 DEF LogWrite, RLock, Check
  <2>3. Opening => Opening'
    BY <2>1, <2>2 DEF Common, Typed, TypeOK, Rotating
  <2> QED BY <1>1, <2>2, <2>3
<1>5. ASSUME NEW g \in Writers, Lock(g) PROVE Again' \/ Opening'
  <2>1. UNCHANGED <<day, late, asked, cur, size, opened, fd>>
    BY <1>5 DEF Lock
  <2>2. CASE Owner[g] = p
    <3>1. holder[p] = None
      BY <1>5, <2>2 DEF Lock, Free
    <3> QED BY <1>0, <2>1, <3>1 DEF needCreateFresh
  <2>3. CASE Owner[g] # p
    <3>1. holder'[p] = holder[p] /\ \A h \in Writers : h # g => pc'[h] = pc[h]
      BY <1>5, <2>3 DEF Lock, Goto, Common, Typed, TypeOK
    <3>2. Opening => Opening'
      BY <2>3, <3>1 DEF Common, Locks, Typed, TypeOK
    <3> QED BY <1>0, <2>1, <3>2 DEF needCreateFresh
  <2> QED BY <2>2, <2>3
<1>6. ASSUME NEW g \in Writers, Write(g) PROVE Again' \/ Opening'
  <2>1. UNCHANGED <<day, late, asked, fd, opened, holder>> /\ fd[p] = Closed
    BY <1>6 DEF Write
  <2>2. cur'[p] = cur[p] /\ size'[p] = size[p]
    BY <1>6, <2>1 DEF Write, Common, Typed, TypeOK
  <2>3. Opening => Opening'
    <3>1. pc[g] = "write" /\ \A h \in Writers : h # g => pc'[h] = pc[h]
      BY <1>6 DEF Write, Goto, Common, Typed, TypeOK
    <3> QED BY <2>1, <3>1 DEF Common, Typed, TypeOK
  <2> QED BY <1>0, <2>1, <2>2, <2>3 DEF needCreateFresh
<1>7. ASSUME NEW g \in Writers, Find(g) PROVE Again' \/ Opening'
  <2>1. /\ UNCHANGED <<day, late, asked, cur, size, opened>> /\ pc[g] = "find"
        /\ \A h \in Writers : h # g => pc'[h] = pc[h]
        /\ pc'[g] \in {"open", "write", "rename"}
    BY <1>7 DEF Find, Goto, Common, Typed, TypeOK
  <2>2. CASE Owner[g] # p
    <3>1. holder'[p] = holder[p] /\ fd'[p] = fd[p]
      BY <1>7, <2>2 DEF Find, Common, Typed, TypeOK
    <3>2. Opening => Opening'
      BY <2>1, <2>2, <3>1 DEF Common, Locks, Typed, TypeOK
    <3> QED BY <1>0, <2>1, <3>1, <3>2 DEF needCreateFresh
  <2>3. CASE Owner[g] = p
    <3>1. holder[p] = g /\ g # None
      BY <2>1, <2>3, LogAssumption DEF LogAssumption, Common, Locks, Rotating
    <3>2. ~Opening
      BY <2>1, <3>1
    <3>3. CASE pc'[g] \in {"open", "rename"}
      <4>1. holder' = holder
        BY <1>7, <2>1, <3>3 DEF Find, Goto, Common, Typed, TypeOK
      <4> QED BY <3>1, <3>3, <4>1
    <3>4. CASE pc'[g] = "write"
      <4>1. fd' = fd
        BY <1>7, <2>1, <3>4 DEF Find, Goto, Common, Typed, TypeOK
      <4> QED BY <1>0, <2>1, <3>2, <4>1 DEF needCreateFresh
    <3> QED BY <2>1, <3>3, <3>4
  <2> QED BY <2>2, <2>3
<1>8. ASSUME NEW g \in Writers, Rename(g) \/ RenameFail(g) PROVE Again' \/ Opening'
  <2>1. fd[p] = Closed
    <3>1. target[g] \in Names /\ fd[p] \in Names \cup {Closed, Unlinked}
      BY DEF Common, Typed, TypeOK
    <3>2. fd'[p] = fd[p] \/ fd'[p] = Moved(fd[p], Log, target[g])
      BY <1>8 DEF Rename, RenameFail
    <3> QED BY <3>1, <3>2, MovedType
  <2>2. /\ UNCHANGED <<day, late, asked, cur, size, opened, holder>> /\ pc'[g] = "open"
        /\ \A h \in Writers : h # g => pc'[h] = pc[h]
    BY <1>8 DEF Rename, RenameFail, Goto, Common, Typed, TypeOK
  <2>3. Opening => Opening'
    BY <2>2 DEF Common, Typed, TypeOK
  <2> QED BY <1>1, <2>1, <2>2, <2>3
<1>9. ASSUME NEW g \in Writers, Reopened(g) \/ OpenFail(g) PROVE Again' \/ Opening'
  <2>1. /\ day' = day /\ pc[g] = "open" /\ Owner[g] \in Procs /\ Rotated(g)
        /\ \A h \in Writers : h # g => pc'[h] = pc[h]
        /\ Reopened(g) => Reopen(Owner[g]) /\ Recovered(Owner[g])
    <3>1. Rotated(g) /\ (Reopened(g) => Reopen(Owner[g]) /\ Recovered(Owner[g]))
      BY <1>9, ReopenedFacts DEF OpenFail, Common
    <3>2. Owner[g] \in Procs
      BY LogAssumption DEF LogAssumption
    <3> QED BY <3>1, <3>2 DEF Rotated, Goto, Common, Typed, TypeOK
  <2>2. CASE Owner[g] # p
    <3>1. \/ newFile(Owner[g], 0) \/ newFile(Owner[g], Cardinality(lines[Log]))
          \/ UNCHANGED <<cur, size, opened>>
      BY <1>9, ReopenedFacts DEF OpenFail, Common
    <3>2. cur'[p] = cur[p] /\ size'[p] = size[p] /\ opened'[p] = opened[p]
      BY <2>2, <3>1 DEF newFile, Common, Typed, TypeOK
    <3>3. holder'[p] = holder[p] /\ fd'[p] = fd[p]
      BY <1>9, <2>1, <2>2 DEF Rotated, OpenFail, Reopen, Common, Typed, TypeOK
    <3>4. late'[p] = late[p] /\ asked'[p] = asked[p]
      BY <1>9, <2>1, <2>2 DEF OpenFail, Recovered, Common, Typed, TypeOK
    <3>5. Opening => Opening'
      BY <2>1, <2>2, <3>3 DEF Common, Locks, Typed, TypeOK
    <3> QED BY <1>0, <2>1, <3>2, <3>3, <3>4, <3>5 DEF needCreateFresh
  <2>3. CASE Owner[g] = p
    <3>1. OpenFail(g)
      BY <1>9, <2>1, <2>3, NameFacts DEF Reopen, Common, Typed, TypeOK
    <3>2. UNCHANGED <<cur, size, opened>>
      BY <3>1 DEF OpenFail
    <3>3. (late'[p] <=> when[g] < opened[p]) /\ asked'[p] = LineSize(g)
      BY <2>3, <3>1 DEF OpenFail, Common, Typed, TypeOK
    <3>4. holder[p] = g /\ g # None
      BY <2>1, <2>3, LogAssumption DEF LogAssumption, Common, Locks, Rotating
    <3>5. needCreateFresh(p, LineSize(g), when[g])
      BY <2>3, <3>4 DEF Common, Locks, Asks
    <3>6. when[g] \in Nat /\ opened[p] \in Nat /\ day \in Nat /\ when[g] <= day
      BY LogAssumption DEF LogAssumption, Common, Typed, TypeOK, Dates, Days
    <3> QED BY <2>1, <3>2, <3>3, <3>5, <3>6 DEF needCreateFresh
  <2> QED BY <2>2, <2>3
<1>10. ASSUME NEW q \in Procs, DeleteOld(q) PROVE Again' \/ Opening'
  <2>1. fd[p] = Closed
    BY <1>10, NameFacts DEF DeleteOld
  <2> QED BY <1>1, <1>10, <2>1 DEF DeleteOld
<1>11. ASSUME NEW q \in Procs, Restart(q) PROVE Again' \/ Opening'
  <2>0. Reopen(q) /\ newFile(q, Cardinality(lines[Log])) /\ Recovered(q)
    BY <1>11 DEF Restart, newFile
  <2>1. p # q
    BY <2>0, NameFacts DEF Reopen, Common, Typed, TypeOK
  <2>2. fd'[p] = fd[p] /\ cur'[p] = cur[p] /\ size'[p] = size[p] /\ opened'[p] = opened[p]
    BY <2>0, <2>1 DEF Reopen, newFile, Common, Typed, TypeOK
  <2>3. /\ holder'[p] = holder[p] /\ day' = day
        /\ \A h \in Writers : Owner[h] # q => pc'[h] = pc[h]
    BY <1>11, <2>1 DEF Restart, Common, Typed, TypeOK
  <2>4. late'[p] = late[p] /\ asked'[p] = asked[p]
    BY <2>0, <2>1 DEF Recovered, Common, Typed, TypeOK
  <2>5. Opening => Opening'
    BY <2>1, <2>2, <2>3 DEF Common, Locks, Typed, TypeOK
  <2> QED BY <1>0, <2>2, <2>3, <2>4, <2>5 DEF needCreateFresh
<1> QED
  BY <1>2, <1>3, <1>4, <1>5, <1>6, <1>7, <1>8, <1>9, <1>10, <1>11, Steps
  DEF Reopened

\* A logger whose file could not be opened asks for it again with the next
\* line as long as the one that asked, unless that one was older than the
\* file (LogWrite, createFreshFile, newFile).  This holds for any number of
\* processes.
THEOREM OpensAgain == Spec => []TriesAgain
<1>1. Init => Common /\ Retries
  <2> SUFFICES ASSUME Init PROVE Common /\ Retries
    OBVIOUS
  <2>1. Retries
    BY NameFacts DEF Init, Retries
  <2> QED BY <2>1, CommonInit
<1>2. Common /\ [Next]_vars => Common'
  BY CommonStep
<1>3. Common /\ Retries /\ [Next]_vars => Retries'
  BY RetriesStep
<1>4. Retries => TriesAgain
  BY DEF Retries, TriesAgain
<1> QED BY <1>1, <1>2, <1>3, <1>4, PTL DEF Spec

-----------------------------------------------------------------------------
(***************************************************************************)
(* One process that logs to the file and keeps its files for more than a   *)
(* day, 7 or 2 as configured.  (The run with two processes shows what      *)
(* another one can do to a rotation.)  As long as no rename has failed, a  *)
(* rotation finds the log file where it expects it, and deleteOldLog never *)
(* removes it; a rename that fails leaves a file of any age to be opened   *)
(* again.                                                                  *)
(***************************************************************************)
Alone(p) == Procs = {p} /\ MaxDays > 1

\* Where the log file and its writer are in a rotation.
Files(p) ==
    /\ fd[p] \in {Log, Closed, Unlinked}
    /\ fd[p] = Log => Exists(Log)
    /\ fd[p] = Unlinked => unmoved
    /\ fd[p] = Closed /\ Exists(Log) => unmoved \/ \E g \in Writers : pc[g] = "rename"
    /\ \A g \in Writers : pc[g] = "rename" =>
         /\ fd[p] = Closed /\ (Exists(Log) \/ unmoved)
         /\ target[g] # Log /\ ~Exists(target[g]) /\ target[g][1] = opened[p]
    /\ \A g \in Writers : pc[g] = "open" => fd[p] # Log /\ (unmoved \/ ~Exists(Log))

\* No line is younger than its file.
Ages == \A n \in Names : \A l \in lines[n] : l.day <= mtime[n]

\* While deleteOldLog runs, the log file is not older than its start, unless
\* it could not be renamed.
Sweeps(p) ==
    cleaning[p] # 0 =>
      /\ cleaning[p] <= day /\ day <= cleaning[p] + 1
      /\ Exists(Log) => unmoved \/ cleaning[p] <= mtime[Log]

Single(p) == Common /\ Files(p) /\ Ages /\ Sweeps(p)

LEMMA AloneFacts ==
    ASSUME NEW p, Alone(p), Common
    PROVE  /\ p \in Procs /\ \A q \in Procs : q = p
           /\ \A g \in Writers : Owner[g] = p
           /\ \A g, h \in Writers : pc[g] \in Rotating /\ pc[h] \in Rotating => g = h
           /\ \A g \in Writers : pc[g] \in Rotating => holder[p] = g /\ g # None
<1>1. p \in Procs /\ \A q \in Procs : q = p
  BY DEF Alone
<1>2. \A g \in Writers : Owner[g] = p
  BY <1>1, LogAssumption DEF LogAssumption
<1> QED BY <1>1, <1>2, LogAssumption DEF LogAssumption, Common, Locks

\* deleteOldLog does not remove the log file under its writer, unless it could
\* not be renamed.
LEMMA LogStays ==
    ASSUME NEW p, Alone(p), Single(p), cleaning[p] # 0, ~unmoved
    PROVE  ~Old(Log)
<1>1. Exists(Log) => cleaning[p] <= mtime[Log] /\ day <= cleaning[p] + 1
  BY DEF Single, Sweeps
<1>2. /\ mtime[Log] \in Nat /\ day \in Nat /\ MaxDays \in Nat /\ MaxDays > 1
      /\ cleaning[p] \in Nat
  BY NameFacts, AloneFacts, LogAssumption
  DEF LogAssumption, Single, Common, Typed, TypeOK, Days, Alone
<1> QED BY <1>1, <1>2 DEF Old

\* What deleteOldLog does to the files: those that go are old.
LEMMA DeleteFacts ==
    ASSUME NEW p, Alone(p), Single(p), NEW q \in Procs, DeleteOld(q)
    PROVE  /\ \A n \in Names : \/ lines'[n] = lines[n] /\ mtime'[n] = mtime[n]
                               \/ lines'[n] = {} /\ mtime'[n] = 0 /\ Old(n)
           /\ fd'[p] = fd[p] \/ (fd'[p] = Unlinked /\ unmoved)
           /\ ~unmoved => mtime'[Log] = mtime[Log] /\ lines'[Log] = lines[Log]
           /\ fd'[p] = Log => mtime'[Log] = mtime[Log]
           /\ UNCHANGED <<day, cur, size, opened, holder, readers, pc, no, when, target,
                          acked, astray, full, unmoved, blind>>
<1>0. p \in Procs /\ q = p /\ Files(p) /\ Log \in Names
  BY AloneFacts, NameFacts DEF Single
<1>1. PICK gone \in SUBSET {n \in Names : Old(n)} :
        /\ lines' = [n \in Names |-> IF n \in gone THEN {} ELSE lines[n]]
        /\ mtime' = [n \in Names |-> IF n \in gone THEN 0 ELSE mtime[n]]
        /\ fd' = [h \in Procs |-> IF fd[h] \in gone THEN Unlinked ELSE fd[h]]
  BY DEF DeleteOld
<1>2. \A n \in Names : \/ lines'[n] = lines[n] /\ mtime'[n] = mtime[n]
                       \/ lines'[n] = {} /\ mtime'[n] = 0 /\ Old(n)
  BY <1>1
<1>3. Log \in gone => unmoved
  <2>1. cleaning[p] # 0
    BY <1>0 DEF DeleteOld
  <2> QED BY <1>1, <2>1, LogStays
<1>4. fd[p] \in gone => fd[p] = Log
  BY <1>0, <1>1, NameFacts DEF Files
<1>5. UNCHANGED <<day, cur, size, opened, holder, readers, pc, no, when, target, acked,
                  astray, full, unmoved, blind>>
  BY DEF DeleteOld, locks, calls, history, failures
<1>6. fd'[p] = fd[p] \/ (fd'[p] = Unlinked /\ Log \in gone)
  BY <1>0, <1>1, <1>4
<1>7. Log \notin gone => mtime'[Log] = mtime[Log] /\ lines'[Log] = lines[Log]
  BY <1>0, <1>1
<1>8. fd'[p] = Log => Log \notin gone
  BY <1>0, <1>1, <1>4, NameFacts
<1> QED BY <1>2, <1>3, <1>5, <1>6, <1>7, <1>8

\* What the end of a rotation with a new file does to the files.
LEMMA ReopenFacts ==
    ASSUME NEW p, Alone(p), Single(p), NEW q \in Procs, Reopen(q)
    PROVE  /\ fd'[p] = Log /\ mtime'[Log] # 0
           /\ mtime'[Log] = IF Exists(Log) THEN mtime[Log] ELSE day
           /\ \A n \in Names : n # Log => mtime'[n] = mtime[n]
<1>1. p \in Procs /\ q = p /\ Typed /\ Log \in Names
  BY AloneFacts, NameFacts DEF Single, Common
<1>2. day # 0
  BY <1>1 DEF Typed, TypeOK, Days
<1> QED BY <1>1, <1>2 DEF Reopen, Exists, Typed, TypeOK

\* A file that does not exist has no lines.
LEMMA NoFileNoLines ==
    ASSUME Typed, Ages, NEW n \in Names, ~Exists(n)
    PROVE  lines[n] = {}
<1>1. \A l \in lines[n] : l.day <= 0 /\ l.day \in Days
  BY DEF Typed, TypeOK, Ages, Exists, Line
<1> QED BY <1>1 DEF Days

LEMMA FilesStep ==
    ASSUME NEW p, Alone(p), Single(p), [Next]_vars
    PROVE  Files(p)'
<1>0. /\ Files(p) /\ Common /\ Typed /\ p \in Procs /\ \A q \in Procs : q = p
      /\ \A g \in Writers : Owner[g] = p
      /\ \A g, h \in Writers : pc[g] \in Rotating /\ pc[h] \in Rotating => g = h
  BY AloneFacts DEF Single, Common
<1> USE DEF files, logger, locks, calls, history, failures, Rotating
<1>1. CASE /\ UNCHANGED <<fd, mtime, target, opened, unmoved>>
           /\ \A g \in Writers : pc'[g] \in {"rename", "open"} => pc'[g] = pc[g]
           /\ \A g \in Writers : pc[g] = "rename" => pc'[g] = pc[g]
  BY <1>0, <1>1 DEF Files, Exists
<1>2. CASE UNCHANGED vars
  BY <1>1, <1>2 DEF vars
<1>3. CASE NextDay
  BY <1>1, <1>3 DEF NextDay
<1>4. ASSUME NEW g \in Writers, LogWrite(g) \/ RLock(g) \/ Check(g) \/ Lock(g)
      PROVE  Files(p)'
  <2>1. UNCHANGED <<fd, mtime, target, opened, unmoved>>
    BY <1>4 DEF LogWrite, RLock, Check, Lock
  <2>2. /\ pc[g] \notin Rotating /\ pc'[g] \notin {"rename", "open"}
        /\ \A h \in Writers : h # g => pc'[h] = pc[h]
    BY <1>0, <1>4 DEF LogWrite, RLock, Check, Lock, Goto, Typed, TypeOK
  <2> QED BY <1>1, <2>1, <2>2
<1>5. ASSUME NEW g \in Writers, Write(g) PROVE Files(p)'
  <2>1. /\ UNCHANGED <<fd, target, opened, unmoved>> /\ pc[g] = "write" /\ pc'[g] = "idle"
        /\ \A h \in Writers : h # g => pc'[h] = pc[h]
        /\ mtime' = [n \in Names |-> IF n = fd[p] THEN day ELSE mtime[n]]
    BY <1>0, <1>5 DEF Write, Goto, Typed, TypeOK
  <2>2. CASE fd[p] \in {Closed, Unlinked}
    <3>1. mtime' = mtime
      BY <1>0, <2>1, <2>2, NameFacts DEF Typed, TypeOK
    <3> QED BY <1>1, <2>1, <3>1
  <2>3. CASE fd[p] = Log
    <3>1. \A h \in Writers : pc'[h] \notin {"rename", "open"}
      BY <1>0, <2>1, <2>3, NameFacts DEF Files
    <3>4. Log # Unlinked
      BY NameFacts
    <3>2. mtime'[Log] # 0
      BY <1>0, <2>1, <2>3, NameFacts, LogAssumption
      DEF LogAssumption, Typed, TypeOK, Days
    <3>3. fd'[p] = Log /\ Log # Closed
      BY <2>1, <2>3, NameFacts
    <3> QED BY <3>1, <3>2, <3>3, <3>4 DEF Files, Exists
  <2> QED BY <1>0, <2>2, <2>3 DEF Files
<1>6. ASSUME NEW g \in Writers, Find(g) PROVE Files(p)'
  <2>1. /\ UNCHANGED <<mtime, opened, unmoved>> /\ pc[g] = "find"
        /\ \A h \in Writers : h # g => pc'[h] = pc[h] /\ pc[h] \notin Rotating
    BY <1>0, <1>6 DEF Find, Goto, Typed, TypeOK
  <2>2. CASE ~Exists(Log) /\ Goto(g, "open") /\ UNCHANGED <<fd, target>>
    <3>1. pc'[g] = "open" /\ fd[p] # Log
      BY <1>0, <2>2 DEF Files, Goto, Typed, TypeOK
    <3>2. \A h \in Writers : pc'[h] # "rename"
      BY <2>1, <3>1
    <3> QED BY <1>0, <2>1, <2>2, <3>1, <3>2, NameFacts DEF Files, Exists
  <2>3. CASE Exists(Log) /\ Goto(g, "write") /\ UNCHANGED <<fd, target>>
    <3>1. pc'[g] = "write" /\ \A h \in Writers : pc'[h] \notin {"rename", "open"}
      BY <1>0, <2>1, <2>3 DEF Goto, Typed, TypeOK
    <3>2. \A h \in Writers : pc[h] # "rename"
      BY <2>1
    <3> QED BY <1>0, <2>1, <2>3, <3>1, <3>2, NameFacts DEF Files, Exists
  <2>4. CASE /\ Exists(Log) /\ FreeNums(Dated(g)) # {}
             /\ target' = [target EXCEPT ![g] = <<Dated(g), Min(FreeNums(Dated(g)))>>]
             /\ fd' = [fd EXCEPT ![Owner[g]] = Closed] /\ Goto(g, "rename")
    <3>1. pc'[g] = "rename" /\ fd'[p] = Closed
      BY <1>0, <2>4 DEF Goto, Typed, TypeOK
    <3>2. target'[g] = <<Dated(g), Min(FreeNums(Dated(g)))>>
      BY <1>0, <2>4 DEF Typed, TypeOK
    <3>3. target'[g] # Log /\ ~Exists(target'[g]) /\ target'[g][1] = opened[p]
      BY <1>0, <2>4, <3>2, FreshName, NameFacts
    <3> QED BY <2>1, <2>4, <3>1, <3>3, NameFacts DEF Files, Exists
  <2> QED BY <1>6, <2>2, <2>3, <2>4 DEF Find
<1>7. ASSUME NEW g \in Writers, Rename(g) PROVE Files(p)'
  <2>1. /\ UNCHANGED <<opened, unmoved>> /\ pc[g] = "rename" /\ pc'[g] = "open"
        /\ \A h \in Writers : h # g => pc'[h] = pc[h] /\ pc[h] \notin Rotating
    BY <1>0, <1>7 DEF Rename, Goto, Typed, TypeOK
  <2>2. /\ fd[p] = Closed /\ (Exists(Log) \/ unmoved) /\ target[g] # Log
        /\ target[g] \in Names
    BY <1>0, <2>1 DEF Files, Typed, TypeOK
  <2>3. fd'[p] = Closed
    <3>1. Moved(fd[p], Log, target[g]) = Closed
      BY <2>2, MovedType
    <3> QED BY <1>0, <1>7, <2>2, <3>1 DEF Rename
  <2>4. mtime'[Log] = 0
    BY <1>0, <1>7, <2>2, NameFacts DEF Rename, Typed, TypeOK, Exists
  <2> QED BY <2>1, <2>3, <2>4, NameFacts DEF Files, Exists
<1>8. ASSUME NEW g \in Writers, RenameFail(g) PROVE Files(p)'
  <2>1. /\ pc[g] = "rename" /\ pc'[g] = "open" /\ unmoved' = TRUE
        /\ \A h \in Writers : h # g => pc'[h] = pc[h] /\ pc[h] \notin Rotating
        /\ UNCHANGED <<fd, mtime, opened>>
    BY <1>0, <1>8 DEF RenameFail, Goto, Typed, TypeOK
  <2>2. fd[p] = Closed
    BY <1>0, <2>1 DEF Files
  <2> QED BY <2>1, <2>2, NameFacts DEF Files, Exists
<1>9. ASSUME NEW g \in Writers, Rotated(g) PROVE \A h \in Writers : pc'[h] \notin Rotating
  BY <1>0, <1>9 DEF Rotated, Goto, Typed, TypeOK
<1>10. ASSUME NEW g \in Writers, Reopened(g) PROVE Files(p)'
  <2>1. Rotated(g) /\ Reopen(Owner[g]) /\ Owner[g] \in Procs
    BY <1>0, <1>10, ReopenedFacts
  <2>2. fd'[p] = Log /\ mtime'[Log] # 0
    BY <2>1, ReopenFacts
  <2> QED BY <1>9, <2>1, <2>2, NameFacts DEF Files, Exists
<1>11. ASSUME NEW g \in Writers, OpenFail(g) PROVE Files(p)'
  <2>1. \A h \in Writers : pc'[h] \notin Rotating
    BY <1>9, <1>11 DEF OpenFail
  <2>2. UNCHANGED <<fd, mtime, unmoved>> /\ fd[p] # Log /\ (unmoved \/ ~Exists(Log))
    BY <1>0, <1>11 DEF OpenFail, Rotated, Files
  <2> QED BY <1>0, <2>1, <2>2, NameFacts DEF Files, Exists
<1>12. ASSUME NEW q \in Procs, DeleteOld(q) PROVE Files(p)'
  <2>1. /\ \A n \in Names : mtime'[n] \in {0, mtime[n]}
        /\ fd'[p] = fd[p] \/ (fd'[p] = Unlinked /\ unmoved)
        /\ ~unmoved => mtime'[Log] = mtime[Log]
        /\ fd'[p] = Log => mtime'[Log] = mtime[Log]
        /\ UNCHANGED <<pc, target, opened, unmoved>>
    BY <1>12, DeleteFacts
  <2>2. \A g \in Writers : target[g] \in Names
    BY <1>0 DEF Typed, TypeOK
  <2>3. \A g \in Writers : ~Exists(target[g]) => ~Exists(target[g])'
    BY <2>1, <2>2 DEF Exists
  <2>4. /\ Exists(Log)' => Exists(Log)
        /\ ~unmoved => (Exists(Log)' <=> Exists(Log))
        /\ fd'[p] = Log => (Exists(Log)' <=> Exists(Log))
    BY <2>1, NameFacts DEF Exists
  <2>5. \A g \in Writers : pc[g] = "rename" => fd'[p] = Closed
    BY <1>0, <1>12, NameFacts DEF DeleteOld, Files, Old
  <2>6. Unlinked # Closed /\ Unlinked # Log
    BY NameFacts
  <2> QED BY <1>0, <2>1, <2>3, <2>4, <2>5, <2>6 DEF Files
<1>13. ASSUME NEW q \in Procs, Restart(q) PROVE Files(p)'
  <2>1. (\A h \in Writers : pc'[h] = "idle") /\ Reopen(q)
    BY <1>0, <1>13 DEF Restart, newFile
  <2>2. fd'[p] = Log /\ mtime'[Log] # 0
    BY <2>1, ReopenFacts
  <2> QED BY <2>1, <2>2, NameFacts DEF Files, Exists
<1> QED
  BY <1>2, <1>3, <1>4, <1>5, <1>6, <1>7, <1>8, <1>10, <1>11, <1>12, <1>13, Steps
  DEF Reopened

LEMMA AgesStep ==
    ASSUME NEW p, Alone(p), Single(p), [Next]_vars
    PROVE  Ages'
<1>0. /\ Files(p) /\ Common /\ Typed /\ Ages /\ p \in Procs
      /\ \A g \in Writers : Owner[g] = p
  BY AloneFacts DEF Single, Common
<1> USE DEF files
<1>1. CASE UNCHANGED <<lines, mtime>>
  BY <1>0, <1>1 DEF Ages
<1>2. CASE UNCHANGED vars \/ NextDay
  BY <1>1, <1>2 DEF vars, NextDay
<1>3. ASSUME NEW g \in Writers, LogWrite(g) \/ RLock(g) \/ Check(g) \/ Lock(g)
      PROVE  Ages'
  BY <1>1, <1>3 DEF LogWrite, RLock, Check, Lock
<1>4. ASSUME NEW g \in Writers, Write(g) PROVE Ages'
  <2> DEFINE line == [by |-> g, no |-> no[g], day |-> when[g]]
  <2> SUFFICES ASSUME NEW n \in Names, NEW l \in lines'[n] PROVE l.day <= mtime'[n]
    BY DEF Ages
  <2>1. line.day <= day /\ mtime[n] <= day /\ mtime[n] \in Nat /\ day \in Nat
    BY <1>0, LogAssumption DEF LogAssumption, Common, Dates, Typed, TypeOK, Days
  <2>2. CASE n = fd[p]
    <3>1. mtime'[n] = day /\ (l \in lines[n] \/ l = line)
      BY <1>0, <1>4, <2>2 DEF Write
    <3>2. CASE l \in lines[n]
      <4>1. l.day <= mtime[n] /\ l.day \in Nat
        BY <1>0, <3>2 DEF Ages, Typed, TypeOK, Line, Days
      <4> QED BY <2>1, <3>1, <4>1
    <3> QED BY <2>1, <3>1, <3>2
  <2>3. CASE n # fd[p]
    BY <1>0, <1>4, <2>3 DEF Write, Ages
  <2> QED BY <2>2, <2>3
<1>5. ASSUME NEW g \in Writers, Find(g) \/ RenameFail(g) \/ OpenFail(g) PROVE Ages'
  BY <1>1, <1>5 DEF Find, RenameFail, OpenFail, Rotated
<1>6. ASSUME NEW g \in Writers, Rename(g) PROVE Ages'
  <2>1. target[g] # Log /\ target[g] \in Names /\ Log \in Names
    BY <1>0, <1>6, NameFacts DEF Rename, Files, Typed, TypeOK
  <2>2. CASE ~Exists(Log)
    BY <1>1, <1>6, <2>2 DEF Rename
  <2>3. CASE Exists(Log)
    <3>1. /\ lines' = [lines EXCEPT ![target[g]] = lines[Log], ![Log] = {}]
          /\ mtime' = [mtime EXCEPT ![target[g]] = mtime[Log], ![Log] = 0]
      BY <1>6, <2>3 DEF Rename
    <3>2. \A n \in Names :
            \/ lines'[n] = {}
            \/ lines'[n] = lines[Log] /\ mtime'[n] = mtime[Log]
            \/ lines'[n] = lines[n] /\ mtime'[n] = mtime[n]
      BY <1>0, <2>1, <3>1 DEF Typed, TypeOK
    <3> QED BY <1>0, <2>1, <3>2 DEF Ages
  <2> QED BY <2>2, <2>3
<1>7. ASSUME NEW q \in Procs, Reopen(q), lines' = lines PROVE Ages'
  <2>1. \A n \in Names : mtime'[n] = mtime[n] \/ lines[n] = {}
    <3>1. \A n \in Names : mtime'[n] = mtime[n] \/ ~Exists(n)
      BY <1>0, <1>7 DEF Reopen, Typed, TypeOK, Exists
    <3> QED BY <1>0, <3>1, NoFileNoLines
  <2> QED BY <1>0, <1>7, <2>1 DEF Ages
<1>8. ASSUME NEW g \in Writers, Reopened(g) PROVE Ages'
  BY <1>0, <1>7, <1>8, ReopenedFacts DEF Rotated
<1>9. ASSUME NEW q \in Procs, DeleteOld(q) PROVE Ages'
  BY <1>0, <1>9, DeleteFacts DEF Ages
<1>10. ASSUME NEW q \in Procs, Restart(q) PROVE Ages'
  BY <1>7, <1>10 DEF Restart, newFile
<1> QED
  BY <1>2, <1>3, <1>4, <1>5, <1>6, <1>8, <1>9, <1>10, Steps DEF Reopened

LEMMA SweepsStep ==
    ASSUME NEW p, Alone(p), Single(p), [Next]_vars
    PROVE  Sweeps(p)'
<1>0. /\ Files(p) /\ Common /\ Typed /\ Dates /\ Sweeps(p) /\ p \in Procs
      /\ \A q \in Procs : q = p /\ \A g \in Writers : Owner[g] = p
  BY AloneFacts DEF Single, Common
<1>a. /\ cleaning[p] \in Nat /\ day \in Nat /\ mtime[Log] \in Nat /\ mtime[Log] <= day
      /\ Log \in Names
  BY <1>0, NameFacts, LogAssumption DEF LogAssumption, Typed, TypeOK, Dates, Days
<1> USE DEF files, logger, history, failures
<1>1. CASE UNCHANGED <<cleaning, day, unmoved>> /\ mtime'[Log] \in {0, mtime[Log], day}
  BY <1>0, <1>a, <1>1 DEF Sweeps, Exists
<1>2. CASE UNCHANGED vars
  BY <1>1, <1>2 DEF vars
<1>3. CASE NextDay
  <2>1. cleaning[p] \in {0, day} /\ UNCHANGED <<cleaning, mtime, unmoved>> /\ day' = day + 1
    BY <1>0, <1>3 DEF NextDay
  <2> QED BY <1>0, <1>a, <2>1 DEF Sweeps, Exists
<1>4. ASSUME NEW g \in Writers, LogWrite(g) \/ RLock(g) \/ Check(g) \/ Lock(g) \/ Find(g)
      PROVE  Sweeps(p)'
  BY <1>1, <1>4 DEF LogWrite, RLock, Check, Lock, Find
<1>5. ASSUME NEW g \in Writers, Write(g) PROVE Sweeps(p)'
  BY <1>1, <1>5, <1>a DEF Write
<1>6. ASSUME NEW g \in Writers, Rename(g) PROVE Sweeps(p)'
  <2>1. mtime'[Log] \in {0, mtime[Log]}
    BY <1>0, <1>a, <1>6 DEF Rename, Typed, TypeOK
  <2> QED BY <1>1, <1>6, <2>1 DEF Rename
<1>7. ASSUME NEW g \in Writers, RenameFail(g) PROVE Sweeps(p)'
  <2>1. UNCHANGED <<cleaning, day, mtime>> /\ unmoved' = TRUE
    BY <1>7 DEF RenameFail
  <2> QED BY <1>0, <1>a, <2>1 DEF Sweeps
<1>8. ASSUME NEW g \in Writers, Reopened(g) \/ OpenFail(g) PROVE Sweeps(p)'
  <2>1. Rotated(g) /\ (Reopened(g) => Reopen(p))
    BY <1>0, <1>8, ReopenedFacts DEF OpenFail
  <2>2. cleaning'[p] = day /\ UNCHANGED <<day, unmoved>> /\ (unmoved \/ ~Exists(Log))
    BY <1>0, <2>1 DEF Rotated, Typed, TypeOK, Files
  <2>3. ~Exists(Log) => mtime'[Log] \in {0, day}
    BY <1>0, <1>8, <2>1, ReopenFacts DEF OpenFail, Exists
  <2> QED BY <1>a, <2>2, <2>3 DEF Sweeps, Exists
<1>9. ASSUME NEW q \in Procs, DeleteOld(q) \/ Restart(q) PROVE Sweeps(p)'
  <2>1. cleaning'[p] = 0
    BY <1>0, <1>9 DEF DeleteOld, Restart, Typed, TypeOK
  <2> QED BY <2>1 DEF Sweeps
<1> QED BY <1>2, <1>3, <1>4, <1>5, <1>6, <1>7, <1>8, <1>9, Steps
  DEF Reopened

LEMMA SingleStep ==
    ASSUME NEW p, Alone(p), Single(p), [Next]_vars
    PROVE  Single(p)'
<1>1. Common'
  BY CommonStep DEF Single
<1> QED BY <1>1, FilesStep, AgesStep, SweepsStep DEF Single

LEMMA SingleInit == ASSUME NEW p, Alone(p), Init PROVE Single(p)
<1>1. p \in Procs
  BY DEF Alone
<1>2. Files(p) /\ Ages /\ Sweeps(p)
  BY <1>1, NameFacts DEF Init, Files, Ages, Sweeps, Exists
<1> QED BY <1>2, CommonInit DEF Single

\* What a step does to the lines of the files: they move as a whole, grow by
\* one line, or go because they are old.
LEMMA KeptStep ==
    ASSUME NEW p, Alone(p), Single(p), Kept, [Next]_vars
    PROVE  Kept'
<1>0. /\ Files(p) /\ Common /\ Typed /\ Dates /\ Ages /\ p \in Procs
      /\ \A q \in Procs : q = p /\ \A g \in Writers : Owner[g] = p
  BY AloneFacts DEF Single, Common
<1>a. /\ day \in Nat /\ MaxDays \in Nat /\ acked \subseteq Line
      /\ \A l \in Line : l.day \in Nat
  BY <1>0, LogAssumption DEF LogAssumption, Typed, TypeOK, Line, Days
<1> USE DEF files, history, failures
<1>1. CASE /\ UNCHANGED <<acked, astray, day>> /\ (unmoved => unmoved')
           /\ \A n \in Names : \E k \in Names : lines[n] \subseteq lines'[k]
  BY <1>1 DEF Kept
<1>2. CASE UNCHANGED <<acked, astray, day, lines>> /\ (unmoved => unmoved')
  BY <1>1, <1>2
<1>3. CASE UNCHANGED vars
  BY <1>2, <1>3 DEF vars
<1>4. CASE NextDay
  <2>1. UNCHANGED <<acked, astray, unmoved, lines>> /\ day' = day + 1
    BY <1>4 DEF NextDay
  <2>2. \A l \in acked : l.day + MaxDays > day' => l.day + MaxDays > day
    BY <1>a, <2>1
  <2> QED BY <2>1, <2>2 DEF Kept
<1>5. ASSUME NEW g \in Writers, LogWrite(g) \/ RLock(g) \/ Check(g) \/ Lock(g) PROVE Kept'
  BY <1>2, <1>5 DEF LogWrite, RLock, Check, Lock
<1>6. ASSUME NEW g \in Writers, Write(g) PROVE Kept'
  <2> DEFINE line == [by |-> g, no |-> no[g], day |-> when[g]]
  <2>1. /\ UNCHANGED <<day, unmoved>>
        /\ lines' = [n \in Names |-> IF n = fd[p] THEN lines[n] \cup {line} ELSE lines[n]]
        /\ acked' = IF fd[p] = Closed THEN acked ELSE acked \cup {line}
        /\ astray' = IF fd[p] = Unlinked THEN astray \cup {line} ELSE astray
    BY <1>0, <1>6 DEF Write
  <2>2. fd[p] \in {Log, Closed, Unlinked} /\ (fd[p] = Unlinked => unmoved)
    BY <1>0 DEF Files
  <2>3. (\A n \in Names : lines[n] \subseteq lines'[n]) /\ astray \subseteq astray'
    BY <2>1
  <2>4. fd[p] = Log => line \in lines'[Log] /\ Log \in Names
    BY <2>1, <2>2, NameFacts
  <2>5. fd[p] = Unlinked => line \in astray' /\ unmoved'
    BY <2>1, <2>2
  <2>6. \A l \in acked' : l \in acked \/ (l = line /\ fd[p] \in {Log, Unlinked})
    BY <2>1, <2>2
  <2> HIDE DEF line
  <2> QED BY <2>1, <2>3, <2>4, <2>5, <2>6 DEF Kept
<1>7. ASSUME NEW g \in Writers, Find(g) \/ RenameFail(g) \/ Reopened(g) \/ OpenFail(g)
      PROVE  Kept'
  <2>1. CASE Find(g) \/ RenameFail(g)
    BY <1>2, <2>1 DEF Find, RenameFail
  <2>2. CASE Reopened(g) \/ OpenFail(g)
    <3>1. Rotated(g)
      BY <1>0, <2>2, ReopenedFacts DEF OpenFail
    <3> QED BY <1>2, <3>1 DEF Rotated
  <2> QED BY <1>7, <2>1, <2>2
<1>8. ASSUME NEW g \in Writers, Rename(g) PROVE Kept'
  <2>1. target[g] # Log /\ target[g] \in Names /\ Log \in Names /\ ~Exists(target[g])
    BY <1>0, <1>8, NameFacts DEF Rename, Files, Typed, TypeOK
  <2>2. UNCHANGED <<acked, astray, day, unmoved>>
    BY <1>8 DEF Rename
  <2>3. CASE ~Exists(Log)
    BY <1>2, <1>8, <2>2, <2>3 DEF Rename
  <2>4. CASE Exists(Log)
    <3>1. lines' = [lines EXCEPT ![target[g]] = lines[Log], ![Log] = {}]
      BY <1>8, <2>4 DEF Rename
    <3>2. lines[target[g]] = {}
      BY <1>0, <2>1, NoFileNoLines
    <3>3. /\ lines'[target[g]] = lines[Log]
          /\ \A n \in Names : n \notin {Log, target[g]} => lines'[n] = lines[n]
      BY <1>0, <2>1, <3>1 DEF Typed, TypeOK
    <3>4. \A n \in Names : \E k \in Names : lines[n] \subseteq lines'[k]
      BY <2>1, <3>2, <3>3
    <3> QED BY <1>1, <2>2, <3>4
  <2> QED BY <2>3, <2>4
<1>9. ASSUME NEW q \in Procs, DeleteOld(q) PROVE Kept'
  <2>1. /\ UNCHANGED <<acked, astray, day, unmoved>>
        /\ \A n \in Names : lines'[n] = lines[n] \/ Old(n)
    BY <1>9, DeleteFacts
  <2> SUFFICES ASSUME NEW l \in acked, l.day + MaxDays > day, NEW n \in Names, l \in lines[n]
               PROVE  l \in lines'[n]
    BY <2>1 DEF Kept
  <2>2. l.day <= mtime[n] /\ mtime[n] \in Nat /\ l.day \in Nat
    BY <1>0, <1>a, LogAssumption DEF LogAssumption, Ages, Typed, TypeOK
  <2>3. ~Old(n)
    BY <1>a, <2>2 DEF Old
  <2> QED BY <2>1, <2>3
<1>10. ASSUME NEW q \in Procs, Restart(q) PROVE Kept'
  BY <1>2, <1>10 DEF Restart
<1> QED
  BY <1>3, <1>4, <1>5, <1>6, <1>7, <1>8, <1>9, <1>10, Steps DEF Reopened

\* One process loses no line whose Write succeeded while files are kept: not
\* in a rotation, not by a call that fails, not by a restart in the middle of
\* one, not by deleteOldLog, unless that removes a file whose rename failed.
THEOREM NothingLost == (\E p : Alone(p)) => (Spec => []Kept)
<1> SUFFICES ASSUME NEW p, Alone(p) PROVE Spec => []Kept
  OBVIOUS
<1>1. Init => Single(p) /\ Kept
  BY SingleInit DEF Init, Kept
<1>2. Single(p) /\ [Next]_vars => Single(p)'
  BY SingleStep
<1>3. Single(p) /\ Kept /\ [Next]_vars => Kept'
  BY KeptStep
<1> QED BY <1>1, <1>2, <1>3, PTL DEF Spec

\* One process never renames its log over an older file: the number
\* createFreshFile has found is still free when it renames.
THEOREM NumbersAreFree == (\E p : Alone(p)) => (Spec => NumberAvailable)
<1> SUFFICES ASSUME NEW p, Alone(p) PROVE Spec => NumberAvailable
  OBVIOUS
<1>1. Init => Single(p)
  BY SingleInit
<1>2. Single(p) /\ [Next]_vars => Single(p)'
  BY SingleStep
<1>3. Single(p) /\ [Next]_vars =>
        [\A g \in Writers : pc[g] = "rename" /\ pc'[g] = "open" /\ Exists(Log)
           => ~Exists(target[g])]_vars
  BY DEF Single, Files
<1> QED BY <1>1, <1>2, <1>3, PTL DEF Spec, NumberAvailable
-----------------------------------------------------------------------------
(***************************************************************************)
(* Dates.  A line that is later than the file's own date got there because *)
(* that date has no number left, or was kept for a file without a Stat.    *)
(***************************************************************************)
Stamped(p) ==
    /\ \A l \in lines[Log] : l.day <= opened[p] \/ opened[p] \in full \cup blind
    /\ \A g \in Writers : pc[g] = "write" =>
         when[g] <= opened[p] \/ opened[p] \in full \cup blind \/ fd[p] # Log

LEMMA StampedStep ==
    ASSUME NEW p, Alone(p), Single(p), Stamped(p), NotLater, [Next]_vars
    PROVE  Stamped(p)' /\ NotLater'
<1>0. /\ Files(p) /\ Common /\ Typed /\ Dates /\ Ages /\ p \in Procs /\ Log \in Names
      /\ \A q \in Procs : q = p /\ \A g \in Writers : Owner[g] = p
  BY AloneFacts, NameFacts DEF Single, Common
<1>a. /\ day \in Nat /\ opened[p] \in Nat
      /\ \A l \in Line : l.day \in Nat
      /\ \A g \in Writers : when[g] \in Nat /\ when[g] <= day
  BY <1>0, LogAssumption DEF LogAssumption, Typed, TypeOK, Dates, Line, Days
<1> USE DEF files, logger, locks, calls, history, failures
<1>1. CASE UNCHANGED <<lines, opened, full, blind>>
           /\ \A g \in Writers : pc'[g] = "write" =>
                \/ when'[g] <= opened[p] \/ fd'[p] # Log
                \/ pc[g] = "write" /\ when'[g] = when[g] /\ (fd[p] # Log => fd'[p] # Log)
  BY <1>1 DEF Stamped, NotLater
<1>2. CASE UNCHANGED vars
  BY <1>1, <1>2 DEF vars
<1>3. CASE NextDay
  BY <1>1, <1>3 DEF NextDay
<1>4. ASSUME NEW g \in Writers, LogWrite(g) \/ RLock(g) PROVE Stamped(p)' /\ NotLater'
  BY <1>0, <1>1, <1>4 DEF LogWrite, RLock, Goto, Typed, TypeOK
<1>5. ASSUME NEW g \in Writers, Check(g) \/ Lock(g) PROVE Stamped(p)' /\ NotLater'
  <2>1. /\ pc'[g] = "write" => when[g] = opened[p]
        /\ \A h \in Writers : h # g => pc'[h] = pc[h]
        /\ UNCHANGED <<lines, opened, full, blind, fd, when>>
    BY <1>0, <1>5 DEF Check, Lock, Goto, Asks, needCreateFresh, Typed, TypeOK
  <2> QED BY <1>1, <1>a, <2>1
<1>6. ASSUME NEW g \in Writers, Write(g) PROVE Stamped(p)' /\ NotLater'
  <2> DEFINE line == [by |-> g, no |-> no[g], day |-> when[g]]
  <2>1. /\ lines' = [n \in Names |-> IF n = fd[p] THEN lines[n] \cup {line} ELSE lines[n]]
        /\ UNCHANGED <<opened, full, blind, fd, when>> /\ pc[g] = "write"
        /\ \A h \in Writers : pc'[h] = "write" => pc[h] = "write"
    BY <1>0, <1>6 DEF Write, Goto, Typed, TypeOK
  <2>2. fd[p] \in {Log, Closed, Unlinked} /\ Closed \notin Names /\ Unlinked \notin Names
    BY <1>0, NameFacts DEF Files
  <2>3. \A n \in Names \ {Log} : lines'[n] = lines[n]
    BY <2>1, <2>2
  <2>4. NotLater'
    BY <2>1, <2>3 DEF NotLater
  <2>5. fd[p] = Log => line.day <= opened[p] \/ opened[p] \in full \cup blind
    BY <2>1, <2>2, <1>0 DEF Stamped
  <2>6. \A l \in lines'[Log] : l \in lines[Log] \/ (l = line /\ fd[p] = Log)
    BY <1>0, <2>1
  <2> HIDE DEF line
  <2> QED BY <2>1, <2>4, <2>5, <2>6 DEF Stamped
<1>7. ASSUME NEW g \in Writers, Find(g) PROVE Stamped(p)' /\ NotLater'
  <2>1. /\ UNCHANGED <<lines, opened, when, blind>> /\ full \subseteq full'
        /\ \A h \in Writers : h # g => pc'[h] = pc[h]
    BY <1>0, <1>7 DEF Find, Goto, Typed, TypeOK
  <2>2. CASE pc'[g] = "open" /\ UNCHANGED <<fd, full>>
    BY <1>1, <2>1, <2>2
  <2>3. CASE full' = full \cup {Dated(g)}
    <3>1. opened[p] \in full'
      BY <1>0, <2>3 DEF Dated
    <3> QED BY <2>1, <3>1 DEF Stamped, NotLater
  <2>4. CASE fd' = [fd EXCEPT ![Owner[g]] = Closed] /\ full' = full
    <3>1. fd'[p] # Log
      BY <1>0, <2>4, NameFacts DEF Typed, TypeOK
    <3> QED BY <1>1, <2>1, <2>4, <3>1
  <2> QED BY <1>0, <1>7, <2>2, <2>3, <2>4 DEF Find, Goto, Typed, TypeOK
<1>8. ASSUME NEW g \in Writers, Rename(g) PROVE Stamped(p)' /\ NotLater'
  <2>1. /\ target[g] # Log /\ target[g] \in Names
        /\ target[g][1] = opened[p] /\ fd[p] = Closed
        /\ UNCHANGED <<opened, full, blind>>
    BY <1>0, <1>8 DEF Rename, Files, Typed, TypeOK
  <2>2. fd'[p] # Log
    <3>1. Moved(fd[p], Log, target[g]) = Closed
      BY <2>1, MovedType
    <3>2. fd'[p] \in {fd[p], Moved(fd[p], Log, target[g])}
      BY <1>0, <1>8 DEF Rename
    <3> QED BY <2>1, <3>1, <3>2, NameFacts
  <2>3. CASE ~Exists(Log)
    <3>1. lines' = lines
      BY <1>8, <2>3 DEF Rename
    <3> QED BY <1>1, <2>1, <2>2, <3>1
  <2>4. CASE Exists(Log)
    <3>1. lines' = [lines EXCEPT ![target[g]] = lines[Log], ![Log] = {}]
      BY <1>8, <2>4 DEF Rename
    <3>2. /\ lines'[Log] = {} /\ lines'[target[g]] = lines[Log]
          /\ \A n \in Names : n \notin {Log, target[g]} => lines'[n] = lines[n]
      BY <1>0, <2>1, <3>1 DEF Typed, TypeOK
    <3>3. Stamped(p)'
      BY <2>2, <3>2 DEF Stamped
    <3>4. NotLater'
      BY <2>1, <3>2 DEF Stamped, NotLater
    <3> QED BY <3>3, <3>4
  <2> QED BY <2>3, <2>4
<1>9. ASSUME NEW g \in Writers, RenameFail(g) \/ OpenFail(g)
      PROVE  Stamped(p)' /\ NotLater'
  <2>1. fd[p] # Log /\ UNCHANGED <<lines, full, blind, fd, opened>>
    BY <1>0, <1>9, NameFacts DEF RenameFail, OpenFail, Rotated, Files
  <2> QED BY <1>1, <2>1
<1>b. \A l \in lines[Log] : l.day <= day
  <2>1. \A l \in lines[Log] : l.day <= mtime[Log] /\ l.day \in Nat
    BY <1>0, <1>a DEF Ages, Typed, TypeOK
  <2>2. mtime[Log] <= day /\ mtime[Log] \in Nat
    BY <1>0, LogAssumption DEF LogAssumption, Dates, Typed, TypeOK
  <2> QED BY <1>a, <2>1, <2>2
<1>10. ASSUME NEW g \in Writers, Reopened(g) PROVE Stamped(p)' /\ NotLater'
  <2>1. /\ Rotated(g)
        /\ \/ /\ UNCHANGED blind
              /\ newFile(p, 0) \/ newFile(p, Cardinality(lines[Log]))
           \/ blind' = blind \cup {opened[p]} /\ opened' = opened
    BY <1>0, <1>10, ReopenedFacts
  <2>2. UNCHANGED <<lines, full, when>>
    BY <2>1 DEF Rotated
  <2>3. CASE opened'[p] = day /\ UNCHANGED blind
    BY <1>a, <1>b, <2>2, <2>3 DEF Stamped, NotLater
  <2>4. CASE blind' = blind \cup {opened[p]} /\ opened' = opened
    BY <2>2, <2>4 DEF Stamped, NotLater
  <2> QED BY <1>0, <2>1, <2>3, <2>4 DEF newFile, Typed, TypeOK
<1>11. ASSUME NEW q \in Procs, DeleteOld(q) PROVE Stamped(p)' /\ NotLater'
  <2>1. /\ \A n \in Names : lines'[n] \subseteq lines[n]
        /\ fd[p] # Log => fd'[p] # Log
        /\ UNCHANGED <<opened, full, blind, when, pc>>
    BY <1>0, <1>11, DeleteFacts, NameFacts
  <2>2. Stamped(p)'
    BY <1>0, <2>1 DEF Stamped
  <2>3. NotLater'
    BY <2>1 DEF NotLater
  <2> QED BY <2>2, <2>3
<1>12. ASSUME NEW q \in Procs, Restart(q) PROVE Stamped(p)' /\ NotLater'
  <2>1. /\ UNCHANGED <<lines, full, blind>> /\ opened'[p] = day
        /\ \A g \in Writers : pc'[g] = "idle"
    BY <1>0, <1>12 DEF Restart, newFile, Typed, TypeOK
  <2> QED BY <1>b, <2>1 DEF Stamped, NotLater
<1> QED
  BY <1>2, <1>3, <1>4, <1>5, <1>6, <1>7, <1>8, <1>9, <1>10, <1>11, <1>12, Steps
  DEF Reopened

\* One process files no line under an earlier date than its own while that
\* date has numbers left and every file its Stat (LogWrite, createFreshFile).
THEOREM DatesAreRight == (\E p : Alone(p)) => (Spec => []NotLater)
<1> SUFFICES ASSUME NEW p, Alone(p) PROVE Spec => []NotLater
  OBVIOUS
<1>1. Init => Single(p) /\ Stamped(p) /\ NotLater
  BY SingleInit, NameFacts DEF Init, Stamped, NotLater
<1>2. Single(p) /\ [Next]_vars => Single(p)'
  BY SingleStep
<1>3. Single(p) /\ Stamped(p) /\ NotLater /\ [Next]_vars => Stamped(p)' /\ NotLater'
  BY StampedStep
<1> QED BY <1>1, <1>2, <1>3, PTL DEF Spec
-----------------------------------------------------------------------------
(***************************************************************************)
(* Sizes.  A line more than MaxLines is one of a goroutine that had passed *)
(* the test before; while there are such goroutines, the log file has room *)
(* for all of them below the limit of Bounded.                             *)
(***************************************************************************)
Writing == {g \in Writers : pc[g] = "write"}
Limit == MaxLines + Cardinality(Writers)

Room == Cardinality(lines[Log]) + Cardinality(Writing) < Limit
Counted(p) == fd[p] = Log => Cardinality(lines[Log]) <= cur[p]
Small == \A n \in Names : Cardinality(lines[n]) < Limit
Sizes(p) == full = {} /\ ~unmoved => Room /\ Counted(p) /\ Small

SizesTyped ==
    /\ MaxLines \in Nat \ {0} /\ Cardinality(Writers) \in Nat /\ Limit \in Nat
    /\ Cardinality(Writing) \in Nat /\ Cardinality(Writing) <= Cardinality(Writers)
    /\ \A n \in Names : Cardinality(lines[n]) \in Nat /\ IsFiniteSet(lines[n])
    /\ Cardinality({}) = 0 /\ Log \in Names /\ IsFiniteSet(Writing)

LEMMA SizeFacts == Typed => SizesTyped
<1> SUFFICES ASSUME Typed PROVE SizesTyped
  OBVIOUS
<1>1. Writing \subseteq Writers /\ IsFiniteSet(Writers)
  BY LogAssumption DEF LogAssumption, Writing
<1>2. IsFiniteSet(Writing) /\ Cardinality(Writing) <= Cardinality(Writers)
  BY <1>1, FS_Subset
<1>3. /\ Cardinality(Writing) \in Nat /\ Cardinality(Writers) \in Nat
      /\ \A n \in Names : Cardinality(lines[n]) \in Nat /\ IsFiniteSet(lines[n])
  BY <1>1, <1>2, FS_CardinalityType DEF Typed
<1> QED
  BY <1>2, <1>3, FS_EmptySet, NameFacts, LogAssumption DEF LogAssumption, Limit, SizesTyped

\* There is room in an empty file, whoever is about to write.
LEMMA EmptyHasRoom ==
    ASSUME SizesTyped', lines'[Log] = {}
    PROVE  Room'
BY DEF SizesTyped, Room, Limit

\* One more goroutine has passed the test.
LEMMA PassedHasRoom ==
    ASSUME NEW p, Alone(p), Single(p), Sizes(p), SizesTyped', full = {}, ~unmoved,
           holder[p] = None, cur[p] < MaxLines, lines' = lines
    PROVE  Room'
<1>1. Common /\ Typed /\ Files(p) /\ Ages /\ p \in Procs
  BY AloneFacts DEF Single, Common
<1>2. CASE fd[p] = Log
  <2>1. Cardinality(lines[Log]) <= cur[p] /\ cur[p] \in Nat
    BY <1>1, <1>2 DEF Sizes, Counted, Typed, TypeOK
  <2>2. Cardinality(Writing') <= Cardinality(Writers) /\ Cardinality(Writing') \in Nat
    BY DEF SizesTyped
  <2> QED BY <1>1, <2>1, <2>2, SizeFacts DEF Room, Limit, SizesTyped
<1>3. CASE fd[p] = Closed
  <2>1. ~Exists(Log)
    BY <1>1, <1>3, AloneFacts, LogAssumption DEF LogAssumption, Files, Rotating
  <2>2. lines'[Log] = {}
    BY <1>1, <2>1, NoFileNoLines, NameFacts
  <2> QED BY <2>2, EmptyHasRoom
<1> QED BY <1>1, <1>2, <1>3 DEF Files

LEMMA SizesStep ==
    ASSUME NEW p, Alone(p), Single(p), Sizes(p), [Next]_vars
    PROVE  Sizes(p)'
<1>0. /\ Files(p) /\ Common /\ Typed /\ Ages /\ Locks /\ p \in Procs
      /\ \A q \in Procs : q = p /\ \A g \in Writers : Owner[g] = p
      /\ Typed'
  BY AloneFacts, SingleStep DEF Single, Common
<1>b. SizesTyped
  BY <1>0, SizeFacts
<1>c. SizesTyped'
  BY <1>0, SizeFacts, PTL
<1> SUFFICES ASSUME full' = {}, ~unmoved' PROVE Room' /\ Counted(p)' /\ Small'
  BY DEF Sizes
<1>a. full = {} /\ ~unmoved => Room /\ Counted(p) /\ Small
  BY DEF Sizes
<1>d. fd[p] = Unlinked => unmoved
  BY <1>0 DEF Files
<1> USE DEF files, logger, locks, calls, history, failures
<1>1. CASE UNCHANGED <<lines, full, unmoved, fd, cur>> /\ Writing' = Writing
  BY <1>1, <1>a DEF Room, Counted, Small, Limit
<1>2. CASE UNCHANGED vars
  BY <1>1, <1>2 DEF vars, Writing
<1>3. CASE NextDay
  BY <1>1, <1>3 DEF NextDay, Writing
<1>4. ASSUME NEW g \in Writers, LogWrite(g) \/ RLock(g)
      PROVE  Room' /\ Counted(p)' /\ Small'
  <2>1. Writing' = Writing
    BY <1>0, <1>4 DEF Writing, LogWrite, RLock, Goto, Typed, TypeOK
  <2> QED BY <1>1, <1>4, <2>1 DEF LogWrite, RLock
<1>5. ASSUME NEW g \in Writers, Check(g) \/ Lock(g)
      PROVE  Room' /\ Counted(p)' /\ Small'
  <2>1. UNCHANGED <<lines, full, unmoved, fd, cur>> /\ holder[p] = None
    BY <1>0, <1>5 DEF Check, Lock, Free, Locks
  <2>2. CASE cur[p] < MaxLines
    <3>1. Room'
      BY <1>c, <2>1, <2>2, PassedHasRoom
    <3> QED BY <1>a, <2>1, <3>1 DEF Counted, Small, Limit
  <2>3. CASE ~(cur[p] < MaxLines)
    <3>1. Asks(g)
      <4>1. cur[p] >= MaxLines
        BY <1>0, <1>b, <2>3 DEF SizesTyped, Typed, TypeOK
      <4> QED BY <1>0, <4>1 DEF Asks, needCreateFresh
    <3>2. Writing' = Writing
      BY <1>0, <1>5, <3>1 DEF Check, Lock, Goto, Writing, Typed, TypeOK
    <3> QED BY <1>1, <2>1, <3>2
  <2> QED BY <2>2, <2>3
<1>6. ASSUME NEW g \in Writers, Write(g) PROVE Room' /\ Counted(p)' /\ Small'
  <2> DEFINE line == [by |-> g, no |-> no[g], day |-> when[g]]
  <2>1. /\ lines' = [n \in Names |-> IF n = fd[p] THEN lines[n] \cup {line} ELSE lines[n]]
        /\ cur' = [cur EXCEPT ![p] = IF fd[p] = Closed THEN @ ELSE @ + 1]
        /\ UNCHANGED <<full, unmoved, fd>> /\ g \in Writing /\ Writing' = Writing \ {g}
    <3>1. /\ lines' = [n \in Names |-> IF n = fd[p] THEN lines[n] \cup {line} ELSE lines[n]]
          /\ cur' = [cur EXCEPT ![p] = IF fd[p] = Closed THEN @ ELSE @ + 1]
          /\ UNCHANGED <<full, unmoved, fd>>
          /\ pc[g] = "write" /\ pc' = [pc EXCEPT ![g] = "idle"]
      BY <1>0, <1>6 DEF Write, Goto
    <3>2. DOMAIN pc = Writers
      BY <1>0 DEF Typed, TypeOK
    <3>3. g \in Writing /\ Writing' = Writing \ {g}
      BY <3>1, <3>2 DEF Writing
    <3> QED BY <3>1, <3>3
  <2>2. Cardinality(Writing') = Cardinality(Writing) - 1
    BY <1>b, <2>1, FS_RemoveElement DEF SizesTyped
  <2>3. \A n \in Names \ {Log} : lines'[n] = lines[n]
    BY <1>0, <2>1, NameFacts DEF Files
  <2>4. CASE fd[p] = Log
    <3>1. lines'[Log] = lines[Log] \cup {line}
      BY <2>1, <2>4, NameFacts
    <3>2. Cardinality(lines'[Log]) <= Cardinality(lines[Log]) + 1
      <4>1. IsFiniteSet(lines[Log])
        BY <1>b DEF SizesTyped
      <4>2. Cardinality(lines[Log] \cup {line}) \in {Cardinality(lines[Log]), Cardinality(lines[Log]) + 1}
        BY <4>1, FS_AddElement
      <4> HIDE DEF line
      <4> QED BY <1>b, <3>1, <4>2 DEF SizesTyped
    <3>3. cur'[p] = cur[p] + 1 /\ cur[p] \in Nat
      BY <1>0, <2>1, <2>4, NameFacts DEF Typed, TypeOK
    <3>4. Cardinality(lines'[Log]) \in Nat /\ Cardinality(Writing') \in Nat
      BY <1>c DEF SizesTyped
    <3>5. Room'
      BY <1>b, <1>c, <1>0, <1>a, <2>1, <2>2, <3>2, <3>4 DEF Room, Limit, SizesTyped
    <3>6. Cardinality(lines'[Log]) < Limit
      BY <1>b, <1>c, <1>0, <3>4, <3>5 DEF Room, Limit, SizesTyped
    <3>7. Small'
      BY <1>a, <2>1, <2>3, <3>6 DEF Small, Limit
    <3>8. Counted(p)'
      BY <1>b, <1>c, <1>0, <1>a, <2>1, <2>4, <3>2, <3>3, <3>4 DEF Counted, SizesTyped
    <3> QED BY <3>5, <3>7, <3>8
  <2>5. CASE fd[p] = Closed
    <3>1. lines' = lines
      BY <1>0, <2>1, <2>5, NameFacts DEF Typed, TypeOK
    <3>2. fd'[p] # Log
      BY <2>1, <2>5, NameFacts
    <3>3. Cardinality(lines[Log]) \in Nat /\ Cardinality(Writing) \in Nat /\ Limit \in Nat
      BY <1>b DEF SizesTyped
    <3>4. Cardinality(lines[Log]) + Cardinality(Writing) < Limit
      BY <1>a, <2>1 DEF Room
    <3>5. Cardinality(lines[Log]) + Cardinality(Writing') < Limit
      BY <2>2, <3>3, <3>4
    <3>6. Room'
      BY <3>1, <3>5 DEF Room, Limit
    <3> QED BY <1>a, <2>1, <3>1, <3>2, <3>6 DEF Counted, Small, Limit
  <2> QED BY <1>0, <1>d, <2>1, <2>4, <2>5 DEF Files
<1>7. ASSUME NEW g \in Writers, Find(g) PROVE Room' /\ Counted(p)' /\ Small'
  <2>1. /\ UNCHANGED <<lines, cur, full, unmoved>>
        /\ pc'[g] # "write" /\ pc[g] = "find" /\ \A h \in Writers : h # g => pc'[h] = pc[h]
        /\ fd'[p] \in {fd[p], Closed}
    BY <1>0, <1>7 DEF Find, Goto, Typed, TypeOK
  <2>2. Writing' = Writing
    BY <2>1 DEF Writing
  <2> QED BY <1>a, <2>1, <2>2, NameFacts DEF Room, Counted, Small, Limit
<1>8. ASSUME NEW g \in Writers, Rename(g) PROVE Room' /\ Counted(p)' /\ Small'
  <2>1. /\ target[g] # Log /\ target[g] \in Names /\ Exists(Log) /\ fd[p] = Closed
        /\ Log \in Names /\ UNCHANGED <<full, unmoved>>
    BY <1>0, <1>8, NameFacts DEF Rename, Files, Typed, TypeOK
  <2>2. /\ lines' = [lines EXCEPT ![target[g]] = lines[Log], ![Log] = {}]
        /\ fd' = [h \in Procs |-> Moved(fd[h], Log, target[g])]
    BY <1>8, <2>1 DEF Rename
  <2>3. /\ lines'[Log] = {}
        /\ \A n \in Names : lines'[n] \in {{}, lines[Log], lines[n]}
    BY <1>0, <2>1, <2>2 DEF Typed, TypeOK
  <2>4. fd'[p] # Log
    BY <1>0, <2>1, <2>2, MovedType, NameFacts
  <2>5. Room'
    BY <1>c, <2>3, EmptyHasRoom
  <2>6. Cardinality({}) < Limit
    BY <1>b, <1>c, <1>0 DEF Limit, SizesTyped
  <2>7. \A n \in Names : Cardinality(lines'[n]) < Limit
    BY <1>a, <2>1, <2>2, <2>3, <2>6 DEF Small
  <2> QED BY <2>4, <2>5, <2>7 DEF Counted, Small, Limit
<1>9. ASSUME NEW g \in Writers, Reopened(g) \/ OpenFail(g)
      PROVE  Room' /\ Counted(p)' /\ Small'
  <2>1. /\ Rotated(g)
        /\ \/ newFile(p, 0) \/ newFile(p, Cardinality(lines[Log]))
           \/ UNCHANGED cur
    BY <1>0, <1>9, ReopenedFacts DEF OpenFail
  <2>2. ~Exists(Log) /\ UNCHANGED <<lines, full, unmoved>>
    BY <1>0, <2>1 DEF Rotated, Files
  <2>3. lines[Log] = {} /\ lines'[Log] = {}
    BY <1>0, <2>2, NoFileNoLines, NameFacts
  <2>4. Counted(p)'
    <3>1. cur'[p] \in Nat
      BY <1>0 DEF Typed, TypeOK
    <3> QED BY <1>b, <2>3, <3>1 DEF Counted, SizesTyped
  <2> QED BY <1>a, <1>c, <2>2, <2>3, <2>4, EmptyHasRoom DEF Small, Limit
<1>10. ASSUME NEW q \in Procs, DeleteOld(q) PROVE Room' /\ Counted(p)' /\ Small'
  <2>1. /\ UNCHANGED <<full, cur, unmoved, pc>>
        /\ \A n \in Names : lines'[n] \in {{}, lines[n]}
    BY <1>10, DeleteFacts
  <2>2. fd'[p] = fd[p] /\ lines'[Log] = lines[Log] /\ Writing' = Writing
    BY <1>10, <2>1, DeleteFacts DEF Writing
  <2>3. Cardinality({}) < Limit
    BY <1>b, <1>c, <1>0 DEF Limit, SizesTyped
  <2> QED BY <1>a, <2>1, <2>2, <2>3 DEF Room, Counted, Small, Limit
<1>11. ASSUME NEW q \in Procs, Restart(q) PROVE Room' /\ Counted(p)' /\ Small'
  <2>1. /\ UNCHANGED <<lines, full, unmoved>> /\ cur'[p] = Cardinality(lines[Log])
        /\ Writing' = {}
    BY <1>0, <1>11 DEF Restart, newFile, Typed, TypeOK, Writing
  <2>2. Cardinality(lines[Log]) < Limit
    BY <1>a, <2>1, NameFacts DEF Small
  <2>3. Room'
    BY <1>b, <1>c, <1>0, <2>1, <2>2 DEF Room, Limit, SizesTyped
  <2> QED BY <1>b, <1>c, <1>0, <1>a, <2>1, <2>3 DEF Counted, Small, Limit, SizesTyped
<1>12. ASSUME NEW g \in Writers, RenameFail(g) PROVE FALSE
  BY <1>12 DEF RenameFail
<1> QED
  BY <1>2, <1>3, <1>4, <1>5, <1>6, <1>7, <1>8, <1>9, <1>10, <1>11, <1>12, Steps
  DEF Reopened

\* While every date has numbers left and every rename succeeds, no file of
\* one process grows beyond MaxLines by more than the lines of its other
\* goroutines (LogWrite tests and writes under different locks).
THEOREM FilesAreBounded ==
    (\E p : Alone(p)) => (Spec => []Bounded)
<1> SUFFICES ASSUME NEW p, Alone(p) PROVE Spec => []Bounded
  OBVIOUS
<1>1. Init => Single(p) /\ Sizes(p)
  <2> SUFFICES ASSUME Init PROVE Single(p) /\ Sizes(p)
    OBVIOUS
  <2>1. Single(p) /\ Typed
    BY SingleInit DEF Single, Common
  <2>2. p \in Procs /\ cur[p] = 0 /\ \A n \in Names : lines[n] = {}
    BY DEF Alone, Init
  <2>3. SizesTyped
    BY <2>1, SizeFacts
  <2>4. \A n \in Names : Cardinality(lines[n]) = 0
    BY <2>2, <2>3 DEF SizesTyped
  <2>5. Room /\ Counted(p) /\ Small
    BY <2>2, <2>3, <2>4 DEF SizesTyped, Room, Counted, Small, Limit
  <2> QED BY <2>1, <2>5 DEF Sizes
<1>2. Single(p) /\ [Next]_vars => Single(p)'
  BY SingleStep
<1>3. Single(p) /\ Sizes(p) /\ [Next]_vars => Sizes(p)'
  BY SizesStep
<1>4. Sizes(p) => Bounded
  BY DEF Sizes, Small, Limit, Bounded
<1> QED BY <1>1, <1>2, <1>3, <1>4, PTL DEF Spec
=============================================================================
