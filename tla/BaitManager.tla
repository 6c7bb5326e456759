----------------------------- MODULE BaitManager -----------------------------
(***************************************************************************)
(* decept-bait: one goroutine takes bait policies and carries them out.  A *)
(* history policy (handleHistBaitAndCallBack, honeybit_creator,            *)
(* insertBaits) puts bait commands into a shell history file, which it     *)
(* reads, truncates and writes while the user's shell appends to it; a     *)
(* file policy (handleBaitAndCallback) downloads, checks, unpacks and runs *)
(* a package.                                                              *)
(*                                                                         *)
(* A text is the sequence of the pieces between its newlines, a piece the  *)
(* sequence of the commands it is made of: <<>> is an empty piece, and the *)
(* last piece of a text has no newline after it.                           *)
(***************************************************************************)
EXTENDS Integers, Sequences, FiniteSets, SequencesExt

CONSTANTS
    Baits,      \* the bait commands a policy may ask for
    Parts,      \* the further lines of a bait of several lines
    TextOf,     \* the text of each; the "alibaba" bait has several lines
    Cmds,       \* the commands the user types, each once
    MaxJobs,    \* bound: how many policies arrive
    MaxFaults   \* bound: how often decept-bait is killed or a write of it fails

ASSUME BaitAssumption ==
    /\ \A b \in Baits : /\ TextOf[b] \in Seq(Seq(Baits \cup Parts))
                         /\ Len(TextOf[b]) > 0 /\ TextOf[b][1] = <<b>>
                         /\ \A i \in 2..Len(TextOf[b]) : TextOf[b][i] \in Seq(Parts)
    /\ Baits \cap (Cmds \cup Parts \cup {"rest"}) = {}
ASSUME BoundAssumption == MaxJobs \in Nat /\ MaxFaults \in Nat

\* A history policy: whether it is enabled, the commands of its enabled
\* items, and RandomLine.
HisPolicies ==
    [enabled : BOOLEAN, baits : SeqOf(Baits, 2), rnd : {"yes", "no", "other"}]

NoFile == <<>>
Steps == <<"download", "md5", "unzip", "exec">>

VARIABLES
    hist,       \* the history file; NoFile when it does not exist
    typed,      \* the commands the shell has written
    pc,         \* where decept-bait is
    todo,       \* the baits its loop has still to insert
    rnd,        \* the policy's RandomLine
    out,        \* what it is about to write
    status,     \* the status of the policy it works on
    raced,      \* history: commands written while a rewrite was under way, or
                \* in the file when the writing was cut short
    glued,      \* history: baits whose line something else continued
    torn,       \* history: whether the writing was ever cut short
    jobs, faults

history == <<raced, glued, torn>>
vars == <<hist, typed, pc, todo, rnd, out, status, history, jobs, faults>>

Init ==
    /\ hist = NoFile
    /\ typed = {}
    /\ pc = "idle"
    /\ todo = <<>> /\ rnd = "no" /\ out = <<>>
    /\ status = 0
    /\ raced = {} /\ glued = {} /\ torn = FALSE
    /\ jobs = 0 /\ faults = 0

-----------------------------------------------------------------------------
\* The last line of a text is continued with x and ended.
Continued(text, x) == Front(text) \o << Append(Last(text), x), <<>> >>
BaitsOf(line) == {b \in Baits : Contains(line, b)}

\* The user's shell appends a command and a newline, creating the file when
\* there is none; an unfinished last line is continued.
Type(c) ==
    /\ c \in Cmds \ typed
    /\ typed' = typed \cup {c}
    /\ IF hist = NoFile
       THEN hist' = << <<c>>, <<>> >> /\ UNCHANGED glued
       ELSE hist' = Continued(hist, c) /\ glued' = glued \cup BaitsOf(Last(hist))
    /\ raced' = IF pc \in {"trunc", "write"} THEN raced \cup {c} ELSE raced
    /\ UNCHANGED <<pc, todo, rnd, out, status, torn, jobs, faults>>

\* A history policy.  One that is not enabled is dropped without an answer.
TakeHistory(policy) ==
    /\ pc = "idle" /\ jobs < MaxJobs
    /\ jobs' = jobs + 1
    /\ IF policy.enabled
       THEN pc' = "loop" /\ todo' = policy.baits /\ rnd' = policy.rnd /\ status' = 1
       ELSE UNCHANGED <<pc, todo, rnd, status>>
    /\ UNCHANGED <<hist, typed, out, history, faults>>

\* Mutant of Inserted: the line at rl is replaced.
InsertedOver(text, hb, rl) ==
    CASE rnd = "yes" -> SubSeq(text, 1, rl) \o hb \o SubSeq(text, rl + 2, Len(text))
      [] rnd = "no" -> text \o hb
      [] OTHER -> text

\* The text after insertBaits of bait hb at random line rl.
Inserted(text, hb, rl) ==
    CASE rnd = "yes" -> SubSeq(text, 1, rl) \o hb \o SubSeq(text, rl + 1, Len(text))
      [] rnd = "no" -> text \o hb
      [] OTHER -> text

\* Mutant of InsertRead: the whole bait is looked for among the lines.
InsertReadWhole ==
    /\ pc = "loop" /\ todo # <<>>
    /\ LET hb == TextOf[Head(todo)] IN
       IF hist # NoFile /\ ~(Len(hb) = 1 /\ Contains(hist, hb[1]))
       THEN /\ \E rl \in 0..(Len(hist) - 1) : out' = Inserted(hist, hb, rl)
            /\ pc' = "trunc"
            /\ UNCHANGED todo
       ELSE todo' = Tail(todo) /\ UNCHANGED <<out, pc>>
    /\ UNCHANGED <<hist, typed, rnd, status, history, jobs, faults>>

\* insertBaits: read the file, and look for the first line of the bait.
InsertRead ==
    /\ pc = "loop" /\ todo # <<>>
    /\ LET hb == TextOf[Head(todo)] IN
       IF hist # NoFile /\ ~Contains(hist, hb[1])
       THEN /\ \E rl \in 0..(Len(hist) - 1) : out' = Inserted(hist, hb, rl)
            /\ pc' = "trunc"
            /\ UNCHANGED todo
       ELSE todo' = Tail(todo) /\ UNCHANGED <<out, pc>>
    /\ UNCHANGED <<hist, typed, rnd, status, history, jobs, faults>>

\* ioutil.WriteFile: open with O_TRUNC ...
InsertTrunc ==
    /\ pc = "trunc"
    /\ hist' = << <<>> >>
    /\ pc' = "write"
    /\ UNCHANGED <<typed, todo, rnd, out, status, history, jobs, faults>>

\* ... and write a text from the start of the file, over what came in between;
\* the end of a longer command shows after it.
Overwrite(text) ==
    \/ hist' = text /\ UNCHANGED glued
    \/ /\ hist # << <<>> >>
       /\ hist' = Continued(text, "rest")
       /\ glued' = glued \cup BaitsOf(Last(text))

InsertWrite ==
    /\ pc = "write"
    /\ Overwrite(out)
    /\ pc' = "loop"
    /\ todo' = Tail(todo)
    /\ out' = <<>>
    /\ UNCHANGED <<typed, rnd, status, raced, torn, jobs, faults>>

\* What a write that ends early has written of a text: some lines and the
\* beginning of the next one, in the middle of a command perhaps.
CutLine(line) ==
    {SubSeq(line, 1, j) : j \in 0..Len(line)}
      \cup {Append(SubSeq(line, 1, j), "rest") : j \in 0..(Len(line) - 1)}
Cuts(text) ==
    UNION {{Append(SubSeq(text, 1, k), line) : line \in CutLine(text[k + 1])} :
             k \in 0..(Len(text) - 1)}

CutShort ==
    /\ \/ UNCHANGED <<hist, glued>>
       \/ \E text \in Cuts(out) : Overwrite(text)
    /\ raced' = raced \cup typed
    /\ torn' = TRUE

\* The write fails after the truncation: the error is only logged.
InsertWriteFail ==
    /\ pc = "write" /\ faults < MaxFaults
    /\ faults' = faults + 1
    /\ CutShort
    /\ pc' = "loop"
    /\ todo' = Tail(todo)
    /\ out' = <<>>
    /\ UNCHANGED <<typed, rnd, status, jobs>>

\* The file cannot be read, or not be opened for writing: the error is logged
\* and the file stays as it is.
InsertFail ==
    /\ pc \in {"loop", "trunc"} /\ todo # <<>>
    /\ pc' = "loop"
    /\ todo' = Tail(todo)
    /\ out' = <<>>
    /\ UNCHANGED <<hist, typed, rnd, status, history, jobs, faults>>

HistoryDone ==
    /\ pc = "loop" /\ todo = <<>>
    /\ pc' = "answer"
    /\ UNCHANGED <<hist, typed, todo, rnd, out, status, history, jobs, faults>>

\* A file policy: Bait_FILE, Bait_UN_FILE, Bait_UN_HIS, Sign_FILE, Sign_UN_FILE.
TakeFile ==
    /\ pc = "idle" /\ jobs < MaxJobs
    /\ jobs' = jobs + 1
    /\ pc' = Steps[1]
    /\ UNCHANGED <<hist, typed, todo, rnd, out, status, history, faults>>

\* One of its steps fails, which ends it, or succeeds; install.sh must also
\* print "1".
FileStep(i, ok) ==
    /\ pc = Steps[i]
    /\ IF ok /\ i < Len(Steps)
       THEN pc' = Steps[i + 1] /\ UNCHANGED status
       ELSE pc' = "answer" /\ status' = IF ok THEN 1 ELSE -1
    /\ UNCHANGED <<hist, typed, todo, rnd, out, history, jobs, faults>>

\* The status is published.
Answer ==
    /\ pc = "answer"
    /\ pc' = "idle"
    /\ status' = 0
    /\ rnd' = "no"
    /\ UNCHANGED <<hist, typed, todo, out, history, jobs, faults>>

\* decept-bait is killed, or ends itself, and is started again.
Crash ==
    /\ faults < MaxFaults
    /\ faults' = faults + 1
    /\ pc' = "idle"
    /\ todo' = <<>> /\ rnd' = "no" /\ out' = <<>> /\ status' = 0
    /\ IF pc = "write" THEN CutShort ELSE UNCHANGED <<hist, history>>
    /\ UNCHANGED <<typed, jobs>>

Next ==
    \/ \E c \in Cmds : Type(c)
    \/ \E policy \in HisPolicies : TakeHistory(policy)
    \/ InsertRead \/ InsertTrunc \/ InsertWrite \/ HistoryDone
    \/ InsertWriteFail \/ InsertFail
    \/ TakeFile \/ \E i \in DOMAIN Steps, ok \in BOOLEAN : FileStep(i, ok)
    \/ Answer \/ Crash

Spec == Init /\ [][Next]_vars

-----------------------------------------------------------------------------
(***************************************************************************)
(* Properties.                                                             *)
(***************************************************************************)
Texts == Seq(Seq(Cmds \cup Baits \cup Parts \cup {"rest"}))

\* Every variable stays in its type; nothing is left of an answered policy.
TypeOK ==
    /\ typed \subseteq Cmds /\ raced \subseteq typed
    /\ glued \subseteq Baits /\ torn \in BOOLEAN
    /\ pc \in {"idle", "loop", "trunc", "write", "answer"} \cup Range(Steps)
    /\ todo \in Seq(Baits)
    /\ hist \in Texts /\ out \in Texts
    /\ status \in -1..1 /\ (pc = "idle" => status = 0 /\ todo = <<>>)
    /\ jobs \in 0..MaxJobs /\ faults \in 0..MaxFaults

\* However often policies that ask for a bait are sent again, it is in the
\* history file at most once as a line of its own unless the writing of the
\* file was ever cut short (contains in insertBaits), and at most once at all
\* until something else continues its line.  After that, the rule with
\* RandomLine "no" since insertBaits ends the file without a newline,
\* insertBaits no longer knows the bait and inserts it again.
BaitOnce ==
    \A b \in Baits :
      /\ torn \/ Cardinality({i \in DOMAIN hist : hist[i] = <<b>>}) <= 1
      /\ b \in glued \/ Cardinality({i \in DOMAIN hist : Contains(hist[i], b)}) <= 1

Holds(text, c) == \E i \in DOMAIN text : Contains(text[i], c)

\* A command of the user is only lost when it was written between the read and
\* the write of a rewrite, or when the write failed or decept-bait died after
\* the file was truncated: what insertBaits read it writes back in full.
CommandsKept ==
    \A c \in typed \ raced : Holds(hist, c) \/ (pc = "write" /\ Holds(out, c))
=============================================================================
