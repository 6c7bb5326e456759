-------------------------- MODULE BaitManagerProofs --------------------------
(***************************************************************************)
(* Proofs of the types of BaitManager, of CommandsKept and of BaitOnce,    *)
(* for any baits, commands, policies and faults.                          *)
(***************************************************************************)
EXTENDS BaitManager, FiniteSetTheorems, TLAPS

Atoms == Cmds \cup Baits \cup Parts \cup {"rest"}

-----------------------------------------------------------------------------
(***************************************************************************)
(* The two ways a text changes.                                            *)
(***************************************************************************)
JoinedOK(f, t, S) ==
    /\ f \o t \in Seq(S) /\ Len(f \o t) = Len(f) + Len(t)
    /\ \A i \in 1..Len(f) : (f \o t)[i] = f[i]
    /\ \A i \in 1..Len(t) : (f \o t)[Len(f) + i] = t[i]

LEMMA Joined ==
    ASSUME NEW S, NEW f \in Seq(S), NEW t \in Seq(S)
    PROVE  JoinedOK(f, t, S)
<1>1. f \o t \in Seq(S) /\ Len(f \o t) = Len(f) + Len(t) /\ Len(f) \in Nat /\ Len(t) \in Nat
  OBVIOUS
<1>2. \A i \in 1..Len(f) : (f \o t)[i] = f[i]
  OBVIOUS
<1>3. ASSUME NEW i \in 1..Len(t) PROVE (f \o t)[Len(f) + i] = t[i]
  <2>1. Len(f) + i > Len(f) /\ Len(f) + i <= Len(f) + Len(t) /\ (Len(f) + i) - Len(f) = i
    BY <1>1
  <2> QED BY <1>1, <2>1
<1> QED BY <1>1, <1>2, <1>3 DEF JoinedOK

LEMMA Cut ==
    ASSUME NEW S, NEW s \in Seq(S), NEW k \in 0..Len(s)
    PROVE  /\ SubSeq(s, 1, k) \in Seq(S) /\ Len(SubSeq(s, 1, k)) = k
           /\ \A i \in 1..k : SubSeq(s, 1, k)[i] = s[i]
OBVIOUS

\* The shell, or the end of a longer text, continues the last line.
LEMMA ContinuedFacts ==
    ASSUME NEW s \in Texts, s # <<>>, NEW x \in Atoms
    PROVE  /\ Continued(s, x) \in Texts
           /\ Len(s) \in Nat \ {0} /\ Len(Continued(s, x)) = Len(s) + 1
           /\ \A i \in 1..(Len(s) - 1) : Continued(s, x)[i] = s[i]
           /\ Continued(s, x)[Len(s)] = Append(s[Len(s)], x)
           /\ Continued(s, x)[Len(s) + 1] = <<>>
<1>1. Len(s) \in Nat \ {0} /\ s[Len(s)] \in Seq(Atoms) /\ s \in Seq(Seq(Atoms))
  BY DEF Texts, Atoms
<1> DEFINE f == SubSeq(s, 1, Len(s) - 1)
           t == << Append(s[Len(s)], x), <<>> >>
<1>2. /\ f \in Seq(Seq(Atoms)) /\ Len(f) = Len(s) - 1
      /\ \A i \in 1..(Len(s) - 1) : f[i] = s[i]
  <2>1. Len(s) - 1 \in 0..Len(s)
    BY <1>1
  <2> QED BY <1>1, <2>1, Cut
<1>3. Append(s[Len(s)], x) \in Seq(Atoms) /\ <<>> \in Seq(Atoms)
  BY <1>1
<1>4. t \in Seq(Seq(Atoms)) /\ Len(t) = 2 /\ t[1] = Append(s[Len(s)], x) /\ t[2] = <<>>
  BY <1>3
<1>5. Continued(s, x) = f \o t
  BY DEF Continued, Front, Last
<1> HIDE DEF f, t
<1>6. /\ f \o t \in Seq(Seq(Atoms)) /\ Len(f \o t) = Len(s) + 1
      /\ \A i \in 1..(Len(s) - 1) : (f \o t)[i] = s[i]
      /\ (f \o t)[Len(s)] = t[1] /\ (f \o t)[Len(s) + 1] = t[2]
  <2>0. JoinedOK(f, t, Seq(Atoms))
    BY <1>2, <1>4, Joined
  <2>1. /\ f \o t \in Seq(Seq(Atoms)) /\ Len(f \o t) = Len(f) + Len(t)
        /\ \A i \in 1..Len(f) : (f \o t)[i] = f[i]
        /\ \A i \in 1..Len(t) : (f \o t)[Len(f) + i] = t[i]
    BY <2>0 DEF JoinedOK
  <2>2. Len(f) + 1 = Len(s) /\ Len(f) + 2 = Len(s) + 1 /\ 1 \in 1..2 /\ 2 \in 1..2
    BY <1>1, <1>2
  <2> QED BY <1>1, <1>2, <1>4, <2>1, <2>2
<1> QED BY <1>1, <1>4, <1>5, <1>6 DEF Texts, Atoms

\* What is left of a text whose writing was cut short.
LEMMA CutsFacts ==
    ASSUME NEW s \in Texts, NEW t \in Cuts(s)
    PROVE  /\ t \in Texts /\ t # <<>> /\ Len(t) \in 1..Len(s)
           /\ \A i \in 1..(Len(t) - 1) : t[i] = s[i]
           /\ t[Len(t)] \in CutLine(s[Len(t)])
<1>1. s \in Seq(Seq(Atoms)) /\ Len(s) \in Nat /\ "rest" \in Atoms
  BY DEF Texts, Atoms
<1>2. PICK k \in 0..(Len(s) - 1) :
        t \in {Append(SubSeq(s, 1, k), line) : line \in CutLine(s[k + 1])}
  BY DEF Cuts
<1>3. PICK line \in CutLine(s[k + 1]) : t = Append(SubSeq(s, 1, k), line)
  BY <1>2
<1>4. k \in 0..Len(s) /\ k + 1 \in 1..Len(s) /\ s[k + 1] \in Seq(Atoms)
  BY <1>1
<1>5. line \in Seq(Atoms)
  <2>1. PICK p : p = s[k + 1]
    OBVIOUS
  <2>2. CASE line \in {SubSeq(p, 1, j) : j \in 0..Len(p)}
    BY <1>4, <2>1, <2>2
  <2>3. CASE line \in {Append(SubSeq(p, 1, j), "rest") : j \in 0..(Len(p) - 1)}
    <3>1. PICK j \in 0..(Len(p) - 1) : line = Append(SubSeq(p, 1, j), "rest")
      BY <2>3
    <3>2. SubSeq(p, 1, j) \in Seq(Atoms)
      BY <1>4, <2>1, Cut
    <3> QED BY <1>1, <3>1, <3>2
  <2> QED BY <2>1, <2>2, <2>3 DEF CutLine
<1>6. PICK f : f = SubSeq(s, 1, k)
  OBVIOUS
<1>7. f \in Seq(Seq(Atoms)) /\ Len(f) = k /\ \A i \in 1..k : f[i] = s[i]
  BY <1>1, <1>4, <1>6, Cut
<1>8. /\ t \in Seq(Seq(Atoms)) /\ Len(t) = k + 1 /\ t[k + 1] = line
      /\ \A i \in 1..k : t[i] = s[i]
  BY <1>3, <1>5, <1>6, <1>7
<1>9. Len(t) \in 1..Len(s) /\ Len(t) - 1 = k /\ t # <<>>
  BY <1>1, <1>4, <1>8
<1>10. t[Len(t)] \in CutLine(s[Len(t)])
  BY <1>3, <1>8
<1>11. t \in Texts
  BY <1>8 DEF Texts, Atoms
<1> QED BY <1>8, <1>9, <1>10, <1>11

\* insertBaits puts the lines of a bait into the text behind its first k.
Mid(s, hb, k) == SubSeq(s, 1, k) \o hb \o SubSeq(s, k + 1, Len(s))

Spliced(t, s, hb, k) ==
    /\ Len(t) = Len(s) + Len(hb)
    /\ \A i \in 1..k : t[i] = s[i]
    /\ \A i \in 1..Len(hb) : t[k + i] = hb[i]
    /\ \A i \in (k + 1)..Len(s) : t[Len(hb) + i] = s[i]

LEMMA MidFacts ==
    ASSUME NEW s \in Texts, NEW hb \in Texts, NEW k \in 0..Len(s)
    PROVE  Mid(s, hb, k) \in Texts /\ Spliced(Mid(s, hb, k), s, hb, k)
<1>1. s \in Seq(Seq(Atoms)) /\ hb \in Seq(Seq(Atoms)) /\ Len(s) \in Nat /\ Len(hb) \in Nat
  BY DEF Texts, Atoms
<1> DEFINE f == SubSeq(s, 1, k)
           g == SubSeq(s, k + 1, Len(s))
<1>2. f \in Seq(Seq(Atoms)) /\ Len(f) = k /\ \A i \in 1..k : f[i] = s[i]
  BY <1>1
<1>3. /\ g \in Seq(Seq(Atoms)) /\ Len(g) = Len(s) - k
      /\ \A i \in (k + 1)..Len(s) : g[i - k] = s[i]
  BY <1>1
<1>4. Mid(s, hb, k) = (f \o hb) \o g
  BY DEF Mid
<1> HIDE DEF f, g
<1>5. /\ f \o hb \in Seq(Seq(Atoms)) /\ Len(f \o hb) = k + Len(hb)
      /\ \A i \in 1..k : (f \o hb)[i] = s[i]
      /\ \A i \in 1..Len(hb) : (f \o hb)[k + i] = hb[i]
  <2>0. JoinedOK(f, hb, Seq(Atoms))
    BY <1>1, <1>2, Joined
  <2>1. /\ f \o hb \in Seq(Seq(Atoms)) /\ Len(f \o hb) = Len(f) + Len(hb)
        /\ \A i \in 1..Len(f) : (f \o hb)[i] = f[i]
        /\ \A i \in 1..Len(hb) : (f \o hb)[Len(f) + i] = hb[i]
    BY <2>0 DEF JoinedOK
  <2> QED BY <1>2, <2>1
<1> DEFINE e == f \o hb
<1>6. /\ e \in Seq(Seq(Atoms)) /\ Len(e) = k + Len(hb)
      /\ \A i \in 1..k : e[i] = s[i]
      /\ \A i \in 1..Len(hb) : e[k + i] = hb[i]
  BY <1>5
<1> HIDE DEF e
<1>7. /\ e \o g \in Seq(Seq(Atoms)) /\ Len(e \o g) = Len(s) + Len(hb)
      /\ \A i \in 1..Len(e) : (e \o g)[i] = e[i]
      /\ \A i \in 1..Len(g) : (e \o g)[Len(e) + i] = g[i]
  <2>0. JoinedOK(e, g, Seq(Atoms))
    BY <1>3, <1>6, Joined
  <2>1. /\ e \o g \in Seq(Seq(Atoms)) /\ Len(e \o g) = Len(e) + Len(g)
        /\ \A i \in 1..Len(e) : (e \o g)[i] = e[i]
        /\ \A i \in 1..Len(g) : (e \o g)[Len(e) + i] = g[i]
    BY <2>0 DEF JoinedOK
  <2>2. Len(e) + Len(g) = Len(s) + Len(hb)
    BY <1>1, <1>3, <1>6
  <2> QED BY <2>1, <2>2
<1>8. \A i \in 1..k : (e \o g)[i] = s[i]
  <2>1. \A i \in 1..k : i \in 1..Len(e)
    BY <1>1, <1>6
  <2> QED BY <1>6, <1>7, <2>1
<1>9. \A i \in 1..Len(hb) : (e \o g)[k + i] = hb[i]
  BY <1>1, <1>6, <1>7
<1>10. ASSUME NEW i \in (k + 1)..Len(s) PROVE (e \o g)[Len(hb) + i] = s[i]
  <2>1. i - k \in 1..Len(g) /\ Len(e) + (i - k) = Len(hb) + i
    BY <1>1, <1>3, <1>6
  <2> QED BY <1>3, <1>7, <2>1
<1>11. Mid(s, hb, k) = e \o g
  BY <1>4 DEF e
<1> QED BY <1>7, <1>8, <1>9, <1>10, <1>11 DEF Texts, Atoms, Spliced

\* What insertBaits writes: the text it read, or that text with the bait.
LEMMA InsertedFacts ==
    ASSUME NEW s \in Texts, NEW hb \in Texts, NEW rl \in 0..(Len(s) - 1)
    PROVE  \/ Inserted(s, hb, rl) = s
           \/ \E k \in 0..Len(s) : /\ Inserted(s, hb, rl) \in Texts
                                   /\ Spliced(Inserted(s, hb, rl), s, hb, k)
<1>1. Len(s) \in Nat /\ rl \in 0..Len(s) /\ s \in Seq(Seq(Atoms)) /\ hb \in Seq(Seq(Atoms))
  BY DEF Texts, Atoms
<1>2. CASE rnd = "yes"
  <2>1. Inserted(s, hb, rl) = Mid(s, hb, rl)
    BY <1>2 DEF Inserted, Mid
  <2> QED BY <1>1, <2>1, MidFacts
<1>3. CASE rnd = "no"
  <2>1. Inserted(s, hb, rl) = s \o hb
    BY <1>3 DEF Inserted
  <2>2. s \o hb \in Texts /\ Spliced(s \o hb, s, hb, Len(s))
    BY <1>1 DEF Spliced, Texts, Atoms
  <2> QED BY <1>1, <2>1, <2>2
<1>4. CASE rnd \notin {"yes", "no"}
  BY <1>4 DEF Inserted
<1> QED BY <1>2, <1>3, <1>4
-----------------------------------------------------------------------------
(***************************************************************************)
(* Types.                                                                  *)
(***************************************************************************)
FileLabels == {"download", "md5", "unzip", "exec"}
Labels == {"idle", "loop", "trunc", "write", "answer"} \cup FileLabels

\* Baits are left to insert only in a history policy; while a file is being
\* rewritten there is a bait at work and a text to write.
Working ==
    /\ pc \in {"trunc", "write"} => todo # <<>> /\ out # <<>>
    /\ pc \notin {"loop", "trunc", "write"} => todo = <<>>

Typed == TypeOK /\ Working

LEMMA StepFacts ==
    /\ DOMAIN Steps = 1..4 /\ Len(Steps) = 4
    /\ Steps[1] = "download" /\ Steps[2] = "md5" /\ Steps[3] = "unzip" /\ Steps[4] = "exec"
    /\ Range(Steps) = FileLabels
<1>1. /\ DOMAIN Steps = 1..4 /\ Len(Steps) = 4
      /\ Steps[1] = "download" /\ Steps[2] = "md5" /\ Steps[3] = "unzip" /\ Steps[4] = "exec"
  BY DEF Steps
<1>2. Range(Steps) = {Steps[i] : i \in 1..4}
  BY <1>1 DEF Range
<1>3. \A i \in 1..4 : i = 1 \/ i = 2 \/ i = 3 \/ i = 4
  OBVIOUS
<1>4. {Steps[i] : i \in 1..4} = {Steps[1], Steps[2], Steps[3], Steps[4]}
  BY <1>3
<1> QED BY <1>1, <1>2, <1>4 DEF FileLabels

LEMMA TypedIs ==
    TypeOK <=> /\ typed \subseteq Cmds /\ raced \subseteq typed
               /\ glued \subseteq Baits /\ torn \in BOOLEAN
               /\ pc \in Labels /\ todo \in Seq(Baits) /\ hist \in Texts /\ out \in Texts
               /\ status \in -1..1 /\ (pc = "idle" => status = 0 /\ todo = <<>>)
               /\ jobs \in 0..MaxJobs /\ faults \in 0..MaxFaults
BY StepFacts DEF TypeOK, Labels

LEMMA TextFacts ==
    /\ <<>> \in Texts /\ << <<>> >> \in Texts /\ << <<>> >> # <<>>
    /\ \A c \in Cmds : << <<c>>, <<>> >> \in Texts
    /\ \A b \in Baits : /\ TextOf[b] \in Texts /\ Len(TextOf[b]) \in Nat \ {0}
                        /\ TextOf[b][1] = <<b>>
                        /\ \A i \in 2..Len(TextOf[b]) : TextOf[b][i] \in Seq(Parts)
<1>1. /\ <<>> \in Texts /\ << <<>> >> \in Texts /\ << <<>> >> # <<>>
  BY DEF Texts
<1>2. \A c \in Cmds : << <<c>>, <<>> >> \in Texts
  BY DEF Texts
<1>3. ASSUME NEW b \in Baits
      PROVE  /\ TextOf[b] \in Texts /\ Len(TextOf[b]) \in Nat \ {0}
             /\ TextOf[b][1] = <<b>>
             /\ \A i \in 2..Len(TextOf[b]) : TextOf[b][i] \in Seq(Parts)
  <2>1. /\ TextOf[b] \in Seq(Seq(Baits \cup Parts)) /\ Len(TextOf[b]) > 0
        /\ TextOf[b][1] = <<b>>
        /\ \A i \in 2..Len(TextOf[b]) : TextOf[b][i] \in Seq(Parts)
    BY BaitAssumption DEF BaitAssumption
  <2>2. \A p \in Seq(Baits \cup Parts) : p \in Seq(Cmds \cup Baits \cup Parts \cup {"rest"})
    OBVIOUS
  <2>3. TextOf[b] \in Texts
    BY <2>1, <2>2 DEF Texts
  <2> QED BY <2>1, <2>3
<1> QED BY <1>1, <1>2, <1>3

LEMMA TypedInit == ASSUME Init PROVE Typed
<1>0. torn \in BOOLEAN
  BY DEF Init
<1>1. TypeOK
  BY <1>0, TypedIs, TextFacts, BoundAssumption DEF Init, BoundAssumption, Labels, NoFile
<1> QED BY <1>1 DEF Init, Working, Typed

LEMMA TypedType == ASSUME Typed, NEW c \in Cmds, Type(c) PROVE Typed'
<1>1. /\ typed' = typed \cup {c} /\ raced' \in {raced, raced \cup {c}}
      /\ hist' = (IF hist = NoFile THEN << <<c>>, <<>> >> ELSE Continued(hist, c))
      /\ glued' = glued \/ glued' = glued \cup BaitsOf(Last(hist))
      /\ UNCHANGED <<pc, todo, rnd, out, status, torn, jobs, faults>>
  BY DEF Type
<1>2. hist' \in Texts
  BY <1>1, TextFacts, ContinuedFacts, TypedIs DEF Typed, NoFile, Atoms
<1>3. glued' \subseteq Baits
  BY <1>1 DEF Typed, TypeOK, BaitsOf
<1>4. TypeOK'
  <2>1. typed' \subseteq Cmds /\ raced' \subseteq typed'
    BY <1>1 DEF Typed, TypeOK
  <2> QED BY <1>1, <1>2, <1>3, <2>1 DEF Typed, TypeOK
<1> QED BY <1>1, <1>4 DEF Typed, Working

LEMMA TypedTake ==
    ASSUME Typed, NEW policy \in HisPolicies, TakeHistory(policy)
    PROVE  Typed'
<1>1. policy.baits \in Seq(Baits)
  <2>1. policy.baits \in SeqOf(Baits, 2)
    BY DEF HisPolicies
  <2>2. PICK m \in 0..2 : policy.baits \in [1..m -> Baits]
    BY <2>1 DEF SeqOf
  <2> QED BY <2>2
<1>2. /\ pc = "idle" /\ jobs < MaxJobs /\ jobs' = jobs + 1
      /\ UNCHANGED <<hist, typed, out, raced, glued, torn, faults>>
      /\ \/ pc' = "loop" /\ todo' = policy.baits /\ status' = 1
         \/ UNCHANGED <<pc, todo, status>>
  BY DEF TakeHistory, history
<1>3. jobs' \in 0..MaxJobs
  BY <1>2, BoundAssumption DEF Typed, TypeOK, BoundAssumption
<1>4. TypeOK'
  <2>1. CASE UNCHANGED <<pc, todo, status>>
    BY <1>2, <1>3, <2>1 DEF Typed, TypeOK
  <2>2. CASE pc' = "loop" /\ todo' = policy.baits /\ status' = 1
    <3>1. todo' \in Seq(Baits) /\ status' \in -1..1
      BY <1>1, <2>2
    <3> QED BY <1>2, <1>3, <2>2, <3>1 DEF Typed, TypeOK
  <2> QED BY <1>2, <2>1, <2>2
<1> QED BY <1>2, <1>4 DEF Typed, Working

LEMMA TypedRead == ASSUME Typed, InsertRead PROVE Typed'
<1>1. /\ pc = "loop" /\ todo # <<>>
      /\ UNCHANGED <<hist, typed, rnd, status, raced, glued, torn, jobs, faults>>
  BY DEF InsertRead, history
<1>2. CASE todo' = Tail(todo) /\ UNCHANGED <<out, pc>>
  <2>1. todo' \in Seq(Baits)
    BY <1>1, <1>2 DEF Typed, TypeOK
  <2>2. TypeOK'
    BY <1>1, <1>2, <2>1 DEF Typed, TypeOK
  <2> QED BY <1>1, <1>2, <2>2 DEF Typed, Working
<1>3. ASSUME hist # NoFile, NEW rl \in 0..(Len(hist) - 1),
             out' = Inserted(hist, TextOf[Head(todo)], rl), pc' = "trunc", UNCHANGED todo
      PROVE  Typed'
  <2>1. Head(todo) \in Baits /\ hist \in Texts
    BY <1>1 DEF Typed, TypeOK
  <2>2. TextOf[Head(todo)] \in Texts /\ Len(TextOf[Head(todo)]) \in Nat
    BY <2>1, TextFacts
  <2>3. hist # <<>> /\ Len(hist) \in Nat \ {0}
    BY <1>3, <2>1 DEF NoFile, Texts
  <2>4. out' \in Texts /\ out' # <<>>
    <3>1. CASE out' = hist
      BY <2>1, <2>3, <3>1
    <3>2. ASSUME out' \in Texts, NEW k \in 0..Len(hist),
                 Spliced(out', hist, TextOf[Head(todo)], k)
          PROVE  out' \in Texts /\ out' # <<>>
      <4>1. Len(out') = Len(hist) + Len(TextOf[Head(todo)])
        BY <3>2 DEF Spliced
      <4>2. Len(out') # 0
        BY <2>2, <2>3, <4>1
      <4> QED BY <3>2, <4>2
    <3> QED BY <1>3, <2>1, <2>2, <3>1, <3>2, InsertedFacts
  <2>5. TypeOK'
    BY <1>1, <1>3, <2>4 DEF Typed, TypeOK
  <2> QED BY <1>1, <1>3, <2>4, <2>5 DEF Typed, Working
<1> QED BY <1>2, <1>3 DEF InsertRead

\* Whatever is written, the text in the file afterwards is it or begins with
\* it; only its last line may be continued.
LEMMA OverwriteFacts ==
    ASSUME Typed, NEW text \in Texts, text # <<>>, Overwrite(text)
    PROVE  /\ hist' \in Texts /\ glued' \subseteq Baits /\ glued \subseteq glued'
           /\ \/ hist' = text
              \/ /\ hist' = Continued(text, "rest")
                 /\ glued' = glued \cup BaitsOf(text[Len(text)])
<1>1. \/ hist' = text /\ glued' = glued
      \/ hist' = Continued(text, "rest") /\ glued' = glued \cup BaitsOf(text[Len(text)])
  BY DEF Overwrite, Last
<1>2. "rest" \in Atoms
  BY DEF Atoms
<1>3. Continued(text, "rest") \in Texts
  BY <1>2, ContinuedFacts
<1>4. glued \subseteq Baits /\ BaitsOf(text[Len(text)]) \subseteq Baits
  BY DEF Typed, TypeOK, BaitsOf
<1> QED BY <1>1, <1>3, <1>4

LEMMA CutShortTypes ==
    ASSUME Typed, pc = "write", CutShort
    PROVE  hist' \in Texts /\ glued' \subseteq Baits /\ torn' = TRUE /\ raced' = raced \cup typed
<1>1. hist \in Texts /\ out \in Texts /\ glued \subseteq Baits
  BY DEF Typed, TypeOK
<1>2. ASSUME NEW text \in Cuts(out), Overwrite(text)
      PROVE  hist' \in Texts /\ glued' \subseteq Baits
  BY <1>1, <1>2, CutsFacts, OverwriteFacts
<1> QED BY <1>1, <1>2 DEF CutShort

LEMMA TypedRewrite ==
    ASSUME Typed, InsertTrunc \/ InsertWrite \/ InsertWriteFail \/ InsertFail
    PROVE  Typed'
<1>1. CASE InsertTrunc
  <2>1. TypeOK'
    BY <1>1, TextFacts DEF InsertTrunc, history, Typed, TypeOK
  <2> QED BY <1>1, <2>1 DEF InsertTrunc, Typed, Working
<1>2. CASE InsertWrite \/ InsertWriteFail \/ InsertFail
  <2>1. /\ pc \in {"write", "loop", "trunc"} /\ todo # <<>>
        /\ pc' = "loop" /\ todo' = Tail(todo) /\ out' = <<>>
        /\ UNCHANGED <<typed, status, jobs>>
    BY <1>2 DEF InsertWrite, InsertWriteFail, InsertFail, Typed, Working
  <2>2. hist' \in Texts /\ glued' \subseteq Baits /\ torn' \in BOOLEAN /\ raced' \subseteq typed
    <3>1. CASE InsertWrite
      <4>1. out \in Texts /\ out # <<>>
        BY <3>1 DEF InsertWrite, Typed, TypeOK, Working
      <4> QED BY <3>1, <4>1, OverwriteFacts DEF InsertWrite, Typed, TypeOK
    <3>2. CASE InsertWriteFail
      BY <3>2, CutShortTypes DEF InsertWriteFail, Typed, TypeOK
    <3>3. CASE InsertFail
      BY <3>3 DEF InsertFail, history, Typed, TypeOK
    <3> QED BY <1>2, <3>1, <3>2, <3>3
  <2>3. faults' \in 0..MaxFaults
    BY <1>2, BoundAssumption
    DEF BoundAssumption, InsertWrite, InsertWriteFail, InsertFail, Typed, TypeOK
  <2>4. todo' \in Seq(Baits)
    BY <2>1 DEF Typed, TypeOK
  <2>5. TypeOK'
    BY <2>1, <2>2, <2>3, <2>4, TextFacts DEF Typed, TypeOK
  <2> QED BY <2>1, <2>5 DEF Typed, Working
<1> QED BY <1>1, <1>2

LEMMA TypedFile ==
    ASSUME Typed, NEW i \in DOMAIN Steps, NEW ok \in BOOLEAN, FileStep(i, ok)
    PROVE  Typed'
<1>1. i \in 1..4 /\ pc = Steps[i] /\ pc \in FileLabels
  BY StepFacts DEF FileStep, Range
<1>2. /\ UNCHANGED <<hist, typed, todo, rnd, out, raced, glued, torn, jobs, faults>>
      /\ \/ i < 4 /\ pc' = Steps[i + 1] /\ UNCHANGED status
         \/ pc' = "answer" /\ status' \in {1, -1}
  BY StepFacts DEF FileStep, history
<1>3. pc' \in FileLabels \/ pc' = "answer"
  <2>1. i < 4 => i + 1 \in DOMAIN Steps
    BY <1>1, StepFacts
  <2> QED BY <1>2, <2>1, StepFacts DEF Range
<1>4. status' \in -1..1
  BY <1>2 DEF Typed, TypeOK
<1>5. todo = <<>>
  BY <1>1 DEF Typed, Working, FileLabels
<1>6. pc' # "idle" /\ pc' \in Labels /\ pc' \notin {"trunc", "write", "loop"}
  BY <1>3 DEF FileLabels, Labels
<1>7. TypeOK'
  BY <1>2, <1>4, <1>6, StepFacts DEF Typed, TypeOK, Labels
<1> QED BY <1>2, <1>5, <1>6, <1>7 DEF Typed, Working

LEMMA TypedRest == ASSUME Typed, HistoryDone \/ TakeFile \/ Answer \/ Crash PROVE Typed'
<1> USE StepFacts, BoundAssumption, TextFacts
    DEF Typed, Working, TypeOK, FileLabels, BoundAssumption, history
<1>1. CASE HistoryDone
  BY <1>1 DEF HistoryDone
<1>2. CASE TakeFile
  BY <1>2 DEF TakeFile
<1>3. CASE Answer
  BY <1>3 DEF Answer
<1>4. CASE Crash
  <2>1. hist' \in Texts /\ glued' \subseteq Baits /\ torn' \in BOOLEAN /\ raced' \subseteq typed
    <3>1. CASE pc = "write"
      BY <1>4, <3>1, CutShortTypes DEF Crash
    <3>2. CASE pc # "write"
      BY <1>4, <3>2 DEF Crash
    <3> QED BY <3>1, <3>2
  <2> QED BY <1>4, <2>1 DEF Crash
<1> QED BY <1>1, <1>2, <1>3, <1>4

LEMMA TypedStep == ASSUME Typed, [Next]_vars PROVE Typed'
<1>1. CASE UNCHANGED vars
  BY <1>1 DEF vars, history, Typed, TypeOK, Working
<1> QED BY <1>1, TypedType, TypedTake, TypedRead, TypedRewrite, TypedFile, TypedRest DEF Next

\* Every variable keeps its type, and an answered policy leaves nothing.
THEOREM TypeCorrect == Spec => []TypeOK
<1>1. Init => Typed
  BY TypedInit
<1>2. Typed /\ [Next]_vars => Typed'
  BY TypedStep
<1>3. Typed => TypeOK
  BY DEF Typed
<1> QED BY <1>1, <1>2, <1>3, PTL DEF Spec
-----------------------------------------------------------------------------
(***************************************************************************)
(* The user's commands.                                                    *)
(***************************************************************************)
\* A command is in the file unless the file is being rewritten, and then it
\* is in what is going to be written.
Kept ==
    \A c \in typed \ raced :
      /\ pc # "write" => Holds(hist, c)
      /\ pc \in {"trunc", "write"} => Holds(out, c)

LEMMA ContinuedHolds ==
    ASSUME NEW s \in Texts, s # <<>>, NEW x \in Atoms, NEW c, Holds(s, c)
    PROVE  Holds(Continued(s, x), c)
<1>1. PICK i \in DOMAIN s : Contains(s[i], c)
  BY DEF Holds
<1>2. /\ s \in Seq(Seq(Atoms)) /\ Continued(s, x) \in Seq(Seq(Atoms)) /\ i \in 1..Len(s)
      /\ Len(s) \in Nat \ {0} /\ Len(Continued(s, x)) = Len(s) + 1
      /\ s[i] \in Seq(Atoms) /\ i \in DOMAIN Continued(s, x)
  <2>1. s \in Seq(Seq(Atoms)) /\ Len(s) \in Nat \ {0} /\ DOMAIN s = 1..Len(s)
    BY DEF Texts, Atoms
  <2>2. Continued(s, x) \in Seq(Seq(Atoms)) /\ Len(Continued(s, x)) = Len(s) + 1
    <3>1. Continued(s, x) \in Texts /\ Len(Continued(s, x)) = Len(s) + 1
      BY ContinuedFacts
    <3> QED BY <3>1 DEF Texts, Atoms
  <2>3. DOMAIN Continued(s, x) = 1..(Len(s) + 1)
    BY <2>2
  <2> QED BY <1>1, <2>1, <2>2, <2>3
<1>3. CASE i < Len(s)
  <2>1. i \in 1..(Len(s) - 1)
    BY <1>2, <1>3
  <2> QED BY <1>1, <1>2, <2>1, ContinuedFacts DEF Holds
<1>4. CASE i = Len(s)
  <2>1. Contains(Append(s[i], x), c)
    BY <1>1, <1>2 DEF Contains
  <2> QED BY <1>2, <1>4, <2>1, ContinuedFacts DEF Holds
<1> QED BY <1>2, <1>3, <1>4

\* The last line of a grown text holds what was typed.
LEMMA ContinuedNew ==
    ASSUME NEW s \in Texts, s # <<>>, NEW x \in Atoms
    PROVE  Holds(Continued(s, x), x)
<1>1. /\ Len(s) \in Nat \ {0} /\ s[Len(s)] \in Seq(Atoms) /\ Continued(s, x) \in Seq(Seq(Atoms))
      /\ Len(Continued(s, x)) = Len(s) + 1 /\ Continued(s, x)[Len(s)] = Append(s[Len(s)], x)
  <2>1. /\ Continued(s, x) \in Texts /\ Len(s) \in Nat \ {0}
        /\ Len(Continued(s, x)) = Len(s) + 1 /\ Continued(s, x)[Len(s)] = Append(s[Len(s)], x)
    BY ContinuedFacts
  <2>2. Texts = Seq(Seq(Atoms))
    BY DEF Texts, Atoms
  <2>3. s[Len(s)] \in Seq(Atoms)
    BY <2>1, <2>2
  <2> QED BY <2>1, <2>2, <2>3
<1>2. Contains(Append(s[Len(s)], x), x)
  <2>1. /\ Append(s[Len(s)], x)[Len(s[Len(s)]) + 1] = x
        /\ Len(Append(s[Len(s)], x)) = Len(s[Len(s)]) + 1 /\ Len(s[Len(s)]) \in Nat
    BY <1>1
  <2> QED BY <2>1 DEF Contains
<1>3. Len(s) \in DOMAIN Continued(s, x)
  BY <1>1
<1> QED BY <1>1, <1>2, <1>3 DEF Holds

LEMMA SplicedHolds ==
    ASSUME NEW s \in Texts, NEW hb \in Texts, NEW t \in Texts, NEW k \in 0..Len(s),
           Spliced(t, s, hb, k), NEW c, Holds(s, c)
    PROVE  Holds(t, c)
<1>1. PICK i \in DOMAIN s : Contains(s[i], c)
  BY DEF Holds
<1>2. /\ i \in 1..Len(s) /\ Len(s) \in Nat /\ Len(hb) \in Nat
      /\ DOMAIN t = 1..(Len(s) + Len(hb))
  BY DEF Texts, Spliced
<1>3. CASE i <= k
  <2>1. i \in 1..k /\ i \in DOMAIN t
    BY <1>2, <1>3
  <2> QED BY <1>1, <2>1 DEF Spliced, Holds
<1>4. CASE i > k
  <2>1. i \in (k + 1)..Len(s) /\ Len(hb) + i \in DOMAIN t
    BY <1>2, <1>4
  <2> QED BY <1>1, <2>1 DEF Spliced, Holds
<1> QED BY <1>2, <1>3, <1>4

LEMMA KeptType == ASSUME Typed, Kept, NEW c \in Cmds, Type(c) PROVE Kept'
<1>1. /\ typed' = typed \cup {c} /\ c \notin typed /\ UNCHANGED <<pc, out>>
      /\ pc \in {"trunc", "write"} => raced' = raced \cup {c}
      /\ pc \notin {"trunc", "write"} => raced' = raced
      /\ hist' = (IF hist = NoFile THEN << <<c>>, <<>> >> ELSE Continued(hist, c))
  BY DEF Type
<1>2. hist \in Texts /\ c \in Atoms
  BY DEF Typed, TypeOK, Atoms
<1>3. \A d : Holds(hist, d) => Holds(hist', d)
  <2>1. hist = NoFile => \A d : ~Holds(hist, d)
    BY DEF NoFile, Holds
  <2> QED BY <1>1, <1>2, <2>1, ContinuedHolds DEF NoFile
<1>4. Holds(hist', c)
  <2>1. CASE hist = NoFile
    <3>1. Contains(<<c>>, c)
      BY DEF Contains
    <3>2. hist'[1] = <<c>> /\ 1 \in DOMAIN hist'
      BY <1>1, <2>1
    <3> QED BY <3>1, <3>2 DEF Holds
  <2>2. CASE hist # NoFile
    BY <1>1, <1>2, <2>2, ContinuedNew DEF NoFile
  <2> QED BY <2>1, <2>2
<1> SUFFICES ASSUME NEW d \in typed' \ raced'
             PROVE  /\ pc # "write" => Holds(hist', d)
                    /\ pc \in {"trunc", "write"} => Holds(out, d)
  BY <1>1 DEF Kept, Holds
<1>5. CASE d = c
  BY <1>1, <1>4, <1>5
<1>6. CASE d # c
  BY <1>1, <1>3, <1>6 DEF Kept
<1> QED BY <1>5, <1>6

LEMMA KeptRead == ASSUME Typed, Kept, InsertRead PROVE Kept'
<1>1. /\ pc = "loop" /\ todo # <<>> /\ UNCHANGED <<hist, typed, raced>>
  BY DEF InsertRead, history
<1>2. CASE UNCHANGED <<out, pc>>
  BY <1>1, <1>2 DEF Kept, Holds
<1>3. ASSUME hist # NoFile, NEW rl \in 0..(Len(hist) - 1),
             out' = Inserted(hist, TextOf[Head(todo)], rl), pc' = "trunc"
      PROVE  Kept'
  <2>1. Head(todo) \in Baits /\ hist \in Texts
    BY <1>1 DEF Typed, TypeOK
  <2>2. TextOf[Head(todo)] \in Texts
    BY <2>1, TextFacts
  <2>3. \A c : Holds(hist, c) => Holds(out', c)
    BY <1>3, <2>1, <2>2, InsertedFacts, SplicedHolds
  <2>4. \A c \in typed \ raced : Holds(hist, c) /\ Holds(out', c)
    BY <1>1, <2>3 DEF Kept
  <2> QED BY <1>1, <1>3, <2>4 DEF Kept, Holds
<1> QED BY <1>2, <1>3 DEF InsertRead

LEMMA KeptWrite == ASSUME Typed, Kept, InsertWrite PROVE Kept'
<1>1. /\ pc = "write" /\ pc' = "loop" /\ Overwrite(out) /\ UNCHANGED <<typed, raced>>
  BY DEF InsertWrite
<1>2. out \in Texts /\ out # <<>> /\ "rest" \in Atoms
  BY <1>1 DEF Typed, TypeOK, Working, Atoms
<1>3. hist' \in {out, Continued(out, "rest")}
  BY <1>1, <1>2, OverwriteFacts
<1>4. \A c : Holds(out, c) => Holds(hist', c)
  BY <1>2, <1>3, ContinuedHolds
<1>5. \A c \in typed \ raced : Holds(hist', c)
  BY <1>1, <1>4 DEF Kept
<1> QED BY <1>1, <1>5 DEF Kept, Holds

\* A write that was cut short leaves no command to account for.
LEMMA KeptCut == ASSUME CutShort, UNCHANGED typed PROVE Kept'
BY DEF CutShort, Kept

LEMMA KeptStep == ASSUME Typed, Kept, [Next]_vars PROVE Kept'
<1>1. CASE UNCHANGED <<hist, out, typed, raced, pc>>
  BY <1>1 DEF Kept, Holds
<1>2. CASE UNCHANGED vars
  BY <1>1, <1>2 DEF vars, history
<1>3. ASSUME pc \notin {"trunc", "write"}, pc' \notin {"trunc", "write"},
             UNCHANGED <<hist, typed, raced>>
      PROVE  Kept'
  BY <1>3 DEF Kept, Holds
<1>4. ASSUME NEW policy \in HisPolicies, TakeHistory(policy) PROVE Kept'
  BY <1>3, <1>4 DEF TakeHistory, history
<1>5. CASE InsertTrunc
  BY <1>5 DEF InsertTrunc, history, Kept, Holds
<1>6. CASE HistoryDone \/ Answer \/ TakeFile
  BY <1>3, <1>6, StepFacts DEF HistoryDone, Answer, TakeFile, history
<1>7. ASSUME NEW i \in DOMAIN Steps, NEW ok \in BOOLEAN, FileStep(i, ok) PROVE Kept'
  <2>1. pc \in FileLabels
    BY <1>7, StepFacts DEF FileStep, Range
  <2>2. pc' \in FileLabels \/ pc' = "answer"
    <3>1. CASE pc' = "answer"
      BY <3>1
    <3>2. CASE i < Len(Steps) /\ pc' = Steps[i + 1]
      <4>1. i + 1 \in DOMAIN Steps
        BY <3>2, StepFacts
      <4> QED BY <3>2, <4>1, StepFacts DEF Range
    <3> QED BY <1>7, <3>1, <3>2 DEF FileStep
  <2> QED BY <1>3, <1>7, <2>1, <2>2 DEF FileStep, FileLabels, history
<1>8. CASE InsertFail
  BY <1>8 DEF InsertFail, history, Kept, Holds
<1>9. CASE InsertWriteFail
  BY <1>9, KeptCut DEF InsertWriteFail
<1>10. CASE Crash
  <2>1. CASE pc = "write"
    BY <1>10, <2>1, KeptCut DEF Crash
  <2>2. CASE pc # "write"
    BY <1>10, <2>2 DEF Crash, history, Kept, Holds
  <2> QED BY <2>1, <2>2
<1> QED
  BY <1>2, <1>4, <1>5, <1>6, <1>7, <1>8, <1>9, <1>10, KeptType, KeptRead, KeptWrite
  DEF Next

\* insertBaits writes back in full what it read: a command is lost only when it
\* was written during a rewrite, or when the write failed or decept-bait died
\* in one.
THEOREM CommandsStay == Spec => []CommandsKept
<1>1. Init => Typed /\ Kept
  BY TypedInit DEF Init, Kept
<1>2. Typed /\ Kept /\ [Next]_vars => (Typed /\ Kept)'
  BY TypedStep, KeptStep
<1>3. Kept => CommandsKept
  BY DEF Kept, CommandsKept
<1> QED BY <1>1, <1>2, <1>3, PTL DEF Spec
-----------------------------------------------------------------------------
(***************************************************************************)
(* The baits.                                                              *)
(***************************************************************************)
\* At most one line of a text is a given bait ...
OnceOf(s, b) == \A i, j \in DOMAIN s : s[i] = <<b>> /\ s[j] = <<b>> => i = j
\* ... and no line holds the bait together with anything else.
Own(s, b) == \A i \in DOMAIN s : Contains(s[i], b) => s[i] = <<b>>

\* The inductive invariant: what is to be written has each bait once, too.
Single ==
    \A b \in Baits :
      /\ torn \/ (OnceOf(hist, b) /\ OnceOf(out, b))
      /\ b \in glued \/ (/\ OnceOf(hist, b) /\ OnceOf(out, b)
                         /\ Own(hist, b) /\ Own(out, b))

LEMMA AtomFacts ==
    ASSUME NEW b \in Baits
    PROVE  /\ b \notin Cmds /\ b \notin Parts /\ b # "rest" /\ b \in Atoms
           /\ <<b>> # <<>> /\ ~Contains(<<>>, b)
<1>1. b \notin Cmds /\ b \notin Parts /\ b # "rest"
  BY BaitAssumption DEF BaitAssumption
<1> QED BY <1>1 DEF Atoms, Contains

\* A line with a command in it, or with the end of one, is no bait.
LEMMA AppendFacts ==
    ASSUME NEW b \in Baits, NEW p \in Seq(Atoms), NEW x \in Cmds \cup {"rest"}
    PROVE  /\ Append(p, x) # <<b>>
           /\ Contains(Append(p, x), b) => Contains(p, b)
<1>1. x # b /\ x \in Atoms
  BY AtomFacts DEF Atoms
<1>2. /\ Append(p, x)[Len(p) + 1] = x /\ Len(Append(p, x)) = Len(p) + 1 /\ Len(p) \in Nat
      /\ \A i \in 1..Len(p) : Append(p, x)[i] = p[i]
  BY <1>1
<1>3. Append(p, x) # <<b>>
  <2>1. <<b>>[1] = b /\ Len(<<b>>) = 1
    OBVIOUS
  <2> QED BY <1>1, <1>2, <2>1
<1>4. ASSUME Contains(Append(p, x), b) PROVE Contains(p, b)
  <2>1. PICK i \in 1..Len(Append(p, x)) : Append(p, x)[i] = b
    BY <1>4 DEF Contains
  <2>2. i \in 1..Len(p)
    BY <1>1, <1>2, <2>1
  <2> QED BY <1>2, <2>1, <2>2 DEF Contains
<1> QED BY <1>3, <1>4

LEMMA ContinuedBaits ==
    ASSUME NEW s \in Texts, s # <<>>, NEW x \in Cmds \cup {"rest"}, NEW b \in Baits
    PROVE  /\ OnceOf(s, b) => OnceOf(Continued(s, x), b)
           /\ Own(s, b) /\ ~Contains(s[Len(s)], b) => Own(Continued(s, x), b)
<1>0. PICK t : t = Continued(s, x)
  OBVIOUS
<1>1. /\ t \in Texts /\ Len(s) \in Nat \ {0} /\ Len(t) = Len(s) + 1
      /\ \A i \in 1..(Len(s) - 1) : t[i] = s[i]
      /\ t[Len(s)] = Append(s[Len(s)], x) /\ t[Len(s) + 1] = <<>>
  BY <1>0, ContinuedFacts DEF Atoms
<1>2. /\ DOMAIN t = 1..(Len(s) + 1) /\ DOMAIN s = 1..Len(s)
      /\ s[Len(s)] \in Seq(Atoms)
  BY <1>1 DEF Texts, Atoms
<1>3. /\ t[Len(s)] # <<b>> /\ t[Len(s) + 1] # <<b>> /\ ~Contains(t[Len(s) + 1], b)
      /\ Contains(t[Len(s)], b) => Contains(s[Len(s)], b)
  BY <1>1, <1>2, AppendFacts, AtomFacts
<1>4. \A i \in DOMAIN t : i \in 1..(Len(s) - 1) \/ i = Len(s) \/ i = Len(s) + 1
  BY <1>1, <1>2
<1>5. \A i \in 1..(Len(s) - 1) : i \in DOMAIN s
  BY <1>1, <1>2
<1>6. ASSUME OnceOf(s, b) PROVE OnceOf(t, b)
  BY <1>1, <1>3, <1>4, <1>5, <1>6 DEF OnceOf
<1>7. ASSUME Own(s, b), ~Contains(s[Len(s)], b) PROVE Own(t, b)
  BY <1>1, <1>3, <1>4, <1>5, <1>7 DEF Own
<1> QED BY <1>0, <1>6, <1>7

\* A bait of which no line is there may be put into a text.
LEMMA SplicedBaits ==
    ASSUME NEW s \in Texts, NEW d \in Baits, NEW t \in Texts,
           NEW k \in 0..Len(s), Spliced(t, s, TextOf[d], k), NEW b \in Baits,
           \A i \in DOMAIN s : s[i] # <<d>>
    PROVE  /\ OnceOf(s, b) => OnceOf(t, b)
           /\ Own(s, b) => Own(t, b)
<1> DEFINE n == Len(TextOf[d])
<1>1. Len(s) \in Nat /\ n \in Nat \ {0} /\ DOMAIN s = 1..Len(s) /\ k \in Nat /\ k <= Len(s)
  BY TextFacts DEF Texts
<1>2. DOMAIN t = 1..(Len(s) + n)
  BY DEF Spliced, Texts
<1>3. /\ \A i \in 1..k : t[i] = s[i]
      /\ \A i \in 1..n : t[k + i] = TextOf[d][i]
      /\ \A i \in (k + 1)..Len(s) : t[n + i] = s[i]
  BY DEF Spliced
<1>4. ASSUME NEW i \in 1..n, Contains(TextOf[d][i], b) \/ TextOf[d][i] = <<b>>
      PROVE  i = 1 /\ b = d /\ TextOf[d][i] = <<b>>
  <2>1. TextOf[d][1] = <<d>> /\ (Contains(<<d>>, b) => b = d)
    BY TextFacts DEF Contains
  <2>2. CASE i = 1
    BY <1>4, <2>1, <2>2
  <2>3. CASE i # 1
    <3>1. i \in 2..n
      BY <1>1, <2>3
    <3>2. PICK p \in Seq(Parts) : p = TextOf[d][i]
      BY <3>1, TextFacts
    <3>3. ~Contains(p, b) /\ p # <<b>>
      <4>1. b \notin Parts
        BY AtomFacts
      <4>2. \A j \in 1..Len(p) : p[j] # b
        BY <4>1
      <4>3. <<b>>[1] = b /\ 1 \in 1..Len(<<b>>)
        OBVIOUS
      <4>4. p # <<b>>
        BY <4>2, <4>3, Zenon
      <4>5. ~Contains(p, b)
        BY <4>2, Zenon DEF Contains
      <4> QED BY <4>4, <4>5
    <3> QED BY <1>4, <3>2, <3>3
  <2> QED BY <2>2, <2>3
<1> HIDE DEF n
\* Where a line of the new text comes from.
<1>5. ASSUME NEW i \in DOMAIN t
      PROVE  \/ i <= k /\ i \in DOMAIN s /\ t[i] = s[i]
             \/ i - k \in 1..n /\ t[i] = TextOf[d][i - k]
             \/ i > k + n /\ i - n \in DOMAIN s /\ t[i] = s[i - n]
  <2>1. CASE i \in 1..k
    BY <1>1, <1>3, <2>1
  <2>2. CASE i \in (k + 1)..(k + n)
    <3>1. i - k \in 1..n /\ k + (i - k) = i
      BY <1>1, <2>2
    <3> QED BY <1>3, <3>1
  <2>3. CASE i \in (k + n + 1)..(Len(s) + n)
    <3>1. i - n \in (k + 1)..Len(s) /\ n + (i - n) = i /\ i - n \in DOMAIN s /\ i > k + n
      BY <1>1, <2>3
    <3> QED BY <1>3, <3>1
  <2> QED BY <1>1, <1>2, <2>1, <2>2, <2>3
<1>6. ASSUME Own(s, b) PROVE Own(t, b)
  BY <1>4, <1>5, <1>6 DEF Own
<1>7. ASSUME OnceOf(s, b), NEW i \in DOMAIN t, NEW j \in DOMAIN t, t[i] = <<b>>, t[j] = <<b>>
      PROVE  i = j
  <2>1. CASE b = d
    <3>1. ASSUME NEW x \in DOMAIN t, t[x] = <<b>> PROVE x = k + 1
      <4>1. x - k \in 1..n /\ t[x] = TextOf[d][x - k]
        BY <1>5, <2>1, <3>1
      <4>2. x - k = 1
        BY <1>4, <3>1, <4>1
      <4> QED BY <1>1, <1>2, <4>2
    <3> QED BY <1>7, <3>1
  <2>2. CASE b # d
    <3> DEFINE Src(x) == IF x <= k THEN x ELSE x - n
    <3>1. ASSUME NEW x \in DOMAIN t, t[x] = <<b>>
          PROVE  Src(x) \in DOMAIN s /\ s[Src(x)] = <<b>> /\ (x <= k \/ x > k + n)
      <4>1. ~(x - k \in 1..n /\ t[x] = TextOf[d][x - k])
        BY <1>4, <2>2, <3>1
      <4>2. CASE x <= k /\ x \in DOMAIN s /\ t[x] = s[x]
        BY <3>1, <4>2
      <4>3. CASE x > k + n /\ x - n \in DOMAIN s /\ t[x] = s[x - n]
        <5>1. ~(x <= k)
          BY <1>1, <1>2, <4>3
        <5> QED BY <3>1, <4>3, <5>1
      <4> QED BY <1>5, <4>1, <4>2, <4>3
    <3>2. Src(i) = Src(j) /\ (i <= k \/ i > k + n) /\ (j <= k \/ j > k + n)
      BY <1>7, <3>1 DEF OnceOf
    <3> QED BY <1>1, <1>2, <3>2
  <2> QED BY <2>1, <2>2
<1> QED BY <1>6, <1>7 DEF OnceOf

\* A line that was cut holds no more baits than the line.
LEMMA CutLineBaits ==
    ASSUME NEW p \in Seq(Atoms), NEW line \in CutLine(p), NEW b \in Baits, Contains(line, b)
    PROVE  Contains(p, b) /\ (p = <<b>> => line = <<b>>)
<1>0. Len(p) \in Nat
  OBVIOUS
<1>1. PICK j \in 0..Len(p) :
        \/ line = SubSeq(p, 1, j)
        \/ j < Len(p) /\ line = Append(SubSeq(p, 1, j), "rest")
  <2>1. CASE \E j \in 0..Len(p) : line = SubSeq(p, 1, j)
    BY <2>1
  <2>2. CASE \E j \in 0..(Len(p) - 1) : line = Append(SubSeq(p, 1, j), "rest")
    <3>1. PICK j \in 0..(Len(p) - 1) : line = Append(SubSeq(p, 1, j), "rest")
      BY <2>2
    <3>2. j \in 0..Len(p) /\ j < Len(p)
      BY <1>0
    <3> QED BY <3>1, <3>2
  <2>3. \/ \E j \in 0..Len(p) : line = SubSeq(p, 1, j)
        \/ \E j \in 0..(Len(p) - 1) : line = Append(SubSeq(p, 1, j), "rest")
    BY Zenon DEF CutLine
  <2> QED BY <2>1, <2>2, <2>3
<1>2. PICK q : q = SubSeq(p, 1, j)
  OBVIOUS
<1>3. q \in Seq(Atoms) /\ Len(q) = j /\ \A i \in 1..j : q[i] = p[i]
  BY <1>2, Cut
<1>4. Contains(q, b)
  BY <1>1, <1>2, <1>3, AppendFacts
<1>5. Contains(p, b) /\ j # 0
  BY <1>3, <1>4 DEF Contains
<1>6. ASSUME p = <<b>> PROVE line = <<b>>
  <2>1. j = 1 /\ Len(p) = 1
    BY <1>5, <1>6
  <2>2. line = q
    BY <1>1, <1>2, <2>1
  <2>3. p[1] = b
    BY <1>6
  <2>4. Len(q) = 1 /\ q[1] = b /\ q \in Seq(Atoms)
    BY <1>3, <2>1, <2>3
  <2>5. q = <<b>>
    BY <2>4
  <2> QED BY <2>2, <2>5
<1> QED BY <1>5, <1>6

LEMMA CutsBaits ==
    ASSUME NEW s \in Texts, NEW t \in Cuts(s), NEW b \in Baits, Own(s, b)
    PROVE  Own(t, b) /\ (OnceOf(s, b) => OnceOf(t, b))
<1>1. /\ t \in Texts /\ Len(t) \in 1..Len(s) /\ t[Len(t)] \in CutLine(s[Len(t)])
      /\ \A i \in 1..(Len(t) - 1) : t[i] = s[i]
  BY CutsFacts
<1>2. DOMAIN t = 1..Len(t) /\ DOMAIN s = 1..Len(s) /\ Len(s) \in Nat /\ s[Len(t)] \in Seq(Atoms)
  BY <1>1 DEF Texts, Atoms
<1>3. ASSUME NEW i \in DOMAIN t, Contains(t[i], b)
      PROVE  i \in DOMAIN s /\ s[i] = <<b>> /\ t[i] = <<b>>
  <2>1. i \in DOMAIN s
    BY <1>1, <1>2
  <2>2. CASE i = Len(t)
    BY <1>1, <1>2, <1>3, <2>1, <2>2, CutLineBaits DEF Own
  <2>3. CASE i # Len(t)
    <3>1. i \in 1..(Len(t) - 1)
      BY <1>1, <1>2, <2>3
    <3> QED BY <1>1, <1>3, <2>1, <3>1 DEF Own
  <2> QED BY <2>2, <2>3
<1>4. Contains(<<b>>, b)
  BY DEF Contains
<1> QED BY <1>3, <1>4 DEF Own, OnceOf

LEMMA EmptyBaits ==
    ASSUME NEW b \in Baits
    PROVE  /\ OnceOf(<<>>, b) /\ Own(<<>>, b)
           /\ OnceOf(<< <<>> >>, b) /\ Own(<< <<>> >>, b)
<1>1. DOMAIN << <<>> >> = {1} /\ << <<>> >>[1] = <<>> /\ DOMAIN <<>> = {}
  OBVIOUS
<1> QED BY <1>1, AtomFacts DEF OnceOf, Own

\* What holds of a text holds of the file it was written to.
LEMMA OverwriteBaits ==
    ASSUME Typed, NEW text \in Texts, text # <<>>, Overwrite(text), NEW b \in Baits
    PROVE  /\ OnceOf(text, b) => OnceOf(hist', b)
           /\ b \notin glued' /\ Own(text, b) => Own(hist', b)
<1>1. \/ hist' = text
      \/ /\ hist' = Continued(text, "rest")
         /\ glued' = glued \cup BaitsOf(text[Len(text)])
  BY OverwriteFacts
<1>2. CASE hist' = text
  BY <1>2
<1>3. CASE /\ hist' = Continued(text, "rest")
           /\ glued' = glued \cup BaitsOf(text[Len(text)])
  <2>1. b \notin glued' => ~Contains(text[Len(text)], b)
    BY <1>3 DEF BaitsOf
  <2> QED BY <1>3, <2>1, ContinuedBaits
<1> QED BY <1>1, <1>2, <1>3

\* The goal of each step, with the histories as they were or grown.
LEMMA SingleNew ==
    ASSUME Single, torn' = torn \/ torn' = TRUE, glued \subseteq glued',
           \A b \in Baits : /\ torn' \/ ~(OnceOf(hist, b) /\ OnceOf(out, b))
                                 \/ (OnceOf(hist', b) /\ OnceOf(out', b))
                            /\ b \notin glued' /\ OnceOf(hist, b) /\ OnceOf(out, b)
                                 /\ Own(hist, b) /\ Own(out, b)
                               => /\ OnceOf(hist', b) /\ OnceOf(out', b)
                                  /\ Own(hist', b) /\ Own(out', b)
    PROVE  Single'
<1> SUFFICES ASSUME NEW b \in Baits
             PROVE  /\ torn' \/ (OnceOf(hist', b) /\ OnceOf(out', b))
                    /\ b \in glued' \/ (/\ OnceOf(hist', b) /\ OnceOf(out', b)
                                        /\ Own(hist', b) /\ Own(out', b))
  BY DEF Single, OnceOf, Own
<1>1. /\ torn \/ (OnceOf(hist, b) /\ OnceOf(out, b))
      /\ b \in glued \/ (/\ OnceOf(hist, b) /\ OnceOf(out, b)
                         /\ Own(hist, b) /\ Own(out, b))
  BY DEF Single
<1> QED BY <1>1, Zenon

LEMMA SingleType == ASSUME Typed, Single, NEW c \in Cmds, Type(c) PROVE Single'
<1>1. UNCHANGED <<out, torn>> /\ hist \in Texts
  BY DEF Type, Typed, TypeOK
<1>2. CASE hist = NoFile
  <2>1. hist' = << <<c>>, <<>> >> /\ glued' = glued
    BY <1>2 DEF Type
  <2>2. DOMAIN hist' = {1, 2} /\ hist'[1] = <<c>> /\ hist'[2] = <<>>
    BY <2>1
  <2>3. ASSUME NEW b \in Baits PROVE OnceOf(hist', b) /\ Own(hist', b)
    <3>1. <<c>> # <<b>> /\ ~Contains(<<c>>, b) /\ <<>> # <<b>> /\ ~Contains(<<>>, b)
      BY AtomFacts DEF Contains
    <3> QED BY <2>2, <3>1 DEF OnceOf, Own
  <2> QED BY <1>1, <2>1, <2>3, SingleNew
<1>3. CASE hist # NoFile
  <2>1. hist' = Continued(hist, c) /\ glued' = glued \cup BaitsOf(hist[Len(hist)])
    BY <1>3 DEF Type, Last
  <2>2. ASSUME NEW b \in Baits
        PROVE  /\ OnceOf(hist, b) => OnceOf(hist', b)
               /\ b \notin glued' /\ Own(hist, b) => Own(hist', b)
    <3>1. b \notin glued' => ~Contains(hist[Len(hist)], b)
      BY <2>1 DEF BaitsOf
    <3> QED BY <1>1, <1>3, <2>1, <3>1, ContinuedBaits DEF NoFile
  <2> QED BY <1>1, <2>1, <2>2, SingleNew
<1> QED BY <1>2, <1>3

LEMMA SingleRead == ASSUME Typed, Single, InsertRead PROVE Single'
<1>1. pc = "loop" /\ todo # <<>> /\ UNCHANGED <<hist, glued, torn>>
  BY DEF InsertRead, history
<1>2. CASE UNCHANGED out
  BY <1>1, <1>2, SingleNew
<1>3. ASSUME ~Contains(hist, TextOf[Head(todo)][1]), NEW rl \in 0..(Len(hist) - 1),
             out' = Inserted(hist, TextOf[Head(todo)], rl)
      PROVE  Single'
  <2>1. PICK d \in Baits : d = Head(todo)
    BY <1>1 DEF Typed, TypeOK
  <2>2. TextOf[d] \in Texts /\ TextOf[d][1] = <<d>> /\ hist \in Texts
    BY TextFacts DEF Typed, TypeOK
  <2>3. \A i \in DOMAIN hist : hist[i] # <<d>>
    <3>1. DOMAIN hist = 1..Len(hist)
      BY <2>2 DEF Texts
    <3> QED BY <1>3, <2>1, <2>2, <3>1 DEF Contains
  <2>4. ASSUME NEW b \in Baits
        PROVE  /\ OnceOf(hist, b) => OnceOf(out', b)
               /\ Own(hist, b) => Own(out', b)
    <3>1. CASE out' = hist
      BY <3>1
    <3>2. ASSUME out' \in Texts, NEW k \in 0..Len(hist), Spliced(out', hist, TextOf[d], k)
          PROVE  /\ OnceOf(hist, b) => OnceOf(out', b)
                 /\ Own(hist, b) => Own(out', b)
      BY <2>2, <2>3, <3>2, SplicedBaits
    <3> QED BY <1>3, <2>1, <2>2, <3>1, <3>2, InsertedFacts
  <2> QED BY <1>1, <2>4, SingleNew
<1> QED BY <1>2, <1>3 DEF InsertRead

LEMMA SingleWrite == ASSUME Typed, Single, InsertWrite PROVE Single'
<1>1. pc = "write" /\ Overwrite(out) /\ out' = <<>> /\ UNCHANGED torn
  BY DEF InsertWrite
<1>2. out \in Texts /\ out # <<>>
  BY <1>1 DEF Typed, TypeOK, Working
<1>3. glued \subseteq glued'
  BY <1>1, <1>2, OverwriteFacts
<1> QED BY <1>1, <1>2, <1>3, OverwriteBaits, EmptyBaits, SingleNew

\* A write that was cut short.
LEMMA SingleCut == ASSUME Typed, Single, pc = "write", CutShort, out' = <<>> PROVE Single'
<1>1. torn' = TRUE /\ out \in Texts
  BY DEF CutShort, Typed, TypeOK
<1>2. CASE UNCHANGED <<hist, glued>>
  BY <1>1, <1>2, EmptyBaits, SingleNew
<1>3. ASSUME NEW text \in Cuts(out), Overwrite(text) PROVE Single'
  <2>1. text \in Texts /\ text # <<>>
    BY <1>1, CutsFacts
  <2>2. glued \subseteq glued'
    BY <1>3, <2>1, OverwriteFacts
  <2>3. ASSUME NEW b \in Baits, b \notin glued', OnceOf(out, b), Own(out, b)
        PROVE  OnceOf(hist', b) /\ Own(hist', b)
    BY <1>1, <1>3, <2>1, <2>3, CutsBaits, OverwriteBaits
  <2> QED BY <1>1, <2>2, <2>3, EmptyBaits, SingleNew
<1> QED BY <1>2, <1>3 DEF CutShort

LEMMA SingleStep == ASSUME Typed, Single, [Next]_vars PROVE Single'
<1> USE DEF history
<1>1. ASSUME UNCHANGED <<hist, glued, torn>>, out' = out \/ out' = <<>> PROVE Single'
  BY <1>1, EmptyBaits, SingleNew
<1>2. CASE UNCHANGED vars
  BY <1>1, <1>2 DEF vars
<1>3. ASSUME NEW policy \in HisPolicies, TakeHistory(policy) PROVE Single'
  BY <1>1, <1>3 DEF TakeHistory
<1>4. CASE InsertTrunc
  <2>1. hist' = << <<>> >> /\ UNCHANGED <<out, glued, torn>>
    BY <1>4 DEF InsertTrunc
  <2> QED BY <2>1, EmptyBaits, SingleNew
<1>5. CASE HistoryDone \/ Answer \/ TakeFile \/ InsertFail
  BY <1>1, <1>5 DEF HistoryDone, Answer, TakeFile, InsertFail
<1>6. ASSUME NEW i \in DOMAIN Steps, NEW ok \in BOOLEAN, FileStep(i, ok) PROVE Single'
  BY <1>1, <1>6 DEF FileStep
<1>7. CASE InsertWriteFail
  BY <1>7, SingleCut DEF InsertWriteFail
<1>8. CASE Crash
  <2>1. CASE pc = "write"
    BY <1>8, <2>1, SingleCut DEF Crash
  <2>2. CASE pc # "write"
    BY <1>1, <1>8, <2>2 DEF Crash
  <2> QED BY <2>1, <2>2
<1> QED
  BY <1>2, <1>3, <1>4, <1>5, <1>6, <1>7, <1>8, SingleType, SingleRead, SingleWrite
  DEF Next

LEMMA AtMostOne ==
    ASSUME NEW S, \A i, j \in S : i = j
    PROVE  Cardinality(S) <= 1
<1>1. CASE S = {}
  BY <1>1, FS_EmptySet
<1>2. ASSUME NEW i \in S PROVE Cardinality(S) <= 1
  <2>1. S = {i}
    OBVIOUS
  <2>2. Cardinality({i}) = 1
    BY FS_Singleton
  <2> QED BY <2>1, <2>2
<1> QED BY <1>1, <1>2

\* A policy that is sent again inserts no bait a second time as long as nothing
\* continued the bait's line, wherever the shell, a failing write or a crash
\* cut in; and while no writing was cut short no bait is there twice as a line
\* of its own.
THEOREM BaitsAreSingle == Spec => []BaitOnce
<1>1. Init => Typed /\ Single
  <2>1. Init => Single
    BY EmptyBaits DEF Init, Single, NoFile
  <2> QED BY <2>1, TypedInit
<1>2. Typed /\ Single /\ [Next]_vars => (Typed /\ Single)'
  BY TypedStep, SingleStep
<1>3. Single => BaitOnce
  <2> SUFFICES ASSUME Single, NEW b \in Baits
               PROVE  /\ torn \/ Cardinality({i \in DOMAIN hist : hist[i] = <<b>>}) <= 1
                      /\ b \in glued
                           \/ Cardinality({i \in DOMAIN hist : Contains(hist[i], b)}) <= 1
    BY DEF BaitOnce
  <2>1. ASSUME OnceOf(hist, b)
        PROVE  Cardinality({i \in DOMAIN hist : hist[i] = <<b>>}) <= 1
    BY <2>1, AtMostOne DEF OnceOf
  <2>2. ASSUME OnceOf(hist, b), Own(hist, b)
        PROVE  Cardinality({i \in DOMAIN hist : Contains(hist[i], b)}) <= 1
    BY <2>2, AtMostOne DEF OnceOf, Own
  <2> QED BY <2>1, <2>2 DEF Single
<1> QED BY <1>1, <1>2, <1>3, PTL DEF Spec
=============================================================================
