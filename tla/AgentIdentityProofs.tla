------------------------- MODULE AgentIdentityProofs -------------------------
(***************************************************************************)
(* For any number of random ids, pairs of keys, crashes and failing calls: *)
(* an identity, once settled, sticks, and so does a pair of keys; what the *)
(* centre was told is what is on disk.                                     *)
(***************************************************************************)
EXTENDS AgentIdentity, TLAPS

MainPcs == {"off", "exists", "create", "write", "read", "beat"}
KeyPcs ==
    {"createPriv", "writePriv", "endPriv", "createPub", "writePub", "endPub"}
SshPcs ==
    {"off", "exists", "create", "write", "read", "keys", "readPub", "encode",
     "post", "sleep", "end"} \cup KeyPcs

\* main never uploads and the goroutine for the keys sends no heartbeats;
\* conf/agent is read only where it exists; nothing runs without a process; a
\* pair has a number while it is generated.
Control ==
    /\ pc \in [Gor -> MainPcs \cup SshPcs]
    /\ pc["main"] \in MainPcs /\ pc["ssh"] \in SshPcs
    /\ ~up => \A g \in Gor : pc[g] = "off"
    /\ pc["ssh"] \in KeyPcs => key \in 1..MaxKeys
    /\ \A g \in Gor : pc[g] = "read" => idFile # Absent

-----------------------------------------------------------------------------
(***************************************************************************)
(* The type invariant.                                                     *)
(***************************************************************************)
Typed == TypeOK /\ Control

LEMMA TypedInit == ASSUME BoundAssumption, Init PROVE Typed
<1>1. /\ up \in BOOLEAN /\ relay \in BOOLEAN /\ torn \in BOOLEAN /\ cut \in BOOLEAN
      /\ announced \subseteq Contents /\ uploaded \subseteq Contents \X KeyFile
  BY DEF Init
<1>2. /\ Control
      /\ id \in [Gor -> Empty..(SysId + MaxIds)]
  BY DEF BoundAssumption, Init, Control, Gor, MainPcs, SshPcs, KeyPcs, Empty, SysId
<1>3. /\ idFile \in Contents /\ priv \in KeyFile /\ pub \in KeyFile
      /\ key \in 0..Part(MaxKeys) /\ attempt \in {1, 2}
      /\ ids \in 0..MaxIds /\ keys \in 0..MaxKeys
      /\ crashes \in 0..MaxCrashes /\ faults \in 0..MaxFaults
  BY DEF BoundAssumption, Init, Contents, KeyFile, Part, Absent, SysId
<1> QED BY <1>1, <1>2, <1>3 DEF Typed, TypeOK, Control, MainPcs, SshPcs, KeyPcs

\* However the process ends, its files stay as they are.
LEMMA TypedDown ==
    ASSUME BoundAssumption, Typed, Down, torn' \in BOOLEAN, cut' \in BOOLEAN,
           crashes' \in 0..MaxCrashes, UNCHANGED <<ids, keys, faults>>
    PROVE  Typed'
<1>1. /\ up' = FALSE /\ relay' = relay
      /\ pc' = [g \in Gor |-> "off"] /\ id' = [g \in Gor |-> Empty]
      /\ key' = 0 /\ attempt' = 1
      /\ UNCHANGED <<idFile, priv, pub, announced, uploaded>>
  BY DEF Down, disk, centre
<1>2. Control'
  BY <1>1 DEF Control, Gor, MainPcs, SshPcs, KeyPcs
<1>3. up' \in BOOLEAN /\ relay' \in BOOLEAN
  BY <1>1 DEF Typed, TypeOK
<1>4. /\ pc' \in [Gor -> {"off"}]
      /\ id' \in [Gor -> Empty..(SysId + MaxIds)]
      /\ key' \in 0..Part(MaxKeys) /\ attempt' \in {1, 2}
  BY <1>1 DEF BoundAssumption, Empty, SysId, Part
<1> QED
  BY <1>1, <1>2, <1>3, <1>4 DEF Typed, TypeOK, Contents, KeyFile

\* Starts and ends of the process.
LEMMA TypedProcess ==
    ASSUME BoundAssumption, Typed,
           Crash \/ EncodePanic \/ \E r \in BOOLEAN : AgentStart(r)
    PROVE  Typed'
<1>1. CASE Crash
  <2>1. torn' \in BOOLEAN /\ cut' \in BOOLEAN
    BY <1>1, Zenon DEF Crash
  <2>2. crashes' \in 0..MaxCrashes
    BY <1>1 DEF Crash, Typed, TypeOK, BoundAssumption
  <2>3. Down /\ UNCHANGED <<ids, keys, faults>>
    BY <1>1 DEF Crash
  <2> QED BY <2>1, <2>2, <2>3, TypedDown
<1>2. CASE EncodePanic
  <2>1. torn' \in BOOLEAN /\ cut' \in BOOLEAN
    BY <1>2, Zenon DEF EncodePanic, Typed, TypeOK
  <2>2. Down /\ UNCHANGED <<ids, keys, faults>> /\ crashes' \in 0..MaxCrashes
    BY <1>2 DEF EncodePanic, bounds, Typed, TypeOK
  <2> QED BY <2>1, <2>2, TypedDown
<1>3. ASSUME NEW r \in BOOLEAN, AgentStart(r) PROVE Typed'
  BY <1>3
  DEF AgentStart, BoundAssumption, Typed, TypeOK, Control, Contents, KeyFile, Gor,
      MainPcs, SshPcs, KeyPcs, Absent, Empty, SysId, Part, disk, centre, history, bounds
<1> QED BY <1>1, <1>2, <1>3

\* getAgentId and the heartbeat.
LEMMA TypedId ==
    ASSUME BoundAssumption, Typed, NEW g \in Gor, GetId(g) \/ IdFails(g) \/ Beat
    PROVE  Typed'
<1> USE DEF BoundAssumption, Typed, TypeOK, Control, Contents, KeyFile, Gor,
            MainPcs, SshPcs, KeyPcs, Absent, Empty, SysId, Goto, Return, disk, centre,
            history, bounds
<1>1. CASE CheckId(g) BY <1>1 DEF CheckId
<1>2. CASE CreateId(g) BY <1>2 DEF CreateId
<1>3. CASE WriteId(g) BY <1>3 DEF WriteId
<1>4. CASE ReadId(g) BY <1>4 DEF ReadId
<1>5. CASE IdFails(g) BY <1>5 DEF IdFails, Fault
<1>6. CASE Beat
  <2>1. id["main"] \in Contents
    OBVIOUS
  <2>2. announced' = announced \cup {id["main"]}
    BY <1>6 DEF Beat
  <2> QED BY <1>6, <2>1, <2>2 DEF Beat
<1> QED BY <1>1, <1>2, <1>3, <1>4, <1>5, <1>6 DEF GetId

\* The keys and their upload.
LEMMA TypedKeys ==
    ASSUME BoundAssumption, Typed,
           \/ CheckKeys \/ CreatePriv \/ WritePriv \/ EndPriv \/ CreatePub \/ WritePub \/ EndPub
           \/ ReadPub \/ Encode \/ Sleep \/ KeyFails \/ PostLost
           \/ \E answered \in BOOLEAN : Post(answered)
    PROVE  Typed'
<1> USE DEF BoundAssumption, Typed, TypeOK, Control, Contents, KeyFile, Gor,
            MainPcs, SshPcs, KeyPcs, Absent, Empty, SysId, Part, Goto, Failed,
            disk, centre, history, bounds
<1>1. CASE CheckKeys BY <1>1 DEF CheckKeys
<1>2. CASE CreatePriv \/ WritePriv \/ EndPriv \/ CreatePub \/ WritePub \/ EndPub
  <2>1. CASE CreatePriv BY <2>1 DEF CreatePriv, KeyStep
  <2>2. CASE WritePriv BY <2>2 DEF WritePriv, KeyStep
  <2>3. CASE EndPriv BY <2>3 DEF EndPriv, KeyStep
  <2>4. CASE CreatePub BY <2>4 DEF CreatePub, KeyStep
  <2>5. CASE WritePub BY <2>5 DEF WritePub, KeyStep
  <2>6. CASE EndPub BY <2>6 DEF EndPub, KeyStep
  <2> QED BY <1>2, <2>1, <2>2, <2>3, <2>4, <2>5, <2>6
<1>3. CASE ReadPub
  <2>1. CASE pub = Absent BY <1>3, <2>1 DEF ReadPub
  <2>2. CASE pub # Absent
    <3>1. key' = pub /\ pc' = [pc EXCEPT !["ssh"] = "exists"] /\ UNCHANGED attempt
      <4> HIDE DEF Typed, Absent
      <4> QED BY <1>3, <2>2 DEF ReadPub
    <3>2. UNCHANGED <<up, relay, idFile, priv, pub, id, announced, uploaded, torn, cut, ids,
                      keys, crashes, faults>>
      BY <1>3 DEF ReadPub
    <3>3. Control'
      <4> HIDE DEF TypeOK, KeyFile, Contents
      <4> QED BY <1>3, <2>2, <3>1, <3>2 DEF ReadPub
    <3>4. key' \in 0..Part(MaxKeys) /\ pc' \in [Gor -> MainPcs \cup SshPcs]
      BY <2>2, <3>1
    <3> HIDE DEF Control, Contents
    <3> QED BY <3>1, <3>2, <3>3, <3>4
  <2> QED BY <2>1, <2>2
<1>4. CASE Encode \/ Sleep
  <2>1. CASE Encode BY <2>1 DEF Encode
  <2>2. CASE Sleep BY <2>2 DEF Sleep
  <2> QED BY <1>4, <2>1, <2>2
<1>5. CASE KeyFails BY <1>5 DEF KeyFails, Generating, Fault
<1>6. CASE PostLost BY <1>6 DEF PostLost
<1>7. ASSUME NEW answered \in BOOLEAN, Post(answered) PROVE Typed'
  BY <1>7 DEF Post
<1> QED BY <1>1, <1>2, <1>3, <1>4, <1>5, <1>6, <1>7

\* Every action of Next, by name.
LEMMA Steps ==
    ASSUME Next
    PROVE  \/ Crash \/ EncodePanic \/ \E r \in BOOLEAN : AgentStart(r)
           \/ \E g \in Gor : GetId(g) \/ IdFails(g) \/ Beat
           \/ CheckKeys \/ CreatePriv \/ WritePriv \/ EndPriv \/ CreatePub \/ WritePub \/ EndPub
           \/ ReadPub \/ Encode \/ Sleep \/ KeyFails \/ PostLost
           \/ \E answered \in BOOLEAN : Post(answered)
BY DEF Next, Upload, Gor

LEMMA TypedStep == ASSUME BoundAssumption, Typed, [Next]_vars PROVE Typed'
<1>1. CASE UNCHANGED vars
  BY <1>1 DEF vars, disk, centre, history, bounds, Typed, TypeOK, Control
<1>2. CASE Next
  BY <1>2, Steps, TypedProcess, TypedId, TypedKeys
<1> QED BY <1>1, <1>2

\* Every variable keeps its type.
THEOREM TypeCorrect == Spec => []TypeOK
<1>1. Init => Typed
  BY BoundAssumption, TypedInit
<1>2. Typed /\ [Next]_vars => Typed'
  BY BoundAssumption, TypedStep
<1>3. Typed => TypeOK
  BY DEF Typed
<1> QED BY <1>1, <1>2, <1>3, PTL DEF Spec

-----------------------------------------------------------------------------
(***************************************************************************)
(* The pair of keys.  A generation that is under way has found no private  *)
(* key and has written what its place says; a public key with contents is  *)
(* the private key's, or the first part of it when its writing is under    *)
(* way or was cut short; nothing is generated once a key was uploaded.     *)
(***************************************************************************)
Began ==
    pc["ssh"] \in {"createPriv", "writePriv", "endPriv"} => pub = Absent
Wrote ==
    /\ pc["ssh"] = "createPriv" => priv = Absent
    /\ pc["ssh"] = "writePriv" => priv = Empty
    /\ pc["ssh"] = "endPriv" => priv = Part(key)
    /\ pc["ssh"] \in {"createPub", "writePub", "endPub"} => priv = key
Paired ==
    pub \notin {Absent, Empty} =>
      pub = priv \/ (pub = Part(priv) /\ (cut \/ pc["ssh"] = "endPub"))
NoPub == priv = Absent => pub = Absent
ReadKey ==
    /\ pc["ssh"] \in {"exists", "create", "write", "read", "encode", "post"}
         => key = pub /\ pub # Absent
    /\ pc["ssh"] = "post" => pub # Empty
Uploaded ==
    uploaded # {} => priv # Absent /\ pub \notin {Absent, Empty} /\ ~Generating

\* The inductive invariant for the keys.
KeysInv == Typed /\ Began /\ Wrote /\ Paired /\ NoPub /\ ReadKey /\ Uploaded /\ KeysMatch

LEMMA KeysInit == ASSUME BoundAssumption, Init PROVE KeysInv
<1>1. Typed
  BY TypedInit
<1>2. /\ pc["ssh"] = "off" /\ uploaded = {}
      /\ priv = Absent /\ pub = Absent
  BY DEF Init, Gor
<1> QED
  BY <1>1, <1>2
  DEF KeysInv, Began, Wrote, Paired, NoPub, ReadKey, Uploaded, KeysMatch, Generating

LEMMA KeysStep == ASSUME BoundAssumption, KeysInv, [Next]_vars PROVE KeysInv'
<1>1. Typed'
  BY TypedStep DEF KeysInv
<1> USE DEF KeysInv, Typed, TypeOK, Control, Gor, KeyPcs
<1> DEFINE Goal ==
      Began /\ Wrote /\ Paired /\ NoPub /\ ReadKey /\ Uploaded /\ KeysMatch
<1> SUFFICES Goal'
  BY <1>1
<1> USE DEF Began, Wrote, Paired, NoPub, ReadKey, Uploaded, KeysMatch, Generating,
            Goto, Failed, disk, centre, history, bounds
<1>2. CASE UNCHANGED vars
  BY <1>2 DEF vars
<1>3. CASE Crash \/ EncodePanic
  BY <1>3 DEF Crash, EncodePanic, Down
<1>4. ASSUME NEW r \in BOOLEAN, AgentStart(r) PROVE Goal'
  <2>1. pc'["ssh"] \in {"keys", "off"}
    BY <1>4 DEF AgentStart
  <2>2. UNCHANGED <<priv, pub, uploaded, cut>> /\ pc["ssh"] = "off"
    BY <1>4 DEF AgentStart
  <2> HIDE DEF Typed
  <2> QED BY <2>1, <2>2
<1>5. ASSUME NEW g \in Gor, GetId(g) \/ IdFails(g) PROVE Goal'
  BY <1>5 DEF GetId, CheckId, CreateId, WriteId, ReadId, IdFails, Return
<1>6. CASE Beat
  BY <1>6 DEF Beat
<1>7. CASE CheckKeys
  BY <1>7 DEF CheckKeys
<1>8. CASE CreatePriv
  BY <1>8 DEF CreatePriv, KeyStep, Absent, Empty
<1>9. CASE WritePriv
  BY <1>9 DEF WritePriv, KeyStep, Absent, Empty, Part, BoundAssumption
<1>10. CASE CreatePub
  BY <1>10 DEF CreatePub, KeyStep, Absent, Empty
<1>11. CASE WritePub
  BY <1>11 DEF WritePub, KeyStep, Absent, Empty, Part, BoundAssumption
<1>12. CASE ReadPub
  BY <1>12 DEF ReadPub
<1>13. CASE Encode
  BY <1>13 DEF Encode
<1>14. CASE Sleep \/ PostLost
  BY <1>14 DEF Sleep, PostLost
<1>15. CASE KeyFails
  BY <1>15 DEF KeyFails
<1>16. ASSUME NEW answered \in BOOLEAN, Post(answered) PROVE Goal'
  BY <1>16 DEF Post
<1>17. CASE EndPriv
  BY <1>17 DEF EndPriv, KeyStep, Absent, Empty
<1>18. CASE EndPub
  BY <1>18 DEF EndPub, KeyStep, Absent, Empty
<1> QED
  BY <1>2, <1>3, <1>4, <1>5, <1>6, <1>7, <1>8, <1>9, <1>10, <1>11, <1>12, <1>13,
     <1>14, <1>15, <1>16, <1>17, <1>18, Steps

\* The centre only ever has the public key in public.pem, and that belongs to
\* the private key on disk or is the first part of such a key whose writing
\* was cut short (GenAndUploadRsaKey).
THEOREM CentreHasOurKey == Spec => []KeysMatch
<1>1. Init => KeysInv
  BY BoundAssumption, KeysInit
<1>2. KeysInv /\ [Next]_vars => KeysInv'
  BY BoundAssumption, KeysStep
<1>3. KeysInv => KeysMatch
  BY DEF KeysInv
<1> QED BY <1>1, <1>2, <1>3, PTL DEF Spec

\* One step of KeysStick.
LEMMA KeysStickStep ==
    ASSUME Typed, KeysSettled, [Next]_vars
    PROVE  KeysSettled' /\ priv' = priv /\ pub' = pub
<1> USE DEF Typed, Control, Gor, KeysSettled, Generating, Goto, Failed, disk, centre,
            history, bounds
<1> DEFINE Goal == KeysSettled' /\ priv' = priv /\ pub' = pub
<1>1. CASE UNCHANGED vars
  BY <1>1 DEF vars
<1>2. CASE Crash \/ EncodePanic
  BY <1>2 DEF Crash, EncodePanic, Down
<1>3. ASSUME NEW r \in BOOLEAN, AgentStart(r) PROVE Goal
  BY <1>3 DEF AgentStart
<1>4. ASSUME NEW g \in Gor, GetId(g) \/ IdFails(g) \/ Beat PROVE Goal
  BY <1>4 DEF GetId, CheckId, CreateId, WriteId, ReadId, IdFails, Return, Beat
<1>5. CASE \/ CheckKeys \/ CreatePriv \/ WritePriv \/ EndPriv
          \/ CreatePub \/ WritePub \/ EndPub
  BY <1>5
  DEF CheckKeys, CreatePriv, WritePriv, EndPriv, CreatePub, WritePub, EndPub, KeyStep
<1>6. CASE ReadPub \/ Encode \/ Sleep \/ KeyFails \/ PostLost
  BY <1>6 DEF ReadPub, Encode, Sleep, KeyFails, PostLost
<1>7. ASSUME NEW answered \in BOOLEAN, Post(answered) PROVE Goal
  BY <1>7 DEF Post
<1> QED BY <1>1, <1>2, <1>3, <1>4, <1>5, <1>6, <1>7, Steps

\* A pair of keys is never completed or replaced once its generation has
\* ended, whether it was finished or not (GenAndUploadRsaKey).
THEOREM PairSticks == Spec => KeysStick
<1>1. Init => Typed
  BY BoundAssumption, TypedInit
<1>2. Typed /\ [Next]_vars => Typed'
  BY BoundAssumption, TypedStep
<1>3. Typed /\ [Next]_vars
        => [KeysSettled => KeysSettled' /\ priv' = priv /\ pub' = pub]_vars
  BY KeysStickStep
<1> QED BY <1>1, <1>2, <1>3, PTL DEF Spec, KeysStick

-----------------------------------------------------------------------------
(***************************************************************************)
(* The identity.  While getAgentId is undisturbed, at most one goroutine   *)
(* makes the id, nobody has seen another one by then, and whoever has an   *)
(* id has the one in conf/agent.                                           *)
(***************************************************************************)
HasId(g) == pc[g] \in {"beat", "encode", "post"}
Sees(g) == HasId(g) \/ pc[g] = "read"
Known == announced \cup {u[1] : u \in uploaded}

MakerAlone ==
    \A g \in Gor : Within(g) =>
      /\ \A h \in Gor \ {g} : ~Within(h) /\ ~Sees(h)
      /\ Known = {}
      /\ pc[g] = "create" => idFile = Absent
Agreed == \A g \in Gor : HasId(g) => id[g] = idFile /\ idFile # Absent
Told == Known # {} => idFile # Absent

\* The inductive invariant for the identity.
IdInv == Typed /\ (~torn => MakerAlone /\ Agreed /\ Told /\ Known \subseteq {idFile})

LEMMA IdInit == ASSUME BoundAssumption, Init PROVE IdInv
<1>1. Typed
  BY TypedInit
<1>2. \A g \in Gor : pc[g] = "off"
  BY DEF Init
<1>3. Known = {}
  BY DEF Init, Known
<1> QED
  BY <1>1, <1>2, <1>3
  DEF IdInv, MakerAlone, Agreed, Told, Within, Sees, HasId

\* Steps that leave conf/agent and the centre alone, in which no goroutine
\* gets an id or starts to make one.
Aside ==
    /\ UNCHANGED <<idFile, announced, uploaded>>
    /\ torn => torn'
    /\ \A g \in Gor :
         /\ Within(g)' => Within(g) /\ pc'[g] = pc[g]
         /\ Sees(g)' => Sees(g)
         /\ HasId(g)' => HasId(g) /\ id'[g] = id[g]

LEMMA AsideStep == ASSUME IdInv, Typed', Aside PROVE IdInv'
BY DEF IdInv, Aside, MakerAlone, Agreed, Told, Known

LEMMA IdStep == ASSUME BoundAssumption, IdInv, [Next]_vars PROVE IdInv'
<1>1. Typed'
  BY TypedStep DEF IdInv
<1> USE DEF IdInv, Typed, Control, Gor, MainPcs, SshPcs, KeyPcs, Within, Sees, HasId,
            Goto, disk, centre, history, bounds
<1>2. CASE UNCHANGED vars
  <2>1. Aside
    BY <1>2 DEF vars, Aside
  <2> QED BY <1>1, <2>1, AsideStep
<1>3. CASE Crash \/ EncodePanic
  <2>1. Aside
    BY <1>3 DEF Crash, EncodePanic, Down, Aside
  <2> QED BY <1>1, <2>1, AsideStep
<1>4. ASSUME NEW r \in BOOLEAN, AgentStart(r) PROVE IdInv'
  <2>1. Aside
    BY <1>4 DEF AgentStart, Aside
  <2> QED BY <1>1, <2>1, AsideStep
<1>5. ASSUME NEW g \in Gor, CheckId(g) PROVE IdInv'
  <2> SUFFICES ASSUME ~torn'
               PROVE  (MakerAlone /\ Agreed /\ Told /\ Known \subseteq {idFile})'
    BY <1>1
  <2>1. ~torn /\ \A h \in Gor \ {g} : ~Within(h)
    BY <1>5 DEF CheckId
  <2> QED BY <1>5, <2>1 DEF CheckId, MakerAlone, Agreed, Told, Known
<1>6. ASSUME NEW g \in Gor, CreateId(g) PROVE IdInv'
  BY <1>1, <1>6 DEF CreateId, MakerAlone, Agreed, Told, Known
<1>7. ASSUME NEW g \in Gor, WriteId(g) PROVE IdInv'
  <2>1. id[g] # Absent
    BY DEF TypeOK, Absent, Empty
  <2> QED BY <1>1, <1>7, <2>1 DEF WriteId, Return, MakerAlone, Agreed, Told, Known
<1>8. ASSUME NEW g \in Gor, ReadId(g) PROVE IdInv'
  <2> SUFFICES ASSUME ~torn'
               PROVE  (MakerAlone /\ Agreed /\ Told /\ Known \subseteq {idFile})'
    BY <1>1
  <2>1. /\ ~torn /\ pc[g] = "read" /\ idFile # Absent
        /\ UNCHANGED <<idFile, announced, uploaded>>
        /\ id' = [id EXCEPT ![g] = idFile]
    BY <1>8 DEF ReadId
  <2>2. pc' = [pc EXCEPT ![g] = IF g = "main" THEN "beat" ELSE "encode"]
    BY <1>8 DEF ReadId, Return
  <2>3. id'[g] = idFile /\ \A h \in Gor \ {g} : id'[h] = id[h]
    BY <2>1 DEF TypeOK
  <2> QED BY <2>1, <2>2, <2>3 DEF MakerAlone, Agreed, Told, Known
<1>9. ASSUME NEW g \in Gor, IdFails(g) PROVE IdInv'
  BY <1>1, <1>9 DEF IdFails
<1>10. CASE Beat
  BY <1>1, <1>10 DEF Beat, MakerAlone, Agreed, Told, Known
<1>11. ASSUME NEW answered \in BOOLEAN, Post(answered) PROVE IdInv'
  BY <1>1, <1>11 DEF Post, Failed, MakerAlone, Agreed, Told, Known
<1>12. CASE \/ CheckKeys \/ CreatePriv \/ WritePriv \/ EndPriv
           \/ CreatePub \/ WritePub \/ EndPub \/ KeyFails
  <2>1. Aside
    BY <1>12
    DEF CheckKeys, CreatePriv, WritePriv, EndPriv, CreatePub, WritePub, EndPub, KeyStep,
        KeyFails, Failed, Aside
  <2> QED BY <1>1, <2>1, AsideStep
<1>13. CASE ReadPub \/ Sleep \/ PostLost \/ Encode
  <2>1. Aside
    BY <1>13 DEF ReadPub, Sleep, PostLost, Encode, Failed, Aside
  <2> QED BY <1>1, <2>1, AsideStep
<1> QED
  BY <1>2, <1>3, <1>4, <1>5, <1>6, <1>7, <1>8, <1>9, <1>10, <1>11, <1>12, <1>13,
     Steps
  DEF GetId

\* Heartbeats, uploads and the modules' checks use one id, unless getAgentId
\* was disturbed (getAgentId, heartBeat, GenAndUploadRsaKey).
THEOREM IdentityIsOne == Spec => []OneIdentity
<1>1. Init => IdInv
  BY BoundAssumption, IdInit
<1>2. IdInv /\ [Next]_vars => IdInv'
  BY BoundAssumption, IdStep
<1>3. IdInv => OneIdentity
  BY DEF IdInv, OneIdentity, Known, QueryEngineId
<1> QED BY <1>1, <1>2, <1>3, PTL DEF Spec

\* One step of IdentitySticks.
LEMMA IdentitySticksStep ==
    ASSUME Typed, IdSettled, [Next]_vars
    PROVE  IdSettled' /\ idFile' = idFile
<1> USE DEF Typed, Control, Gor, IdSettled, Within, Goto, Failed, disk, centre, history, bounds
<1> DEFINE Goal == IdSettled' /\ idFile' = idFile
<1>1. CASE UNCHANGED vars
  BY <1>1 DEF vars
<1>2. CASE Crash \/ EncodePanic
  BY <1>2 DEF Crash, EncodePanic, Down
<1>3. ASSUME NEW r \in BOOLEAN, AgentStart(r) PROVE Goal
  BY <1>3 DEF AgentStart
<1>4. ASSUME NEW g \in Gor, GetId(g) \/ IdFails(g) \/ Beat PROVE Goal
  BY <1>4 DEF GetId, CheckId, CreateId, WriteId, ReadId, IdFails, Return, Beat
<1>5. CASE \/ CheckKeys \/ CreatePriv \/ WritePriv \/ EndPriv
          \/ CreatePub \/ WritePub \/ EndPub
  BY <1>5
  DEF CheckKeys, CreatePriv, WritePriv, EndPriv, CreatePub, WritePub, EndPub, KeyStep
<1>6. CASE ReadPub \/ Encode \/ Sleep \/ KeyFails \/ PostLost
  BY <1>6 DEF ReadPub, Encode, Sleep, KeyFails, PostLost
<1>7. ASSUME NEW answered \in BOOLEAN, Post(answered) PROVE Goal
  BY <1>7 DEF Post
<1> QED BY <1>1, <1>2, <1>3, <1>4, <1>5, <1>6, <1>7, Steps

\* Whatever conf/agent holds once nobody is writing it, an empty id included,
\* it holds for ever (getAgentId).
THEOREM SettledIdSticks == Spec => IdentitySticks
<1>1. Init => Typed
  BY BoundAssumption, TypedInit
<1>2. Typed /\ [Next]_vars => Typed'
  BY BoundAssumption, TypedStep
<1>3. Typed /\ [Next]_vars => [IdSettled => IdSettled' /\ idFile' = idFile]_vars
  BY IdentitySticksStep
<1> QED BY <1>1, <1>2, <1>3, PTL DEF Spec, IdentitySticks
=============================================================================
