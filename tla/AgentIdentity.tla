---------------------------- MODULE AgentIdentity ----------------------------
(***************************************************************************)
(* How an agent gets and announces its identity.  main calls getAgentId    *)
(* once, before it sends heartbeats for ever; in relay mode the goroutine  *)
(* prepareAndUploadSshKey makes a pair of keys, calls getAgentId as well   *)
(* and uploads the public key until the centre confirms it.  The id lives  *)
(* in conf/agent, the keys in /var/decept-agent/ssh; decept-proxy and      *)
(* decept-bait read conf/agent for every strategy and drop those that      *)
(* carry another id.  The process may end between any two steps.           *)
(***************************************************************************)
EXTENDS Integers

CONSTANTS
    MaxIds,     \* bound: how many random ids are drawn
    MaxKeys,    \* bound: how many pairs of keys are generated
    MaxCrashes, \* bound: how often the process is killed
    MaxFaults   \* bound: how many calls of the file system fail

ASSUME BoundAssumption ==
    /\ MaxIds \in Nat /\ MaxKeys \in Nat \ {0}
    /\ MaxCrashes \in Nat /\ MaxFaults \in Nat

Absent == -1   \* a file that does not exist
Empty == 0     \* a file without a whole first line; the empty id
Part(k) == MaxKeys + k   \* the first part of a key of pair k
SysId == 1     \* the id made from dmidecode's answer; random ids follow

VARIABLES
    up, relay,   \* whether the process runs, and in relay mode
    idFile,      \* conf/agent
    priv, pub,   \* private.pem and public.pem: the number of a pair, or Part
                 \* of it
    pc,          \* where main and the goroutine for the keys are
    id,          \* the id each of them has
    key,         \* the pair being generated, or the public key read
    attempt,     \* which call of GenAndUploadRsaKey of a round this is
    announced,   \* the ids the centre knows from heartbeats
    uploaded,    \* the centre's <<id, public key>>
    torn,        \* history: getAgentId was disturbed
    cut,         \* history: the writing of public.pem was cut short
    ids, keys, crashes, faults

Gor == {"main", "ssh"}
disk == <<idFile, priv, pub>>
centre == <<announced, uploaded>>
history == <<torn, cut>>
bounds == <<ids, keys, crashes, faults>>
vars == <<up, relay, disk, pc, id, key, attempt, centre, history, bounds>>

Init ==
    /\ up = FALSE /\ relay = FALSE
    /\ idFile = Absent /\ priv = Absent /\ pub = Absent
    /\ pc = [g \in Gor |-> "off"] /\ id = [g \in Gor |-> Empty]
    /\ key = 0 /\ attempt = 1
    /\ announced = {} /\ uploaded = {} /\ torn = FALSE /\ cut = FALSE
    /\ ids = 0 /\ keys = 0 /\ crashes = 0 /\ faults = 0

Goto(g, l) == pc' = [pc EXCEPT ![g] = l]

\* main, prepare: relay mode starts the goroutine before main goes on.
AgentStart(r) ==
    /\ ~up
    /\ up' = TRUE /\ relay' = r
    /\ pc' = [g \in Gor |-> IF g = "main" THEN "exists"
                            ELSE IF r THEN "keys" ELSE "off"]
    /\ id' = [g \in Gor |-> Empty] /\ key' = 0 /\ attempt' = 1
    /\ UNCHANGED <<disk, centre, history, bounds>>

Down ==
    /\ up /\ up' = FALSE
    /\ pc' = [g \in Gor |-> "off"]
    /\ id' = [g \in Gor |-> Empty] /\ key' = 0 /\ attempt' = 1
    /\ UNCHANGED <<relay, disk, centre>>

Crash ==
    /\ crashes < MaxCrashes /\ crashes' = crashes + 1
    /\ Down
    /\ torn' = (torn \/ \E g \in Gor : pc[g] = "write")
    /\ cut' = (cut \/ pc["ssh"] = "endPub")
    /\ UNCHANGED <<ids, keys, faults>>

Fault == faults < MaxFaults /\ faults' = faults + 1

-----------------------------------------------------------------------------
(***************************************************************************)
(* getAgentId, called by both goroutines.                                  *)
(***************************************************************************)
Return(g) == Goto(g, IF g = "main" THEN "beat" ELSE "encode")
Within(g) == pc[g] \in {"create", "write"}

\* Mutant of CheckId: an id is made whether or not there is one.
CheckIdNever(g) ==
    /\ pc[g] = "exists"
    /\ id' = [id EXCEPT ![g] = SysId]
    /\ Goto(g, "create")
    /\ torn' = (torn \/ \E h \in Gor \ {g} : Within(h))
    /\ UNCHANGED <<cut, up, relay, disk, key, attempt, centre, bounds>>

\* Exists("conf/agent"); without it findSysUUID, or a random id when
\* dmidecode gives none.
CheckId(g) ==
    /\ pc[g] = "exists"
    /\ \/ /\ idFile # Absent
          /\ Goto(g, "read")
          /\ UNCHANGED <<id, ids>>
       \/ /\ idFile = Absent
          /\ id' = [id EXCEPT ![g] = SysId]
          /\ Goto(g, "create")
          /\ UNCHANGED ids
       \/ /\ idFile = Absent /\ ids < MaxIds
          /\ ids' = ids + 1
          /\ id' = [id EXCEPT ![g] = SysId + ids']
          /\ Goto(g, "create")
    /\ torn' = (torn \/ \E h \in Gor \ {g} : Within(h))
    /\ UNCHANGED <<cut, up, relay, disk, key, attempt, centre, keys, crashes, faults>>

\* os.Create truncates what the other goroutine may have written.
CreateId(g) ==
    /\ pc[g] = "create"
    /\ idFile' = Empty
    /\ Goto(g, "write")
    /\ UNCHANGED <<up, relay, priv, pub, id, key, attempt, centre, history, bounds>>

\* Mutant of WriteId: the id is used and not written.
WriteIdNot(g) ==
    /\ pc[g] = "write"
    /\ Return(g)
    /\ UNCHANGED <<up, relay, disk, id, key, attempt, centre, history, bounds>>

WriteId(g) ==
    /\ pc[g] = "write"
    /\ idFile' = id[g]
    /\ Return(g)
    /\ UNCHANGED <<up, relay, priv, pub, id, key, attempt, centre, history, bounds>>

ReadId(g) ==
    /\ pc[g] = "read"
    /\ id' = [id EXCEPT ![g] = idFile]
    /\ Return(g)
    /\ UNCHANGED <<up, relay, disk, key, attempt, centre, history, bounds>>

\* Hostname, Create, WriteString or ReadFile fails: the error is logged and
\* the empty id is used.
IdFails(g) ==
    /\ pc[g] \in {"create", "write", "read"} /\ Fault
    /\ id' = [id EXCEPT ![g] = Empty]
    /\ torn' = TRUE
    /\ Return(g)
    /\ UNCHANGED <<cut, up, relay, disk, key, attempt, centre, ids, keys, crashes>>

\* heartBeat has its id once and for all; sentHeartBeat announces it every
\* minute.  The Redis connection and its failures are RedisListener's.
Beat ==
    /\ pc["main"] = "beat"
    /\ announced' = announced \cup {id["main"]}
    /\ UNCHANGED <<up, relay, disk, pc, id, key, attempt, uploaded, history, bounds>>

-----------------------------------------------------------------------------
(***************************************************************************)
(* prepareAndUploadSshKey and GenAndUploadRsaKey.                          *)
(***************************************************************************)
Generating ==
    pc["ssh"] \in {"createPriv", "writePriv", "endPriv",
                   "createPub", "writePub", "endPub"}

\* Mutant of CheckKeys: a new pair is made for every attempt.
CheckKeysNever ==
    /\ pc["ssh"] = "keys" /\ keys < MaxKeys
    /\ keys' = keys + 1 /\ key' = keys'
    /\ Goto("ssh", "createPriv")
    /\ UNCHANGED <<up, relay, disk, id, attempt, centre, history, ids, crashes, faults>>

\* Only the private key is looked for.
CheckKeys ==
    /\ pc["ssh"] = "keys"
    /\ \/ /\ priv = Absent /\ keys < MaxKeys
          /\ keys' = keys + 1 /\ key' = keys'
          /\ Goto("ssh", "createPriv")
       \/ /\ priv # Absent
          /\ Goto("ssh", "readPub")
          /\ UNCHANGED <<keys, key>>
    /\ UNCHANGED <<up, relay, disk, id, attempt, centre, history, ids, crashes, faults>>

\* Each file is created empty and then written by pem.Encode, with a call of
\* Write for every few lines.
KeyStep(from, to) ==
    /\ pc["ssh"] = from
    /\ Goto("ssh", to)
    /\ UNCHANGED <<up, relay, idFile, id, key, attempt, centre, history, bounds>>

CreatePriv == KeyStep("createPriv", "writePriv") /\ priv' = Empty /\ UNCHANGED pub
WritePriv == KeyStep("writePriv", "endPriv") /\ priv' = Part(key) /\ UNCHANGED pub
EndPriv == KeyStep("endPriv", "createPub") /\ priv' = key /\ UNCHANGED pub
CreatePub == KeyStep("createPub", "writePub") /\ pub' = Empty /\ UNCHANGED priv
WritePub == KeyStep("writePub", "endPub") /\ pub' = Part(key) /\ UNCHANGED priv
EndPub == KeyStep("endPub", "readPub") /\ pub' = key /\ UNCHANGED priv

\* Mutant of Failed: a second failure ends the goroutine.
FailedTwice ==
    IF attempt = 1
      THEN attempt' = 2 /\ Goto("ssh", "keys")
      ELSE attempt' = 1 /\ Goto("ssh", "end")

\* A failed first call is followed by a second one whose result is not
\* looked at, then by a minute's sleep and the next round.
Failed ==
    IF attempt = 1
      THEN attempt' = 2 /\ Goto("ssh", "keys")
      ELSE attempt' = 1 /\ Goto("ssh", "sleep")

\* MkdirAll, GenerateKey, Create or Encode fails, Encode after any of its
\* writes.
KeyFails ==
    /\ pc["ssh"] = "keys" \/ Generating
    /\ Fault
    /\ Failed
    /\ cut' = (cut \/ pc["ssh"] = "endPub")
    /\ UNCHANGED <<up, relay, disk, id, key, centre, torn, ids, keys, crashes>>

ReadPub ==
    /\ pc["ssh"] = "readPub"
    /\ \/ pub # Absent /\ key' = pub /\ Goto("ssh", "exists") /\ UNCHANGED attempt
       \/ pub = Absent /\ Failed /\ UNCHANGED key
    /\ UNCHANGED <<up, relay, disk, id, centre, history, bounds>>

\* GetBetweenStr cuts off the length of the first line, and takes all the rest
\* when it does not find the last one: what there is of a key is encoded.
Encode ==
    /\ pc["ssh"] = "encode" /\ key # Empty
    /\ Goto("ssh", "post")
    /\ UNCHANGED <<up, relay, disk, id, key, attempt, centre, history, bounds>>

\* Mutant of EncodePanic: an empty public key is uploaded as it is.
EncodeRecovers ==
    /\ pc["ssh"] = "encode" /\ key = Empty
    /\ Goto("ssh", "post")
    /\ UNCHANGED <<up, relay, disk, id, key, attempt, centre, history, bounds>>

\* A file may be shorter than the first line: the slice panics and ends the process.
EncodePanic ==
    /\ pc["ssh"] = "encode" /\ key = Empty
    /\ Down
    /\ torn' = (torn \/ pc["main"] = "write")
    /\ UNCHANGED <<cut, bounds>>

\* HttpPost: the centre stores the key and says so, or its answer is lost.
Post(answered) ==
    /\ pc["ssh"] = "post"
    /\ uploaded' = uploaded \cup {<<id["ssh"], key>>}
    /\ IF answered /\ attempt = 1
         THEN Goto("ssh", "end") /\ UNCHANGED attempt
         ELSE Failed
    /\ UNCHANGED <<up, relay, disk, id, key, announced, history, bounds>>

PostLost ==
    /\ pc["ssh"] = "post"
    /\ Failed
    /\ UNCHANGED <<up, relay, disk, id, key, centre, history, bounds>>

Sleep ==
    /\ pc["ssh"] = "sleep"
    /\ Goto("ssh", "keys")
    /\ UNCHANGED <<up, relay, disk, id, key, attempt, centre, history, bounds>>

-----------------------------------------------------------------------------
GetId(g) == CheckId(g) \/ CreateId(g) \/ WriteId(g) \/ ReadId(g)

Upload ==
    \/ CheckKeys \/ CreatePriv \/ WritePriv \/ EndPriv
    \/ CreatePub \/ WritePub \/ EndPub
    \/ ReadPub \/ Encode \/ EncodePanic \/ Sleep

Next ==
    \/ \E r \in BOOLEAN : AgentStart(r)
    \/ Crash
    \/ \E g \in Gor : GetId(g) \/ IdFails(g)
    \/ Beat
    \/ Upload \/ KeyFails
    \/ \E answered \in BOOLEAN : Post(answered)
    \/ PostLost

Spec == Init /\ [][Next]_vars

\* The goroutines of a running process go on, and an upload that is tried
\* again and again reaches the centre in the end.  Nobody has to start a
\* process that has ended.
FairSpec ==
    /\ Spec
    /\ \A g \in Gor : WF_vars(GetId(g))
    /\ WF_vars(Beat)
    /\ WF_vars(Upload)
    /\ WF_vars(PostLost \/ \E answered \in BOOLEAN : Post(answered))
    /\ SF_vars(\E answered \in BOOLEAN : Post(answered))

-----------------------------------------------------------------------------
(***************************************************************************)
(* Properties.                                                             *)
(***************************************************************************)
Contents == Absent..(SysId + MaxIds)
KeyFile == Absent..Part(MaxKeys)

\* Every variable keeps its type.
TypeOK ==
    /\ up \in BOOLEAN /\ relay \in BOOLEAN /\ torn \in BOOLEAN /\ cut \in BOOLEAN
    /\ idFile \in Contents /\ priv \in KeyFile /\ pub \in KeyFile
    /\ pc \in [Gor -> {"off", "exists", "create", "write", "read", "beat",
                       "keys", "createPriv", "writePriv", "endPriv",
                       "createPub", "writePub", "endPub", "readPub", "encode",
                       "post", "sleep", "end"}]
    /\ id \in [Gor -> Empty..(SysId + MaxIds)]
    /\ key \in 0..Part(MaxKeys) /\ attempt \in {1, 2}
    /\ announced \subseteq Contents /\ uploaded \subseteq Contents \X KeyFile
    /\ ids \in 0..MaxIds /\ keys \in 0..MaxKeys
    /\ crashes \in 0..MaxCrashes /\ faults \in 0..MaxFaults

\* What decept-proxy and decept-bait compare a strategy's id with.
QueryEngineId == idFile

\* Across restarts and in both modes the agent announces itself and uploads
\* its key under the very id its modules accept strategies for, unless two
\* calls of getAgentId overlapped, one of them failed, or the process ended
\* between Create and WriteString.
OneIdentity ==
    ~torn => announced \cup {u[1] : u \in uploaded} \subseteq {QueryEngineId}

IdSettled == idFile # Absent /\ \A g \in Gor : ~Within(g)

\* Once conf/agent exists and nobody is writing it, nobody will write it and
\* it never changes again: a good id is kept for ever, and so is an empty
\* file (getAgentId only asks whether the file exists).
IdentitySticks == [][IdSettled => IdSettled' /\ idFile' = idFile]_vars

\* The centre has at most one public key, the one in public.pem, whatever
\* uploads were repeated; it belongs to the private key on disk, unless a kill
\* or an error cut the writing of public.pem short: then what was written of
\* it is uploaded (GetBetweenStr) and stays the agent's key.
KeysMatch ==
    \A u \in uploaded : u[2] = pub /\ (u[2] = priv \/ (cut /\ u[2] = Part(priv)))

KeysSettled == priv # Absent /\ ~Generating

\* A pair that was left incomplete stays incomplete: once private.pem exists
\* and no generation is under way, none is begun and neither file changes
\* (GenAndUploadRsaKey only looks for the private key).
KeysStick ==
    [][KeysSettled => KeysSettled' /\ priv' = priv /\ pub' = pub]_vars

\* The pair can no longer be uploaded: there is no public key, or it is so
\* short that it ends the process at every start in relay mode.
KeysLost == KeysSettled /\ pub \in {Absent, Empty}

\* An agent that keeps running in relay mode gets what public.pem holds to the
\* centre, however many uploads fail, unless nothing can be taken from it.
KeyArrives == <>[](up /\ relay => uploaded # {} \/ KeysLost)
=============================================================================
