-------------------------------- MODULE EnvProofs --------------------------------
(***************************************************************************)
(* Safety of ProjectEnv for every set of keys, credentials, manifests and  *)
(* requests, and for every bound.                                          *)
(***************************************************************************)
EXTENDS ProjectEnv, TLAPS

--------------------------------------------------------------------------------
(***************************************************************************)
(* Type correctness.  Every place belongs to one kind of actor, which has  *)
(* what it needs there in hand.                                            *)
(***************************************************************************)

HoldsAt(a, at, j) ==
    /\ at \in {"check", "set", "drop"} =>
          a \in Requests /\ j.key \in Keys /\ j.op \in {"put", "delete"}
    /\ at = "set" \/ (at = "check" /\ j.op = "put") => j.val \in Value /\ j.val.by = "user"
    /\ at \in {"load", "get", "putSecret"} => a # Rekey /\ j.base \in Manifests
    /\ at = "load" /\ j.op = "deploy" => a = Tick
    /\ at \in {"provision", "store"} => a = Tick /\ j.base \in Manifests
    /\ at \in {"scan", "commit", "verify"} => a = Rekey
    /\ at = "commit" => \A k \in j.left : j.env[k] \in Value

ProcOK ==
    /\ pc \in [Actors -> PC] /\ job \in [Actors -> Job]
    /\ \A a \in Actors : HoldsAt(a, pc[a], job[a])
    /\ seen \in [Actors -> {"none", "absent", "current", "old"}]

RowsOK ==
    /\ row \in [Keys -> Row \union {None}] /\ last \in Env
    /\ raced \in SUBSET Keys /\ late \in SUBSET Keys /\ usurped \in SUBSET Keys

CountOK ==
    /\ account \in Nat /\ ops \in 0..MaxOps /\ account <= ops
    /\ pc[Tick] \in {"load", "provision"} => account < ops

OtherOK ==
    /\ secret \in Content \union {None}
    /\ kek \in {"old", "new"} /\ cut \in BOOLEAN
    /\ manifest \in Manifests \union {None} /\ verdict \in {"none", "ok", "failed"}
    /\ alone \in Actors \union {None} /\ faults \in 0..MaxFaults

TypeInv == ProcOK /\ RowsOK /\ CountOK /\ OtherOK

LEMMA TypeInvOK == TypeInv => TypeOK
BY EnvAssumption DEF TypeInv, ProcOK, RowsOK, CountOK, OtherOK, TypeOK

LEMMA ActorsApart ==
    /\ Tick \in Actors /\ Rekey \in Actors /\ Tick # Rekey
    /\ Requests \subseteq Actors /\ Tick \notin Requests /\ Rekey \notin Requests
    /\ None \notin Actors /\ None \notin Keys /\ None \notin Manifests
BY EnvAssumption DEF Actors

LEMMA NoJobType == NoJob \in Job /\ NoJob.op = "none"
BY DEF NoJob, Job, Op, Env, Empty

LEMMA ValuesType == RowsOK => Values \in Env
BY DEF RowsOK, Values, Held, Env, Row

LEMMA InitType == Init => TypeInv
<1> SUFFICES ASSUME Init PROVE TypeInv
    OBVIOUS
<1>1. ProcOK
    BY NoJobType DEF Init, ProcOK, PC, HoldsAt
<1>2. RowsOK
    BY EnvAssumption DEF Init, RowsOK, Row, Env, Value, Seal, Legate
<1>3. CountOK
    BY EnvAssumption, ActorsApart DEF Init, CountOK
<1>4. OtherOK
    <2>1. secret = None /\ kek = "old" /\ manifest = None /\ verdict = "none" /\ alone = None
          /\ faults = 0
        BY DEF Init
    <2>2. cut \in BOOLEAN
        BY Zenon DEF Init
    <2> QED
        BY <2>1, <2>2, EnvAssumption DEF OtherOK
<1> QED
    BY <1>1, <1>2, <1>3, <1>4 DEF TypeInv

\* A step of one actor: to a known place, with what it needs there.
LEMMA MovesType ==
    ASSUME ProcOK, NEW a \in Actors, NEW at \in PC, NEW j \in Job, HoldsAt(a, at, j),
           pc' = [pc EXCEPT ![a] = at], job' = [job EXCEPT ![a] = j],
           seen' \in [Actors -> {"none", "absent", "current", "old"}]
    PROVE  ProcOK'
<1>1. ASSUME NEW b \in Actors PROVE HoldsAt(b, pc'[b], job'[b])
    <2>1. CASE b = a
        BY <2>1 DEF ProcOK
    <2>2. CASE b # a
        BY <2>2 DEF ProcOK
    <2> QED
        BY <2>1, <2>2
<1>2. ASSUME NEW b \in Actors PROVE HoldsAt(b, pc[b], job[b])'
    BY <1>1 DEF HoldsAt
<1>3. pc' \in [Actors -> PC] /\ job' \in [Actors -> Job]
    BY DEF ProcOK
<1> QED
    BY <1>2, <1>3 DEF ProcOK

LEMMA SetEnvType ==
    ASSUME TypeInv, NEW k \in Keys, NEW v \in Value, NEW s \in BOOLEAN, SetEnv(k, v, s)
    PROVE  RowsOK'
<1>0. RowsOK /\ kek \in Seal
    BY DEF TypeInv, OtherOK, Seal
<1> DEFINE r == [val |-> v, seal |-> kek, system |-> s]
<1>1. r \in Row
    BY <1>0 DEF Row
<1> HIDE DEF r
<1>2. row' = [row EXCEPT ![k] = r]
    BY DEF SetEnv, r
<1>3. row' \in [Keys -> Row \union {None}]
    BY <1>0, <1>1, <1>2 DEF RowsOK
<1>4. last' \in Env
    BY <1>0 DEF SetEnv, RowsOK, Env
<1>5. raced' \in SUBSET Keys /\ late' \in SUBSET Keys /\ usurped' \in SUBSET Keys
    BY <1>0 DEF SetEnv, RowsOK
<1> QED
    BY <1>3, <1>4, <1>5 DEF RowsOK

LEMMA BeginsType ==
    ASSUME TypeInv, NEW a \in Actors, NEW at \in PC, NEW j \in Job, Begins(a, at, j),
           HoldsAt(a, at, j), verdict' \in {"none", "ok", "failed"}
    PROVE  TypeInv'
<1>1. ProcOK'
    BY MovesType DEF TypeInv, Begins, ProcOK
<1>2. RowsOK'
    BY DEF TypeInv, RowsOK, Begins, storeVars
<1>3. CountOK'
    BY EnvAssumption, ActorsApart DEF TypeInv, CountOK, ProcOK, Begins
<1>4. OtherOK'
    BY DEF TypeInv, OtherOK, Begins
<1> QED
    BY <1>1, <1>2, <1>3, <1>4 DEF TypeInv

LEMMA BeginType ==
    ASSUME TypeInv, Begin
    PROVE  TypeInv'
<1> USE NoJobType, ActorsApart
<1>0. verdict \in {"none", "ok", "failed"} /\ ops \in 0..MaxOps
    BY DEF TypeInv, OtherOK, CountOK
<1>1. ASSUME NEW r \in Requests, NEW k \in Keys, Put(r, k) PROVE TypeInv'
    <2> DEFINE v == [by |-> "user", nr |-> ops + 1]
               j == [NoJob EXCEPT !.op = "put", !.key = k, !.val = v]
    <2>1. v \in Value /\ v.by = "user"
        BY <1>0, <1>1, EnvAssumption DEF Put, Begins, Value
    <2> HIDE DEF v
    <2>2. j \in Job /\ j.op = "put" /\ j.key = k /\ j.val = v
        BY <2>1 DEF Job, NoJob, Op
    <2> HIDE DEF j
    <2>3. Begins(r, "check", j) /\ verdict' = verdict
        BY <1>1 DEF Put, j, v
    <2>4. HoldsAt(r, "check", j)
        BY <2>1, <2>2 DEF HoldsAt
    <2>5. r \in Actors /\ "check" \in PC
        BY DEF PC
    <2> QED
        BY <1>0, <2>2, <2>3, <2>4, <2>5, BeginsType
<1>2. ASSUME NEW r \in Requests, NEW k \in Keys, Delete(r, k) PROVE TypeInv'
    <2> DEFINE j == [NoJob EXCEPT !.op = "delete", !.key = k]
    <2>2. j \in Job /\ j.op = "delete" /\ j.key = k
        BY DEF Job, NoJob, Op
    <2> HIDE DEF j
    <2>3. Begins(r, "check", j) /\ verdict' = verdict
        BY <1>2 DEF Delete, j
    <2>4. HoldsAt(r, "check", j) /\ r \in Actors /\ "check" \in PC
        BY <2>2 DEF HoldsAt, PC
    <2> QED
        BY <1>0, <2>2, <2>3, <2>4, BeginsType
<1>3. ASSUME NEW m \in Manifests, Deploy(m) PROVE TypeInv'
    <2> DEFINE j == [NoJob EXCEPT !.op = "deploy", !.base = m]
    <2>2. j \in Job /\ j.op = "deploy" /\ j.base = m
        BY DEF Job, NoJob, Op
    <2> HIDE DEF j
    <2>3. Begins(Tick, "load", j) /\ verdict' = verdict
        BY <1>3 DEF Deploy, j
    <2>4. HoldsAt(Tick, "load", j) /\ "load" \in PC
        BY <2>2 DEF HoldsAt, PC
    <2> QED
        BY <1>0, <2>2, <2>3, <2>4, BeginsType
<1>4. CASE RunRekey
    <2> DEFINE j == [NoJob EXCEPT !.op = "rekey"]
    <2>2. j \in Job /\ j.op = "rekey"
        BY DEF Job, NoJob, Op
    <2> HIDE DEF j
    <2>3. Begins(Rekey, "scan", j) /\ verdict' = "none"
        BY <1>4 DEF RunRekey, j
    <2>4. HoldsAt(Rekey, "scan", j) /\ "scan" \in PC
        BY <2>2 DEF HoldsAt, PC
    <2> QED
        BY <2>2, <2>3, <2>4, BeginsType
<1> QED
    BY <1>1, <1>2, <1>3, <1>4 DEF Begin

\* What a step leaves alone when it only moves its actor.
LEMMA GoesType ==
    ASSUME TypeInv, NEW a \in Actors, NEW at \in PC, NEW j \in Job, Goes(a, at, j),
           HoldsAt(a, at, j), seen' = seen, account' = account,
           at \in {"load", "provision"} => a # Tick \/ pc[Tick] \in {"load", "provision"}
    PROVE  ProcOK' /\ CountOK'
<1>1. ProcOK'
    BY MovesType DEF TypeInv, Goes, Goto, ProcOK
<1>2. CountOK'
    BY ActorsApart DEF TypeInv, CountOK, ProcOK, Goes, Goto, budget
<1> QED
    BY <1>1, <1>2

LEMMA EndsType ==
    ASSUME TypeInv, NEW a \in Actors, Ends(a), seen' = seen, account' = account
    PROVE  ProcOK' /\ CountOK'
BY GoesType, NoJobType DEF Ends, PC, HoldsAt

LEMMA FailsType ==
    ASSUME TypeInv, NEW a \in Actors, Fails(a), faults' \in 0..MaxFaults,
           UNCHANGED <<storeVars, secret, kek, account, manifest>>
    PROVE  TypeInv'
<1>1. ProcOK'
    <2>1. seen' \in [Actors -> {"none", "absent", "current", "old"}]
        BY DEF Fails, TypeInv, ProcOK
    <2>2. HoldsAt(a, "idle", NoJob) /\ "idle" \in PC
        BY DEF HoldsAt, PC
    <2> QED
        BY <2>1, <2>2, NoJobType, MovesType DEF Fails, Goto, TypeInv
<1>2. CountOK'
    BY ActorsApart DEF TypeInv, CountOK, ProcOK, Fails, Goto
<1>3. RowsOK'
    BY DEF TypeInv, RowsOK, storeVars
<1>4. OtherOK'
    <2>1. cut' \in BOOLEAN
        BY Zenon DEF Fails
    <2>2. alone' \in Actors \union {None} /\ verdict' \in {"none", "ok", "failed"}
        BY DEF Fails, TypeInv, OtherOK
    <2> QED
        BY <2>1, <2>2 DEF TypeInv, OtherOK
<1> QED
    BY <1>1, <1>2, <1>3, <1>4 DEF TypeInv

LEMMA RequestType ==
    ASSUME TypeInv, NEW r \in Requests, Check(r) \/ Set(r) \/ Drop(r)
    PROVE  TypeInv'
<1>0. /\ job[r] \in Job /\ HoldsAt(r, pc[r], job[r]) /\ r \in Actors /\ r # Tick /\ r # Rekey
      /\ ProcOK /\ RowsOK /\ CountOK /\ OtherOK
    BY ActorsApart DEF TypeInv, ProcOK
<1>1. CASE Check(r)
    <2>1. ProcOK' /\ CountOK'
        <3>1. CASE Ends(r)
            BY <1>0, <1>1, <3>1, EndsType DEF Check
        <3>2. CASE Goes(r, IF job[r].op = "put" THEN "set" ELSE "drop", job[r])
            <4> DEFINE at == IF job[r].op = "put" THEN "set" ELSE "drop"
            <4>1. at \in PC /\ HoldsAt(r, at, job[r]) /\ at \notin {"load", "provision"}
                BY <1>0, <1>1 DEF Check, HoldsAt, PC
            <4>2. Goes(r, at, job[r]) /\ seen' = seen /\ account' = account
                BY <1>1, <3>2 DEF Check
            <4> HIDE DEF at
            <4> QED
                BY <1>0, <4>1, <4>2, GoesType
        <3> QED
            BY <1>1, <3>1, <3>2 DEF Check
    <2> QED
        BY <1>0, <1>1, <2>1
           DEF Check, Ends, Goes, TypeInv, RowsOK, OtherOK, storeVars, budget
<1>2. CASE Set(r)
    <2> DEFINE j == [job[r] EXCEPT !.val = None, !.base = Created]
    <2>1. j \in Job /\ j.base = Created
        BY <1>0, EnvAssumption DEF Job
    <2> HIDE DEF j
    <2>2. HoldsAt(r, "load", j) /\ "load" \in PC
        <3>1. j.op = job[r].op /\ job[r].op \in {"put", "delete"}
            BY <1>0, <1>2 DEF Set, HoldsAt, Job, j
        <3> QED
            BY <1>0, <2>1, <3>1, EnvAssumption DEF HoldsAt, PC
    <2>3. ProcOK' /\ CountOK'
        BY <1>0, <1>2, <2>1, <2>2, GoesType DEF Set, j
    <2>4. job[r].key \in Keys /\ job[r].val \in Value
        BY <1>0, <1>2 DEF Set, HoldsAt
    <2>5. RowsOK'
        BY <1>2, <2>4, SetEnvType DEF Set
    <2> QED
        BY <1>0, <1>2, <2>3, <2>5 DEF Set, Goes, TypeInv, OtherOK, budget
<1>3. CASE Drop(r)
    <2> DEFINE j == [job[r] EXCEPT !.base = Created]
    <2>1. j \in Job /\ j.base = Created
        BY <1>0, EnvAssumption DEF Job
    <2> HIDE DEF j
    <2>2. HoldsAt(r, "load", j) /\ "load" \in PC
        <3>1. j.op = job[r].op /\ job[r].op \in {"put", "delete"}
            BY <1>0, <1>3 DEF Drop, HoldsAt, Job, j
        <3> QED
            BY <1>0, <2>1, <3>1, EnvAssumption DEF HoldsAt, PC
    <2>3. ProcOK' /\ CountOK'
        BY <1>0, <1>3, <2>1, <2>2, GoesType DEF Drop, j
    <2>4. job[r].key \in Keys
        BY <1>0, <1>3 DEF Drop, HoldsAt
    <2>5. RowsOK'
        BY <1>0, <1>3, <2>4 DEF Drop, RowsOK, Env
    <2> QED
        BY <1>0, <1>3, <2>3, <2>5 DEF Drop, Goes, TypeInv, OtherOK, budget
<1> QED
    BY <1>1, <1>2, <1>3

LEMMA SyncType ==
    ASSUME TypeInv, NEW a \in Requests \union {Tick}, Load(a) \/ GetSecret(a) \/ PutSecret(a)
    PROVE  TypeInv'
<1>0. /\ job[a] \in Job /\ HoldsAt(a, pc[a], job[a]) /\ a \in Actors /\ a # Rekey
      /\ ProcOK /\ RowsOK /\ CountOK /\ OtherOK /\ faults \in 0..MaxFaults
    BY ActorsApart DEF TypeInv, ProcOK, OtherOK
<1>1. CASE Load(a)
    <2>1. CASE ~Readable
        BY <1>0, <1>1, <2>1, FailsType DEF Load
    <2>2. CASE Readable
        <3> DEFINE at == IF /\ job[a].op = "deploy" /\ job[a].base \in Needy
                            /\ Marker \notin Held
                         THEN "provision" ELSE "get"
                   j == [job[a] EXCEPT !.env = Values]
        <3>1. j \in Job /\ j.op = job[a].op /\ j.base = job[a].base
            BY <1>0, ValuesType DEF Job
        <3>2. at \in PC /\ HoldsAt(a, at, j)
            BY <1>0, <1>1, <3>1 DEF Load, HoldsAt, PC
        <3>3. Goes(a, at, j) /\ pc[a] = "load"
            BY <1>1, <2>2 DEF Load
        <3>4. at \in {"load", "provision"} => a # Tick \/ pc[Tick] \in {"load", "provision"}
            BY <3>3
        <3>5. UNCHANGED <<storeVars, seen, verdict, secret, kek, account, manifest>>
            BY <1>1, <2>2 DEF Load
        <3> HIDE DEF at, j
        <3>6. ProcOK' /\ CountOK'
            BY <1>0, <3>1, <3>2, <3>3, <3>4, <3>5, GoesType
        <3> QED
            BY <1>0, <3>3, <3>5, <3>6 DEF Goes, TypeInv, RowsOK, OtherOK, storeVars, budget
    <2> QED
        BY <2>1, <2>2
<1>2. CASE GetSecret(a)
    <2>1. HoldsAt(a, "putSecret", job[a]) /\ "putSecret" \in PC
        BY <1>0, <1>2 DEF GetSecret, HoldsAt, PC
    <2>2. seen' \in [Actors -> {"none", "absent", "current", "old"}]
        BY <1>0, <1>2 DEF GetSecret, ProcOK
    <2>3. ProcOK'
        BY <1>0, <1>2, <2>1, <2>2, MovesType DEF GetSecret, Goes, Goto
    <2>4. CountOK'
        BY <1>0, <1>2 DEF GetSecret, Goes, Goto, CountOK, ProcOK, budget
    <2> QED
        BY <1>0, <1>2, <2>3, <2>4 DEF GetSecret, Goes, TypeInv, RowsOK, OtherOK, storeVars, budget
<1>3. CASE PutSecret(a)
    <2> DEFINE deploys == job[a].op = "deploy"
               ok  == Fresh(a) /\ (secret = None => deploys)
               new == [base |-> job[a].base, env |-> job[a].env]
    <2>1. CASE ~ok
        <3>1. Fails(a) /\ UNCHANGED <<secret, manifest, faults, storeVars, kek, account>>
            BY <1>3, <2>1 DEF PutSecret
        <3> QED
            BY <1>0, <3>1, FailsType
    <2>2. CASE ok
        <3>1. /\ secret' = new /\ manifest' = (IF deploys THEN job[a].base ELSE manifest)
              /\ seen' = [b \in Actors |-> IF b = a THEN "none"
                                           ELSE IF seen[b] = "current" /\ new # secret
                                                THEN "old" ELSE seen[b]]
              /\ Ends(a) /\ UNCHANGED <<verdict, storeVars, kek, account>>
            BY <1>3, <2>2 DEF PutSecret
        <3>2. new \in Content /\ job[a].base \in Manifests
            BY <1>0, <1>3 DEF PutSecret, HoldsAt, Job, Content
        <3> HIDE DEF new, deploys
        <3>3. seen' \in [Actors -> {"none", "absent", "current", "old"}]
            BY <1>0, <3>1 DEF ProcOK
        <3>4. HoldsAt(a, "idle", NoJob) /\ "idle" \in PC
            BY DEF HoldsAt, PC
        <3>5. ProcOK'
            BY <1>0, <3>1, <3>3, <3>4, NoJobType, MovesType DEF Ends, Goes, Goto
        <3>6. CountOK'
            BY <1>0, <3>1, ActorsApart DEF Ends, Goes, Goto, CountOK, ProcOK, budget
        <3>7. OtherOK'
            BY <1>0, <3>1, <3>2 DEF Ends, Goes, OtherOK, budget
        <3> QED
            BY <1>0, <3>1, <3>5, <3>6, <3>7 DEF TypeInv, RowsOK, storeVars
    <2> QED
        BY <2>1, <2>2
<1> QED
    BY <1>1, <1>2, <1>3

LEMMA DeployType ==
    ASSUME TypeInv, Provision \/ Store
    PROVE  TypeInv'
<1>0. /\ job[Tick] \in Job /\ HoldsAt(Tick, pc[Tick], job[Tick])
      /\ ProcOK /\ RowsOK /\ CountOK /\ OtherOK
    BY ActorsApart DEF TypeInv, ProcOK
<1> USE ActorsApart
<1>1. CASE Provision
    <2> DEFINE j == [job[Tick] EXCEPT !.left = Creds]
    <2>1. j \in Job /\ j.base = job[Tick].base
        BY <1>0, EnvAssumption DEF Job
    <2> HIDE DEF j
    <2>2. HoldsAt(Tick, "store", j) /\ "store" \in PC
        BY <1>0, <1>1, <2>1 DEF Provision, HoldsAt, PC
    <2>3. ProcOK'
        BY <1>0, <1>1, <2>1, <2>2, MovesType DEF Provision, Goes, Goto, j, ProcOK
    <2>4. CountOK'
        BY <1>0, <1>1 DEF Provision, Goes, Goto, CountOK, ProcOK, budget
    <2> QED
        BY <1>0, <1>1, <2>3, <2>4 DEF Provision, Goes, TypeInv, RowsOK, OtherOK, storeVars, budget
<1>2. CASE Store
    <2> DEFINE v == [by |-> "platform", nr |-> account]
    <2>1. v \in Value
        BY <1>0, EnvAssumption DEF CountOK, Value
    <2> HIDE DEF v
    <2>2. PICK k \in job[Tick].left :
             /\ SetEnv(k, v, TRUE)
             /\ Goes(Tick, IF job[Tick].left \ {k} = {} THEN "get" ELSE "store",
                     [job[Tick] EXCEPT !.left = job[Tick].left \ {k}, !.env[k] = v])
        BY <1>2 DEF Store, v
    <2> DEFINE at == IF job[Tick].left \ {k} = {} THEN "get" ELSE "store"
               j  == [job[Tick] EXCEPT !.left = job[Tick].left \ {k}, !.env[k] = v]
    <2>3. k \in Keys
        BY <1>0 DEF Job
    <2>4. j \in Job /\ j.base = job[Tick].base
        BY <1>0, <2>1, <2>3 DEF Job, Env
    <2>5. HoldsAt(Tick, at, j) /\ at \in PC /\ at \notin {"load", "provision"}
        BY <1>0, <1>2, <2>4 DEF Store, HoldsAt, PC
    <2>6. Goes(Tick, at, j)
        BY <2>2
    <2> HIDE DEF at, j
    <2>7. ProcOK' /\ CountOK'
        BY <1>2, <2>4, <2>5, <2>6, GoesType DEF Store
    <2>8. RowsOK'
        BY <2>1, <2>2, <2>3, SetEnvType
    <2> QED
        BY <1>0, <1>2, <2>6, <2>7, <2>8 DEF Store, Goes, TypeInv, OtherOK, budget
<1> QED
    BY <1>1, <1>2

LEMMA RekeyType ==
    ASSUME TypeInv, Scan \/ Commit \/ Verify
    PROVE  TypeInv'
<1>0. /\ job[Rekey] \in Job /\ HoldsAt(Rekey, pc[Rekey], job[Rekey])
      /\ ProcOK /\ RowsOK /\ CountOK /\ OtherOK
    BY ActorsApart DEF TypeInv, ProcOK
<1> USE ActorsApart
<1>1. CASE Scan
    <2> DEFINE rest == {k \in Held : row[k].seal # "new"}
               stop == rest = {} \/ \E k \in rest : ~Sealable(k)
               j == [job[Rekey] EXCEPT !.left = rest, !.env = Values]
    <2>1. j \in Job /\ j.left = rest /\ j.env = Values
        BY <1>0, ValuesType DEF Job, Held
    <2>2. \A k \in rest : Values[k] \in Value
        BY <1>0 DEF Held, Values, RowsOK, Row
    <2>3. HoldsAt(Rekey, "commit", j) /\ "commit" \in PC
        BY <1>0, <1>1, <2>1, <2>2 DEF HoldsAt, PC
    <2>4. ProcOK' /\ CountOK'
        <3>1. CASE stop
            BY <1>0, <1>1, <3>1, EndsType DEF Scan
        <3>2. CASE ~stop
            <4>1. Goes(Rekey, "commit", j) /\ seen' = seen /\ account' = account
                BY <1>1, <3>2 DEF Scan
            <4> HIDE DEF j, stop
            <4> QED
                BY <1>0, <2>1, <2>3, <4>1, GoesType
        <3> QED
            BY <3>1, <3>2
    <2>5. verdict' \in {"none", "ok", "failed"} /\ late' \in SUBSET Keys
        BY <1>0, <1>1 DEF Scan, OtherOK, RowsOK
    <2>6. UNCHANGED <<row, last, raced, usurped, secret, kek, account, manifest, cut, alone, faults>>
        BY <1>1 DEF Scan, Ends, Goes, budget
    <2> QED
        BY <1>0, <2>4, <2>5, <2>6 DEF TypeInv, RowsOK, OtherOK
<1>2. CASE Commit
    <2> DEFINE j == [job[Rekey] EXCEPT !.left = {}, !.env = Empty]
    <2>1. j \in Job
        BY <1>0 DEF Job, Env, Empty
    <2> HIDE DEF j
    <2>2. HoldsAt(Rekey, "verify", j) /\ "verify" \in PC
        BY DEF HoldsAt, PC
    <2>3. ProcOK' /\ CountOK'
        BY <1>0, <1>2, <2>1, <2>2, GoesType DEF Commit, j
    <2>4. ASSUME NEW k \in Keys, k \in job[Rekey].left, k \in Held
          PROVE  [row[k] EXCEPT !.val = job[Rekey].env[k], !.seal = "new"] \in Row
        <3>1. job[Rekey].env[k] \in Value /\ row[k] \in Row
            BY <1>0, <1>2, <2>4 DEF Commit, HoldsAt, Job, Env, Held, RowsOK
        <3> QED
            BY <3>1 DEF Row, Seal
    <2>5. row' \in [Keys -> Row \union {None}]
        BY <1>0, <1>2, <2>4 DEF Commit, RowsOK
    <2> QED
        BY <1>0, <1>2, <2>3, <2>5 DEF Commit, Goes, TypeInv, RowsOK, OtherOK, budget
<1>3. CASE Verify
    <2>1. ProcOK' /\ CountOK'
        BY <1>0, <1>3, EndsType DEF Verify
    <2>2. verdict' \in {"none", "ok", "failed"} /\ late' \in SUBSET Keys
        BY <1>0, <1>3 DEF Verify, RowsOK
    <2> QED
        BY <1>0, <1>3, <2>1, <2>2 DEF Verify, Ends, Goes, TypeInv, RowsOK, OtherOK, budget
<1> QED
    BY <1>1, <1>2, <1>3

LEMMA StartsType ==
    ASSUME TypeInv, NEW key \in {"old", "new"}, StartsWith(key), faults' \in 0..MaxFaults
    PROVE  TypeInv'
<1>0. ProcOK /\ RowsOK /\ CountOK /\ OtherOK
    BY DEF TypeInv
<1>1. ProcOK'
    <2>1. pc' \in [Actors -> PC] /\ job' \in [Actors -> Job]
          /\ seen' \in [Actors -> {"none", "absent", "current", "old"}]
        BY <1>0, NoJobType DEF StartsWith, ProcOK, PC
    <2>2. ASSUME NEW a \in Actors PROVE HoldsAt(a, pc'[a], job'[a])
        BY <1>0 DEF StartsWith, ProcOK, HoldsAt
    <2>3. ASSUME NEW a \in Actors PROVE HoldsAt(a, pc[a], job[a])'
        BY <2>2 DEF HoldsAt
    <2> QED
        BY <2>1, <2>3 DEF ProcOK
<1>2. CountOK'
    BY <1>0, ActorsApart DEF StartsWith, CountOK, ProcOK
<1>3. OtherOK'
    <2>1. cut' \in BOOLEAN
        BY Zenon DEF StartsWith
    <2>2. alone' \in Actors \union {None}
        BY <1>0, ActorsApart DEF StartsWith
    <2> QED
        BY <1>0, <2>1, <2>2 DEF StartsWith, OtherOK
<1> QED
    BY <1>0, <1>1, <1>2, <1>3 DEF TypeInv, RowsOK, StartsWith, storeVars

LEMMA FaultType ==
    ASSUME TypeInv, (\E a \in Actors : CallFails(a)) \/ Restart \/ Rotate
    PROVE  TypeInv'
<1>0. /\ faults \in 0..MaxFaults /\ kek \in {"old", "new"}
      /\ faults < MaxFaults => faults + 1 \in 0..MaxFaults
    BY EnvAssumption DEF TypeInv, OtherOK
<1>1. ASSUME NEW a \in Actors, CallFails(a) PROVE TypeInv'
    BY <1>0, <1>1, FailsType DEF CallFails
<1>2. CASE Restart \/ Rotate
    BY <1>0, <1>2, StartsType DEF Restart, Rotate
<1> QED
    BY <1>1, <1>2

LEMMA NextType == TypeInv /\ [Next]_vars => TypeInv'
<1> SUFFICES ASSUME TypeInv, [Next]_vars PROVE TypeInv'
    OBVIOUS
<1>1. CASE UNCHANGED vars
    BY <1>1 DEF vars, storeVars, procVars, budget, TypeInv, ProcOK, HoldsAt, RowsOK, CountOK, OtherOK
<1>2. CASE Next
    BY <1>2, BeginType, RequestType, SyncType, DeployType, RekeyType, FaultType DEF Next, Step
<1> QED
    BY <1>1, <1>2

LEMMA TypeInvAlways == Spec => []TypeInv
BY InitType, NextType, PTL DEF Spec

\* Every reachable state has its types: what an actor holds fits the place where
\* it is.
THEOREM EnvTypeCorrect == Spec => []TypeOK
BY TypeInvAlways, TypeInvOK, PTL

--------------------------------------------------------------------------------
(***************************************************************************)
(* The rows and the tool: what is left alone by every step but a few.      *)
(***************************************************************************)

Quiet ==
    /\ UNCHANGED <<row, last, raced, late, usurped, kek, verdict>>
    /\ pc'[Rekey] = pc[Rekey] /\ job'[Rekey] = job[Rekey]

\* What a step of another actor does not touch.
LEMMA ToolStays ==
    ASSUME ProcOK, NEW a \in Actors \ {Rekey}, NEW at, NEW j,
           pc' = [pc EXCEPT ![a] = at], job' = [job EXCEPT ![a] = j]
    PROVE  pc'[Rekey] = pc[Rekey] /\ job'[Rekey] = job[Rekey]
BY ActorsApart DEF ProcOK

LEMMA Kinds ==
    ASSUME TypeInv, Next
    PROVE  \/ \E r \in Requests : Set(r) \/ Drop(r)
           \/ Store \/ Commit \/ Scan \/ Verify \/ Rotate \/ RunRekey \/ CallFails(Rekey)
           \/ Quiet
<1>0. ProcOK
    BY DEF TypeInv
<1> USE ActorsApart, <1>0
<1>1. ASSUME NEW r \in Requests, NEW k \in Keys, Put(r, k) \/ Delete(r, k) PROVE Quiet
    BY <1>1, ToolStays DEF Put, Delete, Begins, Quiet, storeVars
<1>2. ASSUME NEW m \in Manifests, Deploy(m) PROVE Quiet
    BY <1>2, ToolStays DEF Deploy, Begins, Quiet, storeVars
<1>3. ASSUME NEW r \in Requests, Check(r) PROVE Quiet
    BY <1>3, ToolStays DEF Check, Ends, Goes, Goto, Quiet, storeVars
<1>4. ASSUME NEW a \in Requests \union {Tick}, Load(a) \/ GetSecret(a) \/ PutSecret(a) PROVE Quiet
    <2>1. PICK at, j : pc' = [pc EXCEPT ![a] = at] /\ job' = [job EXCEPT ![a] = j]
        BY <1>4 DEF Load, GetSecret, PutSecret, Ends, Goes, Fails, Goto
    <2>2. pc'[Rekey] = pc[Rekey] /\ job'[Rekey] = job[Rekey]
        BY <2>1, ToolStays
    <2>3. UNCHANGED <<storeVars, kek, verdict>>
        BY <1>4 DEF Load, GetSecret, PutSecret, Fails
    <2> QED
        BY <2>2, <2>3 DEF Quiet, storeVars
<1>5. CASE Provision
    BY <1>5, ToolStays DEF Provision, Goes, Goto, Quiet, storeVars
<1>6. ASSUME NEW a \in Actors \ {Rekey}, CallFails(a) PROVE Quiet
    BY <1>6, ToolStays DEF CallFails, Fails, Goto, Quiet, storeVars
<1>7. CASE Restart
    BY <1>7 DEF Restart, StartsWith, Quiet, storeVars
<1> QED
    BY <1>1, <1>2, <1>3, <1>4, <1>5, <1>6, <1>7 DEF Next, Begin, Step

LEMMA StoreSets ==
    ASSUME TypeInv, Store
    PROVE  \E k \in Keys, v \in Value : SetEnv(k, v, TRUE)
<1> DEFINE v == [by |-> "platform", nr |-> account]
<1>1. v \in Value
    BY EnvAssumption DEF TypeInv, CountOK, Value
<1> HIDE DEF v
<1>2. PICK k \in job[Tick].left : SetEnv(k, v, TRUE)
    BY DEF Store, v
<1>3. k \in Keys
    BY ActorsApart DEF TypeInv, ProcOK, Job
<1> QED
    BY <1>1, <1>2, <1>3

\* Every SetProjectEnv, by a request or by a deployment, leaves the tool alone.
LEMMA SetsRow ==
    ASSUME TypeInv, Store \/ \E r \in Requests : Set(r)
    PROVE  /\ \E k \in Keys, v \in Value, s \in BOOLEAN : SetEnv(k, v, s)
           /\ UNCHANGED <<kek, verdict>> /\ pc'[Rekey] = pc[Rekey] /\ job'[Rekey] = job[Rekey]
<1>0. ProcOK
    BY DEF TypeInv
<1>1. CASE Store
    <2>1. PICK at, j : pc' = [pc EXCEPT ![Tick] = at] /\ job' = [job EXCEPT ![Tick] = j]
        BY <1>1 DEF Store, Goes, Goto
    <2>2. pc'[Rekey] = pc[Rekey] /\ job'[Rekey] = job[Rekey]
        BY <1>0, <2>1, ActorsApart, ToolStays
    <2> QED
        BY <1>1, <2>2, StoreSets DEF Store
<1>2. ASSUME NEW r \in Requests, Set(r)
      PROVE  /\ \E k \in Keys, v \in Value, s \in BOOLEAN : SetEnv(k, v, s)
             /\ UNCHANGED <<kek, verdict>> /\ pc'[Rekey] = pc[Rekey] /\ job'[Rekey] = job[Rekey]
    <2>1. pc'[Rekey] = pc[Rekey] /\ job'[Rekey] = job[Rekey]
        BY <1>0, <1>2, ActorsApart, ToolStays DEF Set, Goes, Goto
    <2>2. job[r].key \in Keys /\ job[r].val \in Value
        BY <1>0, <1>2, ActorsApart DEF Set, ProcOK, HoldsAt
    <2> QED
        BY <1>2, <2>1, <2>2 DEF Set
<1> QED
    BY <1>1, <1>2

LEMMA DropsRow ==
    ASSUME TypeInv, NEW r \in Requests, Drop(r)
    PROVE  /\ job[r].key \in Keys
           /\ UNCHANGED <<kek, verdict, raced, late>>
           /\ pc'[Rekey] = pc[Rekey] /\ job'[Rekey] = job[Rekey]
<1>0. ProcOK
    BY DEF TypeInv
<1>1. pc'[Rekey] = pc[Rekey] /\ job'[Rekey] = job[Rekey]
    BY <1>0, ActorsApart, ToolStays DEF Drop, Goes, Goto
<1> QED
    BY <1>0, <1>1, ActorsApart DEF Drop, ProcOK, HoldsAt

\* The row that SetProjectEnv leaves.
LEMMA SetEnvRow ==
    ASSUME RowsOK, NEW k \in Keys, NEW v \in Value, NEW s \in BOOLEAN, SetEnv(k, v, s),
           kek \in {"old", "new"}
    PROVE  /\ Held' = Held \union {k}
           /\ row'[k].val = v /\ row'[k].seal = kek /\ row'[k].system = s
           /\ \A x \in Keys \ {k} : row'[x] = row[x]
<1> DEFINE r == [val |-> v, seal |-> kek, system |-> s]
<1>1. r \in Row /\ r # None
    BY NoneIsNoRecord DEF Row, Seal
<1>2. row'[k] = r /\ \A x \in Keys \ {k} : row'[x] = row[x]
    BY DEF SetEnv, RowsOK
<1> QED
    BY <1>1, <1>2 DEF Held

LEMMA CommitRow ==
    ASSUME TypeInv, Commit
    PROVE  /\ Held' = Held
           /\ \A k \in Held : /\ row'[k].system = row[k].system
                              /\ row'[k].val = IF k \in job[Rekey].left THEN job[Rekey].env[k]
                                               ELSE row[k].val
                              /\ row'[k].seal = IF k \in job[Rekey].left THEN "new" ELSE row[k].seal
<1>0. RowsOK /\ ProcOK /\ job[Rekey] \in Job /\ HoldsAt(Rekey, "commit", job[Rekey])
    BY ActorsApart DEF TypeInv, Commit, ProcOK
<1>1. ASSUME NEW k \in Held, k \in job[Rekey].left
      PROVE  /\ row'[k] # None /\ row'[k].system = row[k].system
             /\ row'[k].val = job[Rekey].env[k] /\ row'[k].seal = "new"
    <2>1. k \in Keys /\ row[k] \in Row /\ job[Rekey].env[k] \in Value
        BY <1>0, <1>1 DEF Held, RowsOK, HoldsAt
    <2>2. row'[k] = [row[k] EXCEPT !.val = job[Rekey].env[k], !.seal = "new"]
        BY <1>1, <2>1 DEF Commit
    <2>3. row'[k] \in Row
        BY <2>1, <2>2 DEF Row, Seal
    <2> QED
        BY <2>1, <2>2, <2>3, NoneIsNoRecord DEF Row
<1>2. ASSUME NEW k \in Keys, ~(k \in job[Rekey].left /\ k \in Held) PROVE row'[k] = row[k]
    BY <1>2 DEF Commit
<1> QED
    BY <1>1, <1>2 DEF Held

--------------------------------------------------------------------------------
(***************************************************************************)
(* The values: what the tool holds for a row that is still there is what   *)
(* the row says, unless it was set meanwhile.                              *)
(***************************************************************************)

HandInv ==
    pc[Rekey] = "commit" =>
        \A k \in job[Rekey].left \ raced : k \in Held => job[Rekey].env[k] = row[k].val

LEMMA SetKeeps ==
    ASSUME TypeInv, ValuesKept, HandInv, Store \/ \E r \in Requests : Set(r)
    PROVE  ValuesKept' /\ HandInv'
<1>0. RowsOK /\ kek \in {"old", "new"}
    BY DEF TypeInv, OtherOK
<1>1. pc'[Rekey] = pc[Rekey] /\ job'[Rekey] = job[Rekey]
    BY SetsRow
<1>2. PICK k \in Keys, v \in Value, s \in BOOLEAN : SetEnv(k, v, s)
    BY SetsRow
<1>3. /\ Held' = Held \union {k} /\ row'[k].val = v
      /\ \A x \in Keys \ {k} : row'[x] = row[x]
    BY <1>0, <1>2, SetEnvRow
<1>4. last' = [last EXCEPT ![k] = v] /\ raced \subseteq raced'
    BY <1>2 DEF SetEnv
<1>5. ASSUME NEW x \in Keys \ raced' PROVE Values'[x] = last'[x]
    BY <1>0, <1>3, <1>4 DEF ValuesKept, Values, RowsOK, Env
<1>6. HandInv'
    <2> SUFFICES ASSUME pc[Rekey] = "commit", NEW x \in job[Rekey].left \ raced', x \in Held'
                 PROVE  job[Rekey].env[x] = row'[x].val
        BY <1>1 DEF HandInv
    <2>1. x # k
        BY <1>2 DEF SetEnv, InHand
    <2>2. x \in Keys /\ x \in Held
        BY <1>3, <2>1 DEF Held
    <2> QED
        BY <1>3, <1>4, <2>1, <2>2 DEF HandInv
<1> QED
    BY <1>5, <1>6 DEF ValuesKept

LEMMA ValuesStep == TypeInv /\ ValuesKept /\ HandInv /\ [Next]_vars => ValuesKept' /\ HandInv'
<1> SUFFICES ASSUME TypeInv, ValuesKept, HandInv, [Next]_vars PROVE ValuesKept' /\ HandInv'
    OBVIOUS
<1>0. RowsOK /\ ProcOK
    BY DEF TypeInv
<1>1. CASE Store \/ \E r \in Requests : Set(r)
    BY <1>1, SetKeeps
<1>2. ASSUME NEW r \in Requests, Drop(r) PROVE ValuesKept' /\ HandInv'
    <2> DEFINE k == job[r].key
    <2>1. /\ k \in Keys /\ raced' = raced
          /\ pc'[Rekey] = pc[Rekey] /\ job'[Rekey] = job[Rekey]
        BY <1>2, DropsRow
    <2> HIDE DEF k
    <2>2. row' = [row EXCEPT ![k] = None] /\ last' = [last EXCEPT ![k] = None]
        BY <1>2 DEF Drop, k
    <2>3. \A x \in Keys : row'[x] = (IF x = k THEN None ELSE row[x])
                          /\ last'[x] = (IF x = k THEN None ELSE last[x])
        BY <1>0, <2>2 DEF RowsOK, Env
    <2> QED
        BY <2>1, <2>3 DEF ValuesKept, Values, Held, HandInv
<1>3. CASE Commit
    <2>1. HandInv'
        BY <1>0, <1>3, ActorsApart DEF Commit, Goes, Goto, HandInv, ProcOK
    <2>2. last' = last /\ raced' = raced /\ pc[Rekey] = "commit"
        BY <1>3 DEF Commit
    <2>3. ASSUME NEW k \in Keys \ raced PROVE Values'[k] = Values[k]
        BY <1>3, <2>2, <2>3, CommitRow DEF Values, HandInv
    <2> QED
        BY <2>1, <2>2, <2>3 DEF ValuesKept
<1>4. CASE UNCHANGED <<row, last, raced>>
    <2>1. ValuesKept'
        BY <1>4 DEF ValuesKept, Values, Held
    <2>2. CASE Scan
        <3>1. CASE pc'[Rekey] = "commit"
            <4>1. job'[Rekey].env = Values
                <5> DEFINE rest == {k \in Held : row[k].seal # "new"}
                           j == [job[Rekey] EXCEPT !.left = rest, !.env = Values]
                <5>1. job' = [job EXCEPT ![Rekey] = j]
                    BY <1>0, <2>2, <3>1, ActorsApart DEF Scan, Ends, Goes, Goto, ProcOK
                <5>2. job[Rekey] \in Job
                    BY <1>0, ActorsApart DEF ProcOK
                <5>3. j.env = Values
                    BY <5>2 DEF Job
                <5> HIDE DEF j
                <5> QED
                    BY <1>0, <5>1, <5>3, ActorsApart DEF ProcOK
            <4> QED
                BY <1>4, <2>1, <4>1 DEF HandInv, Values, Held
        <3> QED
            BY <2>1, <3>1 DEF HandInv
    <2>3. CASE Verify \/ RunRekey \/ CallFails(Rekey)
        BY <1>0, <2>1, <2>3, ActorsApart
           DEF Verify, RunRekey, CallFails, Begins, Ends, Goes, Fails, Goto, HandInv, ProcOK
    <2>4. CASE Rotate \/ Quiet \/ UNCHANGED vars
        <3>1. pc'[Rekey] = pc[Rekey] /\ job'[Rekey] = job[Rekey]
            BY <2>4, ActorsApart DEF Rotate, StartsWith, Quiet, vars, procVars
        <3> QED
            BY <1>4, <2>1, <3>1 DEF HandInv, Held
    <2>5. CASE Commit \/ Store \/ \E r \in Requests : Set(r) \/ Drop(r)
        BY <1>1, <1>2, <1>3, <2>5
    <2> QED
        BY <2>1, <2>2, <2>3, <2>4, <2>5, Kinds
<1>5. CASE Scan \/ Verify \/ Rotate \/ RunRekey \/ CallFails(Rekey) \/ Quiet \/ UNCHANGED vars
    <2>1. UNCHANGED <<row, last, raced>>
        BY <1>5 DEF Scan, Verify, Rotate, StartsWith, RunRekey, Begins, CallFails, Quiet, vars,
                    storeVars
    <2> QED
        BY <1>4, <2>1
<1> QED
    BY <1>1, <1>2, <1>3, <1>5, Kinds

\* Rotating the key changes no value, but for keys that were set while the tool
\* held an older value of them (rekey-env), for any number of keys and requests.
THEOREM ValuesKeptAlways == Spec => []ValuesKept
<1>1. Init => ValuesKept /\ HandInv
    <2> SUFFICES ASSUME Init PROVE ValuesKept /\ HandInv
        OBVIOUS
    <2>1. HandInv
        BY ActorsApart DEF Init, HandInv
    <2>2. [val |-> Legate, seal |-> "legacy", system |-> FALSE] # None
        <3>1. Legate \in Value
            BY EnvAssumption DEF Legate, Value
        <3>2. [val |-> Legate, seal |-> "legacy", system |-> FALSE] \in Row
            BY <3>1 DEF Row, Seal
        <3> QED
            BY <3>2, NoneIsNoRecord
    <2>3. ValuesKept
        BY <2>2 DEF Init, ValuesKept, Values, Held
    <2> QED
        BY <2>1, <2>3
<1> QED
    BY <1>1, ValuesStep, TypeInvAlways, PTL DEF Spec

--------------------------------------------------------------------------------
(***************************************************************************)
(* The seals.  The verdict "ok" stands for every row but those set later,  *)
(* and the operator rotates on it; afterwards the tool does not run.       *)
(***************************************************************************)

SealInv ==
    /\ verdict = "ok" \/ kek = "new" => \A k \in Held \ late : row[k].seal = "new"
    /\ kek = "new" => pc[Rekey] = "idle"

LEMMA SealStep == TypeInv /\ SealInv /\ [Next]_vars => SealInv'
<1> SUFFICES ASSUME TypeInv, SealInv, [Next]_vars PROVE SealInv'
    OBVIOUS
<1>0. RowsOK /\ ProcOK /\ kek \in {"old", "new"}
    BY DEF TypeInv, OtherOK
<1>1. CASE Store \/ \E r \in Requests : Set(r)
    <2>1. kek' = kek /\ verdict' = verdict /\ pc'[Rekey] = pc[Rekey]
        BY <1>1, SetsRow
    <2>2. PICK k \in Keys, v \in Value, s \in BOOLEAN : SetEnv(k, v, s)
        BY <1>1, SetsRow
    <2>3. /\ Held' = Held \union {k} /\ row'[k].seal = kek
          /\ \A x \in Keys \ {k} : row'[x] = row[x]
        BY <1>0, <2>2, SetEnvRow
    <2>4. late' = IF kek = "old" THEN late \union {k} ELSE late
        BY <2>2 DEF SetEnv
    <2>5. Held \subseteq Keys
        BY DEF Held
    <2> QED
        BY <1>0, <2>1, <2>3, <2>4, <2>5 DEF SealInv
<1>2. ASSUME NEW r \in Requests, Drop(r) PROVE SealInv'
    <2>1. kek' = kek /\ verdict' = verdict /\ late' = late /\ pc'[Rekey] = pc[Rekey]
        BY <1>2, DropsRow
    <2>2. \A x \in Held' : x \in Held /\ row'[x] = row[x]
        BY <1>0, <1>2 DEF Drop, Held, RowsOK
    <2> QED
        BY <2>1, <2>2 DEF SealInv
<1>3. CASE Commit
    <2>1. kek' = kek /\ verdict' = verdict /\ late' = late /\ pc[Rekey] = "commit"
        BY <1>3 DEF Commit
    <2> QED
        BY <1>3, <2>1, CommitRow DEF SealInv
<1>4. CASE Scan
    <2>1. row' = row /\ kek' = kek /\ pc[Rekey] = "scan"
        BY <1>4 DEF Scan
    <2>2. verdict' = "ok" => verdict = "ok" \/ \A k \in Held : row[k].seal = "new"
        BY <1>4 DEF Scan
    <2>3. late' = late \/ \A k \in Held : row[k].seal = "new"
        BY <1>4 DEF Scan
    <2> QED
        BY <2>1, <2>2, <2>3 DEF SealInv, Held
<1>5. CASE Verify
    BY <1>5 DEF Verify, Verified, SealInv, Held
<1>6. CASE Rotate
    BY <1>0, <1>6, ActorsApart DEF Rotate, StartsWith, SealInv, Held, storeVars
<1>7. CASE RunRekey
    BY <1>7 DEF RunRekey, Begins, SealInv, Held, storeVars
<1>8. CASE CallFails(Rekey)
    BY <1>8 DEF CallFails, Fails, SealInv, Held, storeVars
<1>9. CASE Quiet \/ UNCHANGED vars
    BY <1>9 DEF Quiet, vars, storeVars, procVars, SealInv, Held
<1> QED
    BY <1>1, <1>2, <1>3, <1>4, <1>5, <1>6, <1>7, <1>8, <1>9, Kinds

\* After a rotation the control plane reads every row, but for keys that were set
\* between the tool's last word and the restart (rekey-env's verification).
THEOREM ReadableAfterRotationAlways == Spec => []ReadableAfterRotation
<1>1. Init => SealInv
    BY DEF Init, SealInv
<1>2. SealInv => ReadableAfterRotation
    BY DEF SealInv, ReadableAfterRotation
<1> QED
    BY <1>1, <1>2, SealStep, TypeInvAlways, PTL DEF Spec

--------------------------------------------------------------------------------
(***************************************************************************)
(* The credentials.  A value of the platform exists only after an account  *)
(* was made; from then on every credential that is not still to be stored  *)
(* is there and belongs to the platform, unless a user took it or a        *)
(* deployment was broken off.                                              *)
(***************************************************************************)

Ours(v) == v # None => v.by = "user"

NoAccount ==
    account = 0 =>
        /\ pc[Tick] # "store"
        /\ \A k \in Keys : Ours(Values[k]) /\ \A a \in Actors : Ours(job[a].env[k])

Pending == IF pc[Tick] = "store" THEN job[Tick].left ELSE {}

Kept(k) == (k \in Held /\ row[k].system) \/ k \in usurped

CredInv == account > 0 /\ ~cut => \A k \in Creds \ Pending : Kept(k)

\* An operation begins at its first step, with nothing in hand.
LEMMA BeginBegins ==
    ASSUME Begin
    PROVE  \E a \in Actors : \E at, j : 
              Begins(a, at, j) /\ j.env = Empty /\ at \in {"check", "load", "scan"}
<1> DEFINE Goal == \E a \in Actors : \E at, j :
                      Begins(a, at, j) /\ j.env = Empty /\ at \in {"check", "load", "scan"}
<1> USE ActorsApart
<1>1. ASSUME NEW r \in Requests, NEW k \in Keys, Put(r, k) PROVE Goal
    <2> DEFINE j == [NoJob EXCEPT !.op = "put", !.key = k, !.val = [by |-> "user", nr |-> ops + 1]]
    <2>1. j.env = Empty
        BY DEF NoJob
    <2> HIDE DEF j
    <2> QED
        BY <1>1, <2>1 DEF Put, j
<1>2. ASSUME NEW r \in Requests, NEW k \in Keys, Delete(r, k) PROVE Goal
    <2> DEFINE j == [NoJob EXCEPT !.op = "delete", !.key = k]
    <2>1. j.env = Empty
        BY DEF NoJob
    <2> HIDE DEF j
    <2> QED
        BY <1>2, <2>1 DEF Delete, j
<1>3. ASSUME NEW m \in Manifests, Deploy(m) PROVE Goal
    <2> DEFINE j == [NoJob EXCEPT !.op = "deploy", !.base = m]
    <2>1. j.env = Empty
        BY DEF NoJob
    <2> HIDE DEF j
    <2> QED
        BY <1>3, <2>1 DEF Deploy, j
<1>4. CASE RunRekey
    <2> DEFINE j == [NoJob EXCEPT !.op = "rekey"]
    <2>1. j.env = Empty
        BY DEF NoJob
    <2> HIDE DEF j
    <2> QED
        BY <1>4, <2>1 DEF RunRekey, j
<1> QED
    BY <1>1, <1>2, <1>3, <1>4 DEF Begin

\* The values in hand are those before, none, or those of the rows.
LEMMA EnvChanges ==
    ASSUME TypeInv, [Next]_vars, ~Store
    PROVE  \A a \in Actors : job'[a].env \in {job[a].env, Empty, Values}
<1>0. ProcOK /\ Values \in Env
    BY ValuesType DEF TypeInv
<1>1. ASSUME NEW a \in Actors, NEW j, job' = [job EXCEPT ![a] = j],
             j.env \in {job[a].env, Empty, Values}
      PROVE  \A b \in Actors : job'[b].env \in {job[b].env, Empty, Values}
    BY <1>0, <1>1 DEF ProcOK
<1>2. NoJob.env = Empty
    BY DEF NoJob
<1> DEFINE Goal == \A b \in Actors : job'[b].env \in {job[b].env, Empty, Values}
<1>3. CASE Begin
    <2>1. PICK a, at, j : a \in Actors /\ Begins(a, at, j) /\ j.env = Empty
        BY <1>3, BeginBegins
    <2>2. job' = [job EXCEPT ![a] = j]
        BY <2>1 DEF Begins
    <2> QED
        BY <1>1, <2>1, <2>2
<1>4. ASSUME NEW r \in Requests, Check(r) \/ Set(r) \/ Drop(r) PROVE Goal
    <2>1. r \in Actors /\ job[r] \in Job
        BY <1>0, ActorsApart DEF ProcOK
    <2>2. CASE Check(r)
        BY <1>1, <1>2, <2>1, <2>2 DEF Check, Ends, Goes
    <2>3. CASE Set(r)
        <3> DEFINE j == [job[r] EXCEPT !.val = None, !.base = Created]
        <3>1. j.env = job[r].env
            BY <2>1 DEF Job
        <3> HIDE DEF j
        <3> QED
            BY <1>1, <2>1, <2>3, <3>1 DEF Set, Goes, j
    <2>4. CASE Drop(r)
        <3> DEFINE j == [job[r] EXCEPT !.base = Created]
        <3>1. j.env = job[r].env
            BY <2>1 DEF Job
        <3> HIDE DEF j
        <3> QED
            BY <1>1, <2>1, <2>4, <3>1 DEF Drop, Goes, j
    <2> QED
        BY <1>4, <2>2, <2>3, <2>4
<1>5. ASSUME NEW a \in Requests \union {Tick}, Load(a) \/ GetSecret(a) \/ PutSecret(a) PROVE Goal
    <2>1. a \in Actors /\ job[a] \in Job
        BY <1>0, ActorsApart DEF ProcOK
    <2>2. PICK j : job' = [job EXCEPT ![a] = j] /\ j.env \in {job[a].env, Empty, Values}
        BY <1>2, <1>5, <2>1 DEF Load, GetSecret, PutSecret, Ends, Goes, Fails, Job
    <2> QED
        BY <1>1, <2>1, <2>2
<1>6. CASE Provision
    <2>1. job[Tick] \in Job
        BY <1>0, ActorsApart DEF ProcOK
    <2> DEFINE j == [job[Tick] EXCEPT !.left = Creds]
    <2>2. j.env = job[Tick].env
        BY <2>1 DEF Job
    <2> HIDE DEF j
    <2> QED
        BY <1>1, <1>6, <2>2, ActorsApart DEF Provision, Goes, j
<1>7. CASE Scan \/ Commit \/ Verify
    <2>1. job[Rekey] \in Job
        BY <1>0, ActorsApart DEF ProcOK
    <2>2. PICK j : job' = [job EXCEPT ![Rekey] = j] /\ j.env \in {job[Rekey].env, Empty, Values}
        BY <1>2, <1>7, <2>1, ZenonT(40) DEF Scan, Commit, Verify, Ends, Goes, Job
    <2> QED
        BY <1>1, <2>2, ActorsApart
<1>8. ASSUME NEW a \in Actors, CallFails(a) PROVE Goal
    BY <1>1, <1>2, <1>8 DEF CallFails, Fails
<1>9. CASE Restart \/ Rotate
    BY <1>2, <1>9 DEF Restart, Rotate, StartsWith
<1>10. CASE UNCHANGED vars
    BY <1>10 DEF vars, procVars
<1> QED
    BY <1>3, <1>4, <1>5, <1>6, <1>7, <1>8, <1>9, <1>10 DEF Next, Step

\* Credentials are stored only by the deployment that has made the accounts.
LEMMA TickKinds ==
    ASSUME TypeInv, [Next]_vars, ~Store, ~Provision
    PROVE  /\ account' = account /\ (cut => cut')
           /\ pc'[Tick] = "store" => pc[Tick] = "store" /\ job'[Tick].left = job[Tick].left
           /\ pc[Tick] = "store" => pc'[Tick] = "store" \/ cut'
<1>0. ProcOK
    BY DEF TypeInv
<1> USE <1>0, ActorsApart
<1> DEFINE Goal == /\ account' = account /\ (cut => cut')
                   /\ pc'[Tick] = "store" => pc[Tick] = "store" /\ job'[Tick].left = job[Tick].left
                   /\ pc[Tick] = "store" => pc'[Tick] = "store" \/ cut'
<1>1. CASE Begin
    <2>1. PICK a, at, j : a \in Actors /\ Begins(a, at, j) /\ at # "store"
        BY <1>1, BeginBegins
    <2> QED
        BY <2>1 DEF Begins, ProcOK
<1>2. ASSUME NEW r \in Requests, Check(r) \/ Set(r) \/ Drop(r) PROVE Goal
    <2>1. PICK at, j : Goes(r, at, j) /\ account' = account
        BY <1>2 DEF Check, Set, Drop, Ends
    <2> QED
        BY <2>1 DEF Goes, Goto, ProcOK
<1>3. ASSUME NEW a \in Requests \union {Tick}, Load(a) \/ GetSecret(a) \/ PutSecret(a) PROVE Goal
    <2>1. pc[a] # "store" /\ account' = account
        BY <1>3 DEF Load, GetSecret, PutSecret
    <2>2. CASE Fails(a)
        BY <2>1, <2>2 DEF Fails, Goto, ProcOK
    <2>3. CASE ~Fails(a)
        <3>1. PICK at, j : Goes(a, at, j) /\ at # "store"
            BY <1>3, <2>3 DEF Load, GetSecret, PutSecret, Ends
        <3> QED
            BY <2>1, <3>1 DEF Goes, Goto, ProcOK
    <2> QED
        BY <2>2, <2>3
<1>4. CASE Scan \/ Commit \/ Verify
    <2>1. PICK at, j : Goes(Rekey, at, j) /\ account' = account
        BY <1>4 DEF Scan, Commit, Verify, Ends
    <2> QED
        BY <2>1 DEF Goes, Goto, ProcOK
<1>5. ASSUME NEW a \in Actors, CallFails(a) PROVE Goal
    BY <1>5 DEF CallFails, Fails, Goto, ProcOK
<1>6. CASE Restart \/ Rotate
    BY <1>6 DEF Restart, Rotate, StartsWith
<1>7. CASE UNCHANGED vars
    BY <1>7 DEF vars, procVars
<1> QED
    BY <1>1, <1>2, <1>3, <1>4, <1>5, <1>6, <1>7 DEF Next, Step

LEMMA NoAccountStep == TypeInv /\ NoAccount /\ [Next]_vars => NoAccount'
<1> SUFFICES ASSUME TypeInv, NoAccount, [Next]_vars, account' = 0 PROVE NoAccount'
    BY DEF NoAccount
<1>0. ProcOK /\ RowsOK /\ account \in Nat /\ kek \in {"old", "new"}
    BY DEF TypeInv, CountOK, OtherOK
<1>1. ~Provision
    BY <1>0 DEF Provision
<1>2. account = 0
    <2>1. CASE Store
        BY <2>1 DEF Store
    <2> QED
        BY <1>1, <2>1, TickKinds
<1>3. ~Store
    BY <1>2 DEF Store, NoAccount
<1>4. pc'[Tick] # "store"
    BY <1>1, <1>2, <1>3, TickKinds DEF NoAccount
<1>5. ASSUME NEW k \in Keys, NEW a \in Actors PROVE Ours(job'[a].env[k])
    <2>1. job'[a].env \in {job[a].env, Empty, Values}
        BY <1>3, EnvChanges
    <2> QED
        BY <1>2, <2>1 DEF NoAccount, Ours, Empty
<1>6. ASSUME NEW k \in Keys PROVE Ours(Values'[k])
    <2>1. CASE row' = row
        BY <1>2, <2>1 DEF NoAccount, Values, Held
    <2>2. ASSUME NEW r \in Requests, Set(r) PROVE Ours(Values'[k])
        <3> DEFINE key == job[r].key
                   v   == job[r].val
        <3>1. key \in Keys /\ v \in Value /\ v.by = "user" /\ SetEnv(key, v, FALSE)
            BY <1>0, <2>2, ActorsApart DEF Set, ProcOK, HoldsAt
        <3> HIDE DEF key, v
        <3>2. /\ Held' = Held \union {key} /\ row'[key].val = v
              /\ \A x \in Keys \ {key} : row'[x] = row[x]
            BY <1>0, <3>1, SetEnvRow
        <3> QED
            BY <1>2, <3>1, <3>2 DEF NoAccount, Values, Ours
    <2>3. ASSUME NEW r \in Requests, Drop(r) PROVE Ours(Values'[k])
        <3>1. row'[k] = row[k] \/ row'[k] = None
            BY <1>0, <2>3 DEF Drop, RowsOK
        <3> QED
            BY <1>2, <3>1 DEF NoAccount, Values, Held, Ours
    <2>4. CASE Commit
        <3>1. Values'[k] \in {Values[k], job[Rekey].env[k]}
            BY <2>4, CommitRow DEF Values
        <3> QED
            BY <1>2, <3>1, ActorsApart DEF NoAccount
    <2>5. CASE Scan \/ Verify \/ Rotate \/ RunRekey \/ CallFails(Rekey) \/ Quiet \/ UNCHANGED vars
        <3>1. row' = row
            BY <2>5 DEF Scan, Verify, Rotate, StartsWith, RunRekey, Begins, CallFails, Quiet, vars,
                        storeVars
        <3> QED
            BY <2>1, <3>1
    <2> QED
        BY <1>3, <2>2, <2>3, <2>4, <2>5, Kinds
<1> QED
    BY <1>4, <1>5, <1>6 DEF NoAccount

\* A credential stays until a request overwrites or removes it.
LEMMA KeptStep ==
    ASSUME TypeInv, [Next]_vars, NEW k \in Keys, Kept(k)
    PROVE  Kept(k)'
<1>0. ProcOK /\ RowsOK /\ kek \in {"old", "new"}
    BY DEF TypeInv, OtherOK
<1>1. ASSUME NEW x \in Keys, NEW v \in Value, NEW s \in BOOLEAN, SetEnv(x, v, s) PROVE Kept(k)'
    <2>1. /\ Held' = Held \union {x} /\ row'[x].system = s
          /\ \A y \in Keys \ {x} : row'[y] = row[y]
        BY <1>0, <1>1, SetEnvRow
    <2>2. CASE x # k
        BY <1>1, <2>1, <2>2 DEF SetEnv, Kept
    <2>3. CASE x = k
        <3>1. CASE s
            BY <2>1, <2>3, <3>1 DEF Kept
        <3>2. CASE ~s
            BY <1>1, <2>3, <3>2 DEF SetEnv, Kept
        <3> QED
            BY <3>1, <3>2
    <2> QED
        BY <2>2, <2>3
<1>2. CASE Store \/ \E r \in Requests : Set(r)
    BY <1>1, <1>2, SetsRow
<1>3. ASSUME NEW r \in Requests, Drop(r) PROVE Kept(k)'
    <2> DEFINE x == job[r].key
    <2>1. /\ x \in Keys /\ row' = [row EXCEPT ![x] = None]
          /\ usurped' = IF x \in Held /\ row[x].system THEN usurped \union {x} ELSE usurped
        BY <1>3, DropsRow DEF Drop
    <2> HIDE DEF x
    <2>2. \A y \in Keys \ {x} : row'[y] = row[y]
        BY <1>0, <2>1 DEF RowsOK
    <2> QED
        BY <2>1, <2>2 DEF Kept, Held
<1>4. CASE Commit
    BY <1>4, CommitRow DEF Commit, Kept
<1>5. CASE Scan \/ Verify \/ Rotate \/ RunRekey \/ CallFails(Rekey) \/ Quiet \/ UNCHANGED vars
    <2>1. row' = row /\ usurped' = usurped
        BY <1>5 DEF Scan, Verify, Rotate, StartsWith, RunRekey, Begins, CallFails, Quiet, vars,
                    storeVars
    <2> QED
        BY <2>1 DEF Kept, Held
<1> QED
    BY <1>2, <1>3, <1>4, <1>5, Kinds

LEMMA CredStep == TypeInv /\ NoAccount /\ CredInv /\ [Next]_vars => CredInv'
<1> SUFFICES ASSUME TypeInv, NoAccount, CredInv, [Next]_vars, account' > 0, ~cut',
                    NEW k \in Creds \ Pending'
             PROVE  Kept(k)'
    BY DEF CredInv
<1>0. ProcOK /\ RowsOK /\ kek \in {"old", "new"} /\ k \in Keys /\ job[Tick] \in Job
    BY EnvAssumption, ActorsApart DEF TypeInv, OtherOK, ProcOK
<1>1. CASE Provision
    <2> DEFINE j == [job[Tick] EXCEPT !.left = Creds]
    <2>1. j.left = Creds
        BY <1>0 DEF Job
    <2> HIDE DEF j
    <2>2. pc'[Tick] = "store" /\ job'[Tick].left = Creds
        BY <1>0, <1>1, <2>1, ActorsApart DEF Provision, Goes, Goto, ProcOK, j
    <2> QED
        BY <2>2 DEF Pending
<1>2. CASE Store
    <2> DEFINE v == [by |-> "platform", nr |-> account]
    <2>1. v \in Value /\ account > 0 /\ account' = account /\ cut' = cut
        <3>1. account \in 0..MaxOps
            BY EnvAssumption DEF TypeInv, CountOK
        <3> QED
            BY <1>2, <3>1 DEF Value, Store, NoAccount, Goes
    <2> HIDE DEF v
    <2>2. PICK x \in job[Tick].left :
             /\ SetEnv(x, v, TRUE)
             /\ Goes(Tick, IF job[Tick].left \ {x} = {} THEN "get" ELSE "store",
                     [job[Tick] EXCEPT !.left = job[Tick].left \ {x}, !.env[x] = v])
        BY <1>2 DEF Store, v
    <2> DEFINE j == [job[Tick] EXCEPT !.left = job[Tick].left \ {x}, !.env[x] = v]
    <2>3. j.left = job[Tick].left \ {x}
        BY <1>0 DEF Job
    <2> HIDE DEF j
    <2>4. pc'[Tick] = (IF job[Tick].left \ {x} = {} THEN "get" ELSE "store") /\ job'[Tick] = j
        BY <1>0, <2>2, ActorsApart DEF Goes, Goto, ProcOK, j
    <2>5. k \notin job[Tick].left \ {x}
        BY <2>3, <2>4 DEF Pending
    <2>6. CASE k = x
        <3>1. Held' = Held \union {k} /\ row'[k].system = TRUE
            BY <1>0, <2>1, <2>2, <2>6, SetEnvRow
        <3> QED
            BY <3>1 DEF Kept
    <2>7. CASE k # x
        <3>1. Kept(k)
            BY <1>2, <2>1, <2>5, <2>7 DEF CredInv, Pending, Store
        <3> QED
            BY <1>0, <3>1, KeptStep
    <2> QED
        BY <2>6, <2>7
<1>3. CASE ~Provision /\ ~Store
    <2>1. k \notin Pending
        BY <1>3, TickKinds DEF Pending
    <2>2. account > 0 /\ ~cut
        BY <1>3, TickKinds
    <2> QED
        BY <1>0, <2>1, <2>2, KeptStep DEF CredInv
<1> QED
    BY <1>1, <1>2, <1>3

\* A deployment that needs the sidecar writes the Secret with all the credentials
\* in the rows, unless an earlier one was broken off between its statements or an
\* edit that had passed its check took one of them (reconciler.go, "credentials
\* must be in project_env before the pod starts").
THEOREM CredentialsStoredAlways == Spec => []CredentialsStored
<1>1. Init => NoAccount /\ CredInv
    <2> SUFFICES ASSUME Init PROVE NoAccount /\ CredInv
        OBVIOUS
    <2>1. \A k \in Keys : Ours(Values[k])
        BY DEF Init, Values, Held, Ours, Legate
    <2>2. \A a \in Actors, k \in Keys : Ours(job[a].env[k])
        BY DEF Init, NoJob, Empty, Ours
    <2> QED
        BY <2>1, <2>2, ActorsApart DEF Init, NoAccount, CredInv
<1>2. TypeInv /\ NoAccount /\ CredInv => CredentialsStored
    <2> SUFFICES ASSUME TypeInv, NoAccount, CredInv, Provisioned, ~cut, usurped = {},
                        NEW k \in Creds
                 PROVE  k \in Held
        BY DEF CredentialsStored
    <2>1. Marker \in Keys
        BY EnvAssumption
    <2>2. account > 0
        BY <2>1, ActorsApart DEF TypeInv, CountOK, Provisioned, NoAccount, Ours
    <2>3. Pending = {}
        BY DEF Provisioned, Pending
    <2> QED
        BY <2>2, <2>3 DEF CredInv, Kept
<1> QED
    BY <1>1, <1>2, NoAccountStep, CredStep, TypeInvAlways, PTL DEF Spec

--------------------------------------------------------------------------------
(***************************************************************************)
(* An operation that nothing has disturbed: everybody else is idle, so     *)
(* what it read is still so.                                               *)
(***************************************************************************)

Undisturbed(a) ==
    /\ \A b \in Actors \ {a} : pc[b] = "idle"
    /\ pc[a] \in {"provision", "store", "get", "putSecret"} => job[a].env = Values
    /\ pc[a] = "putSecret" => seen[a] = IF secret = None THEN "absent" ELSE "current"
    /\ pc[a] = "commit" =>
          job[a].left = {k \in Held : row[k].seal # "new"} /\ job[a].left # {}
    /\ pc[a] = "verify" => Held # {} /\ \A k \in Held : row[k].seal = "new"

AloneInv == \A a \in Actors : alone = a => Undisturbed(a)

\* The actor at work is the one that is alone, or nobody is.
LEMMA WorkerAlone ==
    ASSUME TypeInv, AloneInv, NEW a \in Actors, pc[a] # "idle", NEW at,
           pc' = [pc EXCEPT ![a] = at],
           alone' = alone \/ (alone = a /\ alone' = None),
           alone = a /\ alone' = a /\ (\A b \in Actors \ {a} : pc'[b] = "idle")
               => Undisturbed(a)'
    PROVE  AloneInv'
<1>1. ASSUME NEW b \in Actors, alone' = b PROVE b = a /\ alone = a
    BY <1>1, ActorsApart DEF AloneInv, Undisturbed
<1>2. alone = a => \A b \in Actors \ {a} : pc'[b] = "idle"
    BY DEF AloneInv, Undisturbed, TypeInv, ProcOK
<1> QED
    BY <1>1, <1>2 DEF AloneInv

LEMMA BeginAlone ==
    ASSUME TypeInv, AloneInv, Begin
    PROVE  AloneInv'
<1>1. PICK a, at, j : a \in Actors /\ Begins(a, at, j) /\ at \in {"check", "load", "scan"}
    BY BeginBegins
<1>2. pc'[a] \in {"check", "load", "scan"} /\ \A b \in Actors \ {a} : pc'[b] = pc[b]
    BY <1>1 DEF Begins, TypeInv, ProcOK
<1>3. ASSUME NEW b \in Actors, alone' = b PROVE Undisturbed(b)'
    <2>1. b = a /\ \A x \in Actors \ {a} : pc[x] = "idle"
        BY <1>1, <1>3, ActorsApart DEF Begins
    <2> QED
        BY <1>2, <2>1 DEF Undisturbed
<1> QED
    BY <1>3 DEF AloneInv

LEMMA FailsAlone ==
    ASSUME TypeInv, AloneInv, NEW a \in Actors, pc[a] # "idle", Fails(a)
    PROVE  AloneInv'
<1>1. pc' = [pc EXCEPT ![a] = "idle"] /\ alone' = IF alone = a THEN None ELSE alone
    BY DEF Fails, Goto
<1> QED
    BY <1>1, WorkerAlone, ActorsApart

LEMMA RequestAlone ==
    ASSUME TypeInv, AloneInv, NEW r \in Requests, Check(r) \/ Set(r) \/ Drop(r)
    PROVE  AloneInv'
<1>1. PICK at, j : Goes(r, at, j) /\ at \in {"idle", "set", "drop", "load"}
    BY DEF Check, Set, Drop, Ends
<1>2. /\ r \in Actors /\ pc[r] # "idle" /\ pc'[r] = at
      /\ pc' = [pc EXCEPT ![r] = at] /\ alone' = alone
    BY <1>1, ActorsApart DEF Check, Set, Drop, Goes, Goto, TypeInv, ProcOK
<1>3. (\A b \in Actors \ {r} : pc'[b] = "idle") => Undisturbed(r)'
    BY <1>1, <1>2 DEF Undisturbed
<1> QED
    BY <1>2, <1>3, WorkerAlone

LEMMA SyncAlone ==
    ASSUME TypeInv, AloneInv, NEW a \in Requests \union {Tick},
           Load(a) \/ GetSecret(a) \/ PutSecret(a)
    PROVE  AloneInv'
<1>0. a \in Actors /\ pc[a] # "idle" /\ job[a] \in Job /\ ProcOK
    BY ActorsApart DEF TypeInv, ProcOK, Load, GetSecret, PutSecret
<1>1. CASE Fails(a)
    BY <1>0, <1>1, FailsAlone
<1>2. CASE Load(a) /\ ~Fails(a)
    <2> DEFINE j == [job[a] EXCEPT !.env = Values]
    <2>1. j.env = Values
        BY <1>0 DEF Job
    <2> HIDE DEF j
    <2>2. PICK at \in {"provision", "get"} : Goes(a, at, j) /\ row' = row
        BY <1>2 DEF Load, storeVars, j
    <2>3. pc'[a] = at /\ job'[a].env = Values'
        BY <1>0, <2>1, <2>2 DEF Goes, Goto, ProcOK, Values, Held
    <2>4. (\A b \in Actors \ {a} : pc'[b] = "idle") => Undisturbed(a)'
        BY <2>2, <2>3 DEF Undisturbed
    <2> QED
        BY <1>0, <2>2, <2>4, WorkerAlone DEF Goes, Goto
<1>3. CASE GetSecret(a)
    <2>1. /\ pc'[a] = "putSecret" /\ job'[a] = job[a] /\ alone' = alone
          /\ pc' = [pc EXCEPT ![a] = "putSecret"] /\ UNCHANGED <<row, secret>>
          /\ seen'[a] = IF secret = None THEN "absent" ELSE "current"
        BY <1>0, <1>3 DEF GetSecret, Goes, Goto, ProcOK, storeVars
    <2>2. alone = a => job[a].env = Values
        BY <1>0, <1>3 DEF GetSecret, AloneInv, Undisturbed
    <2>3. alone = a /\ (\A b \in Actors \ {a} : pc'[b] = "idle") => Undisturbed(a)'
        BY <2>1, <2>2 DEF Undisturbed, Values, Held
    <2> QED
        BY <1>0, <2>1, <2>3, WorkerAlone
<1>4. CASE PutSecret(a) /\ ~Fails(a)
    <2>1. Ends(a)
        BY <1>4 DEF PutSecret
    <2>2. pc'[a] = "idle" /\ pc' = [pc EXCEPT ![a] = "idle"] /\ alone' = alone
        BY <1>0, <2>1 DEF Ends, Goes, Goto, ProcOK
    <2>3. (\A b \in Actors \ {a} : pc'[b] = "idle") => Undisturbed(a)'
        BY <2>2 DEF Undisturbed
    <2> QED
        BY <1>0, <2>2, <2>3, WorkerAlone
<1> QED
    BY <1>1, <1>2, <1>3, <1>4

LEMMA DeployAlone ==
    ASSUME TypeInv, AloneInv, Provision \/ Store
    PROVE  AloneInv'
<1>0. /\ Tick \in Actors /\ pc[Tick] \in {"provision", "store"} /\ job[Tick] \in Job
      /\ ProcOK /\ RowsOK /\ kek \in {"old", "new"}
    BY ActorsApart DEF TypeInv, OtherOK, ProcOK, Provision, Store
<1>1. alone = Tick => job[Tick].env = Values
    BY <1>0 DEF AloneInv, Undisturbed
<1>2. CASE Provision
    <2> DEFINE j == [job[Tick] EXCEPT !.left = Creds]
    <2>1. j.env = job[Tick].env
        BY <1>0 DEF Job
    <2> HIDE DEF j
    <2>2. /\ pc'[Tick] = "store" /\ job'[Tick] = j /\ alone' = alone /\ row' = row
          /\ pc' = [pc EXCEPT ![Tick] = "store"]
        BY <1>0, <1>2 DEF Provision, Goes, Goto, ProcOK, storeVars, j
    <2>3. alone = Tick /\ (\A b \in Actors \ {Tick} : pc'[b] = "idle") => Undisturbed(Tick)'
        BY <1>1, <2>1, <2>2 DEF Undisturbed, Values, Held
    <2> QED
        BY <1>0, <2>2, <2>3, WorkerAlone
<1>3. CASE Store
    <2> DEFINE v == [by |-> "platform", nr |-> account]
    <2>1. v \in Value
        BY EnvAssumption DEF TypeInv, CountOK, Value
    <2> HIDE DEF v
    <2>2. PICK x \in job[Tick].left :
             /\ SetEnv(x, v, TRUE)
             /\ Goes(Tick, IF job[Tick].left \ {x} = {} THEN "get" ELSE "store",
                     [job[Tick] EXCEPT !.left = job[Tick].left \ {x}, !.env[x] = v])
        BY <1>3 DEF Store, v
    <2> DEFINE j  == [job[Tick] EXCEPT !.left = job[Tick].left \ {x}, !.env[x] = v]
               at == IF job[Tick].left \ {x} = {} THEN "get" ELSE "store"
    <2>3. j.env = [job[Tick].env EXCEPT ![x] = v] /\ x \in Keys
        BY <1>0 DEF Job
    <2>4. at \in {"get", "store"}
        OBVIOUS
    <2> HIDE DEF j, at
    <2>5. /\ pc'[Tick] = at /\ job'[Tick] = j /\ alone' = alone
          /\ pc' = [pc EXCEPT ![Tick] = at]
        BY <1>0, <2>2 DEF Goes, Goto, ProcOK, j, at
    <2>6. ASSUME alone = Tick PROVE j.env = Values'
        <3>1. /\ Held' = Held \union {x} /\ row'[x].val = v
              /\ \A y \in Keys \ {x} : row'[y] = row[y]
            BY <1>0, <2>1, <2>2, <2>3, SetEnvRow
        <3>2. Values' = [Values EXCEPT ![x] = v]
            BY <2>3, <3>1 DEF Values
        <3> QED
            BY <1>1, <2>3, <2>6, <3>2
    <2>7. alone = Tick /\ (\A b \in Actors \ {Tick} : pc'[b] = "idle") => Undisturbed(Tick)'
        BY <2>4, <2>5, <2>6 DEF Undisturbed
    <2> QED
        BY <1>0, <2>5, <2>7, WorkerAlone
<1> QED
    BY <1>2, <1>3

LEMMA RekeyAlone ==
    ASSUME TypeInv, AloneInv, Scan \/ Commit \/ Verify
    PROVE  AloneInv'
<1>0. /\ Rekey \in Actors /\ pc[Rekey] # "idle" /\ job[Rekey] \in Job /\ ProcOK
    BY ActorsApart DEF TypeInv, ProcOK, Scan, Commit, Verify
<1>1. CASE pc'[Rekey] = "idle" /\ alone' = alone /\ pc' = [pc EXCEPT ![Rekey] = "idle"]
    <2>1. (\A b \in Actors \ {Rekey} : pc'[b] = "idle") => Undisturbed(Rekey)'
        BY <1>1 DEF Undisturbed
    <2> QED
        BY <1>0, <1>1, <2>1, WorkerAlone
<1>2. CASE Scan
    <2> DEFINE rest == {k \in Held : row[k].seal # "new"}
               j == [job[Rekey] EXCEPT !.left = rest, !.env = Values]
    <2>1. j.left = rest
        BY <1>0 DEF Job
    <2> HIDE DEF j
    <2>2. CASE Ends(Rekey)
        BY <1>0, <1>1, <2>2 DEF Ends, Goes, Goto, ProcOK
    <2>3. CASE ~Ends(Rekey)
        <3>1. Goes(Rekey, "commit", j) /\ rest # {} /\ row' = row
            BY <1>2, <2>3 DEF Scan, j
        <3>2. pc'[Rekey] = "commit" /\ job'[Rekey] = j
            BY <1>0, <3>1 DEF Goes, Goto, ProcOK
        <3>3. (\A b \in Actors \ {Rekey} : pc'[b] = "idle") => Undisturbed(Rekey)'
            BY <2>1, <3>1, <3>2 DEF Undisturbed, Held
        <3> QED
            BY <1>0, <3>1, <3>3, WorkerAlone DEF Goes, Goto
    <2> QED
        BY <2>2, <2>3
<1>3. CASE Commit
    <2>1. pc[Rekey] = "commit" /\ pc'[Rekey] = "verify" /\ alone' = alone
          /\ pc' = [pc EXCEPT ![Rekey] = "verify"]
        BY <1>0, <1>3 DEF Commit, Goes, Goto, ProcOK
    <2>2. ASSUME alone = Rekey PROVE Held' # {} /\ \A k \in Held' : row'[k].seal = "new"
        BY <1>0, <1>3, <2>1, <2>2, CommitRow DEF AloneInv, Undisturbed
    <2>3. alone = Rekey /\ (\A b \in Actors \ {Rekey} : pc'[b] = "idle") => Undisturbed(Rekey)'
        BY <2>1, <2>2 DEF Undisturbed
    <2> QED
        BY <1>0, <2>1, <2>3, WorkerAlone
<1>4. CASE Verify
    BY <1>0, <1>1, <1>4 DEF Verify, Ends, Goes, Goto, ProcOK
<1> QED
    BY <1>2, <1>3, <1>4

LEMMA AloneStep == TypeInv /\ AloneInv /\ [Next]_vars => AloneInv'
<1> SUFFICES ASSUME TypeInv, AloneInv, [Next]_vars PROVE AloneInv'
    OBVIOUS
<1>1. ASSUME NEW a \in Actors, CallFails(a) PROVE AloneInv'
    BY <1>1, FailsAlone DEF CallFails
<1>2. CASE Restart \/ Rotate
    <2>1. /\ alone' = IF alone = Rekey THEN Rekey ELSE None
          /\ row' = row /\ \A b \in Actors \ {Rekey} : pc'[b] = "idle"
          /\ pc'[Rekey] = pc[Rekey] /\ job'[Rekey] = job[Rekey]
        BY <1>2, ActorsApart DEF Restart, Rotate, StartsWith, storeVars
    <2>2. pc[Rekey] \notin {"provision", "store", "get", "putSecret"}
        BY ActorsApart DEF TypeInv, ProcOK, HoldsAt
    <2> QED
        BY <2>1, <2>2, ActorsApart DEF AloneInv, Undisturbed, Held
<1>3. CASE UNCHANGED vars
    BY <1>3 DEF vars, storeVars, procVars, AloneInv, Undisturbed, Held, Values
<1> QED
    BY <1>1, <1>2, <1>3, BeginAlone, RequestAlone, SyncAlone, DeployAlone, RekeyAlone DEF Next, Step

LEMMA AloneAlways == Spec => []AloneInv
<1>1. Init => AloneInv
    BY ActorsApart DEF Init, AloneInv
<1> QED
    BY <1>1, AloneStep, TypeInvAlways, PTL DEF Spec

\* A run of the tool that nobody disturbs leaves every row under the new key and
\* says so, whatever earlier runs left (rekey-env).
THEOREM ToolConvergesAlways == Spec => ToolConverges
<1>1. ASSUME TypeInv, AloneInv, [Next]_vars,
             pc[Rekey] # "idle", pc'[Rekey] = "idle", alone = Rekey, alone' = Rekey
      PROVE  (\A k \in Held' : row'[k].seal = "new") /\ verdict' = "ok"
    <2>0. ProcOK /\ RowsOK
        BY <1>1 DEF TypeInv
    <2>1. CASE Scan
        <3> DEFINE rest == {k \in Held : row[k].seal # "new"}
        <3>1. \A k \in rest : Sealable(k)
            BY <2>0 DEF RowsOK, Row, Seal, Sealable, Held
        <3>2. rest # {} => pc'[Rekey] = "commit"
            BY <2>0, <2>1, <3>1, ActorsApart DEF Scan, Goes, Goto, ProcOK
        <3>3. rest = {}
            BY <1>1, <3>2
        <3> QED
            BY <2>1, <3>3 DEF Scan, Held
    <2>2. CASE Verify
        BY <1>1, <2>2, ActorsApart DEF Verify, Verified, AloneInv, Undisturbed, Held
    <2>3. CASE Commit
        BY <1>1, <2>0, <2>3, ActorsApart DEF Commit, Goes, Goto, ProcOK
    <2>4. CASE CallFails(Rekey)
        BY <1>1, <2>4, ActorsApart DEF CallFails, Fails
    <2>5. CASE Rotate \/ RunRekey \/ Quiet \/ UNCHANGED vars
        BY <1>1, <2>5 DEF Rotate, RunRekey, Begins, Quiet, vars, procVars
    <2>6. CASE Store \/ \E r \in Requests : Set(r)
        BY <1>1, <2>6, SetsRow
    <2>7. CASE \E r \in Requests : Drop(r)
        BY <1>1, <2>7, DropsRow
    <2> QED
        BY <1>1, <2>1, <2>2, <2>3, <2>4, <2>5, <2>6, <2>7, Kinds
<1>2. TypeInv /\ AloneInv /\ [Next]_vars =>
         [pc[Rekey] # "idle" /\ pc'[Rekey] = "idle" /\ alone = Rekey /\ alone' = Rekey
             => /\ \A k \in Held' : row'[k].seal = "new"
                /\ verdict' = "ok"]_vars
    BY <1>1
<1> QED
    BY <1>2, TypeInvAlways, AloneAlways, PTL DEF Spec, ToolConverges

\* An undisturbed edit or deployment that is past its check ends with the Secret.
LEMMA EndsWithSecret ==
    ASSUME TypeInv, AloneInv, [Next]_vars, NEW a \in Requests \union {Tick},
           pc[a] \notin {"idle", "check"}, pc'[a] = "idle", alone = a, alone' = a
    PROVE  PutSecret(a) /\ Ends(a)
<1>0. /\ ProcOK /\ a \in Actors /\ a # Rekey /\ a # None
      /\ \A b \in Actors \ {a} : pc[b] = "idle"
    BY ActorsApart DEF TypeInv, AloneInv, Undisturbed
<1>1. ~Begin
    <2> SUFFICES ASSUME NEW b \in Actors, NEW at, NEW j, Begins(b, at, j) PROVE FALSE
        BY BeginBegins
    <2> QED
        BY <1>0 DEF Begins, ProcOK
<1>2. ASSUME NEW b \in Actors, Fails(b), pc[b] # "idle" PROVE FALSE
    BY <1>0, <1>2 DEF Fails
<1>3. ASSUME NEW r \in Requests, Check(r) \/ Set(r) \/ Drop(r) PROVE FALSE
    <2>1. r = a
        BY <1>0, <1>3, ActorsApart DEF Check, Set, Drop
    <2> QED
        BY <1>0, <1>3, <2>1 DEF Check, Set, Drop, Goes, Goto, ProcOK
<1>4. ASSUME NEW b \in Requests \union {Tick}, Load(b) \/ GetSecret(b) PROVE FALSE
    <2>1. b = a
        BY <1>0, <1>4, ActorsApart DEF Load, GetSecret
    <2> QED
        BY <1>0, <1>2, <1>4, <2>1 DEF Load, GetSecret, Goes, Goto, ProcOK
<1>5. ~Provision /\ ~Store
    <2>1. CASE Provision \/ Store
        <3>1. Tick = a
            BY <1>0, <2>1, ActorsApart DEF Provision, Store
        <3>2. pc'[a] # "idle"
            BY <1>0, <2>1, <3>1 DEF Provision, Store, Goes, Goto, ProcOK
        <3> QED
            BY <3>2
    <2> QED
        BY <2>1
<1>6. ~Scan /\ ~Commit /\ ~Verify
    BY <1>0, ActorsApart DEF Scan, Commit, Verify
<1>7. ASSUME NEW b \in Actors, CallFails(b) PROVE FALSE
    BY <1>2, <1>7 DEF CallFails
<1>8. ~Restart /\ ~Rotate
    BY <1>0 DEF Restart, Rotate, StartsWith
<1>9. ~ UNCHANGED vars
    BY DEF vars, procVars
<1>10. PICK b \in Requests \union {Tick} : PutSecret(b)
    BY <1>1, <1>3, <1>4, <1>5, <1>6, <1>7, <1>8, <1>9 DEF Next, Step
<1>11. b = a
    BY <1>0, <1>10, ActorsApart DEF PutSecret
<1> QED
    BY <1>0, <1>2, <1>10, <1>11 DEF PutSecret

\* An edit or a deployment that is alone brings the Secret up to date with the
\* rows, whatever is in it (syncProjectEnvToCluster, Apply).
THEOREM SecretCurrentAlways == Spec => SecretCurrent
<1>1. ASSUME TypeInv, AloneInv, [Next]_vars, NEW a \in Requests \union {Tick},
             pc[a] \notin {"idle", "check"}, pc'[a] = "idle", alone = a, alone' = a
      PROVE  secret' # None /\ secret'.env = Values'
    <2>0. a \in Actors /\ ProcOK /\ job[a] \in Job /\ HoldsAt(a, pc[a], job[a]) /\ a # None
        BY <1>1, ActorsApart DEF TypeInv, ProcOK
    <2>1. PutSecret(a) /\ Ends(a)
        BY <1>1, EndsWithSecret
    <2> DEFINE new == [base |-> job[a].base, env |-> job[a].env]
    <2>2. new \in Content /\ new.env = job[a].env
        BY <2>0, <2>1 DEF PutSecret, HoldsAt, Job, Content
    <2>3. secret' = new /\ row' = row
        <3>1. ~Fails(a)
            BY <1>1, <2>0 DEF Fails
        <3> QED
            BY <2>1, <3>1 DEF PutSecret, storeVars
    <2>4. job[a].env = Values
        BY <1>1, <2>0, <2>1 DEF AloneInv, Undisturbed, PutSecret
    <2> HIDE DEF new
    <2> QED
        BY <2>2, <2>3, <2>4, NoneIsNoRecord DEF Values, Held
<1>2. TypeInv /\ AloneInv /\ [Next]_vars =>
         [\A a \in Requests \union {Tick} :
             pc[a] \notin {"idle", "check"} /\ pc'[a] = "idle" /\ alone = a /\ alone' = a
                 => secret' # None /\ secret'.env = Values']_vars
    BY <1>1
<1> QED
    BY <1>2, TypeInvAlways, AloneAlways, PTL DEF Spec, SecretCurrent

================================================================================
