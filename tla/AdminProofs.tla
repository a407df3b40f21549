------------------------------ MODULE AdminProofs ------------------------------
(***************************************************************************)
(* Safety of Administration for every set of users, requests and issuers,  *)
(* and for every bound.                                                    *)
(***************************************************************************)
EXTENDS Administration, FiniteSetTheorems, TLAPS

--------------------------------------------------------------------------------
(***************************************************************************)
(* Type correctness.  What a request has in hand is bound to where it is.  *)
(***************************************************************************)

Holds(r) ==
    /\ pc[r] \in {"count", "flag", "update"} => job[r].user \in Users
    /\ pc[r] \in {"swap", "publish"} => job[r].conf \in Issuers

ProcOK ==
    /\ pc \in [Requests -> PC] /\ job \in [Requests -> Job]
    /\ \A r \in Requests : Holds(r)

ConfigOK ==
    /\ db \in Issuers \union {None} /\ kc \in Issuers
    /\ verifier \in [Numbers -> Verifier] /\ current \in Numbers
    /\ published \in [Issuers -> 0..MaxKeys]

OtherOK ==
    /\ admins \in SUBSET Users /\ misled \in BOOLEAN
    /\ alone \in Requests \union {None}
    /\ ops \in 0..MaxOps /\ faults \in 0..MaxFaults

TypeInv == ProcOK /\ ConfigOK /\ OtherOK

LEMMA TypeInvOK == TypeInv => TypeOK
BY DEF TypeInv, ProcOK, ConfigOK, OtherOK, TypeOK

LEMMA CountType ==
    ASSUME NEW S, S \in SUBSET Users
    PROVE  Cardinality(S) \in 0..Cardinality(Users)
<1>1. IsFiniteSet(Users)
    BY AdminAssumption
<1>2. IsFiniteSet(S) /\ Cardinality(S) <= Cardinality(Users)
    BY <1>1, FS_Subset
<1> QED
    BY <1>1, <1>2, FS_CardinalityType

LEMMA NoJobType == NoJob \in Job
<1>1. 0 \in 0..Cardinality(Users) /\ 0 \in Numbers
    BY AdminAssumption, FS_CardinalityType DEF Numbers
<1> QED
    BY <1>1 DEF NoJob, Job, Op

LEMMA NewVerifierType ==
    ASSUME NEW iss \in Issuers
    PROVE  NewVerifier(iss) \in Verifier
BY DEF NewVerifier, Verifier

LEMMA StoredType == ConfigOK => Stored \in Issuers
BY AdminAssumption DEF ConfigOK, Stored

LEMMA KeyType ==
    ASSUME ConfigOK, NEW iss \in Issuers
    PROVE  KeyOf(iss) \in Key
BY DEF ConfigOK, KeyOf, Key

LEMMA InitType == Init => TypeInv
<1> SUFFICES ASSUME Init PROVE TypeInv
    OBVIOUS
<1>1. ProcOK
    BY NoJobType DEF Init, ProcOK, PC, Holds
<1>2. ConfigOK
    BY AdminAssumption, NewVerifierType DEF Init, ConfigOK, Numbers
<1>3. OtherOK
    <2>1. admins \in SUBSET Users
        BY AdminAssumption DEF Init
    <2>2. misled \in BOOLEAN
        BY Zenon DEF Init
    <2>3. published \in [Issuers -> 0..MaxKeys]
        BY AdminAssumption DEF Init
    <2>4. /\ alone \in Requests \union {None}
          /\ ops \in 0..MaxOps /\ faults \in 0..MaxFaults
        BY AdminAssumption DEF Init
    <2> QED
        BY <2>1, <2>2, <2>3, <2>4 DEF OtherOK
<1> QED
    BY <1>1, <1>2, <1>3 DEF TypeInv

\* A step of one request: to a known place, with what it needs there.
Moves(r) ==
    /\ pc' = [pc EXCEPT ![r] = pc'[r]] /\ pc'[r] \in PC
    /\ job' = [job EXCEPT ![r] = job'[r]] /\ job'[r] \in Job
    /\ Holds(r)'

LEMMA MovesType ==
    ASSUME ProcOK, NEW r \in Requests, Moves(r)
    PROVE  ProcOK'
BY DEF ProcOK, Moves, Holds

LEMMA GoesMoves ==
    ASSUME ProcOK, NEW r \in Requests, NEW at \in PC, NEW j \in Job,
           pc' = [pc EXCEPT ![r] = at], job' = [job EXCEPT ![r] = j],
           at \in {"count", "flag", "update"} => j.user \in Users,
           at \in {"swap", "publish"} => j.conf \in Issuers
    PROVE  ProcOK'
<1>1. pc'[r] = at /\ job'[r] = j
    BY DEF ProcOK
<1>2. Moves(r)
    BY <1>1 DEF Moves, Holds
<1> QED
    BY <1>2, MovesType

LEMMA RebuildType ==
    ASSUME ConfigOK, NEW iss \in Issuers, Rebuild(iss)
    PROVE  verifier' \in [Numbers -> Verifier] /\ current' \in Numbers
<1> PICK n \in Unused : /\ verifier' = [verifier EXCEPT ![n] = NewVerifier(iss)]
                        /\ current' = n
    BY DEF Rebuild
<1>1. n \in Numbers
    BY DEF Unused
<1> QED
    BY <1>1, NewVerifierType DEF ConfigOK

LEMMA BeginsType ==
    ASSUME TypeInv, NEW r \in Requests, NEW at \in PC, NEW j \in Job, Begins(r, at, j),
           at \in {"count", "flag", "update"} => j.user \in Users,
           at \in {"swap", "publish"} => j.conf \in Issuers
    PROVE  TypeInv'
<1>1. ProcOK'
    BY GoesMoves DEF TypeInv, Begins
<1>2. ConfigOK'
    BY DEF TypeInv, ConfigOK, Begins, configVars, verifyVars
<1>3. OtherOK'
    BY AdminAssumption DEF TypeInv, OtherOK, Begins, userVars
<1> QED
    BY <1>1, <1>2, <1>3 DEF TypeInv

LEMMA BeginType ==
    ASSUME TypeInv, NEW r \in Requests, Begin(r)
    PROVE  TypeInv'
<1> USE NoJobType
<1>1. ASSUME NEW u \in Users, Demote(r, u) PROVE TypeInv'
    <2> DEFINE j == [NoJob EXCEPT !.op = "demote", !.user = u]
    <2>1. j \in Job /\ j.user = u
        BY DEF Job, NoJob, Op
    <2> HIDE DEF j
    <2> QED
        BY <1>1, <2>1, BeginsType DEF Demote, PC, j
<1>2. ASSUME NEW u \in Users, Promote(r, u) PROVE TypeInv'
    <2> DEFINE j == [NoJob EXCEPT !.op = "promote", !.user = u]
    <2>1. j \in Job /\ j.user = u
        BY DEF Job, NoJob, Op
    <2> HIDE DEF j
    <2> QED
        BY <1>2, <2>1, BeginsType DEF Promote, PC, j
<1>3. ASSUME NEW iss \in Issuers \union {None}, Save(r, iss) PROVE TypeInv'
    <2> DEFINE j == [NoJob EXCEPT !.op = "save", !.conf = iss]
    <2>1. j \in Job
        BY DEF Job, NoJob, Op
    <2> HIDE DEF j
    <2> QED
        BY <1>3, <2>1, BeginsType DEF Save, PC, j
<1>4. ASSUME NEW iss \in Issuers, Verify(r, iss) PROVE TypeInv'
    <2> DEFINE j == [NoJob EXCEPT !.op = "verify", !.token = KeyOf(iss)]
    <2>1. j \in Job
        BY KeyType DEF Job, NoJob, Op, TypeInv
    <2> HIDE DEF j
    <2> QED
        BY <1>4, <2>1, BeginsType DEF Verify, PC, j
<1> QED
    BY <1>1, <1>2, <1>3, <1>4 DEF Begin

LEMMA EndsType ==
    ASSUME ProcOK, NEW r \in Requests, Ends(r)
    PROVE  ProcOK'
BY GoesMoves, NoJobType DEF Ends, Goes, PC

LEMMA StepType ==
    ASSUME TypeInv, NEW r \in Requests, Step(r)
    PROVE  TypeInv'
<1>0. /\ job[r] \in Job /\ Holds(r) /\ ProcOK /\ ConfigOK /\ OtherOK
      /\ verifier[job[r].by] \in Verifier
    BY DEF TypeInv, ProcOK, ConfigOK, Job
<1> USE DEF Goes, userVars, configVars, verifyVars
<1>1. CASE CountAdmins(r)
    <2> DEFINE j == [job[r] EXCEPT !.count = Cardinality(admins)]
    <2>1. Cardinality(admins) \in 0..Cardinality(Users)
        BY CountType DEF TypeInv, OtherOK
    <2>2. j \in Job /\ j.user = job[r].user
        BY <1>0, <2>1 DEF Job
    <2> HIDE DEF j
    <2>3. ProcOK'
        BY <1>0, <1>1, <2>2, GoesMoves DEF CountAdmins, Holds, PC, j
    <2> QED
        BY <1>0, <1>1, <2>3 DEF CountAdmins, TypeInv, ConfigOK, OtherOK
<1>2. CASE ReadFlag(r)
    <2> DEFINE f == job[r].user \in admins
               j == [job[r] EXCEPT !.flag = f]
    <2>0. f \in BOOLEAN
        OBVIOUS
    <2> HIDE DEF f
    <2>1. j \in Job /\ j.user = job[r].user
        BY <1>0, <2>0 DEF Job
    <2> USE DEF f
    <2> HIDE DEF j
    <2>3. ProcOK'
        BY <1>0, <1>2, <2>1, GoesMoves DEF ReadFlag, Holds, PC, j
    <2> QED
        BY <1>0, <1>2, <2>3 DEF ReadFlag, TypeInv, ConfigOK, OtherOK
<1>3. CASE UpdateUser(r)
    <2>1. ProcOK'
        BY <1>0, <1>3, EndsType DEF UpdateUser
    <2>2. job[r].user \in Users
        BY <1>0, <1>3 DEF UpdateUser, Holds
    <2>3. admins' \in SUBSET Users
        BY <1>0, <1>3, <2>2 DEF UpdateUser, OtherOK
    <2>4. misled' \in BOOLEAN
        BY <1>0, <1>3 DEF UpdateUser, OtherOK
    <2> QED
        BY <1>0, <1>3, <2>1, <2>3, <2>4 DEF UpdateUser, Ends, TypeInv, ConfigOK, OtherOK
<1>4. CASE WriteSettings(r)
    <2> DEFINE j == [job[r] EXCEPT !.conf = None]
    <2>1. j \in Job /\ job[r].conf \in Issuers \union {None}
        BY <1>0 DEF Job
    <2> HIDE DEF j
    <2>2. ProcOK'
        BY <1>0, <1>4, <2>1, GoesMoves DEF WriteSettings, PC, j
    <2> QED
        BY <1>0, <1>4, <2>1, <2>2 DEF WriteSettings, TypeInv, ConfigOK, OtherOK
<1>5. CASE SelectSettings(r)
    <2> DEFINE j == [job[r] EXCEPT !.conf = Stored]
    <2>1. j \in Job /\ j.conf \in Issuers
        BY <1>0, StoredType DEF Job
    <2> HIDE DEF j
    <2>2. ProcOK'
        BY <1>0, <1>5, <2>1, GoesMoves DEF SelectSettings, PC, j
    <2> QED
        BY <1>0, <1>5, <2>2 DEF SelectSettings, TypeInv, ConfigOK, OtherOK
<1>6. CASE SwapSettings(r)
    <2> DEFINE j == [job[r] EXCEPT !.conf = None]
    <2>1. j \in Job /\ job[r].conf \in Issuers
        BY <1>0, <1>6 DEF Job, SwapSettings, Holds
    <2> HIDE DEF j
    <2>2. ProcOK'
        BY <1>0, <1>6, <2>1, GoesMoves DEF SwapSettings, PC, j
    <2> QED
        BY <1>0, <1>6, <2>1, <2>2 DEF SwapSettings, TypeInv, ConfigOK, OtherOK
<1>7. CASE ReadSettings(r)
    <2> DEFINE j == [job[r] EXCEPT !.conf = kc]
    <2>1. j \in Job /\ j.conf \in Issuers
        BY <1>0 DEF Job, ConfigOK
    <2> HIDE DEF j
    <2>2. ProcOK'
        BY <1>0, <1>7, <2>1, GoesMoves DEF ReadSettings, PC, j
    <2> QED
        BY <1>0, <1>7, <2>2 DEF ReadSettings, TypeInv, ConfigOK, OtherOK
<1>8. CASE Publish(r)
    <2>1. ProcOK'
        BY <1>0, <1>8, EndsType DEF Publish
    <2>2. job[r].conf \in Issuers
        BY <1>0, <1>8 DEF Publish, Holds
    <2>3. verifier' \in [Numbers -> Verifier] /\ current' \in Numbers
        BY <1>0, <1>8, <2>2, RebuildType DEF Publish
    <2> QED
        BY <1>0, <1>8, <2>1, <2>3 DEF Publish, Ends, TypeInv, ConfigOK, OtherOK
<1>9. CASE LoadPointer(r)
    <2> DEFINE j == [job[r] EXCEPT !.by = current]
    <2>1. j \in Job
        BY <1>0 DEF Job, ConfigOK
    <2> HIDE DEF j
    <2>2. ProcOK'
        BY <1>0, <1>9, <2>1, GoesMoves DEF LoadPointer, PC, j
    <2> QED
        BY <1>0, <1>9, <2>2 DEF LoadPointer, TypeInv, ConfigOK, OtherOK
<1>10. CASE Cached(r)
    <2>1. Ends(r) \/ Goes(r, "fetch", job[r])
        BY <1>10 DEF Cached
    <2>2. ProcOK'
        BY <1>0, <2>1, EndsType, GoesMoves DEF PC
    <2> QED
        BY <1>0, <1>10, <2>1, <2>2 DEF Cached, Ends, TypeInv, ConfigOK, OtherOK
<1>11. CASE Fetch(r)
    <2> DEFINE j == [job[r] EXCEPT !.keys = {KeyOf(verifier[job[r].by].iss)}]
    <2>1. verifier[job[r].by].iss \in Issuers
        BY <1>0 DEF Verifier
    <2>2. KeyOf(verifier[job[r].by].iss) \in Key
        BY <1>0, <2>1, KeyType
    <2>3. j \in Job
        BY <1>0, <2>2 DEF Job
    <2> HIDE DEF j
    <2>4. ProcOK'
        BY <1>0, <1>11, <2>3, GoesMoves DEF Fetch, PC, j
    <2> QED
        BY <1>0, <1>11, <2>4 DEF Fetch, TypeInv, ConfigOK, OtherOK
<1>12. CASE Install(r)
    <2> DEFINE j == [job[r] EXCEPT !.keys = {}]
               n == job[r].by
               w == [verifier[n] EXCEPT !.keys = job[r].keys, !.fresh = TRUE]
    <2>1. j \in Job /\ n \in Numbers /\ job[r].keys \in SUBSET Key
        BY <1>0 DEF Job
    <2>2. w \in Verifier
        BY <1>0, <2>1 DEF Verifier
    <2>3. verifier' = [verifier EXCEPT ![n] = w]
        BY <1>0, <1>12, <2>1 DEF Install, ConfigOK, Verifier
    <2> HIDE DEF j, w, n
    <2>4. ProcOK'
        BY <1>0, <1>12, <2>1, GoesMoves DEF Install, PC, j
    <2>5. verifier' \in [Numbers -> Verifier]
        BY <1>0, <2>2, <2>3 DEF ConfigOK
    <2> QED
        BY <1>0, <1>12, <2>4, <2>5 DEF Install, TypeInv, ConfigOK, OtherOK
<1>13. CASE Lookup(r)
    <2>1. ProcOK'
        BY <1>0, <1>13, EndsType DEF Lookup
    <2> QED
        BY <1>0, <1>13, <2>1 DEF Lookup, Ends, TypeInv, ConfigOK, OtherOK
<1> QED
    BY <1>1, <1>2, <1>3, <1>4, <1>5, <1>6, <1>7, <1>8, <1>9, <1>10, <1>11, <1>12, <1>13 DEF Step

LEMMA FaultType ==
    ASSUME TypeInv, NEW r \in Requests, ReadFails(r) \/ CallFails(r)
    PROVE  TypeInv'
<1>0. job[r] \in Job /\ Holds(r) /\ ProcOK /\ ConfigOK /\ OtherOK
    BY DEF TypeInv, ProcOK
<1>1. ProcOK'
    <2>1. CASE ReadFails(r)
        <3> DEFINE at == IF pc[r] = "count" THEN "flag" ELSE "update"
        <3>1. pc' = [pc EXCEPT ![r] = at] /\ job' = [job EXCEPT ![r] = job[r]]
            BY <1>0, <2>1 DEF ReadFails, ProcOK
        <3>2. at \in PC /\ job[r].user \in Users /\ at \notin {"swap", "publish"}
            BY <1>0, <2>1 DEF ReadFails, Holds, PC
        <3> HIDE DEF at
        <3> QED
            BY <1>0, <3>1, <3>2, GoesMoves
    <2>2. CASE CallFails(r)
        BY <1>0, <2>2, GoesMoves, NoJobType DEF CallFails, PC
    <2> QED
        BY <2>1, <2>2
<1>2. ConfigOK'
    BY <1>0 DEF ConfigOK, ReadFails, CallFails, configVars, verifyVars
<1>3. OtherOK'
    BY <1>0, AdminAssumption DEF OtherOK, ReadFails, CallFails, userVars
<1> QED
    BY <1>1, <1>2, <1>3 DEF TypeInv

LEMMA WorldType ==
    ASSUME TypeInv,
           \/ \E iss \in Issuers : RotateKey(iss)
           \/ \E n \in Numbers : Expire(n)
           \/ Restart
    PROVE  TypeInv'
<1>0. ProcOK /\ ConfigOK /\ OtherOK
    BY DEF TypeInv
<1>1. ASSUME NEW iss \in Issuers, RotateKey(iss) PROVE TypeInv'
    <2>1. published' \in [Issuers -> 0..MaxKeys]
        BY <1>0, <1>1, AdminAssumption DEF RotateKey, ConfigOK
    <2> QED
        BY <1>0, <1>1, <2>1 DEF RotateKey, TypeInv, ProcOK, Holds, ConfigOK, OtherOK,
                                userVars, configVars, verifyVars
<1>2. ASSUME NEW n \in Numbers, Expire(n) PROVE TypeInv'
    <2>1. verifier' = [verifier EXCEPT ![n] = [verifier[n] EXCEPT !.fresh = FALSE]]
        BY <1>2 DEF Expire
    <2>2. [verifier[n] EXCEPT !.fresh = FALSE] \in Verifier
        BY <1>0 DEF ConfigOK, Verifier
    <2>3. verifier' \in [Numbers -> Verifier]
        BY <1>0, <2>1, <2>2 DEF ConfigOK
    <2> QED
        BY <1>0, <1>2, <2>3 DEF Expire, TypeInv, ProcOK, Holds, ConfigOK, OtherOK,
                                userVars, configVars
<1>3. CASE Restart
    <2>1. kc' \in Issuers
        BY <1>0, <1>3, StoredType, AdminAssumption DEF Restart
    <2>2. ConfigOK'
        BY <1>0, <1>3, <2>1, NewVerifierType, AdminAssumption DEF Restart, ConfigOK, Numbers
    <2>3. ProcOK'
        BY <1>3, NoJobType DEF Restart, ProcOK, Holds, PC
    <2>4. OtherOK'
        BY <1>0, <1>3, AdminAssumption DEF Restart, OtherOK, userVars
    <2> QED
        BY <2>2, <2>3, <2>4 DEF TypeInv
<1> QED
    BY <1>1, <1>2, <1>3

LEMMA NextType == TypeInv /\ [Next]_vars => TypeInv'
<1> SUFFICES ASSUME TypeInv, [Next]_vars PROVE TypeInv'
    OBVIOUS
<1>1. CASE UNCHANGED vars
    BY <1>1 DEF vars, userVars, configVars, verifyVars, TypeInv, ProcOK, Holds, ConfigOK, OtherOK
<1>2. CASE Next
    BY <1>2, BeginType, StepType, FaultType, WorldType DEF Next
<1> QED
    BY <1>1, <1>2

LEMMA TypeInvAlways == Spec => []TypeInv
BY InitType, NextType, PTL DEF Spec

\* Every reachable state has its types: what a request holds fits the place where
\* it is, and the verifier in use is one that was built.
THEOREM AdminTypeCorrect == Spec => []TypeOK
BY TypeInvAlways, TypeInvOK, PTL

--------------------------------------------------------------------------------
(***************************************************************************)
(* An administrator remains.                                               *)
(***************************************************************************)

\* A demotion whose count and flag hold never takes the last administrator.
LEMMA DemotionKeepsOne ==
    ASSUME TypeInv, AdminRemains, NEW r \in Requests, UpdateUser(r)
    PROVE  AdminRemains'
<1> SUFFICES ASSUME admins' = {}, ~misled' PROVE FALSE
    BY DEF AdminRemains
<1> DEFINE u == job[r].user
<1>1. ~misled
    BY DEF UpdateUser, userVars
<1>2. admins # {}
    BY <1>1 DEF AdminRemains
<1>3. ~LastAdmin(r) /\ job[r].op = "demote" /\ admins' = admins \ {u} /\ ~Misread(r)
    BY <1>1, <1>2 DEF UpdateUser, userVars
<1>4. admins = {u}
    BY <1>2, <1>3
<1>5. Cardinality(admins) = 1
    BY <1>4, FS_Singleton
<1>6. job[r].flag /\ job[r].count = 1
    BY <1>3, <1>4, <1>5 DEF Misread
<1> QED
    BY <1>3, <1>6 DEF LastAdmin

\* Nothing else changes who is an administrator.
LEMMA OnlyUpdates ==
    ASSUME Next, ~ \E r \in Requests : UpdateUser(r)
    PROVE  UNCHANGED userVars
<1>1. ASSUME NEW r \in Requests, Begin(r) PROVE UNCHANGED userVars
    BY <1>1 DEF Begin, Demote, Promote, Save, Verify, Begins
<1>2. ASSUME NEW r \in Requests, Step(r) PROVE UNCHANGED userVars
    BY <1>2 DEF Step, CountAdmins, ReadFlag, WriteSettings, SelectSettings, SwapSettings,
                ReadSettings, Publish, LoadPointer, Cached, Fetch, Install, Lookup
<1> QED
    BY <1>1, <1>2 DEF Next, ReadFails, CallFails, RotateKey, Expire, Restart

\* The platform keeps an administrator unless a demotion relied on a count or a
\* flag that was not so (handleAdminPatchUser), for any number of users, of
\* requests at once and of failures.
THEOREM AdminRemainsAlways == Spec => []AdminRemains
<1>1. Init => AdminRemains
    BY AdminAssumption DEF Init, AdminRemains
<1>2. TypeInv /\ AdminRemains /\ [Next]_vars => AdminRemains'
    <2> SUFFICES ASSUME TypeInv, AdminRemains, [Next]_vars PROVE AdminRemains'
        OBVIOUS
    <2>1. CASE \E r \in Requests : UpdateUser(r)
        BY <2>1, DemotionKeepsOne
    <2>2. CASE UNCHANGED userVars
        BY <2>2 DEF userVars, AdminRemains
    <2> QED
        BY <2>1, <2>2, OnlyUpdates DEF vars
<1> QED
    BY <1>1, <1>2, TypeInvAlways, PTL DEF Spec

--------------------------------------------------------------------------------
(***************************************************************************)
(* A request that nothing has disturbed.  What it holds at each step is    *)
(* what the rows and the verifier say, because everybody else is idle.     *)
(***************************************************************************)

Undisturbed(r) ==
    /\ \A q \in Requests \ {r} : pc[q] = "idle"
    /\ pc[r] = "swap"    => job[r].conf = Stored
    /\ pc[r] = "read"    => kc = Stored
    /\ pc[r] = "publish" => kc = Stored /\ job[r].conf = kc
    /\ pc[r] = "install" => job[r].keys = {KeyOf(verifier[job[r].by].iss)}
    /\ pc[r] = "lookup"  =>
          verifier[job[r].by].keys = {KeyOf(verifier[job[r].by].iss)}

AloneInv == \A r \in Requests : alone = r => Undisturbed(r)

LEMMA BeginAlone ==
    ASSUME TypeInv, AloneInv, NEW r \in Requests, Begin(r)
    PROVE  AloneInv'
<1>1. PICK at, j : Begins(r, at, j) /\ at \in {"count", "update", "write", "pointer"}
    BY DEF Begin, Demote, Promote, Save, Verify
<1>2. pc'[r] = at /\ \A q \in Requests \ {r} : pc'[q] = pc[q]
    BY <1>1 DEF Begins, TypeInv, ProcOK
<1>3. ASSUME NEW q \in Requests, alone' = q PROVE Undisturbed(q)'
    <2>1. q = r /\ \A x \in Requests \ {r} : pc[x] = "idle"
        BY <1>1, <1>3, AdminAssumption DEF Begins
    <2>2. pc'[r] \in {"count", "update", "write", "pointer"}
        BY <1>1, <1>2
    <2> QED
        BY <1>2, <2>1, <2>2 DEF Undisturbed
<1> QED
    BY <1>3 DEF AloneInv

LEMMA StepAlone ==
    ASSUME TypeInv, AloneInv, NEW r \in Requests, Step(r)
    PROVE  AloneInv'
<1>0. /\ job[r] \in Job /\ job[r].by \in Numbers /\ job[r].keys \in SUBSET Key
      /\ verifier[job[r].by] \in Verifier /\ ProcOK /\ ConfigOK
    BY DEF TypeInv, ProcOK, ConfigOK, Job
<1>1. PICK at, j : Goes(r, at, j)
    BY DEF Step, CountAdmins, ReadFlag, UpdateUser, WriteSettings, SelectSettings, SwapSettings,
           ReadSettings, Publish, LoadPointer, Cached, Fetch, Install, Lookup, Ends
<1>2. /\ alone' = alone /\ published' = published
      /\ pc'[r] = at /\ job'[r] = j /\ \A q \in Requests \ {r} : pc'[q] = pc[q]
    BY <1>0, <1>1 DEF Goes, ProcOK
<1>3. pc[r] # "idle"
    BY DEF Step, CountAdmins, ReadFlag, UpdateUser, WriteSettings, SelectSettings, SwapSettings,
           ReadSettings, Publish, LoadPointer, Cached, Fetch, Install, Lookup
<1> SUFFICES ASSUME alone = r PROVE Undisturbed(r)'
    BY <1>2, <1>3 DEF AloneInv, Undisturbed
<1>4. Undisturbed(r)
    BY DEF AloneInv
<1>5. \A q \in Requests \ {r} : pc'[q] = "idle"
    BY <1>2, <1>4 DEF Undisturbed
<1> USE DEF Goes, userVars, configVars, verifyVars
<1>6. CASE CountAdmins(r) \/ ReadFlag(r) \/ WriteSettings(r) \/ LoadPointer(r)
    BY <1>0, <1>5, <1>6
       DEF CountAdmins, ReadFlag, WriteSettings, LoadPointer, Undisturbed, ProcOK
<1>7. CASE UpdateUser(r) \/ Publish(r) \/ Lookup(r)
    BY <1>0, <1>5, <1>7 DEF UpdateUser, Publish, Lookup, Ends, Undisturbed, ProcOK
<1>8. CASE Cached(r)
    BY <1>0, <1>5, <1>8 DEF Cached, Ends, Undisturbed, ProcOK
<1>9. CASE SelectSettings(r)
    BY <1>0, <1>5, <1>9 DEF SelectSettings, Stored, Undisturbed, ProcOK, Job
<1>10. CASE SwapSettings(r)
    BY <1>0, <1>4, <1>5, <1>10 DEF SwapSettings, Stored, Undisturbed, ProcOK, Job
<1>11. CASE ReadSettings(r)
    BY <1>0, <1>4, <1>5, <1>11 DEF ReadSettings, Stored, Undisturbed, ProcOK, Job
<1>12. CASE Fetch(r)
    <2>1. pc'[r] = "install" /\ job'[r].by = job[r].by
          /\ job'[r].keys = {KeyOf(verifier[job[r].by].iss)}
        BY <1>0, <1>12 DEF Fetch, ProcOK, Job
    <2> QED
        BY <1>2, <1>5, <1>12, <2>1 DEF Fetch, Undisturbed, KeyOf
<1>13. CASE Install(r)
    <2>1. pc'[r] = "lookup" /\ job'[r].by = job[r].by
        BY <1>0, <1>13 DEF Install, ProcOK, Job
    <2>2. /\ verifier'[job[r].by].keys = job[r].keys
          /\ verifier'[job[r].by].iss = verifier[job[r].by].iss
        BY <1>0, <1>13 DEF Install, ConfigOK, Verifier
    <2>3. job[r].keys = {KeyOf(verifier[job[r].by].iss)}
        BY <1>4, <1>13 DEF Install, Undisturbed
    <2> QED
        BY <1>2, <1>5, <2>1, <2>2, <2>3 DEF Undisturbed, KeyOf
<1> QED
    BY <1>6, <1>7, <1>8, <1>9, <1>10, <1>11, <1>12, <1>13 DEF Step

LEMMA OtherAlone ==
    ASSUME TypeInv, AloneInv,
           \/ \E r \in Requests : ReadFails(r) \/ CallFails(r)
           \/ \E iss \in Issuers : RotateKey(iss)
           \/ \E n \in Numbers : Expire(n)
           \/ Restart
    PROVE  AloneInv'
<1>0. ProcOK /\ ConfigOK
    BY DEF TypeInv
<1>1. ASSUME NEW r \in Requests, ReadFails(r) PROVE AloneInv'
    <2>1. /\ pc[r] # "idle" /\ pc'[r] \in {"flag", "update"} /\ alone' = alone
          /\ \A q \in Requests \ {r} : pc'[q] = pc[q]
        BY <1>0, <1>1 DEF ReadFails, ProcOK
    <2> QED
        BY <2>1 DEF AloneInv, Undisturbed
<1>2. ASSUME NEW r \in Requests, CallFails(r) PROVE AloneInv'
    <2>1. /\ pc[r] # "idle" /\ alone' = IF alone = r THEN None ELSE alone
        BY <1>0, <1>2 DEF CallFails
    <2>2. \A q \in Requests : alone' # q
        BY <2>1, AdminAssumption DEF AloneInv, Undisturbed
    <2> QED
        BY <2>2 DEF AloneInv
<1>3. ASSUME NEW iss \in Issuers, RotateKey(iss) PROVE AloneInv'
    BY <1>3, AdminAssumption DEF RotateKey, AloneInv
<1>4. ASSUME NEW n \in Numbers, Expire(n) PROVE AloneInv'
    <2>1. \A m \in Numbers : verifier'[m].keys = verifier[m].keys
                             /\ verifier'[m].iss = verifier[m].iss
        BY <1>0, <1>4 DEF Expire, ConfigOK, Verifier
    <2>2. \A r \in Requests : job[r].by \in Numbers
        BY <1>0 DEF ProcOK, Job
    <2> QED
        BY <1>4, <2>1, <2>2 DEF Expire, AloneInv, Undisturbed, Stored, KeyOf, configVars
<1>5. CASE Restart
    BY <1>5, AdminAssumption DEF Restart, AloneInv
<1> QED
    BY <1>1, <1>2, <1>3, <1>4, <1>5

LEMMA AloneAlways == Spec => []AloneInv
<1>1. Init => AloneInv
    BY AdminAssumption DEF Init, AloneInv
<1>2. TypeInv /\ AloneInv /\ [Next]_vars => AloneInv'
    <2> SUFFICES ASSUME TypeInv, AloneInv, [Next]_vars PROVE AloneInv'
        OBVIOUS
    <2>1. CASE UNCHANGED vars
        BY <2>1 DEF vars, userVars, configVars, verifyVars, AloneInv, Undisturbed, Stored, KeyOf
    <2>2. CASE Next
        BY <2>2, BeginAlone, StepAlone, OtherAlone DEF Next
    <2> QED
        BY <2>1, <2>2
<1> QED
    BY <1>1, <1>2, TypeInvAlways, PTL DEF Spec

\* A token that the verifier's issuer signed with its present key is accepted by
\* a verification that nothing overlaps (JWTVerifier.keyFor), whatever was cached
\* before and however old it is.
THEOREM ValidTokenAcceptedAlways == Spec => []ValidTokenAccepted
<1>1. TypeInv /\ AloneInv => ValidTokenAccepted
    BY DEF AloneInv, Undisturbed, ValidTokenAccepted, Accepts, KeyOf
<1> QED
    BY <1>1, TypeInvAlways, AloneAlways, PTL

\* Only the last step of saving settings ends in the place of "publish".
LEMMA PublishEnds ==
    ASSUME TypeInv, Next, NEW r \in Requests, pc[r] = "publish", pc'[r] = "idle",
           alone = r, alone' = r
    PROVE  Publish(r)
<1>0. ProcOK
    BY DEF TypeInv
<1>1. ASSUME NEW q \in Requests, Begin(q) PROVE FALSE
    <2>1. PICK at, j : Begins(q, at, j)
        BY <1>1 DEF Begin, Demote, Promote, Save, Verify
    <2>2. q # r /\ pc' = [pc EXCEPT ![q] = at]
        BY <2>1 DEF Begins
    <2> QED
        BY <1>0, <2>2 DEF ProcOK
<1>2. ASSUME NEW q \in Requests, Step(q) PROVE Publish(r)
    <2>1. PICK at, j : Goes(q, at, j)
        BY <1>2 DEF Step, CountAdmins, ReadFlag, UpdateUser, WriteSettings, SelectSettings,
              SwapSettings, ReadSettings, Publish, LoadPointer, Cached, Fetch, Install, Lookup, Ends
    <2>2. q = r
        BY <1>0, <2>1 DEF Goes, ProcOK
    <2> QED
        BY <1>2, <2>2 DEF Step, CountAdmins, ReadFlag, UpdateUser, WriteSettings, SelectSettings,
              SwapSettings, ReadSettings, LoadPointer, Cached, Fetch, Install, Lookup
<1>3. ASSUME NEW q \in Requests, ReadFails(q) PROVE FALSE
    BY <1>0, <1>3 DEF ReadFails, ProcOK
<1>4. ASSUME NEW q \in Requests, CallFails(q) PROVE FALSE
    BY <1>0, <1>4, AdminAssumption DEF CallFails, ProcOK
<1>5. ASSUME NEW iss \in Issuers, RotateKey(iss) PROVE FALSE
    BY <1>5 DEF RotateKey
<1>6. ASSUME NEW n \in Numbers, Expire(n) PROVE FALSE
    BY <1>6 DEF Expire
<1>7. CASE Restart
    BY <1>7, AdminAssumption DEF Restart
<1> QED
    BY <1>1, <1>2, <1>3, <1>4, <1>5, <1>6, <1>7 DEF Next

\* Settings that are saved undisturbed are in force when the response is written,
\* in memory and in the verifier (handleAdminPatchSettings).
THEOREM SettingsInForceAlways == Spec => SettingsInForce
<1>1. ASSUME TypeInv, AloneInv, [Next]_vars, NEW r \in Requests,
             pc[r] = "publish", pc'[r] = "idle", alone = r, alone' = r
      PROVE  kc' = Stored' /\ verifier'[current'].iss = kc'
    <2>1. Publish(r)
        <3>1. ~ UNCHANGED vars
            BY <1>1 DEF vars
        <3> QED
            BY <1>1, <3>1, PublishEnds
    <2>2. kc = Stored /\ job[r].conf = kc
        BY <1>1 DEF AloneInv, Undisturbed
    <2>3. db' = db /\ kc' = kc
        BY <2>1 DEF Publish, configVars
    <2>4. PICK n \in Unused : verifier' = [verifier EXCEPT ![n] = NewVerifier(kc)] /\ current' = n
        BY <2>1, <2>2 DEF Publish, Rebuild
    <2>5. verifier'[current'] = NewVerifier(kc)
        BY <1>1, <2>4 DEF Unused, TypeInv, ConfigOK
    <2> QED
        BY <2>2, <2>3, <2>5 DEF Stored, NewVerifier
<1>2. TypeInv /\ AloneInv /\ [Next]_vars =>
          [\A r \in Requests :
              pc[r] = "publish" /\ pc'[r] = "idle" /\ alone = r /\ alone' = r
                  => kc' = Stored' /\ verifier'[current'].iss = kc']_vars
    BY <1>1
<1> QED
    BY <1>2, TypeInvAlways, AloneAlways, PTL DEF Spec, SettingsInForce
================================================================================
