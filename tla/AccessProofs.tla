------------------------------ MODULE AccessProofs ------------------------------
(***************************************************************************)
(* Safety of AccessSync for every set of projects, hostnames, prefixes,    *)
(* presets, sources and requests, and for every bound.                     *)
(***************************************************************************)
EXTENDS AccessSync, FiniteSetTheorems, TLAPS

Assumptions ==
    /\ Internal \in Presets /\ Public \in Presets
    /\ World \in Sources
    /\ None \notin Presets \union Projects \union Prefixes \union Ids
    /\ None \notin Cidrs
    /\ Actors = Requests \union {Tick, Sweep}
    /\ Tick # Sweep /\ Tick \notin Requests /\ Sweep \notin Requests
    /\ MaxOps \in Nat /\ MaxFaults \in Nat
    /\ InitPresets \in [Presets -> Cidrs \union {None}]
    /\ InitPresets[Internal] # None /\ InitPresets[Public] # None
    /\ PresetCidrs \subseteq Cidrs
    /\ RuleCidrs \subseteq SUBSET (Sources \ {World})

LEMMA ConstantsOK == Assumptions
BY SyncAssumption, AccessAssumption DEF Assumptions, Cidrs

--------------------------------------------------------------------------------
(***************************************************************************)
(* Type correctness.  What a goroutine has in hand is bound to where it    *)
(* is: on the way through a synchronisation it has a project, before it    *)
(* rewrites a rule the id of one, and before it writes the list of a rule  *)
(* a prefix for which it has read one.                                     *)
(***************************************************************************)

\* The steps on the way through which a project is in hand.
WithProject == SyncPC \union TickPC \union {"ready", "insert", "rewrite", "cidrs"}

Holds(a) ==
    /\ pc[a] \in WithProject => prj(a) \in Projects
    /\ pc[a] = "rewrite" => job[a].id \in Ids
    /\ pc[a] = "putRule" => job[a].cur \in Wanted(a)

InHand == \A a \in Actors : Holds(a)

TypeInv == TypeOK /\ InHand

LEMMA RuleListsType ==
    ASSUME RowTypeOK, NEW p \in Projects
    PROVE  RuleLists(p) \in Lists
<1> SUFFICES ASSUME NEW x \in Prefixes, NEW i \in Ids,
                    rules[p][i] # None, rules[p][i].prefix = x
             PROVE  (CHOOSE r \in {rules[p][k] : k \in Ids} \ {None} : r.prefix = x).cidrs
                        \in Cidrs
    BY DEF RuleLists, Lists
<1> DEFINE S == {rules[p][k] : k \in Ids} \ {None}
<1>1. S \subseteq Rule
    BY DEF RowTypeOK
<1>2. rules[p][i] \in S
    OBVIOUS
<1>3. (CHOOSE r \in S : r.prefix = x) \in S
    BY <1>2
<1> HIDE DEF S
<1>4. (CHOOSE r \in S : r.prefix = x) \in Rule
    BY <1>1, <1>3
<1> QED
    BY <1>4 DEF Rule, S

LEMMA InternalListType == RowTypeOK => InternalList \in Cidrs
BY ConstantsOK DEF Assumptions, RowTypeOK, InternalList, Cidrs

LEMMA UsableType ==
    ASSUME RowTypeOK, NEW n \in Presets \union {None}, Usable(n)
    PROVE  n \in Presets /\ presets[n] \in Cidrs /\ World \notin presets[n]
BY DEF RowTypeOK, Usable, Restricts

LEMMA TypeInit == Init => TypeInv
<1> USE ConstantsOK DEF Assumptions
<1> SUFFICES ASSUME Init PROVE TypeInv
    OBVIOUS
<1>1. RowTypeOK
    BY DEF Init, RowTypeOK, Row
<1>2. \A p \in Projects : AllowOf(p) \in Cidrs
    BY <1>1, UsableType, InternalListType DEF AllowOf, RowTypeOK, Row
<1>3. ClusterTypeOK
    <2>1. list \in [Projects -> Cidrs \union {None}]
        BY <1>2 DEF Init
    <2>2. \A p \in Projects : IngressOf(p) \in IngressObject
        BY <1>1 DEF IngressOf, IngressObject, RowTypeOK, Row
    <2>3. ing \in [Projects -> IngressObject \union {None}]
        BY <2>2 DEF Init
    <2> QED
        BY <2>1, <2>3 DEF Init, ClusterTypeOK, Lists, NoLists
<1>4. ProcTypeOK
    BY DEF Init, ProcTypeOK, AllPC, Job, NoJob, NoRow, Row, Lists, NoLists, Cidrs
<1>5. OtherTypeOK
    BY <1>1, InternalListType DEF Init, OtherTypeOK, NoRow, Row
<1>6. InHand
    BY DEF Init, InHand, Holds, WithProject, SyncPC, TickPC
<1> QED
    BY <1>1, <1>3, <1>4, <1>5, <1>6 DEF TypeInv, TypeOK
--------------------------------------------------------------------------------
(***************************************************************************)
(* The steps of a synchronisation.                                         *)
(***************************************************************************)

Knowledge == {"absent", "current", "old"}

\* A step of one goroutine: to a known place, with what it needs there.
Moves(a) ==
    /\ pc' = [pc EXCEPT ![a] = pc'[a]] /\ pc'[a] \in AllPC
    /\ job' = [job EXCEPT ![a] = job'[a]] /\ job'[a] \in Job
    /\ todo' \in [Actors -> SUBSET Projects]
    /\ seen' \in [Actors -> Knowledge]
    /\ Holds(a)'

LEMMA MovesType ==
    ASSUME ProcTypeOK, InHand, NEW a \in Actors, Moves(a)
    PROVE  ProcTypeOK' /\ InHand'
<1>1. ProcTypeOK'
    BY DEF Moves, ProcTypeOK, Knowledge
<1>2. ASSUME NEW b \in Actors PROVE Holds(b)'
    <2>1. CASE b = a
        BY <2>1 DEF Moves
    <2>2. CASE b # a
        <3>1. pc'[b] = pc[b] /\ job'[b] = job[b]
            BY <2>2 DEF Moves, ProcTypeOK
        <3> QED
            BY <3>1 DEF InHand, Holds, prj, Wanted
    <2> QED
        BY <2>1, <2>2
<1> QED
    BY <1>1, <1>2 DEF InHand

LEMMA NoJobType == NoJob \in Job
BY DEF NoJob, Job, NoRow, Row, NoLists, Lists, Cidrs

LEMMA ReturnMoves ==
    ASSUME ProcTypeOK, NEW a \in Actors, Return(a) \/ SyncReturns(a),
           seen' \in [Actors -> Knowledge]
    PROVE  Moves(a)
<1>1. todo' = todo /\ job' = [job EXCEPT ![a] = NoJob]
    BY DEF Return, SyncReturns
<1>2. pc' = [pc EXCEPT ![a] = pc'[a]] /\ pc'[a] \in {"idle", "next"}
    BY DEF Return, SyncReturns, ProcTypeOK
<1>3. Holds(a)'
    BY <1>2 DEF Holds, WithProject, SyncPC, TickPC
<1> QED
    BY <1>1, <1>2, <1>3, NoJobType DEF Moves, ProcTypeOK, AllPC, RequestPC

LEMMA OutdateType ==
    ASSUME NEW a, NEW S, NEW c, ProcTypeOK, Outdate(a, S, c)
    PROVE  seen' \in [Actors -> Knowledge]
BY DEF Outdate, ProcTypeOK, Knowledge

\* What the computed sets are made of.
LEMMA WantedType ==
    ASSUME ProcTypeOK, NEW a \in Actors
    PROVE  /\ Wanted(a) \in SUBSET Prefixes /\ WithOwnList(a) \in SUBSET Prefixes
           /\ Stale(a) \in SUBSET Prefixes
           /\ \A x \in Wanted(a) : OwnList(a, x) \in Cidrs
<1>1. ASSUME NEW x \in Wanted(a) PROVE OwnList(a, x) \in Cidrs
    <2>1. job[a].allow \in Cidrs /\ job[a].want \in Lists
        BY DEF ProcTypeOK, Job
    <2>2. job[a].want[x] \in Cidrs
        BY <2>1 DEF Lists, Wanted
    <2> QED
        BY <2>1, <2>2 DEF OwnList, Cidrs
<1> QED
    BY <1>1 DEF Wanted, WithOwnList, Stale

\* Writing or deleting one rule's list keeps the lists of a project lists.
LEMMA PutCell ==
    ASSUME NEW f \in [Projects -> Lists], NEW p \in Projects, NEW x,
           NEW c \in Cidrs \union {None}
    PROVE  [f EXCEPT ![p][x] = c] \in [Projects -> Lists]
BY DEF Lists

\* What every step says of the histories.
Judged ==
    /\ clean' \in SUBSET Projects
    /\ cutOff' \in SUBSET Projects
    /\ mirrored' \in BOOLEAN

LEMMA TypeSync ==
    ASSUME TypeInv, NEW a \in Actors, SyncStep(a), UNCHANGED notCluster,
           Judged
    PROVE  TypeInv'
<1> USE DEF TypeInv, TypeOK, Judged, notCluster, rowVars, bookkeeping
<1>1. RowTypeOK' /\ OtherTypeOK'
    BY DEF RowTypeOK, OtherTypeOK
<1>2. Holds(a) /\ job[a] \in Job /\ todo \in [Actors -> SUBSET Projects]
    BY DEF InHand, ProcTypeOK
<1>3. SUFFICES ClusterTypeOK' /\ Moves(a)
    BY <1>1, MovesType
<1> USE DEF SyncPC, WithProject, Holds, prj, Moves, Goto, Get, Knowledge, AllPC
<1>4. CASE ReadHosts(a) \/ ReadAllow(a) \/ ReadFallback(a) \/ ReadRules(a)
    <2>1. ClusterTypeOK'
        BY <1>4 DEF ReadHosts, ReadAllow, ReadFallback, ReadRules, clusterVars, ClusterTypeOK
    <2>2. prj(a) \in Projects
        BY <1>2, <1>4 DEF ReadHosts, ReadAllow, ReadFallback, ReadRules
    <2>3. CASE ReadHosts(a)
        BY <1>2, <2>1, <2>2, <2>3 DEF ReadHosts, ProcTypeOK, Job, RowTypeOK
    <2>4. CASE ReadAllow(a)
        <3>1. Usable(job[a].row.preset) => presets[job[a].row.preset] \in Cidrs
            BY <1>2, UsableType DEF Job, Row
        <3> QED
            BY <1>2, <2>1, <2>2, <2>4, <3>1 DEF ReadAllow, ProcTypeOK, Job
    <2>5. CASE ReadFallback(a)
        BY <1>2, <2>1, <2>2, <2>5, InternalListType DEF ReadFallback, ProcTypeOK, Job
    <2>6. CASE ReadRules(a)
        BY <1>2, <2>1, <2>2, <2>6, RuleListsType DEF ReadRules, ProcTypeOK, Job
    <2> QED
        BY <1>4, <2>3, <2>4, <2>5, <2>6
<1>5. CASE GetList(a) \/ GetIngress(a) \/ GetRoute(a)
    <2>1. ClusterTypeOK'
        BY <1>5 DEF GetList, GetIngress, GetRoute, clusterVars, ClusterTypeOK
    <2> QED
        BY <1>2, <1>5, <2>1 DEF GetList, GetIngress, GetRoute, ProcTypeOK
<1>6. CASE PutList(a)
    <2>1. list' \in [Projects -> Cidrs \union {None}]
        BY <1>2, <1>6 DEF PutList, ClusterTypeOK, Job
    <2>2. seen' \in [Actors -> Knowledge]
        BY <1>6, OutdateType DEF PutList
    <2>3. /\ job' = [job EXCEPT ![a] = job'[a]] /\ job'[a] \in Job
          /\ prj(a)' \in Projects
        <3>1. CanWrite(a, list[prj(a)]) \in BOOLEAN
            BY DEF CanWrite, Fresh
        <3> QED
            BY <1>2, <1>6, <3>1 DEF PutList, ProcTypeOK, Job
    <2> QED
        BY <1>2, <1>6, <2>1, <2>2, <2>3 DEF PutList, ProcTypeOK, ClusterTypeOK
<1>7. CASE PutIngress(a)
    <2>1. seen' \in [Actors -> Knowledge]
        BY <1>7, OutdateType DEF PutIngress
    <2>2. CASE CanWrite(a, ing[prj(a)])
        <3>1. [hosts |-> job[a].hosts, gate |-> Gate(a), tls |-> job[a].row.tls]
                \in IngressObject
            BY <1>2 DEF Job, Row, Gate, IngressObject
        <3>2. ing' \in [Projects -> IngressObject \union {None}]
            BY <1>7, <2>2, <3>1 DEF PutIngress, ClusterTypeOK
        <3>3. Wanted(a) \in SUBSET Prefixes
            BY WantedType
        <3>4. /\ job' = [job EXCEPT ![a] = job'[a]] /\ job'[a] \in Job
              /\ prj(a)' \in Projects
            BY <1>2, <1>7, <2>2, <3>3 DEF PutIngress, ProcTypeOK, Job
        <3> QED
            BY <1>2, <1>7, <2>1, <2>2, <3>2, <3>4 DEF PutIngress, ClusterTypeOK, ProcTypeOK
    <2>3. CASE ~CanWrite(a, ing[prj(a)])
        BY <1>7, <2>1, <2>3, ReturnMoves DEF PutIngress, ClusterTypeOK
    <2> QED
        BY <2>2, <2>3
<1>8. CASE NextRule(a)
    <2>1. ClusterTypeOK'
        BY <1>8 DEF NextRule, clusterVars, ClusterTypeOK
    <2>2. job[a].left \in SUBSET Prefixes
        BY <1>2 DEF Job
    <2>3. CASE job[a].left \intersect WithOwnList(a) = {}
        BY <1>2, <1>8, <2>1, <2>3 DEF NextRule, ProcTypeOK
    <2>4. CASE job[a].left \intersect WithOwnList(a) # {}
        <3>1. PICK x \in job[a].left \intersect WithOwnList(a) :
                    /\ job' = [job EXCEPT ![a].left = @ \ {x}, ![a].cur = x]
                    /\ Get(a, ruleList[prj(a)][x], "putRule")
            BY <1>8, <2>4 DEF NextRule
        <3>2. x \in Prefixes /\ job[a].want[x] # None
            BY <2>2 DEF WithOwnList, Wanted
        <3>3. /\ job' = [job EXCEPT ![a] = job'[a]] /\ job'[a] \in Job
              /\ prj(a)' \in Projects /\ job'[a].cur \in Wanted(a)'
            BY <1>2, <1>8, <2>2, <3>1, <3>2 DEF NextRule, ProcTypeOK, Job, Wanted
        <3> QED
            BY <1>2, <2>1, <3>1, <3>3 DEF ProcTypeOK
    <2> QED
        BY <2>3, <2>4
<1>9. CASE PutRule(a)
    <2>1. seen' \in [Actors -> Knowledge]
        BY <1>9, OutdateType DEF PutRule
    <2>2. CASE CanWrite(a, ruleList[prj(a)][job[a].cur])
        <3>1. OwnList(a, job[a].cur) \in Cidrs
            BY <1>2, <1>9, WantedType DEF PutRule
        <3>2. ruleList' \in [Projects -> Lists]
            <4>1. prj(a) \in Projects /\ ruleList \in [Projects -> Lists]
                BY <1>2, <1>9 DEF PutRule, ClusterTypeOK
            <4>2. ruleList' = [ruleList EXCEPT ![prj(a)][job[a].cur] = OwnList(a, job[a].cur)]
                BY <1>9, <2>2 DEF PutRule
            <4> HIDE DEF prj
            <4> QED
                BY <3>1, <4>1, <4>2, PutCell
        <3>3. /\ job' = [job EXCEPT ![a] = job'[a]] /\ job'[a] \in Job
              /\ prj(a)' \in Projects
            BY <1>2, <1>9, <2>2, SMTT(30) DEF PutRule, ProcTypeOK, Job
        <3> QED
            BY <1>2, <1>9, <2>1, <2>2, <3>2, <3>3 DEF PutRule, ClusterTypeOK, ProcTypeOK
    <2>3. CASE ~CanWrite(a, ruleList[prj(a)][job[a].cur])
        BY <1>9, <2>1, <2>3, ReturnMoves DEF PutRule, ClusterTypeOK
    <2> QED
        BY <2>2, <2>3
<1>10. CASE Prune(a)
    <2>1. ClusterTypeOK'
        BY <1>10 DEF Prune, clusterVars, ClusterTypeOK
    <2> QED
        BY <1>2, <1>10, <2>1, WantedType DEF Prune, ProcTypeOK, Job
<1>11. CASE Drop(a)
    <2>1. seen' \in [Actors -> Knowledge]
        BY <1>11, OutdateType DEF Drop, ProcTypeOK
    <2>2. CASE job[a].left # {}
        <3>1. PICK x \in job[a].left :
                    /\ ruleList' = [ruleList EXCEPT ![prj(a)][x] = None]
                    /\ job' = [job EXCEPT ![a].left = @ \ {x}]
                    /\ UNCHANGED <<pc, todo>>
            BY <1>11, <2>2 DEF Drop
        <3>2. ruleList' \in [Projects -> Lists]
            BY <3>1 DEF ClusterTypeOK, Lists
        <3>3. Moves(a)
            BY <1>2, <1>11, <2>1, <3>1 DEF Drop, ProcTypeOK, Job
        <3> QED
            BY <1>11, <3>2, <3>3 DEF Drop, ClusterTypeOK
    <2>3. CASE job[a].left = {} /\ Wanted(a) = {}
        BY <1>11, <2>1, <2>3, ReturnMoves DEF Drop, ClusterTypeOK
    <2>4. CASE job[a].left = {} /\ Wanted(a) # {}
        BY <1>2, <1>11, <2>1, <2>4 DEF Drop, ClusterTypeOK, ProcTypeOK
    <2> QED
        BY <2>2, <2>3, <2>4
<1>12. CASE PutRoute(a)
    <2>1. seen' \in [Actors -> Knowledge]
        BY <1>12, OutdateType DEF PutRoute
    <2>2. [hosts |-> job[a].hosts, tls |-> job[a].row.tls, all |-> Wanted(a),
           own |-> WithOwnList(a), base |-> job[a].listed] \in RouteObject
        BY <1>2, WantedType DEF Job, Row, RouteObject
    <2>3. route' \in [Projects -> RouteObject \union {None}]
        BY <1>12, <2>2 DEF PutRoute, ClusterTypeOK
    <2> QED
        BY <1>12, <2>1, <2>3, ReturnMoves DEF PutRoute, ClusterTypeOK
<1>13. CASE DeleteRoute(a)
    <2>1. seen' \in [Actors -> Knowledge]
        BY <1>13, OutdateType DEF DeleteRoute
    <2>2. ClusterTypeOK'
        BY <1>13 DEF DeleteRoute, ClusterTypeOK
    <2> QED
        BY <1>2, <1>13, <2>1, <2>2 DEF DeleteRoute, ProcTypeOK
<1> QED
    BY <1>4, <1>5, <1>6, <1>7, <1>8, <1>9, <1>10, <1>11, <1>12, <1>13 DEF SyncStep

--------------------------------------------------------------------------------
(***************************************************************************)
(* The steps of requests, of the tick and of the sweep, and the faults.    *)
(***************************************************************************)

\* What a request on one project holds to write a rule or a domain.
LEMMA RowsType ==
    ASSUME TypeOK, NEW p \in Projects, NEW i \in Ids, NEW x \in Prefixes, NEW c \in Cidrs
    PROVE  [rules EXCEPT ![p][i] = [prefix |-> x, cidrs |-> c]]
                \in [Projects -> [Ids -> Rule \union {None}]]
BY DEF TypeOK, RowTypeOK, Rule

LEMMA TypeRequest ==
    ASSUME TypeInv, NEW r \in Requests, RequestStep(r),
           Judged
    PROVE  TypeInv'
<1> USE DEF TypeInv, TypeOK, Judged, rowVars, clusterVars, bookkeeping, notRows
<1>1. r \in Actors /\ Holds(r) /\ job[r] \in Job /\ todo \in [Actors -> SUBSET Projects]
    BY ConstantsOK DEF InHand, ProcTypeOK, Assumptions
<1>2. SUFFICES RowTypeOK' /\ ClusterTypeOK' /\ OtherTypeOK' /\ Moves(r)
    BY <1>1, MovesType
<1>3. ClusterTypeOK'
    BY DEF RequestStep, LoadProject, Refuse, CountDomains, AddDomain, RemoveDomain,
           PatchTLS, PatchAccess, CheckCidrs, CreatePathRule, ReadPathRule, UpdatePathRule,
           DeletePathRule, PutPreset, DeletePreset, FanOut, ClusterTypeOK
<1>4. OtherTypeOK'
    <2>1. Counted => ops' \in 0 .. MaxOps /\ faults' = faults
        BY ConstantsOK DEF Counted, OtherTypeOK, Assumptions
    <2> QED
        BY <2>1 DEF RequestStep, LoadProject, Refuse, CountDomains, AddDomain, RemoveDomain,
           PatchTLS, PatchAccess, CheckCidrs, CreatePathRule, ReadPathRule, UpdatePathRule,
           DeletePathRule, PutPreset, DeletePreset, FanOut, OtherTypeOK
<1> USE DEF SyncPC, WithProject, RequestPC, PresetPC, PlatformPC, Holds, prj, Moves, Goto,
        Knowledge, AllPC, Edit, Synchronise
<1>5. CASE \E p \in Projects : LoadProject(r, p)
    <2>1. PICK p \in Projects : LoadProject(r, p)
        BY <1>5
    <2>2. project[p] \in Row
        BY DEF RowTypeOK
    <2>3. /\ job' = [job EXCEPT ![r] = job'[r]] /\ job'[r] \in Job
          /\ prj(r)' \in Projects
        BY <1>1, <2>1, <2>2 DEF LoadProject, ProcTypeOK, Job
    <2> QED
        BY <1>1, <1>3, <1>4, <2>1, <2>3 DEF LoadProject, RowTypeOK, ProcTypeOK
<1>6. CASE Refuse(r)
    BY <1>1, <1>3, <1>4, <1>6, ReturnMoves DEF Refuse, Return, RowTypeOK, ProcTypeOK
<1>7. CASE CountDomains(r)
    BY <1>1, <1>3, <1>4, <1>7, ReturnMoves DEF CountDomains, Return, RowTypeOK, ProcTypeOK
<1>8. CASE AddDomain(r)
    <2>1. CASE Return(r) /\ UNCHANGED domains
        <3>1. UNCHANGED rowVars /\ seen' = seen
            BY <1>8, <2>1 DEF AddDomain, Return
        <3>2. RowTypeOK' /\ seen' \in [Actors -> Knowledge]
            BY <3>1 DEF RowTypeOK, ProcTypeOK
        <3>3. Moves(r)
            BY <1>1, <2>1, <3>2, ReturnMoves
        <3> QED
            BY <1>3, <1>4, <3>2, <3>3
    <2>2. CASE ~(Return(r) /\ UNCHANGED domains)
        <3>1. PICK h \in Hosts : domains' = [domains EXCEPT ![prj(r)] = @ \union {h}]
            BY <1>8, <2>2 DEF AddDomain
        <3>2. UNCHANGED <<presets, project, rules, todo, seen, job>> /\ pc' = [pc EXCEPT ![r] = "hosts"]
            BY <1>8, <2>2 DEF AddDomain
        <3>3. RowTypeOK'
            BY <3>1, <3>2 DEF RowTypeOK
        <3>4. Moves(r)
            BY <1>1, <1>8, <3>2 DEF AddDomain, ProcTypeOK
        <3> QED
            BY <1>3, <1>4, <3>3, <3>4
    <2> QED
        BY <2>1, <2>2
<1>9. CASE RemoveDomain(r)
    BY <1>1, <1>3, <1>4, <1>9 DEF RemoveDomain, RowTypeOK, ProcTypeOK
<1>10. CASE PatchTLS(r)
    <2>1. PICK t \in BOOLEAN : /\ project' = [project EXCEPT ![prj(r)].tls = t]
                               /\ job' = [job EXCEPT ![r].row.tls = t]
        BY <1>10 DEF PatchTLS
    <2>2. project' \in [Projects -> Row]
        BY <2>1 DEF RowTypeOK, Row
    <2>3. /\ job' = [job EXCEPT ![r] = job'[r]] /\ job'[r] \in Job
          /\ prj(r)' = prj(r)
        BY <1>1, <2>1 DEF ProcTypeOK, Job, Row
    <2> QED
        BY <1>1, <1>3, <1>4, <1>10, <2>2, <2>3 DEF PatchTLS, RowTypeOK, ProcTypeOK
<1>11. CASE PatchAccess(r)
    <2>1. CASE \E n \in Presets \union {None} :
                    /\ project' = [project EXCEPT ![prj(r)].preset = n]
                    /\ job' = [job EXCEPT ![r].row.preset = n]
        <3>1. PICK n \in Presets \union {None} :
                    /\ project' = [project EXCEPT ![prj(r)].preset = n]
                    /\ job' = [job EXCEPT ![r].row.preset = n]
            BY <2>1
        <3>2. project' \in [Projects -> Row]
            BY <3>1 DEF RowTypeOK, Row
        <3>3. /\ job' = [job EXCEPT ![r] = job'[r]] /\ job'[r] \in Job
              /\ prj(r)' = prj(r)
            BY <1>1, <3>1 DEF ProcTypeOK, Job, Row
        <3> QED
            BY <1>1, <1>3, <1>4, <1>11, <3>2, <3>3 DEF PatchAccess, RowTypeOK, ProcTypeOK
    <2>2. CASE UNCHANGED <<project, job>>
        BY <1>1, <1>3, <1>4, <1>11, <2>2 DEF PatchAccess, RowTypeOK, ProcTypeOK
    <2> QED
        BY <1>11, <2>1, <2>2 DEF PatchAccess
<1>19. CASE CheckCidrs(r)
    BY <1>1, <1>3, <1>4, <1>19, ReturnMoves DEF CheckCidrs, Return, RowTypeOK, ProcTypeOK
<1>12. CASE CreatePathRule(r)
    BY <1>1, <1>3, <1>4, <1>12, RowsType, ConstantsOK
    DEF CreatePathRule, StoreRule, RowTypeOK, ProcTypeOK, Assumptions, Cidrs
<1>13. CASE ReadPathRule(r)
    <2>1. PICK i \in Ids :
                /\ rules[prj(r)][i] # None
                /\ job' = [job EXCEPT ![r].allow = rules[prj(r)][i].cidrs, ![r].id = i]
        BY <1>13 DEF ReadPathRule
    <2>2. rules[prj(r)][i].cidrs \in Cidrs
        BY <1>1, <1>13, <2>1 DEF ReadPathRule, RowTypeOK, Rule
    <2>3. /\ job' = [job EXCEPT ![r] = job'[r]] /\ job'[r] \in Job
          /\ prj(r)' = prj(r) /\ job'[r].id \in Ids
        BY <1>1, <2>1, <2>2 DEF ProcTypeOK, Job
    <2> QED
        BY <1>1, <1>3, <1>4, <1>13, <2>3 DEF ReadPathRule, RowTypeOK, ProcTypeOK
<1>14. CASE UpdatePathRule(r)
    <2>1. CASE rules[prj(r)][job[r].id] = None
        BY <1>1, <1>3, <1>4, <1>14, <2>1, ReturnMoves
        DEF UpdatePathRule, StoreRule, Return, RowTypeOK, ProcTypeOK
    <2>2. CASE rules[prj(r)][job[r].id] # None
        <3>1. PICK x \in Prefixes, c \in RuleCidrs \union {job[r].allow} :
                    StoreRule(r, job[r].id, x, c)
            BY <1>14, <2>2 DEF UpdatePathRule
        <3>2. c \in Cidrs
            BY <1>1, ConstantsOK DEF Assumptions, Cidrs, Job
        <3>3. RowTypeOK'
            BY <1>1, <1>14, <3>1, <3>2, RowsType DEF UpdatePathRule, StoreRule, RowTypeOK
        <3>4. /\ job' = [job EXCEPT ![r] = job'[r]] /\ job'[r] \in Job
              /\ prj(r)' = prj(r)
            BY <1>1, <1>14, <2>2 DEF UpdatePathRule, ProcTypeOK, Job, Cidrs
        <3> QED
            BY <1>1, <1>3, <1>4, <1>14, <3>1, <3>3, <3>4
            DEF UpdatePathRule, StoreRule, ProcTypeOK
    <2> QED
        BY <2>1, <2>2
<1>15. CASE DeletePathRule(r)
    BY <1>1, <1>3, <1>4, <1>15 DEF DeletePathRule, RowTypeOK, ProcTypeOK
<1>16. CASE PutPreset(r)
    <2>1. PICK n \in Presets, c \in PresetCidrs :
                /\ presets' = [presets EXCEPT ![n] = c]
                /\ job' = [job EXCEPT ![r].row.preset = n]
                /\ Goto(r, IF n = Internal THEN "platform" ELSE "fan")
        BY <1>16 DEF PutPreset
    <2>2. RowTypeOK'
        <3>1. c \in Cidrs /\ c # None
            BY ConstantsOK DEF Assumptions
        <3> QED
            BY <1>16, <2>1, <3>1 DEF PutPreset, RowTypeOK
    <2>3. job' = [job EXCEPT ![r] = job'[r]] /\ job'[r] \in Job
        BY <1>1, <2>1 DEF ProcTypeOK, Job, Row
    <2> QED
        BY <1>1, <1>3, <1>4, <1>16, <2>1, <2>2, <2>3 DEF PutPreset, ProcTypeOK, TickPC
<1>17. CASE DeletePreset(r)
    <2>1. PICK n \in Presets \ {Internal, Public} :
                /\ presets' = [presets EXCEPT ![n] = None]
                /\ job' = [job EXCEPT ![r].row.preset = n]
        BY <1>17 DEF DeletePreset
    <2>2. project' \in [Projects -> Row]
        BY <1>17, SMTT(30) DEF DeletePreset, RowTypeOK, Row
    <2>3. RowTypeOK'
        BY <1>17, <2>1, <2>2, ConstantsOK DEF DeletePreset, RowTypeOK, Assumptions
    <2>4. job' = [job EXCEPT ![r] = job'[r]] /\ job'[r] \in Job
        BY <1>1, <2>1 DEF ProcTypeOK, Job, Row
    <2> QED
        BY <1>1, <1>3, <1>4, <1>17, <2>3, <2>4 DEF DeletePreset, ProcTypeOK, TickPC
<1>18. CASE FanOut(r)
    <2>1. todo' \in [Actors -> SUBSET Projects]
        BY <1>1, <1>18 DEF FanOut
    <2>2. job' = [job EXCEPT ![r] = NoJob]
        BY <1>18 DEF FanOut
    <2>3. pc' = [pc EXCEPT ![r] = pc'[r]] /\ pc'[r] \in {"idle", "next"}
        BY <1>1, <1>18 DEF FanOut, ProcTypeOK
    <2> QED
        BY <1>1, <1>3, <1>4, <1>18, <2>1, <2>2, <2>3, NoJobType
        DEF FanOut, RowTypeOK, ProcTypeOK, TickPC
<1> QED
    BY <1>5, <1>6, <1>7, <1>8, <1>9, <1>10, <1>11, <1>12, <1>13, <1>14, <1>15, <1>16, <1>17,
       <1>18, <1>19 DEF RequestStep

LEMMA TypeTick ==
    ASSUME TypeInv, TickStep, Judged
    PROVE  TypeInv'
<1> USE DEF TypeInv, TypeOK, Judged, rowVars, clusterVars, procVars, bookkeeping, notRows
<1>1. /\ Tick \in Actors /\ Holds(Tick) /\ job[Tick] \in Job
      /\ todo \in [Actors -> SUBSET Projects]
    BY ConstantsOK DEF InHand, ProcTypeOK, Assumptions
<1>2. RowTypeOK'
    BY DEF TickStep, Apply, ProjectRuns, GetBare, PutBare, Load, RowTypeOK
<1> USE DEF SyncPC, WithProject, TickPC, RequestPC, Holds, prj, Moves, Goto, Knowledge, AllPC
<1>3. CASE \E p \in Projects : Apply(p)
    <2>1. PICK p \in Projects : Apply(p)
        BY <1>3
    <2>2. ops' \in 0 .. MaxOps /\ faults' = faults
        BY <2>1, ConstantsOK DEF Apply, Counted, OtherTypeOK, Assumptions
    <2>3. ClusterTypeOK' /\ OtherTypeOK'
        BY <2>1, <2>2 DEF Apply, ClusterTypeOK, OtherTypeOK
    <2>4. /\ job' = [job EXCEPT ![Tick] = job'[Tick]] /\ job'[Tick] \in Job
          /\ prj(Tick)' = p
        BY <1>1, <2>1 DEF Apply, ProcTypeOK, Job
    <2>5. Moves(Tick)
        BY <1>1, <2>1, <2>4 DEF Apply, ProcTypeOK
    <2> QED
        BY <1>1, <1>2, <2>3, <2>5, MovesType
<1>4. CASE \E p \in Projects : ProjectRuns(p)
    BY <1>2, <1>4 DEF ProjectRuns, ClusterTypeOK, OtherTypeOK, ProcTypeOK, InHand, Wanted
<1>5. CASE GetBare
    <2>1. ClusterTypeOK' /\ OtherTypeOK'
        BY <1>5 DEF GetBare, ClusterTypeOK, OtherTypeOK
    <2>2. Moves(Tick)
        BY <1>1, <1>5 DEF GetBare, Get, ProcTypeOK
    <2> QED
        BY <1>1, <1>2, <2>1, <2>2, MovesType
<1>6. CASE PutBare
    <2>1. ClusterTypeOK'
        <3>1. Bare \in IngressObject
            BY DEF Bare, IngressObject
        <3> QED
            BY <1>6, <3>1 DEF PutBare, ClusterTypeOK
    <2>2. OtherTypeOK'
        BY <1>6 DEF PutBare, OtherTypeOK
    <2>3. seen' \in [Actors -> Knowledge]
        BY <1>6, OutdateType DEF PutBare
    <2>4. Moves(Tick)
        BY <1>1, <1>6, <2>3, ReturnMoves DEF PutBare, ProcTypeOK
    <2> QED
        BY <1>1, <1>2, <2>1, <2>2, <2>4, MovesType
<1>7. CASE Load
    <2>1. ClusterTypeOK' /\ OtherTypeOK'
        BY <1>7 DEF Load, ClusterTypeOK, OtherTypeOK
    <2>2. project[prj(Tick)] \in Row
        BY <1>1, <1>7 DEF Load, RowTypeOK
    <2>3. /\ job' = [job EXCEPT ![Tick] = job'[Tick]] /\ job'[Tick] \in Job
          /\ prj(Tick)' = prj(Tick)
        BY <1>1, <1>7, <2>2 DEF Load, ProcTypeOK, Job
    <2>4. Moves(Tick)
        BY <1>1, <1>7, <2>3 DEF Load, ProcTypeOK
    <2> QED
        BY <1>1, <1>2, <2>1, <2>4, MovesType
<1> QED
    BY <1>3, <1>4, <1>5, <1>6, <1>7 DEF TickStep

LEMMA TypeShared ==
    ASSUME TypeInv, NEW a \in Actors, Judged,
           ReadInternal(a) \/ GetPlatform(a) \/ PutPlatform(a) \/ NextProject(a)
    PROVE  TypeInv'
<1> USE DEF TypeInv, TypeOK, Judged, rowVars, clusterVars, bookkeeping, notRows
<1>1. job[a] \in Job /\ todo \in [Actors -> SUBSET Projects]
    BY DEF ProcTypeOK
<1>2. RowTypeOK' /\ ClusterTypeOK'
    BY DEF ReadInternal, GetPlatform, PutPlatform, NextProject, RowTypeOK, ClusterTypeOK
<1>3. OtherTypeOK'
    BY <1>1 DEF ReadInternal, GetPlatform, PutPlatform, NextProject, OtherTypeOK, Job
<1>4. SUFFICES Moves(a)
    BY <1>2, <1>3, MovesType
<1> USE DEF SyncPC, WithProject, TickPC, RequestPC, PresetPC, PlatformPC, Holds, prj, Moves,
        Goto, Knowledge, AllPC
<1>5. CASE ReadInternal(a)
    <2>1. job' = [job EXCEPT ![a] = job'[a]] /\ job'[a] \in Job
        BY <1>1, <1>5, InternalListType DEF ReadInternal, ProcTypeOK, Job
    <2> QED
        BY <1>1, <1>5, <2>1 DEF ReadInternal, ProcTypeOK
<1>6. CASE GetPlatform(a)
    BY <1>1, <1>6 DEF GetPlatform, Get, ProcTypeOK
<1>7. CASE PutPlatform(a)
    <2>1. seen' \in [Actors -> Knowledge]
        BY <1>7, OutdateType DEF PutPlatform
    <2>2. job' = [job EXCEPT ![a] = job'[a]] /\ job'[a] \in Job
        BY <1>1, <1>7 DEF PutPlatform, ProcTypeOK, Job, Cidrs
    <2>3. pc' = [pc EXCEPT ![a] = pc'[a]] /\ pc'[a] \in {"idle", "fan"}
        BY <1>7 DEF PutPlatform, ProcTypeOK
    <2> QED
        BY <1>1, <1>7, <2>1, <2>2, <2>3 DEF PutPlatform, ProcTypeOK
<1>8. CASE NextProject(a)
    <2>1. PICK p \in todo[a] :
                /\ todo' = [todo EXCEPT ![a] = @ \ {p}]
                /\ job' = [job EXCEPT ![a].prj = p,
                                      ![a].row = IF a = Sweep THEN snapshot[p] ELSE project[p]]
        BY <1>8 DEF NextProject
    <2>2. p \in Projects
        BY <1>1, <2>1
    <2>3. snapshot[p] \in Row /\ project[p] \in Row
        BY <2>2 DEF OtherTypeOK, RowTypeOK
    <2>4. /\ job' = [job EXCEPT ![a] = job'[a]] /\ job'[a] \in Job
          /\ prj(a)' = p
        BY <1>1, <2>1, <2>2, <2>3 DEF ProcTypeOK, Job
    <2> QED
        BY <1>1, <1>8, <2>1, <2>2, <2>4 DEF NextProject, ProcTypeOK
<1> QED
    BY <1>5, <1>6, <1>7, <1>8

LEMMA TypeSweep ==
    ASSUME TypeInv, ListForSweep, Judged
    PROVE  TypeInv'
<1> USE DEF TypeInv, TypeOK, Judged, rowVars, clusterVars, bookkeeping
<1>1. Sweep \in Actors
    BY ConstantsOK DEF Assumptions
<1>2. RowTypeOK' /\ ClusterTypeOK'
    BY DEF ListForSweep, RowTypeOK, ClusterTypeOK
<1>3. OtherTypeOK'
    BY DEF ListForSweep, OtherTypeOK, RowTypeOK
<1>4. todo' \in [Actors -> SUBSET Projects]
    BY <1>1 DEF ListForSweep, ProcTypeOK, OtherTypeOK
<1>5. Moves(Sweep)
    BY <1>1, <1>4 DEF ListForSweep, Moves, Holds, WithProject, SyncPC, TickPC, RequestPC,
                      AllPC, ProcTypeOK, Knowledge
<1> QED
    BY <1>1, <1>2, <1>3, <1>5, MovesType

LEMMA TypeFaults ==
    ASSUME TypeInv, Faulty, Judged
    PROVE  TypeInv'
<1> USE DEF TypeInv, TypeOK, Judged, rowVars, clusterVars, bookkeeping
<1>1. RowTypeOK'
    BY DEF Faulty, RowTypeOK
<1>2. OtherTypeOK'
    BY ConstantsOK DEF Faulty, Fault, OtherTypeOK, Assumptions
<1>3. ClusterTypeOK'
    BY DEF Faulty, CallFails, CallerFails, ClientGone, Restart, ClusterTypeOK
<1>4. SUFFICES ProcTypeOK' /\ InHand'
    BY <1>1, <1>2, <1>3
<1> USE DEF SyncPC, WithProject, TickPC, RequestPC, PresetPC, PlatformPC, Holds, prj, Moves,
        Goto, Knowledge, AllPC
<1>5. ASSUME NEW a \in Actors, CallFails(a) PROVE Moves(a)
    <2>1. Holds(a)
        BY DEF InHand
    <2>2. CASE SyncReturns(a) /\ seen' = [seen EXCEPT ![a] = "old"]
        BY <2>2, ReturnMoves DEF ProcTypeOK
    <2>3. CASE ~(SyncReturns(a) /\ seen' = [seen EXCEPT ![a] = "old"])
        BY <1>5, <2>1, <2>3 DEF CallFails, ProcTypeOK
    <2> QED
        BY <1>5, <2>2, <2>3
<1>6. ASSUME NEW a \in Actors, CallerFails(a) PROVE Moves(a)
    <2>1. CASE Return(a)
        BY <2>1, ReturnMoves DEF Return, ProcTypeOK
    <2>2. CASE ~Return(a)
        <3>1. todo' \in [Actors -> SUBSET Projects]
            BY <1>6, <2>2 DEF CallerFails, ProcTypeOK
        <3>2. job' = job \/ job' = [job EXCEPT ![a].allow = {}]
            BY <1>6, <2>2 DEF CallerFails
        <3>3. job' = [job EXCEPT ![a] = job'[a]] /\ job'[a] \in Job
            BY <3>2 DEF ProcTypeOK, Job, Cidrs
        <3> QED
            BY <1>6, <2>2, <3>1, <3>3 DEF CallerFails, ProcTypeOK
    <2> QED
        BY <2>1, <2>2
<1>7. ASSUME NEW r \in Requests, ClientGone(r) PROVE r \in Actors /\ Moves(r)
    <2>1. r \in Actors
        BY ConstantsOK DEF Assumptions
    <2> QED
        BY <1>7, <2>1, NoJobType DEF ClientGone, ProcTypeOK
<1>8. ASSUME Restart PROVE ProcTypeOK' /\ InHand'
    BY <1>8, NoJobType DEF Restart, ProcTypeOK, InHand
<1> QED
    BY <1>5, <1>6, <1>7, <1>8, MovesType DEF Faulty

LEMMA TypeNext == TypeInv /\ [Next]_vars => TypeInv'
<1> SUFFICES ASSUME TypeInv, [Next]_vars PROVE TypeInv'
    OBVIOUS
<1>1. CASE UNCHANGED vars
    BY <1>1 DEF TypeInv, TypeOK, RowTypeOK, ClusterTypeOK, ProcTypeOK, OtherTypeOK, InHand,
                Holds, Wanted, prj, vars, rowVars, clusterVars, procVars, bookkeeping
<1>2. CASE Next
    <2>1. Judged
        BY <1>2 DEF Next, Judge, JudgePlatform, NoteCutOff, Judged
    <2> QED
        BY <1>2, <2>1, TypeRequest, TypeTick, TypeSweep, TypeShared, TypeSync, TypeFaults
        DEF Next, SharedStep
<1> QED
    BY <1>1, <1>2

\* Every variable has its type in every reachable state, and no goroutine is on
\* its way through a synchronisation (reconciler.go, project_actions.go) without
\* a project, or writes the list of a rule that it has not read.
THEOREM AccessTypeCorrect == Spec => []TypeOK
<1>1. Spec => []TypeInv
    BY TypeInit, TypeNext, PTL DEF Spec
<1>2. TypeInv => TypeOK
    BY DEF TypeInv
<1> QED
    BY <1>1, <1>2, PTL

--------------------------------------------------------------------------------
(***************************************************************************)
(* NeverWorldOpen.  What is written to a list was in hand before, and what *)
(* is in hand never contains the source that admits everybody.             *)
(***************************************************************************)

RulesClosed ==
    \A p \in Projects, i \in Ids : rules[p][i] # None => World \notin rules[p][i].cidrs

WorldInv ==
    /\ NeverWorldOpen
    /\ RulesClosed
    /\ \A a \in Actors : World \notin job[a].allow

LEMMA WorldInit == Init => WorldInv
<1> SUFFICES ASSUME Init PROVE WorldInv
    OBVIOUS
<1>1. TypeInv
    BY TypeInit
<1>2. World \notin InternalList
    BY DEF InternalList
<1>3. \A p \in Projects : World \notin AllowOf(p)
    BY <1>2 DEF AllowOf, Usable, Restricts
<1>4. NeverWorldOpen
    BY <1>2, <1>3 DEF Init, NeverWorldOpen, NoLists
<1> QED
    BY <1>4 DEF Init, WorldInv, RulesClosed, NoJob

\* A step of one goroutine that touches neither rules nor lists.
LEMMA WorldHand ==
    ASSUME TypeInv, WorldInv, NEW a \in Actors, job' = [job EXCEPT ![a] = job'[a]],
           World \notin job'[a].allow, UNCHANGED <<list, ruleList, platform, rules>>
    PROVE  WorldInv'
<1>1. \A b \in Actors : World \notin job'[b].allow
    BY DEF WorldInv, TypeInv, TypeOK, ProcTypeOK
<1> QED
    BY <1>1 DEF WorldInv, NeverWorldOpen, RulesClosed

LEMMA WorldSync ==
    ASSUME TypeInv, WorldInv, NEW a \in Actors, SyncStep(a), UNCHANGED notCluster
    PROVE  WorldInv'
<1> USE DEF notCluster, rowVars, clusterVars, prj, Goto
<1>1. /\ job \in [Actors -> Job] /\ job[a] \in Job /\ World \notin job[a].allow
      /\ list \in [Projects -> Cidrs \union {None}] /\ ruleList \in [Projects -> Lists]
    BY DEF TypeInv, TypeOK, ProcTypeOK, ClusterTypeOK, WorldInv
<1>2. World \notin NoJob.allow
    BY DEF NoJob
<1>3. /\ job' = [job EXCEPT ![a] = job'[a]]
      /\ World \notin job'[a].allow
    <2>1. CASE ReadHosts(a) \/ ReadRules(a)
        BY <1>1, <2>1 DEF ReadHosts, ReadRules, Job
    <2>2. CASE ReadAllow(a) \/ ReadFallback(a)
        BY <1>1, <2>2 DEF ReadAllow, ReadFallback, Usable, Restricts, InternalList, Job
    <2>3. CASE GetList(a) \/ PutList(a) \/ GetIngress(a) \/ Prune(a) \/ GetRoute(a)
                 \/ DeleteRoute(a)
        BY <1>1, <2>3 DEF GetList, PutList, GetIngress, Prune, GetRoute, DeleteRoute, Job
    <2>4. CASE PutIngress(a) \/ PutRoute(a)
        BY <1>1, <1>2, <2>4 DEF PutIngress, PutRoute, SyncReturns, Job
    <2>5. CASE NextRule(a) \/ PutRule(a)
        <3>1. CASE NextRule(a) /\ job[a].left \intersect WithOwnList(a) = {}
            BY <1>1, <3>1 DEF NextRule
        <3>2. CASE NextRule(a) /\ job[a].left \intersect WithOwnList(a) # {}
            <4>1. PICK x \in job[a].left \intersect WithOwnList(a) :
                        job' = [job EXCEPT ![a].left = @ \ {x}, ![a].cur = x]
                BY <3>2 DEF NextRule
            <4> QED
                BY <1>1, <4>1 DEF Job
        <3>3. CASE PutRule(a)
            BY <1>1, <1>2, <3>3 DEF PutRule, SyncReturns, Job
        <3> QED
            BY <2>5, <3>1, <3>2, <3>3
    <2>6. CASE Drop(a)
        <3>1. CASE job[a].left # {}
            <4>1. PICK x \in job[a].left : job' = [job EXCEPT ![a].left = @ \ {x}]
                BY <2>6, <3>1 DEF Drop
            <4> QED
                BY <1>1, <4>1 DEF Job
        <3>2. CASE job[a].left = {}
            BY <1>1, <1>2, <2>6, <3>2 DEF Drop, SyncReturns
        <3> QED
            BY <3>1, <3>2
    <2> QED
        BY <2>1, <2>2, <2>3, <2>4, <2>5, <2>6 DEF SyncStep
<1>4. CASE PutList(a)
    <2>1. \A p \in Projects : list'[p] = list[p] \/ list'[p] = job[a].allow
        BY <1>1, <1>4 DEF PutList
    <2>2. NeverWorldOpen'
        BY <1>1, <1>4, <2>1 DEF PutList, WorldInv, NeverWorldOpen
    <2> QED
        BY <1>1, <1>3, <2>2 DEF WorldInv, RulesClosed
<1>5. CASE PutRule(a) \/ Drop(a)
    <2>1. \A x \in Prefixes : World \notin OwnList(a, x)
        BY <1>1 DEF OwnList
    <2>2. ASSUME NEW p \in Projects, NEW x \in Prefixes
          PROVE  \/ ruleList'[p][x] \in {ruleList[p][x], None}
                 \/ ruleList'[p][x] = OwnList(a, x)
        <3>1. CASE PutRule(a)
            BY <1>1, <3>1 DEF PutRule, Lists
        <3>2. CASE Drop(a) /\ job[a].left # {}
            <4>1. PICK y \in job[a].left : ruleList' = [ruleList EXCEPT ![prj(a)][y] = None]
                BY <3>2 DEF Drop
            <4> QED
                BY <1>1, <4>1 DEF Lists
        <3>3. CASE Drop(a) /\ job[a].left = {}
            BY <3>3 DEF Drop
        <3> QED
            BY <1>5, <3>1, <3>2, <3>3
    <2>3. NeverWorldOpen'
        BY <1>5, <2>1, <2>2 DEF PutRule, Drop, WorldInv, NeverWorldOpen
    <2> QED
        BY <1>1, <1>3, <2>3 DEF WorldInv, RulesClosed
<1>6. CASE ~(PutList(a) \/ PutRule(a) \/ Drop(a))
    <2>1. UNCHANGED <<list, ruleList>>
        BY <1>6 DEF SyncStep, ReadHosts, ReadAllow, ReadFallback, ReadRules, GetList,
                    GetIngress, PutIngress, NextRule, Prune, GetRoute, PutRoute, DeleteRoute
    <2> QED
        BY <1>3, <2>1, WorldHand
<1> QED
    BY <1>4, <1>5, <1>6

LEMMA WorldRequest ==
    ASSUME TypeInv, WorldInv, NEW r \in Requests, RequestStep(r)
    PROVE  WorldInv'
<1> USE DEF rowVars, clusterVars, notRows, Goto, Return, Edit, Synchronise, prj
<1>1. /\ r \in Actors
      /\ job \in [Actors -> Job] /\ job[r] \in Job /\ World \notin job[r].allow
      /\ rules \in [Projects -> [Ids -> Rule \union {None}]]
    BY ConstantsOK DEF TypeInv, TypeOK, ProcTypeOK, RowTypeOK, WorldInv, Assumptions
<1>2. World \notin NoJob.allow
    BY DEF NoJob
<1>3. UNCHANGED <<list, ruleList, platform>>
    BY DEF RequestStep, LoadProject, Refuse, CountDomains, AddDomain, RemoveDomain,
           PatchTLS, PatchAccess, CheckCidrs, CreatePathRule, ReadPathRule, UpdatePathRule,
           DeletePathRule, PutPreset, DeletePreset, FanOut
<1>4. job' = [job EXCEPT ![r] = job'[r]] /\ World \notin job'[r].allow
    <2>1. CASE \E p \in Projects : LoadProject(r, p)
        <3>1. PICK p \in Projects : job' = [job EXCEPT ![r].prj = p, ![r].row = project[p]]
            BY <2>1 DEF LoadProject
        <3> QED
            BY <1>1, <3>1 DEF Job
    <2>2. CASE Refuse(r) \/ CountDomains(r) \/ AddDomain(r) \/ RemoveDomain(r)
        BY <1>1, <1>2, <2>2 DEF Refuse, CountDomains, AddDomain, RemoveDomain
    <2>3. CASE PatchTLS(r) \/ PatchAccess(r) \/ CheckCidrs(r)
        BY <1>1, <1>2, <2>3 DEF PatchTLS, PatchAccess, CheckCidrs, Job
    <2>4. CASE CreatePathRule(r) \/ DeletePathRule(r)
        BY <1>1, <2>4 DEF CreatePathRule, DeletePathRule
    <2>5. CASE ReadPathRule(r)
        <3>1. PICK i \in Ids :
                    /\ rules[prj(r)][i] # None
                    /\ job' = [job EXCEPT ![r].allow = rules[prj(r)][i].cidrs, ![r].id = i]
            BY <2>5 DEF ReadPathRule
        <3>2. prj(r) \in Projects
            BY <1>1, <2>5 DEF ReadPathRule, TypeInv, InHand, Holds, WithProject
        <3>3. World \notin rules[prj(r)][i].cidrs
            BY <3>1, <3>2 DEF WorldInv, RulesClosed
        <3> QED
            BY <1>1, <3>1, <3>3 DEF Job
    <2>6. CASE UpdatePathRule(r)
        BY <1>1, <1>2, <2>6 DEF UpdatePathRule, Job
    <2>7. CASE PutPreset(r) \/ DeletePreset(r) \/ FanOut(r)
        BY <1>1, <1>2, <2>7 DEF PutPreset, DeletePreset, FanOut, Job
    <2> QED
        BY <2>1, <2>2, <2>3, <2>4, <2>5, <2>6, <2>7 DEF RequestStep
<1>5. RulesClosed'
    <2>1. ASSUME NEW p \in Projects, NEW i \in Ids
          PROVE  \/ rules'[p][i] \in {rules[p][i], None}
                 \/ \E x \in Prefixes, c \in RuleCidrs \union {job[r].allow} :
                        rules'[p][i] = [prefix |-> x, cidrs |-> c]
        <3>1. CASE CreatePathRule(r)
            BY <1>1, <3>1 DEF CreatePathRule, StoreRule
        <3>2. CASE UpdatePathRule(r)
            <4>1. CASE rules[prj(r)][job[r].id] = None
                BY <3>2, <4>1 DEF UpdatePathRule
            <4>2. CASE rules[prj(r)][job[r].id] # None
                <5>1. PICK x \in Prefixes, c \in RuleCidrs \union {job[r].allow} :
                            StoreRule(r, job[r].id, x, c)
                    BY <3>2, <4>2 DEF UpdatePathRule
                <5> QED
                    BY <1>1, <5>1 DEF StoreRule
            <4> QED
                BY <4>1, <4>2
        <3>3. CASE DeletePathRule(r)
            BY <1>1, <3>3 DEF DeletePathRule
        <3>4. CASE ~(CreatePathRule(r) \/ UpdatePathRule(r) \/ DeletePathRule(r))
            BY <3>4 DEF RequestStep, LoadProject, Refuse, CountDomains, AddDomain,
                RemoveDomain, PatchTLS, PatchAccess, CheckCidrs, ReadPathRule, PutPreset,
                DeletePreset, FanOut
        <3> QED
            BY <3>1, <3>2, <3>3, <3>4
    <2>2. \A c \in RuleCidrs \union {job[r].allow} : World \notin c
        BY <1>1, ConstantsOK DEF Assumptions
    <2>3. ASSUME NEW p \in Projects, NEW i \in Ids, rules'[p][i] # None
          PROVE  World \notin rules'[p][i].cidrs
        <3>1. CASE rules'[p][i] = rules[p][i]
            BY <2>3, <3>1 DEF WorldInv, RulesClosed
        <3>2. CASE rules'[p][i] # rules[p][i]
            <4>1. PICK x \in Prefixes, c \in RuleCidrs \union {job[r].allow} :
                        rules'[p][i] = [prefix |-> x, cidrs |-> c]
                BY <2>1, <2>3, <3>2
            <4> QED
                BY <2>2, <4>1
        <3> QED
            BY <3>1, <3>2
    <2> QED
        BY <2>3 DEF RulesClosed
<1> QED
    BY <1>1, <1>3, <1>4, <1>5 DEF WorldInv, NeverWorldOpen, TypeInv, TypeOK, ProcTypeOK

LEMMA WorldOthers ==
    ASSUME TypeInv, WorldInv,
           \/ TickStep
           \/ \E a \in Actors : ReadInternal(a) \/ GetPlatform(a) \/ NextProject(a)
           \/ ListForSweep
           \/ Faulty
    PROVE  WorldInv'
<1> USE DEF rowVars, clusterVars, procVars, notRows, Goto, Return
<1>1. /\ job \in [Actors -> Job]
      /\ \A a \in Actors : World \notin job[a].allow
      /\ Tick \in Actors /\ \A r \in Requests : r \in Actors
    BY ConstantsOK DEF TypeInv, TypeOK, ProcTypeOK, WorldInv, Assumptions
<1>2. World \notin NoJob.allow
    BY DEF NoJob
<1>3. UNCHANGED <<list, ruleList, platform, rules>>
    BY DEF TickStep, Apply, GetBare, PutBare, Load, ProjectRuns, ReadInternal, GetPlatform,
           NextProject, ListForSweep, Faulty, CallFails, CallerFails, ClientGone, Restart
<1>4. SUFFICES ASSUME NEW b \in Actors PROVE World \notin job'[b].allow
    BY <1>3 DEF WorldInv, NeverWorldOpen, RulesClosed
<1>5. CASE TickStep
    <2>1. PICK p \in Projects \union {None} :
                job' \in {job, [job EXCEPT ![Tick].prj = p], [job EXCEPT ![Tick] = NoJob],
                          [job EXCEPT ![Tick].row = project[prj(Tick)]]}
        BY <1>5 DEF TickStep, Apply, GetBare, PutBare, Load, ProjectRuns, Get, SyncReturns
    <2> QED
        BY <1>1, <1>2, <2>1 DEF Job
<1>6. CASE \E a \in Actors : ReadInternal(a)
    BY <1>1, <1>6 DEF ReadInternal, InternalList, Job
<1>7. CASE (\E a \in Actors : GetPlatform(a)) \/ ListForSweep
    BY <1>1, <1>7 DEF GetPlatform, ListForSweep
<1>8. CASE \E a \in Actors : NextProject(a)
    <2>1. PICK a \in Actors, p \in Projects :
                job' = [job EXCEPT ![a].prj = p,
                                   ![a].row = IF a = Sweep THEN snapshot[p] ELSE project[p]]
        BY <1>8 DEF NextProject, TypeInv, TypeOK, ProcTypeOK
    <2> QED
        BY <1>1, <2>1 DEF Job
<1>9. CASE Faulty
    <2>1. \A c \in Actors : job'[c] \in {job[c], NoJob} \/ job'[c].allow = {}
        BY <1>1, <1>9 DEF Faulty, CallFails, CallerFails, ClientGone, Restart, SyncReturns, Job
    <2> QED
        BY <1>1, <1>2, <2>1
<1> QED
    BY <1>5, <1>6, <1>7, <1>8, <1>9

LEMMA WorldPlatform ==
    ASSUME TypeInv, WorldInv, NEW a \in Actors, PutPlatform(a)
    PROVE  WorldInv'
<1>1. job \in [Actors -> Job] /\ World \notin job[a].allow
    BY DEF TypeInv, TypeOK, ProcTypeOK, WorldInv
<1>2. /\ platform' \in {platform, job[a].allow}
      /\ UNCHANGED <<list, ruleList, rules>>
    BY DEF PutPlatform, rowVars, clusterVars
<1>3. \A b \in Actors : World \notin job'[b].allow
    BY <1>1 DEF PutPlatform, Job, WorldInv
<1> QED
    BY <1>1, <1>2, <1>3 DEF WorldInv, NeverWorldOpen, RulesClosed

LEMMA WorldNext == TypeInv /\ WorldInv /\ [Next]_vars => WorldInv'
<1> SUFFICES ASSUME TypeInv, WorldInv, [Next]_vars PROVE WorldInv'
    OBVIOUS
<1>1. CASE UNCHANGED vars
    BY <1>1 DEF WorldInv, NeverWorldOpen, RulesClosed, vars, rowVars, clusterVars, procVars
<1>2. CASE Next
    BY <1>2, WorldRequest, WorldSync, WorldOthers, WorldPlatform DEF Next, SharedStep
<1> QED
    BY <1>1, <1>2

\* No allow-list in the cluster ever admits everybody, whatever presets, rules,
\* overlaps and failures there are (effectiveAllowCIDRs, syncPlatformAllowList
\* and syncPathRuleIngressRoute).
THEOREM NeverWorldOpenAlways == Spec => []NeverWorldOpen
<1>1. Spec => [](TypeInv /\ WorldInv)
    <2>1. Init => TypeInv /\ WorldInv
        BY TypeInit, WorldInit
    <2>2. TypeInv /\ WorldInv /\ [Next]_vars => (TypeInv /\ WorldInv)'
        BY TypeNext, WorldNext
    <2> QED
        BY <2>1, <2>2, PTL DEF Spec
<1>2. WorldInv => NeverWorldOpen
    BY DEF WorldInv
<1> QED
    BY <1>1, <1>2, PTL

--------------------------------------------------------------------------------
(***************************************************************************)
(* CapBounded.  A request that has counted the domains and not yet         *)
(* inserted its own is reckoned as one domain more: the count that let it  *)
(* pass left room for one, and the others are fewer than all requests.     *)
(***************************************************************************)

Inserting(p) == {r \in Requests : pc[r] = "insert" /\ prj(r) = p}

CapInv ==
    \A p \in Projects :
        Cardinality(domains[p]) + Cardinality(Inserting(p))
            <= MaxDomains + Cardinality(Requests) - 1

LEMMA CapFinite ==
    ASSUME TypeInv, NEW p \in Projects
    PROVE  /\ IsFiniteSet(domains[p]) /\ Cardinality(domains[p]) \in Nat
           /\ IsFiniteSet(Inserting(p)) /\ Cardinality(Inserting(p)) \in Nat
           /\ IsFiniteSet(Requests) /\ Cardinality(Requests) \in Nat
<1>1. domains[p] \subseteq Hosts /\ Inserting(p) \subseteq Requests
    BY DEF TypeInv, TypeOK, RowTypeOK, Inserting
<1>2. IsFiniteSet(Hosts) /\ IsFiniteSet(Requests)
    BY AccessAssumption
<1> QED
    BY <1>1, <1>2, FS_Subset, FS_CardinalityType

LEMMA CapInit == Init => CapInv
<1> SUFFICES ASSUME Init, NEW p \in Projects
             PROVE  Cardinality(domains[p]) + Cardinality(Inserting(p))
                        <= MaxDomains + Cardinality(Requests) - 1
    BY DEF CapInv
<1>1. TypeInv
    BY TypeInit
<1>2. domains[p] = {} /\ Inserting(p) = {}
    BY ConstantsOK DEF Init, Inserting, Assumptions
<1> QED
    BY <1>1, <1>2, CapFinite, FS_EmptySet, AccessAssumption

\* Most steps neither add a domain nor count them.
LEMMA CapShrinks ==
    ASSUME TypeInv, TypeInv', CapInv,
           \A p \in Projects : domains'[p] \subseteq domains[p],
           \A r \in Requests : pc'[r] = "insert" => pc[r] = "insert" /\ job'[r] = job[r]
    PROVE  CapInv'
<1> SUFFICES ASSUME NEW p \in Projects
             PROVE  Cardinality(domains'[p]) + Cardinality(Inserting(p)')
                        <= MaxDomains + Cardinality(Requests) - 1
    BY DEF CapInv
<1>1. Inserting(p)' \subseteq Inserting(p)
    BY DEF Inserting, prj
<1>2. Cardinality(Inserting(p)') <= Cardinality(Inserting(p))
    BY <1>1, CapFinite, FS_Subset
<1>3. Cardinality(domains'[p]) <= Cardinality(domains[p])
    BY CapFinite, FS_Subset
<1>4. /\ Cardinality(domains[p]) \in Nat /\ Cardinality(Inserting(p)) \in Nat
      /\ Cardinality(Requests) \in Nat
    BY CapFinite
<1>5. Cardinality(domains'[p]) \in Nat /\ Cardinality(Inserting(p)') \in Nat
    BY <1>1, CapFinite, FS_Subset, FS_CardinalityType
<1> QED
    BY <1>2, <1>3, <1>4, <1>5, AccessAssumption DEF CapInv

LEMMA CapCount ==
    ASSUME TypeInv, TypeInv', CapInv, NEW r \in Requests, CountDomains(r)
    PROVE  CapInv'
<1> USE DEF notRows, rowVars, Goto, prj
<1>0. /\ pc \in [Actors -> AllPC] /\ job \in [Actors -> Job]
      /\ \A q \in Requests : q \in Actors
    BY ConstantsOK DEF TypeInv, TypeOK, ProcTypeOK, Assumptions
<1>1. CASE Cardinality(domains[prj(r)]) >= MaxDomains
    <2>1. /\ pc' = [pc EXCEPT ![r] = "idle"] /\ job' = [job EXCEPT ![r] = NoJob]
          /\ domains' = domains
        BY <1>1 DEF CountDomains, Return
    <2>2. \A q \in Requests : pc'[q] = "insert" => pc[q] = "insert" /\ job'[q] = job[q]
        BY <1>0, <2>1
    <2> QED
        BY <2>1, <2>2, CapShrinks
<1>2. CASE ~(Cardinality(domains[prj(r)]) >= MaxDomains)
    <2> SUFFICES ASSUME NEW p \in Projects
                 PROVE  Cardinality(domains'[p]) + Cardinality(Inserting(p)')
                            <= MaxDomains + Cardinality(Requests) - 1
        BY DEF CapInv
    <2>1. domains' = domains
        BY DEF CountDomains
    <2>2. CASE p = prj(r)
        <3>1. Inserting(p)' \subseteq Requests
            BY DEF Inserting
        <3>2. Cardinality(Inserting(p)') <= Cardinality(Requests)
            BY <3>1, AccessAssumption, FS_Subset
        <3>3. Cardinality(domains[p]) \in Nat /\ Cardinality(Requests) \in Nat
            BY CapFinite
        <3>4. Cardinality(Inserting(p)') \in Nat
            BY <3>1, AccessAssumption, FS_Subset, FS_CardinalityType
        <3> QED
            BY <1>2, <2>1, <2>2, <3>2, <3>3, <3>4, AccessAssumption
    <2>3. CASE p # prj(r)
        <3>1. Inserting(p)' = Inserting(p)
            <4>1. pc' = [pc EXCEPT ![r] = "insert"] /\ job' = job
                BY <1>2 DEF CountDomains
            <4> QED
                BY <1>0, <2>3, <4>1 DEF Inserting
        <3> QED
            BY <2>1, <3>1 DEF CapInv
    <2> QED
        BY <2>2, <2>3
<1> QED
    BY <1>1, <1>2

LEMMA CapAdd ==
    ASSUME TypeInv, TypeInv', CapInv, NEW r \in Requests, AddDomain(r)
    PROVE  CapInv'
<1> USE DEF notRows, rowVars, Goto, prj
<1>1. r \in Actors
    BY ConstantsOK DEF Assumptions
<1>2. CASE UNCHANGED domains
    <2>1. /\ pc' = [pc EXCEPT ![r] = pc'[r]] /\ pc'[r] # "insert"
          /\ \A q \in Actors \ {r} : job'[q] = job[q]
        BY <1>1, <1>2 DEF AddDomain, Return, Synchronise, TypeInv, TypeOK, ProcTypeOK
    <2>2. \A q \in Requests : pc'[q] = "insert" => pc[q] = "insert" /\ job'[q] = job[q]
        BY <2>1, ConstantsOK DEF TypeInv, TypeOK, ProcTypeOK, Assumptions
    <2> QED
        BY <1>2, <2>2, CapShrinks
<1>3. CASE ~UNCHANGED domains
    <2>1. PICK h \in Hosts : /\ ~Taken(h)
                             /\ domains' = [domains EXCEPT ![prj(r)] = @ \union {h}]
                             /\ pc' = [pc EXCEPT ![r] = "hosts"] /\ UNCHANGED job
        BY <1>3 DEF AddDomain, Synchronise
    <2> SUFFICES ASSUME NEW p \in Projects
                 PROVE  Cardinality(domains'[p]) + Cardinality(Inserting(p)')
                            <= MaxDomains + Cardinality(Requests) - 1
        BY DEF CapInv
    <2>2. CASE p = prj(r)
        <3>1. r \in Inserting(p) /\ Inserting(p)' = Inserting(p) \ {r}
            BY <1>1, <2>1, <2>2 DEF AddDomain, Inserting, TypeInv, TypeOK, ProcTypeOK
        <3>2. Cardinality(Inserting(p)') = Cardinality(Inserting(p)) - 1
            BY <3>1, CapFinite, FS_RemoveElement
        <3>3. h \notin domains[p] /\ domains'[p] = domains[p] \union {h}
            BY <2>1, <2>2 DEF Taken, TypeInv, TypeOK, RowTypeOK
        <3>4. Cardinality(domains'[p]) = Cardinality(domains[p]) + 1
            BY <3>3, CapFinite, FS_AddElement
        <3>5. /\ Cardinality(domains[p]) \in Nat /\ Cardinality(Inserting(p)) \in Nat
              /\ Cardinality(Requests) \in Nat
            BY CapFinite
        <3> QED
            BY <3>2, <3>4, <3>5, AccessAssumption DEF CapInv
    <2>3. CASE p # prj(r)
        <3>1. Inserting(p)' = Inserting(p) /\ domains'[p] = domains[p]
            BY <2>1, <2>3 DEF Inserting, TypeInv, TypeOK, RowTypeOK, ProcTypeOK
        <3> QED
            BY <3>1 DEF CapInv
    <2> QED
        BY <2>2, <2>3
<1> QED
    BY <1>2, <1>3

LEMMA CapNext == TypeInv /\ CapInv /\ [Next]_vars => CapInv'
<1> SUFFICES ASSUME TypeInv, CapInv, [Next]_vars PROVE CapInv'
    OBVIOUS
<1>1. TypeInv'
    BY TypeNext
<1>2. /\ pc \in [Actors -> AllPC] /\ job \in [Actors -> Job]
      /\ domains \in [Projects -> SUBSET Hosts] /\ \A r \in Requests : r \in Actors
    BY ConstantsOK DEF TypeInv, TypeOK, ProcTypeOK, RowTypeOK, Assumptions
<1> USE DEF rowVars, clusterVars, procVars, notRows, notCluster, Goto, Return, Get
<1>3. CASE UNCHANGED vars
    BY <1>1, <1>3, CapShrinks DEF vars
<1>4. ASSUME NEW r \in Requests, RequestStep(r) PROVE CapInv'
    <2>1. CASE CountDomains(r)
        BY <1>1, <2>1, CapCount
    <2>2. CASE AddDomain(r)
        BY <1>1, <2>2, CapAdd
    <2>3. CASE ~CountDomains(r) /\ ~AddDomain(r)
        <3>1. pc' = [pc EXCEPT ![r] = pc'[r]] /\ pc'[r] # "insert"
            BY <1>2, <1>4, <2>3 DEF RequestStep, LoadProject, Refuse, RemoveDomain, PatchTLS,
                PatchAccess, CheckCidrs, CreatePathRule, ReadPathRule, UpdatePathRule,
                DeletePathRule, StoreRule, PutPreset, DeletePreset, FanOut, Synchronise
        <3>2. \A q \in Requests \ {r} : job'[q] = job[q]
            BY <1>2, <1>4, <2>3 DEF RequestStep, LoadProject, Refuse, RemoveDomain, PatchTLS,
                PatchAccess, CheckCidrs, CreatePathRule, ReadPathRule, UpdatePathRule,
                DeletePathRule, PutPreset, DeletePreset, FanOut
        <3>3. \A p \in Projects : domains'[p] \subseteq domains[p]
            BY <1>2, <1>4, <2>3 DEF RequestStep, LoadProject, Refuse, RemoveDomain, PatchTLS,
                PatchAccess, CheckCidrs, CreatePathRule, ReadPathRule, UpdatePathRule,
                DeletePathRule, PutPreset, DeletePreset, FanOut
        <3> QED
            BY <1>1, <1>2, <3>1, <3>2, <3>3, CapShrinks
    <2> QED
        BY <2>1, <2>2, <2>3
<1>5. ASSUME UNCHANGED domains, NEW a \in Actors, pc' = [pc EXCEPT ![a] = pc'[a]],
             pc'[a] # "insert", \A b \in Actors \ {a} : job'[b] = job[b]
      PROVE  CapInv'
    BY <1>1, <1>2, <1>5, CapShrinks
<1>6. ASSUME NEW a \in Actors, SyncStep(a), UNCHANGED notCluster PROVE CapInv'
    BY <1>2, <1>5, <1>6 DEF SyncStep, ReadHosts, ReadAllow, ReadFallback, ReadRules, GetList,
       PutList, GetIngress, PutIngress, NextRule, PutRule, Prune, Drop, GetRoute, PutRoute,
       DeleteRoute, SyncReturns
<1>7. ASSUME NEW a \in Actors,
             ReadInternal(a) \/ GetPlatform(a) \/ PutPlatform(a) \/ NextProject(a)
      PROVE  CapInv'
    BY <1>2, <1>5, <1>7 DEF ReadInternal, GetPlatform, PutPlatform, NextProject
<1>8. CASE TickStep \/ ListForSweep
    <2>1. Tick \in Actors /\ Sweep \in Actors
        BY ConstantsOK DEF Assumptions
    <2> QED
        BY <1>2, <1>5, <1>8, <2>1 DEF TickStep, Apply, GetBare, PutBare, Load, ProjectRuns,
            ListForSweep, SyncReturns
<1>9. CASE Faulty
    <2>1. \A r \in Requests : pc'[r] = "insert" => pc[r] = "insert" /\ job'[r] = job[r]
        BY <1>2, <1>9 DEF Faulty, CallFails, CallerFails, ClientGone, Restart, SyncReturns
    <2>2. domains' = domains
        BY <1>9 DEF Faulty
    <2> QED
        BY <1>1, <2>1, <2>2, CapShrinks
<1> QED
    BY <1>3, <1>4, <1>6, <1>7, <1>8, <1>9 DEF Next, SharedStep

\* Requests that add a domain at the same time exceed the limit by less than
\* their number: the count and the insert of handleAddDomain are two statements
\* (domains.go:73-76).
THEOREM CapBoundedAlways == Spec => []CapBounded
<1>1. Spec => [](TypeInv /\ CapInv)
    <2>1. Init => TypeInv /\ CapInv
        BY TypeInit, CapInit
    <2>2. TypeInv /\ CapInv /\ [Next]_vars => (TypeInv /\ CapInv)'
        BY TypeNext, CapNext
    <2> QED
        BY <2>1, <2>2, PTL DEF Spec
<1>2. TypeInv /\ CapInv => CapBounded
    <2> SUFFICES ASSUME TypeInv, CapInv, NEW p \in Projects
                 PROVE  Cardinality(domains[p]) <= MaxDomains + Cardinality(Requests) - 1
        BY DEF CapBounded
    <2> QED
        BY CapFinite, AccessAssumption DEF CapInv
<1> QED
    BY <1>1, <1>2, PTL

--------------------------------------------------------------------------------
(***************************************************************************)
(* BareOnlyInDeploy.  What makes it inductive: the tick that wrote the     *)
(* bare ingress does not lose its own write, because whoever outdates it   *)
(* has written middlewares.  C stands for the projects that faults have    *)
(* left bare so far.                                                       *)
(***************************************************************************)

Window == {"load", "hosts", "allow", "fallback", "rules", "getList", "putList", "getIng",
           "putIng"}

BareInv(C) ==
    \A p \in Projects :
        /\ ing[p] # None => p \in ns
        /\ BareAt(p) /\ p \notin C =>
              /\ prj(Tick) = p /\ pc[Tick] \in Window
              /\ pc[Tick] = "putIng" => seen[Tick] = "current"

CutOffInv == BareInv(cutOff) /\ \A p \in cutOff : ~Protecting(p)

LEMMA BareInit == Init => CutOffInv
BY DEF Init, CutOffInv, BareInv, BareAt, IngressOf

\* A step that leaves the tick where it is.
LEMMA BareElsewhere ==
    ASSUME NEW CONSTANT C, BareInv(C), UNCHANGED ing, ns \subseteq ns',
           pc'[Tick] = pc[Tick], job'[Tick].prj = job[Tick].prj,
           pc[Tick] = "putIng" => seen'[Tick] = seen[Tick]
    PROVE  BareInv(C)'
BY DEF BareInv, BareAt, prj

LEMMA BareOthers ==
    ASSUME TypeInv, NEW CONSTANT C, BareInv(C),
           \/ \E r \in Requests : RequestStep(r)
           \/ \E a \in Actors : ReadInternal(a) \/ GetPlatform(a) \/ PutPlatform(a)
                                  \/ NextProject(a)
           \/ ListForSweep
    PROVE  BareInv(C)'
<1> USE DEF rowVars, clusterVars, notRows, Goto, Return, Get, bookkeeping
<1>1. /\ pc \in [Actors -> AllPC] /\ job \in [Actors -> Job]
      /\ seen \in [Actors -> {"absent", "current", "old"}]
      /\ Tick \in Actors /\ Tick \notin Requests /\ Tick # Sweep
    BY ConstantsOK DEF TypeInv, TypeOK, ProcTypeOK, Assumptions
<1>2. CASE \E r \in Requests : RequestStep(r)
    <2>1. PICK r \in Requests : RequestStep(r)
        BY <1>2
    <2>2. UNCHANGED <<ing, ns, seen>>
        BY <2>1 DEF RequestStep, LoadProject, Refuse, CountDomains, AddDomain, RemoveDomain,
           PatchTLS, PatchAccess, CheckCidrs, CreatePathRule, ReadPathRule, UpdatePathRule,
           DeletePathRule, StoreRule, Synchronise, PutPreset, DeletePreset, FanOut, Counted
    <2>3. pc'[Tick] = pc[Tick] /\ job'[Tick] = job[Tick]
        BY <1>1, <2>1 DEF RequestStep, LoadProject, Refuse, CountDomains, AddDomain,
           RemoveDomain, PatchTLS, PatchAccess, CheckCidrs, CreatePathRule, ReadPathRule,
           UpdatePathRule, DeletePathRule, StoreRule, Synchronise, PutPreset, DeletePreset, FanOut
    <2> QED
        BY <2>2, <2>3, BareElsewhere
<1>3. CASE \E a \in Actors : ReadInternal(a) \/ GetPlatform(a) \/ PutPlatform(a)
                               \/ NextProject(a)
    <2>1. PICK a \in Actors : ReadInternal(a) \/ GetPlatform(a) \/ PutPlatform(a)
                                \/ NextProject(a)
        BY <1>3
    <2>2. pc[a] \notin Window /\ UNCHANGED <<ing, ns>>
        BY <2>1 DEF ReadInternal, GetPlatform, PutPlatform, NextProject, Window
    <2>3. CASE a # Tick
        <3>1. pc'[Tick] = pc[Tick] /\ job'[Tick] = job[Tick]
            BY <1>1, <2>1, <2>3 DEF ReadInternal, GetPlatform, PutPlatform, NextProject
        <3>2. pc[Tick] = "putIng" => seen'[Tick] = seen[Tick]
            BY <1>1, <2>1, <2>3 DEF ReadInternal, GetPlatform, PutPlatform, NextProject,
               Outdate, Rivals
        <3> QED
            BY <2>2, <3>1, <3>2, BareElsewhere
    <2>4. CASE a = Tick
        BY <2>2, <2>4 DEF BareInv, BareAt
    <2> QED
        BY <2>3, <2>4
<1>4. CASE ListForSweep
    BY <1>1, <1>4, BareElsewhere DEF ListForSweep
<1> QED
    BY <1>2, <1>3, <1>4

LEMMA BareTick ==
    ASSUME TypeInv, NEW CONSTANT C, BareInv(C), TickStep
    PROVE  BareInv(C)'
<1> USE DEF rowVars, clusterVars, procVars, notRows, Goto, Get, bookkeeping, prj
<1>1. /\ pc \in [Actors -> AllPC] /\ job \in [Actors -> Job] /\ Tick \in Actors
      /\ ing \in [Projects -> IngressObject \union {None}]
    BY ConstantsOK DEF TypeInv, TypeOK, ProcTypeOK, ClusterTypeOK, Assumptions
<1>2. CASE (\E p \in Projects : Apply(p)) \/ GetBare
    <2>1. pc[Tick] \notin Window /\ ing' = ing /\ ns \subseteq ns'
        BY <1>2 DEF Apply, GetBare, Counted, Window
    <2> QED
        BY <2>1 DEF BareInv, BareAt
<1>3. CASE \E p \in Projects : ProjectRuns(p)
    BY <1>3, BareElsewhere DEF ProjectRuns
<1>4. CASE PutBare
    <2>1. pc[Tick] = "putBare" /\ UNCHANGED ns
        BY <1>4 DEF PutBare
    <2>2. CASE CanWrite(Tick, ing[prj(Tick)])
        <3>1. ing' = [ing EXCEPT ![prj(Tick)] = Bare]
            BY <1>4, <2>2 DEF PutBare
        <3>2. pc'[Tick] = "load" /\ job' = job /\ prj(Tick) \in ns
            BY <1>1, <1>4, <2>2 DEF PutBare, CanWrite
        <3> QED
            BY <1>1, <2>1, <3>1, <3>2 DEF BareInv, BareAt, Window
    <2>3. CASE ~CanWrite(Tick, ing[prj(Tick)])
        BY <1>4, <2>1, <2>3 DEF PutBare, BareInv, BareAt, Window
    <2> QED
        BY <2>2, <2>3
<1>5. CASE Load
    <2>1. pc'[Tick] = "hosts" /\ pc[Tick] = "load" /\ job'[Tick].prj = job[Tick].prj
        BY <1>1, <1>5 DEF Load, Job
    <2> QED
        BY <1>5, <2>1 DEF Load, BareInv, BareAt, Window
<1> QED
    BY <1>2, <1>3, <1>4, <1>5 DEF TickStep

LEMMA BareSync ==
    ASSUME TypeInv, NEW CONSTANT C, BareInv(C), NEW a \in Actors, SyncStep(a), UNCHANGED notCluster
    PROVE  BareInv(C)'
<1> USE DEF clusterVars, notCluster, Goto, bookkeeping, prj
<1>1. /\ pc \in [Actors -> AllPC] /\ job \in [Actors -> Job] /\ Tick \in Actors
      /\ seen \in [Actors -> {"absent", "current", "old"}]
      /\ ing \in [Projects -> IngressObject \union {None}]
    BY ConstantsOK DEF TypeInv, TypeOK, ProcTypeOK, ClusterTypeOK, Assumptions
<1>2. ns' = ns
    BY DEF SyncStep, ReadHosts, ReadAllow, ReadFallback, ReadRules, GetList, PutList,
       GetIngress, PutIngress, NextRule, PutRule, Prune, Drop, GetRoute, PutRoute, DeleteRoute
<1>3. CASE PutIngress(a)
    <2>1. CASE CanWrite(a, ing[prj(a)])
        <3>1. PICK new \in IngressObject :
                    new.gate # "bare" /\ ing' = [ing EXCEPT ![prj(a)] = new]
            <4>1. [hosts |-> job[a].hosts, gate |-> Gate(a), tls |-> job[a].row.tls]
                    \in IngressObject
                BY <1>1 DEF Job, Row, Gate, IngressObject
            <4> QED
                BY <1>3, <2>1, <4>1 DEF PutIngress, Gate
        <3>2. prj(a) \in ns
            BY <2>1 DEF CanWrite
        <3>3. ASSUME NEW p \in Projects, p # prj(a)
              PROVE  /\ ing'[p] = ing[p]
                     /\ prj(Tick) = p =>
                            pc'[Tick] = pc[Tick] /\ prj(Tick)' = p /\ seen'[Tick] = seen[Tick]
            BY <1>1, <1>3, <2>1, <3>1, <3>3 DEF PutIngress, Outdate, Rivals, Job
        <3>4. prj(a) \in Projects => ing'[prj(a)].gate # "bare"
            BY <1>1, <3>1
        <3> SUFFICES ASSUME NEW p \in Projects
                     PROVE  /\ ing'[p] # None => p \in ns'
                            /\ ing'[p] # None /\ ing'[p].gate = "bare" /\ p \notin C =>
                                  /\ prj(Tick)' = p /\ pc'[Tick] \in Window
                                  /\ pc'[Tick] = "putIng" => seen'[Tick] = "current"
            BY DEF BareInv, BareAt
        <3>5. CASE p = prj(a)
            BY <1>2, <3>2, <3>4, <3>5
        <3>6. CASE p # prj(a)
            BY <1>2, <3>3, <3>6 DEF BareInv, BareAt
        <3> QED
            BY <3>5, <3>6
    <2>2. CASE ~CanWrite(a, ing[prj(a)])
        <3>1. ing' = ing /\ SyncReturns(a)
            BY <1>3, <2>2 DEF PutIngress
        <3>2. CASE a = Tick
            <4>1. ~BareAt(prj(Tick)) \/ prj(Tick) \notin Projects \/ prj(Tick) \in C
                <5>1. pc[Tick] = "putIng"
                    BY <1>3, <3>2 DEF PutIngress
                <5> QED
                    BY <2>2, <3>2, <5>1 DEF BareInv, BareAt, CanWrite, Fresh
            <4> QED
                BY <1>2, <3>1, <4>1 DEF BareInv, BareAt
        <3>3. CASE a # Tick
            <4>1. pc'[Tick] = pc[Tick] /\ job'[Tick] = job[Tick] /\ seen'[Tick] = seen[Tick]
                BY <1>1, <1>3, <3>1, <3>3 DEF PutIngress, SyncReturns, Outdate
            <4> QED
                BY <1>2, <3>1, <4>1, BareElsewhere
        <3> QED
            BY <3>2, <3>3
    <2> QED
        BY <2>1, <2>2
<1>4. CASE ~PutIngress(a) /\ a # Tick
    <2>1. ing' = ing
        BY <1>4 DEF SyncStep, ReadHosts, ReadAllow, ReadFallback, ReadRules, GetList, PutList,
           GetIngress, NextRule, PutRule, Prune, Drop, GetRoute, PutRoute, DeleteRoute
    <2>2. pc'[Tick] = pc[Tick] /\ job'[Tick] = job[Tick]
        BY <1>1, <1>4 DEF SyncStep, ReadHosts, ReadAllow, ReadFallback, ReadRules, GetList,
           PutList, GetIngress, NextRule, PutRule, Prune, Drop, GetRoute, PutRoute,
           DeleteRoute, SyncReturns, Get
    <2>3. pc[Tick] = "putIng" => seen'[Tick] = seen[Tick]
        BY <1>1, <1>4 DEF SyncStep, ReadHosts, ReadAllow, ReadFallback, ReadRules, GetList,
           PutList, GetIngress, NextRule, PutRule, Prune, Drop, GetRoute, PutRoute,
           DeleteRoute, SyncReturns, Get, Outdate, Rivals
    <2> QED
        BY <1>2, <2>1, <2>2, <2>3, BareElsewhere
<1>5. CASE ~PutIngress(a) /\ a = Tick
    <2>1. ing' = ing
        BY <1>5 DEF SyncStep, ReadHosts, ReadAllow, ReadFallback, ReadRules, GetList, PutList,
           GetIngress, NextRule, PutRule, Prune, Drop, GetRoute, PutRoute, DeleteRoute
    <2>2. CASE ReadHosts(a) \/ ReadAllow(a) \/ ReadFallback(a) \/ ReadRules(a)
        <3>1. /\ pc[Tick] \in Window /\ pc'[Tick] \in Window \ {"putIng"}
              /\ job'[Tick].prj = job[Tick].prj
            BY <1>1, <1>5, <2>2 DEF ReadHosts, ReadAllow, ReadFallback, ReadRules, Window, Job
        <3> QED
            BY <1>2, <2>1, <3>1 DEF BareInv, BareAt
    <2>3. CASE GetList(a) \/ PutList(a)
        <3>1. /\ pc[Tick] \in Window /\ pc'[Tick] \in Window \ {"putIng"}
              /\ job'[Tick].prj = job[Tick].prj
            BY <1>1, <1>5, <2>3 DEF GetList, PutList, Get, Window, Job
        <3> QED
            BY <1>2, <2>1, <3>1 DEF BareInv, BareAt
    <2>4. CASE GetIngress(a)
        <3>1. /\ pc[Tick] \in Window /\ pc'[Tick] \in Window /\ job' = job
              /\ ing[prj(Tick)] # None => seen'[Tick] = "current"
            BY <1>1, <1>5, <2>4 DEF GetIngress, Get, Window
        <3> QED
            BY <1>2, <2>1, <3>1 DEF BareInv, BareAt
    <2>5. CASE pc[a] \notin Window
        BY <1>2, <1>5, <2>1, <2>5 DEF BareInv, BareAt
    <2> QED
        BY <1>5, <2>2, <2>3, <2>4, <2>5 DEF SyncStep, NextRule, PutRule, Prune, Drop, GetRoute,
           PutRoute, DeleteRoute, Window
<1> QED
    BY <1>3, <1>4, <1>5

\* The tick comes to protect a project by writing it, and by nothing else.
LEMMA Entering ==
    ASSUME TypeInv, NEW p, Protecting(p)',
           \/ \E r \in Requests : RequestStep(r)
           \/ TickStep
           \/ ListForSweep
           \/ \E a \in Actors : SharedStep(a)
    PROVE  Protecting(p) \/ pc'[Tick] # "putIng"
<1> USE DEF Protecting, prj, Goto, Return, Get
<1>1. /\ pc \in [Actors -> AllPC] /\ job \in [Actors -> Job]
      /\ Tick \in Actors /\ Tick \notin Requests /\ Tick # Sweep
    BY ConstantsOK DEF TypeInv, TypeOK, ProcTypeOK, Assumptions
<1>2. ASSUME NEW r \in Requests, RequestStep(r) PROVE Protecting(p)
    <2>1. pc'[Tick] = pc[Tick] /\ job'[Tick] = job[Tick]
        BY <1>1, <1>2 DEF RequestStep, LoadProject, Refuse, CountDomains, AddDomain,
           RemoveDomain, PatchTLS, PatchAccess, CheckCidrs, CreatePathRule, ReadPathRule,
           UpdatePathRule, DeletePathRule, StoreRule, Synchronise, PutPreset, DeletePreset, FanOut
    <2> QED
        BY <2>1
<1>3. CASE TickStep
    BY <1>1, <1>3 DEF TickStep, Apply, GetBare, PutBare, Load, ProjectRuns, SyncReturns,
       procVars
<1>4. CASE ListForSweep
    BY <1>1, <1>4 DEF ListForSweep
<1>5. ASSUME NEW a \in Actors, a # Tick, SharedStep(a) PROVE Protecting(p)
    <2>1. pc'[Tick] = pc[Tick] /\ job'[Tick] = job[Tick]
        <3>1. CASE SyncStep(a)
            BY <1>1, <1>5, <3>1 DEF SyncStep, ReadHosts, ReadAllow, ReadFallback, ReadRules,
               GetList, PutList, GetIngress, PutIngress, NextRule, PutRule, Prune, Drop,
               GetRoute, PutRoute, DeleteRoute, SyncReturns
        <3>2. CASE ReadInternal(a) \/ GetPlatform(a) \/ PutPlatform(a) \/ NextProject(a)
            BY <1>1, <1>5, <3>2 DEF ReadInternal, GetPlatform, PutPlatform, NextProject
        <3> QED
            BY <1>5, <3>1, <3>2 DEF SharedStep
    <2> QED
        BY <2>1
<1>6. ASSUME SharedStep(Tick), pc'[Tick] = "putIng" PROVE Protecting(p)
    <2>1. CASE ReadInternal(Tick) \/ GetPlatform(Tick) \/ PutPlatform(Tick) \/ NextProject(Tick)
        BY <1>1, <1>6, <2>1 DEF ReadInternal, GetPlatform, PutPlatform, NextProject
    <2>2. CASE ReadHosts(Tick) \/ ReadAllow(Tick) \/ ReadFallback(Tick) \/ ReadRules(Tick)
        BY <1>1, <1>6, <2>2 DEF ReadHosts, ReadAllow, ReadFallback, ReadRules
    <2>3. CASE GetList(Tick) \/ PutList(Tick) \/ PutIngress(Tick)
        BY <1>1, <1>6, <2>3 DEF GetList, PutList, PutIngress, SyncReturns
    <2>4. CASE GetIngress(Tick)
        BY <1>1, <2>4 DEF GetIngress
    <2>5. CASE NextRule(Tick) \/ PutRule(Tick) \/ Prune(Tick) \/ Drop(Tick)
        BY <1>1, <1>6, <2>5 DEF NextRule, PutRule, Prune, Drop, SyncReturns
    <2>6. CASE GetRoute(Tick) \/ PutRoute(Tick) \/ DeleteRoute(Tick)
        BY <1>1, <1>6, <2>6 DEF GetRoute, PutRoute, DeleteRoute, SyncReturns
    <2> QED
        BY <1>6, <2>1, <2>2, <2>3, <2>4, <2>5, <2>6 DEF SharedStep, SyncStep
<1> QED
    BY <1>2, <1>3, <1>4, <1>5, <1>6

\* A fault writes no ingress, and leaves a write that the tick was about to do as
\* it was or takes it from the tick.
LEMMA FaultLeaves ==
    ASSUME TypeInv, Faulty
    PROVE  /\ UNCHANGED <<ing, ns>> /\ faults' # faults
           /\ pc'[Tick] = "putIng" =>
                 pc[Tick] = "putIng" /\ job'[Tick] = job[Tick] /\ seen'[Tick] = seen[Tick]
<1> USE DEF Goto, Return, clusterVars
<1>1. /\ pc \in [Actors -> AllPC] /\ job \in [Actors -> Job]
      /\ seen \in [Actors -> {"absent", "current", "old"}]
      /\ Tick \in Actors /\ Tick \notin Requests /\ Tick # Sweep
    BY ConstantsOK DEF TypeInv, TypeOK, ProcTypeOK, Assumptions
<1>2. faults' # faults
    BY DEF Faulty, Fault, TypeInv, TypeOK, OtherTypeOK
<1>3. ASSUME NEW a \in Actors, CallFails(a)
      PROVE  /\ UNCHANGED <<ing, ns>>
             /\ pc'[Tick] = "putIng" =>
                   pc[Tick] = "putIng" /\ job'[Tick] = job[Tick] /\ seen'[Tick] = seen[Tick]
    BY <1>1, <1>3 DEF CallFails, SyncReturns
<1>4. ASSUME NEW a \in Actors, CallerFails(a)
      PROVE  /\ UNCHANGED <<ing, ns>>
             /\ pc'[Tick] = "putIng" =>
                   pc[Tick] = "putIng" /\ job'[Tick] = job[Tick] /\ seen'[Tick] = seen[Tick]
    BY <1>1, <1>4 DEF CallerFails
<1>5. ASSUME NEW r \in Requests, ClientGone(r)
      PROVE  /\ UNCHANGED <<ing, ns>>
             /\ pc'[Tick] = "putIng" =>
                   pc[Tick] = "putIng" /\ job'[Tick] = job[Tick] /\ seen'[Tick] = seen[Tick]
    BY <1>1, <1>5 DEF ClientGone
<1>6. CASE Restart
    BY <1>1, <1>2, <1>6 DEF Restart
<1> QED
    BY <1>2, <1>3, <1>4, <1>5, <1>6, Zenon DEF Faulty

LEMMA BareNext == TypeInv /\ CutOffInv /\ [Next]_vars => CutOffInv'
<1> SUFFICES ASSUME TypeInv, CutOffInv, [Next]_vars PROVE CutOffInv'
    OBVIOUS
<1>1. CASE UNCHANGED vars
    BY <1>1 DEF CutOffInv, Protecting, BareInv, BareAt, prj, vars, clusterVars, procVars
<1>2. CASE Next
    <2>1. /\ \A p \in cutOff' : p \in Projects /\ ~Protecting(p)'
          /\ \A p \in Projects \ cutOff' : BareAt(p)' /\ ~Protecting(p)' =>
                p \notin cutOff /\ (faults' = faults \/ ~Protecting(p))
        BY <1>2 DEF Next, NoteCutOff
    <2>2. \A p : Protecting(p) <=> prj(Tick) = p /\ pc[Tick] \in Window
        BY DEF Protecting, Window
    <2>3. \A p : Protecting(p)' <=> prj(Tick)' = p /\ pc'[Tick] \in Window
        BY DEF Protecting, Window
    <2>4. CASE Faulty
        <3>1. /\ UNCHANGED <<ing, ns>> /\ faults' # faults
              /\ pc'[Tick] = "putIng" =>
                    pc[Tick] = "putIng" /\ job'[Tick] = job[Tick] /\ seen'[Tick] = seen[Tick]
            BY <2>4, FaultLeaves
        <3>2. ASSUME NEW p \in Projects, BareAt(p)', p \notin cutOff'
              PROVE  Protecting(p)' /\ (pc'[Tick] = "putIng" => seen'[Tick] = "current")
            <4>1. BareAt(p)
                BY <3>1, <3>2 DEF BareAt
            <4>2. Protecting(p)'
                BY <2>1, <2>2, <3>1, <3>2, <4>1 DEF CutOffInv, BareInv
            <4>3. ASSUME pc'[Tick] = "putIng" PROVE seen'[Tick] = "current"
                <5>1. Protecting(p)
                    BY <2>2, <2>3, <3>1, <4>2, <4>3 DEF prj, Window
                <5> QED
                    BY <3>1, <4>1, <4>3, <5>1 DEF CutOffInv, BareInv
            <4> QED
                BY <4>2, <4>3
        <3>3. BareInv(cutOff)'
            <4>1. \A p \in Projects : ing'[p] # None => p \in ns'
                BY <3>1 DEF CutOffInv, BareInv
            <4> QED
                BY <2>3, <3>2, <4>1 DEF BareInv
        <3> QED
            BY <2>1, <3>3 DEF CutOffInv
    <2>5. CASE ~Faulty
        <3>1. \/ \E r \in Requests : RequestStep(r)
              \/ TickStep
              \/ ListForSweep
              \/ \E a \in Actors : SharedStep(a)
            BY <1>2, <2>5 DEF Next
        <3>2. PICK C : C = cutOff
            OBVIOUS
        <3>3. BareInv(C)
            BY <3>2 DEF CutOffInv
        <3>4. BareInv(C)'
            BY <3>1, <3>3, BareOthers, BareTick, BareSync DEF SharedStep
        <3>5. ASSUME NEW p \in Projects, BareAt(p)', p \notin cutOff'
              PROVE  Protecting(p)' /\ (pc'[Tick] = "putIng" => seen'[Tick] = "current")
            <4>1. CASE p \notin C
                BY <2>3, <3>4, <3>5, <4>1 DEF BareInv
            <4>2. CASE p \in C
                <5>1. ~Protecting(p) /\ Protecting(p)'
                    BY <2>1, <3>2, <3>5, <4>2 DEF CutOffInv
                <5> QED
                    BY <3>1, <5>1, Entering
            <4> QED
                BY <4>1, <4>2
        <3>6. BareInv(cutOff)'
            <4>1. \A p \in Projects : ing'[p] # None => p \in ns'
                BY <3>4 DEF BareInv
            <4> QED
                BY <2>3, <3>5, <4>1 DEF BareInv
        <3> QED
            BY <2>1, <3>6 DEF CutOffInv
    <2> QED
        BY <2>4, <2>5
<1> QED
    BY <1>1, <1>2

\* The ingress without middlewares that a deployment writes is gone when the
\* tick has finished its synchronisation, whoever else synchronises the project
\* at the same time and whatever fails there (applyIngress and
\* reconciler.go:310-316): only a fault that ends this very tick leaves it.
THEOREM BareOnlyInDeployAlways == Spec => []BareOnlyInDeploy
<1>1. Spec => [](TypeInv /\ CutOffInv)
    <2>1. Init => TypeInv /\ CutOffInv
        BY TypeInit, BareInit
    <2>2. TypeInv /\ CutOffInv /\ [Next]_vars => (TypeInv /\ CutOffInv)'
        BY TypeNext, BareNext
    <2> QED
        BY <2>1, <2>2, PTL DEF Spec
<1>2. CutOffInv => BareOnlyInDeploy
    BY DEF CutOffInv, BareInv, Protecting, Window, BareOnlyInDeploy
<1> QED
    BY <1>1, <1>2, PTL

--------------------------------------------------------------------------------
(***************************************************************************)
(* InSync.  As long as a project is clean at most one goroutine is         *)
(* concerned with it, so what that goroutine has read of the rows is what  *)
(* they say, its writes succeed, and each step leaves one more object as   *)
(* the rows demand.                                                        *)
(***************************************************************************)

\* What InSync asks of p.
Synced(p) ==
    ing[p] # None =>
        /\ ing[p] = IngressOf(p)
        /\ route[p] = RouteOf(p)
        /\ \A x \in Prefixes : (ruleList[p][x] # None) <=> (OwnOf(p, x) # None)
        /\ Usable(project[p].preset) =>
              list[p] = AllowOf(p) /\ \A x \in Prefixes : ruleList[p][x] = OwnOf(p, x)

\* Who has projects in hand, or to do.
Tidy ==
    /\ \A a \in Actors :
          /\ pc[a] \notin SyncPC \union {"next"} => todo[a] = {}
          /\ pc[a] \in {"idle", "next", "sweep"} \union PresetPC => prj(a) = None
          /\ prj(a) \notin todo[a]
    /\ \A p \in Projects : ing[p] # None => p \in ns

Early      == {"ready", "insert", "rewrite"}
AfterAllow == SyncPC \ {"hosts", "allow", "fallback"}
AfterRules == AfterAllow \ {"rules"}
AfterIng   == {"rule", "putRule", "delRoute", "prune", "drop", "getRoute", "putRoute"}

\* What a has read is what the rows of p say.
HasRead(a, p) ==
    /\ pc[a] \in Early \union {"cidrs"} \union SyncPC => job[a].row = project[p]
    /\ pc[a] \in SyncPC \ {"hosts"} => job[a].hosts = domains[p]
    /\ pc[a] = "fallback" => ~Usable(project[p].preset)
    /\ pc[a] \in AfterAllow => (Usable(project[p].preset) => job[a].allow = AllowOf(p))
    /\ pc[a] \in AfterRules => job[a].want = RuleLists(p)

\* a can write what it is about to.
CanGoOn(a, p) ==
    /\ pc[a] \in {"getBare", "putBare"} => p \in ns
    /\ pc[a] \in {"putBare", "putIng"} => Fresh(a, ing[p])
    /\ pc[a] = "putList" => Fresh(a, list[p])
    /\ pc[a] = "putRule" => Fresh(a, ruleList[p][job[a].cur])
    /\ pc[a] = "putRoute" => Fresh(a, route[p])

\* The prefixes with a list of their own.
Asked(p) == {x \in Prefixes : OwnOf(p, x) # None}

ListOK(p) == Usable(project[p].preset) => list[p] = AllowOf(p)

OwnOK(p, x) ==
    /\ ruleList[p][x] # None
    /\ Usable(project[p].preset) => ruleList[p][x] = OwnOf(p, x)

\* What a has written is what the rows ask for.
HasWritten(a, p) ==
    /\ pc[a] \in {"getIng", "putIng"} /\ p \in ns => job[a].listed /\ ListOK(p)
    /\ pc[a] \in AfterIng => /\ job[a].listed /\ ListOK(p)
                             /\ p \in ns /\ ing[p] = IngressOf(p)
    /\ pc[a] \in {"rule", "putRule"} =>
          \A x \in Asked(p) \ job[a].left :
              OwnOK(p, x) \/ (pc[a] = "putRule" /\ x = job[a].cur)
    /\ pc[a] = "putRule" => job[a].cur \in Asked(p)
    /\ pc[a] \in {"prune", "drop", "getRoute", "putRoute"} => \A x \in Asked(p) : OwnOK(p, x)
    /\ pc[a] = "drop" => /\ job[a].left \intersect Asked(p) = {}
                         /\ {x \in Prefixes : ruleList[p][x] # None} \subseteq
                               Asked(p) \union job[a].left
    /\ pc[a] \in {"getRoute", "putRoute"} =>
          {x \in Prefixes : ruleList[p][x] # None} \subseteq Asked(p)
    /\ pc[a] \in {"rule", "putRule", "getRoute", "putRoute"} => RuledBy(p) # {}
    /\ pc[a] = "delRoute" => RuledBy(p) = {}
    /\ pc[a] \in {"prune", "drop"} /\ RuledBy(p) = {} => route[p] = None

Works(a, p) ==
    /\ pc[a] \in Early => Synced(p)
    /\ HasRead(a, p) /\ CanGoOn(a, p) /\ HasWritten(a, p)

\* The request that edits a preset will reach p, unless p is in sync anyway.
Fans(a, p) ==
    /\ Synced(p) \/ project[p].preset = job[a].row.preset
    /\ pc[a] = "putPlatform" => Fresh(a, platform)

Stage(a, p) ==
    /\ p \in todo[a] /\ a = Sweep => snapshot[p] = project[p]
    /\ prj(a) = p => Works(a, p)
    /\ a \in Requests /\ pc[a] \in PresetPC => Fans(a, p)

\* Nobody but a is concerned with p.
Only(a, p) == \A b \in Actors \ {a} : ~Concerns(b, p)

Kept(p) ==
    /\ \A a \in Actors : Concerns(a, p) => Only(a, p) /\ Stage(a, p)
    /\ AtRest(p) => Synced(p)
    /\ \A a, b \in Actors : pc[a] \in PlatformPC /\ pc[b] \in PlatformPC => a = b

SyncInv == Tidy /\ \A p \in clean : Kept(p)

LEMMA ActorsFinite == IsFiniteSet(Actors)
<1>1. Actors = (Requests \union {Tick}) \union {Sweep}
    BY ConstantsOK DEF Assumptions
<1>2. IsFiniteSet(Requests \union {Tick})
    BY AccessAssumption, FS_AddElement
<1> QED
    BY <1>1, <1>2, FS_AddElement

LEMMA AtMostOne ==
    ASSUME NEW S, IsFiniteSet(S), Cardinality(S) <= 1, NEW a \in S, NEW b \in S
    PROVE  a = b
<1>1. Cardinality(S) \in Nat /\ Cardinality({a}) = 1 /\ IsFiniteSet({a})
    BY FS_CardinalityType, FS_Singleton
<1>2. {a} \subseteq S /\ Cardinality(S) = 1
    <2>1. Cardinality({a}) <= Cardinality(S)
        BY FS_Subset
    <2> QED
        BY <1>1, <2>1
<1>3. {a} = S
    BY <1>1, <1>2, FS_Subset
<1> QED
    BY <1>3

LEMMA AloneThen ==
    ASSUME NEW p, Alone(p)'
    PROVE  /\ \A a \in Actors : Concerns(a, p)' => Only(a, p)'
           /\ \A a, b \in Actors : pc'[a] \in PlatformPC /\ pc'[b] \in PlatformPC => a = b
<1> DEFINE S == {a \in Actors : Concerns(a, p)'}
           T == {a \in Actors : pc'[a] \in PlatformPC}
<1>1. IsFiniteSet(S) /\ IsFiniteSet(T)
    BY ActorsFinite, FS_Subset
<1>2. Cardinality(S) <= 1 /\ Cardinality(T) <= 1
    BY DEF Alone, AtPlatform
<1>3. \A a, b \in S : a = b
    BY <1>1, <1>2, AtMostOne
<1>4. \A a, b \in T : a = b
    BY <1>1, <1>2, AtMostOne
<1> QED
    BY <1>3, <1>4 DEF Only

--------------------------------------------------------------------------------
\* What the rows of p demand does not change as long as these rows do not.
Rows(p) == <<presets, project[p], domains[p], rules[p]>>

ListsOf(R) ==
    [x \in Prefixes |-> IF \E i \in Ids : R[i] # None /\ R[i].prefix = x
                        THEN (CHOOSE r \in {R[i] : i \in Ids} \ {None} : r.prefix = x).cidrs
                        ELSE None]

LEMMA SameLists ==
    ASSUME NEW p, rules'[p] = rules[p]
    PROVE  RuleLists(p)' = RuleLists(p)
<1>1. RuleLists(p) = ListsOf(rules[p])
    BY Zenon DEF RuleLists, ListsOf
<1>2. RuleLists(p)' = ListsOf(rules'[p])
    BY Zenon DEF RuleLists, ListsOf
<1> QED
    BY <1>1, <1>2

LEMMA SameDemand ==
    ASSUME NEW p, Rows(p)' = Rows(p)
    PROVE  /\ project'[p] = project[p] /\ domains'[p] = domains[p]
           /\ Usable(project[p].preset)' <=> Usable(project[p].preset)
           /\ RuleLists(p)' = RuleLists(p) /\ AllowOf(p)' = AllowOf(p)
           /\ \A x : OwnOf(p, x)' = OwnOf(p, x)
           /\ RuledBy(p)' = RuledBy(p) /\ Asked(p)' = Asked(p)
           /\ IngressOf(p)' = IngressOf(p) /\ RouteOf(p)' = RouteOf(p)
<1>1. /\ presets' = presets /\ project'[p] = project[p] /\ domains'[p] = domains[p]
      /\ rules'[p] = rules[p]
    BY DEF Rows
<1>2. RuleLists(p)' = RuleLists(p)
    BY <1>1, SameLists
<1>3. Usable(project[p].preset)' <=> Usable(project[p].preset)
    BY <1>1 DEF Usable, Restricts
<1>4. AllowOf(p)' = AllowOf(p)
    BY <1>1, <1>3 DEF AllowOf, InternalList
<1>5. \A x : OwnOf(p, x)' = OwnOf(p, x)
    BY <1>2, <1>4 DEF OwnOf
<1>6. RuledBy(p)' = RuledBy(p)
    BY <1>2 DEF RuledBy
<1>7. Asked(p)' = Asked(p)
    BY <1>5 DEF Asked
<1>8. {x \in Prefixes : OwnOf(p, x)' # None} = {x \in Prefixes : OwnOf(p, x) # None}
    BY <1>5
<1>9. RouteOf(p)' = RouteOf(p)
    BY <1>1, <1>6, <1>8 DEF RouteOf
<1> QED
    BY <1>1, <1>2, <1>3, <1>4, <1>5, <1>6, <1>7, <1>9 DEF IngressOf

\* The objects of p.
SameObjects(p) ==
    /\ list'[p] = list[p] /\ ing'[p] = ing[p] /\ route'[p] = route[p]
    /\ ruleList'[p] = ruleList[p]

LEMMA SyncedStays ==
    ASSUME NEW p, Rows(p)' = Rows(p), SameObjects(p), Synced(p)
    PROVE  Synced(p)'
BY SameDemand DEF Synced, SameObjects

LEMMA WorksStays ==
    ASSUME NEW p, NEW a, Rows(p)' = Rows(p), SameObjects(p), p \in ns' <=> p \in ns,
           pc'[a] = pc[a], job'[a] = job[a], seen'[a] = seen[a], Works(a, p)
    PROVE  Works(a, p)'
<1>1. HasRead(a, p)'
    BY SameDemand DEF Works, HasRead
<1>2. CanGoOn(a, p)'
    BY DEF Works, CanGoOn, Fresh, SameObjects
<1>3. HasWritten(a, p)'
    <2>1. \A x : OwnOK(p, x)' <=> OwnOK(p, x)
        BY SameDemand DEF OwnOK, SameObjects
    <2>2. ListOK(p)' <=> ListOK(p)
        BY SameDemand DEF ListOK, SameObjects
    <2>3. {x \in Prefixes : ruleList'[p][x] # None} = {x \in Prefixes : ruleList[p][x] # None}
        BY DEF SameObjects
    <2> QED
        BY <2>1, <2>2, <2>3, SameDemand DEF Works, HasWritten, SameObjects
<1> QED
    BY <1>1, <1>2, <1>3, SyncedStays DEF Works

--------------------------------------------------------------------------------
OnlyMoves(b) ==
    \A a \in Actors \ {b} : pc'[a] = pc[a] /\ job'[a] = job[a] /\ todo'[a] = todo[a]

\* b does nothing that concerns p.
Elsewhere(b, p) ==
    /\ Rows(p)' = Rows(p) /\ SameObjects(p) /\ (p \in ns' <=> p \in ns)
    /\ b # Sweep => snapshot'[p] = snapshot[p]
    /\ \A a \in Actors \ {b} : prj(a) = p => seen'[a] = seen[a]
    /\ \A a \in Actors \ {b} :
          pc[a] = "putPlatform" /\ Fresh(a, platform) => Fresh(a, platform)'

\* b is concerned with p and goes on with it, or is done.
Tends(b, p) ==
    /\ Concerns(b, p)' => Stage(b, p)'
    /\ ~Concerns(b, p)' => Synced(p)'

LEMMA KeptBy ==
    ASSUME NEW p \in Projects, NEW b \in Actors, Kept(p), Alone(p)', OnlyMoves(b),
           Concerns(b, p) => (Stage(b, p) => Tends(b, p)),
           ~Concerns(b, p) /\ Concerns(b, p)' => (Synced(p) => Stage(b, p)'),
           ~Concerns(b, p) /\ ~Concerns(b, p)' => Elsewhere(b, p)
    PROVE  Kept(p)'
<1>1. /\ \A a \in Actors : Concerns(a, p)' => Only(a, p)'
      /\ \A a, c \in Actors : pc'[a] \in PlatformPC /\ pc'[c] \in PlatformPC => a = c
    BY AloneThen
<1>2. \A a \in Actors \ {b} : Concerns(a, p)' <=> Concerns(a, p)
    BY DEF OnlyMoves, Concerns, prj
<1>3. CASE Concerns(b, p)
    <2>1. \A a \in Actors \ {b} : ~Concerns(a, p)'
        BY <1>2, <1>3 DEF Kept, Only
    <2> QED
        BY <1>1, <1>3, <2>1 DEF Kept, Tends, AtRest
<1>4. CASE ~Concerns(b, p) /\ Concerns(b, p)'
    <2>1. \A a \in Actors \ {b} : ~Concerns(a, p)'
        BY <1>1, <1>4 DEF Only
    <2>2. Synced(p)
        BY <1>2, <1>4, <2>1 DEF Kept, AtRest
    <2> QED
        BY <1>1, <1>4, <2>1, <2>2 DEF Kept, AtRest
<1>5. CASE ~Concerns(b, p) /\ ~Concerns(b, p)'
    <2>1. Elsewhere(b, p)
        BY <1>5
    <2>2. ASSUME AtRest(p)' PROVE Synced(p)'
        BY <1>2, <1>5, <2>1, <2>2, SyncedStays DEF Kept, AtRest, Elsewhere
    <2>3. ASSUME NEW a \in Actors, Concerns(a, p)' PROVE Stage(a, p)'
        <3>1. a # b /\ Stage(a, p)
            BY <1>2, <1>5, <2>3 DEF Kept
        <3>2. pc'[a] = pc[a] /\ job'[a] = job[a] /\ todo'[a] = todo[a]
            BY <3>1 DEF OnlyMoves
        <3>3. project'[p] = project[p]
            BY <2>1, SameDemand DEF Elsewhere
        <3>4. p \in todo'[a] /\ a = Sweep => snapshot'[p] = project'[p]
            BY <2>1, <3>1, <3>2, <3>3 DEF Stage, Elsewhere
        <3>5. prj(a)' = p => Works(a, p)'
            BY <2>1, <3>1, <3>2, WorksStays DEF Stage, Elsewhere, prj
        <3>6. a \in Requests /\ pc'[a] \in PresetPC => Fans(a, p)'
            BY <2>1, <3>1, <3>2, <3>3, SyncedStays DEF Stage, Elsewhere, Fans
        <3> QED
            BY <3>4, <3>5, <3>6 DEF Stage
    <2> QED
        BY <1>1, <2>2, <2>3 DEF Kept
<1> QED
    BY <1>3, <1>4, <1>5

--------------------------------------------------------------------------------
(***************************************************************************)
(* Tidy, and that a step moves one goroutine.                              *)
(***************************************************************************)

\* A step of b, which is at work afterwards or has nothing left to do.
TidyAt(a) ==
    /\ pc[a] \notin SyncPC \union {"next"} => todo[a] = {}
    /\ pc[a] \in {"idle", "next", "sweep"} \union PresetPC => prj(a) = None
    /\ prj(a) \notin todo[a]

LEMMA TidyMoves ==
    ASSUME Tidy, NEW b \in Actors, OnlyMoves(b), TidyAt(b)',
           \A p \in Projects : ing'[p] # None => p \in ns'
    PROVE  Tidy'
BY DEF Tidy, TidyAt, OnlyMoves, prj

LEMMA SyncMoves ==
    ASSUME TypeInv, Tidy, NEW b \in Actors, SyncStep(b) \/ CallFails(b)
    PROVE  /\ OnlyMoves(b) /\ todo' = todo /\ ns' = ns
           /\ \/ pc'[b] \in SyncPC /\ prj(b)' = prj(b)
              \/ /\ pc'[b] = IF todo[b] = {} THEN "idle" ELSE "next"
                 /\ prj(b)' = None
           /\ Tidy'
<1>0. /\ pc \in [Actors -> AllPC] /\ job \in [Actors -> Job]
      /\ pc[b] \in SyncPC /\ prj(b) \in Projects /\ None \notin todo[b]
      /\ ing \in [Projects -> IngressObject \union {None}]
    <2>1. pc[b] \in SyncPC
        BY DEF SyncStep, CallFails, ReadHosts, ReadAllow, ReadFallback, ReadRules, GetList, PutList,
            GetIngress, PutIngress, NextRule, PutRule, Prune, Drop, GetRoute, PutRoute, DeleteRoute, SyncPC
    <2> QED
        BY <2>1, ConstantsOK
        DEF TypeInv, TypeOK, ProcTypeOK, ClusterTypeOK, InHand, Holds, WithProject, Assumptions
<1> DEFINE Moved == /\ OnlyMoves(b) /\ todo' = todo /\ ns' = ns
                    /\ \/ pc'[b] \in SyncPC /\ prj(b)' = prj(b)
                       \/ /\ pc'[b] = IF todo[b] = {} THEN "idle" ELSE "next"
                          /\ prj(b)' = None
<1>1. ASSUME NEW at \in SyncPC, pc' = [pc EXCEPT ![b] = at], NEW j,
             job' = [job EXCEPT ![b] = j], j.prj = job[b].prj, UNCHANGED <<todo, ns>>
      PROVE  Moved
    BY <1>0, <1>1 DEF OnlyMoves, prj
<1>2. ASSUME SyncReturns(b), ns' = ns PROVE Moved
    BY <1>0, <1>2 DEF OnlyMoves, prj, SyncReturns, NoJob
<1>3. ASSUME NEW at \in SyncPC, pc' = [pc EXCEPT ![b] = at], UNCHANGED <<job, todo, ns>>
      PROVE  Moved
    BY <1>0, <1>3 DEF OnlyMoves, prj
<1>4. ASSUME ReadHosts(b) \/ ReadAllow(b) \/ ReadFallback(b) \/ ReadRules(b) PROVE Moved
    BY <1>0, <1>4, SMTT(30) DEF ReadHosts, ReadAllow, ReadFallback, ReadRules, Goto, clusterVars,
        OnlyMoves, prj, SyncPC, Job
<1>5. ASSUME GetList(b) \/ GetIngress(b) \/ GetRoute(b) \/ DeleteRoute(b) PROVE Moved
    BY <1>3, <1>5 DEF GetList, GetIngress, GetRoute, DeleteRoute, Get, clusterVars, SyncPC
<1>6. ASSUME PutList(b) PROVE Moved
    BY <1>0, <1>6 DEF PutList, OnlyMoves, prj, SyncPC, Job
<1>7. ASSUME PutIngress(b) PROVE Moved
    <2>1. CASE CanWrite(b, ing[prj(b)])
        BY <1>0, <1>7, <2>1 DEF PutIngress, OnlyMoves, prj, SyncPC, Job
    <2>2. CASE ~CanWrite(b, ing[prj(b)])
        BY <1>2, <1>7, <2>2 DEF PutIngress
    <2> QED
        BY <2>1, <2>2
<1>8. ASSUME NextRule(b) PROVE Moved
    <2>1. CASE job[b].left \intersect WithOwnList(b) = {}
        BY <1>3, <1>8, <2>1 DEF NextRule, Goto, clusterVars, SyncPC
    <2>2. CASE job[b].left \intersect WithOwnList(b) # {}
        <3>1. PICK x : /\ job' = [job EXCEPT ![b].left = @ \ {x}, ![b].cur = x]
                       /\ pc' = [pc EXCEPT ![b] = "putRule"] /\ UNCHANGED <<todo, ns>>
            BY <1>8, <2>2 DEF NextRule, Get, clusterVars
        <3> QED
            BY <1>0, <3>1 DEF OnlyMoves, prj, SyncPC, Job
    <2> QED
        BY <2>1, <2>2
<1>9. ASSUME PutRule(b) PROVE Moved
    <2>1. CASE CanWrite(b, ruleList[prj(b)][job[b].cur])
        BY <1>0, <1>9, <2>1 DEF PutRule, OnlyMoves, prj, SyncPC, Job
    <2>2. CASE ~CanWrite(b, ruleList[prj(b)][job[b].cur])
        BY <1>2, <1>9, <2>2 DEF PutRule
    <2> QED
        BY <2>1, <2>2
<1>10. ASSUME Prune(b) PROVE Moved
    BY <1>0, <1>10 DEF Prune, Goto, clusterVars, OnlyMoves, prj, SyncPC, Job
<1>11. ASSUME Drop(b) PROVE Moved
    <2>1. CASE job[b].left # {}
        BY <1>0, <1>11, <2>1 DEF Drop, OnlyMoves, prj, SyncPC, Job
    <2>2. CASE job[b].left = {} /\ Wanted(b) = {}
        BY <1>2, <1>11, <2>2 DEF Drop
    <2>3. CASE job[b].left = {} /\ Wanted(b) # {}
        BY <1>3, <1>11, <2>3 DEF Drop, SyncPC
    <2> QED
        BY <2>1, <2>2, <2>3
<1>12. ASSUME PutRoute(b) PROVE Moved
    BY <1>2, <1>12 DEF PutRoute
<1>13. ASSUME CallFails(b) PROVE Moved
    <2>1. CASE SyncReturns(b)
        BY <1>2, <1>13, <2>1 DEF CallFails, clusterVars
    <2>2. CASE ~SyncReturns(b)
        BY <1>3, <1>13, <2>2 DEF CallFails, clusterVars, Goto, SyncPC
    <2> QED
        BY <2>1, <2>2
<1>14. Moved
    BY <1>4, <1>5, <1>6, <1>7, <1>8, <1>9, <1>10, <1>11, <1>12, <1>13 DEF SyncStep
<1>15. TidyAt(b)'
    BY <1>0, <1>14 DEF Tidy, TidyAt, SyncPC, PresetPC, PlatformPC
<1>16. \A p \in Projects : ing'[p] # None => p \in ns'
    <2>1. ing' = ing \/ (prj(b) \in ns /\ \E o : ing' = [ing EXCEPT ![prj(b)] = o])
        BY Zenon DEF SyncStep, CallFails, ReadHosts, ReadAllow, ReadFallback, ReadRules, GetList, PutList,
            GetIngress, PutIngress, NextRule, PutRule, Prune, Drop, GetRoute, PutRoute, DeleteRoute,
            CanWrite, clusterVars
    <2> QED
        BY <1>0, <1>14, <2>1 DEF Tidy
<1> QED
    BY <1>14, <1>15, <1>16, TidyMoves

LEMMA RequestMoves ==
    ASSUME TypeInv, Tidy, NEW r \in Requests, RequestStep(r)
    PROVE  OnlyMoves(r) /\ UNCHANGED <<clusterVars, seen, platform, snapshot>> /\ Tidy'
<1>0. /\ pc \in [Actors -> AllPC] /\ job \in [Actors -> Job] /\ r \in Actors
      /\ todo \in [Actors -> SUBSET Projects] /\ None \notin Projects
    BY ConstantsOK DEF TypeInv, TypeOK, ProcTypeOK, Assumptions
<1>1. UNCHANGED <<clusterVars, seen, platform, snapshot>>
    BY DEF RequestStep, LoadProject, Refuse, CountDomains, AddDomain, RemoveDomain,
       PatchTLS, PatchAccess, CheckCidrs, CreatePathRule, ReadPathRule, UpdatePathRule,
       DeletePathRule, StoreRule, Synchronise, PutPreset, DeletePreset, FanOut, Return, Goto, notRows
<1>2. OnlyMoves(r)
    BY <1>0 DEF OnlyMoves, RequestStep, LoadProject, Refuse, CountDomains, AddDomain, RemoveDomain,
       PatchTLS, PatchAccess, CheckCidrs, CreatePathRule, ReadPathRule, UpdatePathRule,
       DeletePathRule, StoreRule, Synchronise, PutPreset, DeletePreset, FanOut, Return, Goto
<1>3. ASSUME pc'[r] \in Early \union {"cidrs"} \union SyncPC, todo'[r] = {} PROVE TidyAt(r)'
    BY <1>3 DEF TidyAt, Early, SyncPC, PresetPC, PlatformPC
<1>4. ASSUME Return(r), pc[r] \in Early \union {"cidrs"} PROVE TidyAt(r)'
    BY <1>0, <1>4 DEF TidyAt, Return, NoJob, Tidy, Early, SyncPC, prj
<1>5. TidyAt(r)'
    <2>1. CASE \E p \in Projects : LoadProject(r, p)
        BY <1>0, <1>3, <2>1 DEF LoadProject, Goto, Tidy, Early, SyncPC
    <2>2. CASE Refuse(r)
        BY <1>4, <2>2 DEF Refuse, Early
    <2>3. CASE CountDomains(r) \/ AddDomain(r)
        <3>1. pc[r] \in Early
            BY <2>3 DEF CountDomains, AddDomain, Edit, Early
        <3>2. Return(r) \/ (pc'[r] \in Early \union SyncPC /\ todo' = todo)
            BY <1>0, <2>3 DEF CountDomains, AddDomain, Synchronise, Goto, Early, SyncPC
        <3>3. todo[r] = {}
            BY <1>0, <3>1 DEF Tidy, Early, SyncPC
        <3> QED
            BY <1>3, <1>4, <3>1, <3>2, <3>3
    <2>4. CASE RemoveDomain(r) \/ PatchTLS(r) \/ PatchAccess(r)
        BY <1>0, <1>3, <2>4 DEF RemoveDomain, PatchTLS, PatchAccess, Edit, Synchronise, Goto, Tidy, Early, SyncPC
    <2>5. CASE CreatePathRule(r) \/ ReadPathRule(r) \/ DeletePathRule(r)
        BY <1>0, <1>3, <2>5 DEF CreatePathRule, ReadPathRule, DeletePathRule, StoreRule, Edit,
            Synchronise, Goto, Tidy, Early, SyncPC
    <2>6. CASE UpdatePathRule(r)
        <3>1. pc[r] \in Early
            BY <2>6 DEF UpdatePathRule, Early
        <3>2. Return(r) \/ (pc'[r] \in Early \union SyncPC /\ todo' = todo)
            BY <1>0, <2>6 DEF UpdatePathRule, StoreRule, Synchronise, Goto, Early, SyncPC
        <3>3. todo[r] = {}
            BY <1>0, <3>1 DEF Tidy, Early, SyncPC
        <3> QED
            BY <1>3, <1>4, <3>1, <3>2, <3>3
    <2>7. CASE PutPreset(r) \/ DeletePreset(r)
        <3>1. /\ pc'[r] \in {"platform", "fan"} /\ todo' = todo /\ pc[r] = "idle"
            BY <1>0, <2>7 DEF PutPreset, DeletePreset, Goto
        <3>2. job'[r].prj = job[r].prj
            BY <1>0, <2>7 DEF PutPreset, DeletePreset, Job
        <3> QED
            BY <1>0, <3>1, <3>2 DEF TidyAt, Tidy, SyncPC, prj
    <2>8. CASE FanOut(r)
        BY <1>0, <2>8 DEF FanOut, TidyAt, NoJob, SyncPC, prj
    <2>9. CASE CheckCidrs(r)
        BY <1>0, <1>3, <1>4, <2>9 DEF CheckCidrs, Synchronise, Goto, Tidy, SyncPC
    <2> QED
        BY <2>1, <2>2, <2>3, <2>4, <2>5, <2>6, <2>7, <2>8, <2>9 DEF RequestStep
<1> QED
    BY <1>0, <1>1, <1>2, <1>5, TidyMoves DEF clusterVars, Tidy

LEMMA TickMoves ==
    ASSUME TypeInv, Tidy, TickStep
    PROVE  /\ OnlyMoves(Tick) /\ Tidy' /\ UNCHANGED <<rowVars, platform, snapshot>>
<1>0. /\ pc \in [Actors -> AllPC] /\ job \in [Actors -> Job] /\ Tick \in Actors
      /\ todo \in [Actors -> SUBSET Projects]
      /\ ing \in [Projects -> IngressObject \union {None}]
      /\ pc[Tick] \in TickPC => prj(Tick) \in Projects
    BY ConstantsOK DEF TypeInv, TypeOK, ProcTypeOK, ClusterTypeOK, Assumptions, InHand, Holds, WithProject
<1>1. UNCHANGED <<rowVars, platform, snapshot>>
    BY DEF TickStep, Apply, ProjectRuns, GetBare, PutBare, Load, notRows
<1>2. CASE (\E p \in Projects : Apply(p)) \/ GetBare \/ Load
    <2>1. OnlyMoves(Tick)
        BY <1>0, <1>2 DEF Apply, GetBare, Load, Get, Goto, OnlyMoves
    <2>2. pc'[Tick] \in TickPC \union SyncPC /\ todo' = todo /\ pc[Tick] \in TickPC \union {"idle"}
        BY <1>0, <1>2 DEF Apply, GetBare, Load, Get, Goto, TickPC, SyncPC
    <2>3. TidyAt(Tick)'
        BY <1>0, <2>2 DEF Tidy, TidyAt, TickPC, SyncPC, PresetPC, PlatformPC
    <2>4. ing' = ing /\ ns \subseteq ns'
        BY <1>2 DEF Apply, GetBare, Load, Goto, clusterVars, notRows
    <2> QED
        BY <1>0, <1>1, <2>1, <2>3, <2>4, TidyMoves DEF Tidy
<1>3. CASE \E p \in Projects : ProjectRuns(p)
    BY <1>0, <1>1, <1>3 DEF ProjectRuns, procVars, clusterVars, OnlyMoves, Tidy, prj
<1>4. CASE PutBare
    <2>1. pc[Tick] = "putBare" /\ todo' = todo /\ ns' = ns /\ OnlyMoves(Tick)
        BY <1>0, <1>4 DEF PutBare, SyncReturns, OnlyMoves
    <2>2. TidyAt(Tick)'
        BY <1>0, <1>4, <2>1 DEF PutBare, SyncReturns, NoJob, Tidy, TidyAt, SyncPC, PresetPC, PlatformPC, prj
    <2>3. \A p \in Projects : ing'[p] # None => p \in ns'
        BY <1>0, <1>4, <2>1 DEF PutBare, CanWrite, Tidy, TickPC
    <2> QED
        BY <1>0, <1>1, <2>1, <2>2, <2>3, TidyMoves
<1> QED
    BY <1>2, <1>3, <1>4 DEF TickStep

LEMMA OtherMoves ==
    ASSUME TypeInv, Tidy, NEW a \in Actors,
           \/ ReadInternal(a) \/ GetPlatform(a) \/ PutPlatform(a) \/ NextProject(a)
           \/ a = Sweep /\ ListForSweep
    PROVE  OnlyMoves(a) /\ Tidy' /\ UNCHANGED <<rowVars, clusterVars>>
<1>0. /\ pc \in [Actors -> AllPC] /\ job \in [Actors -> Job]
      /\ todo \in [Actors -> SUBSET Projects] /\ None \notin Projects
    BY ConstantsOK DEF TypeInv, TypeOK, ProcTypeOK, Assumptions
<1>1. UNCHANGED <<rowVars, clusterVars>>
    BY DEF ReadInternal, GetPlatform, PutPlatform, NextProject, ListForSweep, notRows
<1>2. OnlyMoves(a)
    <2>1. CASE ReadInternal(a) \/ GetPlatform(a) \/ PutPlatform(a)
        BY <1>0, <2>1 DEF ReadInternal, GetPlatform, PutPlatform, Goto, Get, OnlyMoves
    <2>2. CASE NextProject(a)
        BY <1>0, <2>2 DEF NextProject, OnlyMoves
    <2>3. CASE a = Sweep /\ ListForSweep
        BY <1>0, <2>3 DEF ListForSweep, OnlyMoves
    <2> QED
        BY <2>1, <2>2, <2>3
<1>3. TidyAt(a)'
    <2>1. CASE ReadInternal(a) \/ GetPlatform(a) \/ PutPlatform(a)
        <3>1. pc[a] \in PlatformPC /\ pc'[a] \in PlatformPC \union {"fan", "idle"} /\ todo' = todo
            BY <1>0, <2>1 DEF ReadInternal, GetPlatform, PutPlatform, Goto, Get, PlatformPC
        <3>2. job'[a].prj = job[a].prj
            BY <1>0, <2>1 DEF ReadInternal, GetPlatform, PutPlatform, Job
        <3> QED
            BY <3>1, <3>2 DEF Tidy, TidyAt, SyncPC, PresetPC, PlatformPC, prj
    <2>2. CASE NextProject(a)
        <3>1. PICK q \in todo[a] :
                 /\ todo' = [todo EXCEPT ![a] = @ \ {q}]
                 /\ job' = [job EXCEPT ![a].prj = q,
                                      ![a].row = IF a = Sweep THEN snapshot[q] ELSE project[q]]
            BY <2>2 DEF NextProject
        <3>2. pc'[a] = "hosts" /\ todo'[a] = todo[a] \ {q}
            BY <1>0, <2>2, <3>1 DEF NextProject
        <3>3. job[a] \in Job /\ job'[a].prj = q
            BY <1>0, <3>1 DEF Job
        <3> QED
            BY <3>2, <3>3 DEF TidyAt, SyncPC, PresetPC, PlatformPC, prj
    <2>3. CASE a = Sweep /\ ListForSweep
        <3>1. /\ pc[a] = "sweep" /\ todo'[a] = known /\ prj(a)' = prj(a)
              /\ pc'[a] = IF known = {} THEN "idle" ELSE "next"
            BY <1>0, <2>3 DEF ListForSweep, prj
        <3>2. prj(a) = None /\ None \notin known
            BY <1>0, <3>1 DEF Tidy, TypeInv, TypeOK, OtherTypeOK
        <3> QED
            BY <3>1, <3>2 DEF TidyAt, SyncPC, PresetPC, PlatformPC
    <2> QED
        BY <2>1, <2>2, <2>3
<1> QED
    BY <1>1, <1>2, <1>3, TidyMoves DEF Tidy, clusterVars

\* A call of b fails, or its client is gone.
Breaks(b) == CallFails(b) \/ CallerFails(b) \/ (b \in Requests /\ ClientGone(b))

LEMMA FaultMoves ==
    ASSUME TypeInv, Tidy, NEW b \in Actors, Breaks(b)
    PROVE  OnlyMoves(b) /\ UNCHANGED clusterVars /\ Tidy'
<1>0. /\ pc \in [Actors -> AllPC] /\ job \in [Actors -> Job]
      /\ todo \in [Actors -> SUBSET Projects] /\ None \notin Projects
    BY ConstantsOK DEF TypeInv, TypeOK, ProcTypeOK, Assumptions
<1>1. UNCHANGED clusterVars
    BY DEF Breaks, CallFails, CallerFails, ClientGone
<1>2. CASE CallFails(b)
    BY <1>1, <1>2, SyncMoves
<1>3. CASE CallerFails(b) \/ (b \in Requests /\ ClientGone(b))
    <2>1. OnlyMoves(b)
        BY <1>0, <1>3 DEF CallerFails, ClientGone, Return, Goto, OnlyMoves
    <2>2. TidyAt(b)'
        <3>1. CASE Return(b) /\ CallerFails(b) /\ pc[b] # "next"
            BY <1>0, <3>1 DEF CallerFails, Return, NoJob, Tidy, TidyAt, prj, SyncPC, TickPC
        <3>2. CASE CallerFails(b) /\ pc[b] = "next"
            <4>1. /\ pc'[b] = (IF todo'[b] = {} THEN "idle" ELSE "next") /\ job' = job
                  /\ todo'[b] \subseteq todo[b]
                BY <1>0, <3>2 DEF CallerFails, TickPC
            <4>2. prj(b) = None /\ prj(b)' = None
                BY <3>2, <4>1 DEF Tidy, prj
            <4> QED
                BY <1>0, <4>1, <4>2 DEF TidyAt, SyncPC, PresetPC, PlatformPC
        <3>3. CASE CallerFails(b) /\ pc[b] = "platform"
            <4>1. /\ pc'[b] = "getPlatform" /\ todo' = todo
                  /\ job' = [job EXCEPT ![b].allow = {}]
                BY <1>0, <3>3 DEF CallerFails, Goto, TickPC
            <4>2. prj(b)' = prj(b)
                BY <1>0, <4>1 DEF prj, Job
            <4> QED
                BY <3>3, <4>1, <4>2 DEF Tidy, TidyAt, SyncPC, PresetPC, PlatformPC
        <3>4. CASE b \in Requests /\ ClientGone(b)
            BY <1>0, <3>4 DEF ClientGone, NoJob, TidyAt, prj
        <3> QED
            BY <1>3, <3>1, <3>2, <3>3, <3>4 DEF CallerFails, TickPC
    <2> QED
        BY <1>1, <2>1, <2>2, TidyMoves DEF Tidy, clusterVars
<1> QED
    BY <1>2, <1>3 DEF Breaks

LEMMA TidyInit == Init => Tidy
BY DEF Init, Tidy, NoJob, prj

LEMMA TidyNext == TypeInv /\ Tidy /\ [Next]_vars => Tidy'
<1> SUFFICES ASSUME TypeInv, Tidy, [Next]_vars PROVE Tidy'
    OBVIOUS
<1>1. CASE UNCHANGED vars
    BY <1>1 DEF Tidy, vars, procVars, clusterVars, prj
<1>2. CASE Faulty
    <2>1. CASE Restart
        BY <2>1 DEF Restart, Tidy, NoJob, prj, clusterVars
    <2>2. CASE \E b \in Actors : Breaks(b)
        BY <2>2, FaultMoves
    <2> QED
        BY <1>2, <2>1, <2>2, ConstantsOK DEF Faulty, Assumptions, Breaks
<1>3. CASE \E a \in Actors : SharedStep(a)
    BY <1>3, SyncMoves, OtherMoves DEF SharedStep
<1>4. CASE (\E r \in Requests : RequestStep(r)) \/ TickStep \/ ListForSweep
    BY <1>4, RequestMoves, TickMoves, OtherMoves, ConstantsOK DEF Assumptions
<1> QED
    BY <1>1, <1>2, <1>3, <1>4 DEF Next

--------------------------------------------------------------------------------
(***************************************************************************)
(* The steps of a synchronisation of p.                                    *)
(***************************************************************************)

LEMMA AllowType ==
    ASSUME RowTypeOK, NEW p \in Projects
    PROVE  AllowOf(p) \in Cidrs
BY ConstantsOK, UsableType, InternalListType DEF Assumptions, AllowOf, RowTypeOK, Row

LEMMA ListsClosed ==
    ASSUME RowTypeOK, RulesClosed, NEW p \in Projects, NEW x \in Prefixes,
           RuleLists(p)[x] # None
    PROVE  World \notin RuleLists(p)[x]
<1> DEFINE S == {rules[p][k] : k \in Ids} \ {None}
<1>1. PICK i \in Ids : rules[p][i] # None /\ rules[p][i].prefix = x
    BY DEF RuleLists
<1>2. RuleLists(p)[x] = (CHOOSE r \in S : r.prefix = x).cidrs
    BY <1>1 DEF RuleLists
<1>3. rules[p][i] \in S /\ rules[p][i].prefix = x
    BY <1>1
<1>4. \A r \in S : World \notin r.cidrs
    BY DEF RulesClosed
<1> HIDE DEF S
<1>5. (CHOOSE r \in S : r.prefix = x) \in S
    BY <1>3
<1> QED
    BY <1>2, <1>4, <1>5

\* What b has read of the rules asks for what the rows ask for.
LEMMA OwnLists ==
    ASSUME TypeInv, WorldInv, NEW p \in Projects, NEW b \in Actors, job[b].want = RuleLists(p)
    PROVE  /\ Wanted(b) = RuledBy(p) /\ WithOwnList(b) = Asked(p)
           /\ Asked(p) \subseteq RuledBy(p)
           /\ \A x \in Asked(p) : /\ OwnList(b, x) # None
                                  /\ job[b].allow = AllowOf(p) => OwnList(b, x) = OwnOf(p, x)
<1>1. /\ RowTypeOK /\ RulesClosed /\ AllowOf(p) \in Cidrs /\ None \notin Cidrs
      /\ RuleLists(p) \in Lists /\ job[b].allow \in Cidrs
    BY ConstantsOK, AllowType, RuleListsType
    DEF Assumptions, TypeInv, TypeOK, WorldInv, ProcTypeOK, Job
<1>2. Wanted(b) = RuledBy(p)
    BY DEF Wanted, RuledBy
<1>3. ASSUME NEW x \in Prefixes, RuleLists(p)[x] \notin {None, {}}
      PROVE  /\ RuleLists(p)[x] \ {World} = RuleLists(p)[x] /\ RuleLists(p)[x] \in Cidrs
             /\ OwnOf(p, x) = AllowOf(p) \union RuleLists(p)[x] /\ OwnOf(p, x) # None
             /\ OwnList(b, x) = job[b].allow \union RuleLists(p)[x]
             /\ OwnList(b, x) \notin {None, {}}
    <2>1. RuleLists(p)[x] \in Cidrs /\ World \notin RuleLists(p)[x]
        BY <1>1, <1>3, ListsClosed DEF Lists
    <2>2. RuleLists(p)[x] \ {World} = RuleLists(p)[x]
        BY <2>1
    <2>3. OwnOf(p, x) = AllowOf(p) \union RuleLists(p)[x]
        BY <1>3 DEF OwnOf
    <2>4. OwnList(b, x) = job[b].allow \union RuleLists(p)[x]
        BY <1>3, <2>2 DEF OwnList
    <2>5. /\ AllowOf(p) \union RuleLists(p)[x] \in Cidrs
          /\ job[b].allow \union RuleLists(p)[x] \in Cidrs
        BY <1>1, <2>1 DEF Cidrs
    <2> QED
        BY <1>1, <1>3, <2>1, <2>2, <2>3, <2>4, <2>5
<1>4. ASSUME NEW x \in Prefixes, RuleLists(p)[x] \in {None, {}}
      PROVE  OwnOf(p, x) = None /\ (x \in Wanted(b) => OwnList(b, x) = {})
    BY <1>4 DEF OwnOf, OwnList, Wanted
<1>5. \A x \in Prefixes : x \in Asked(p) <=> RuleLists(p)[x] \notin {None, {}}
    BY <1>3, <1>4 DEF Asked
<1>6. \A x \in Prefixes : x \in WithOwnList(b) <=> RuleLists(p)[x] \notin {None, {}}
    BY <1>3, <1>4 DEF WithOwnList, Wanted
<1>7. WithOwnList(b) = Asked(p)
    BY <1>5, <1>6 DEF WithOwnList, Asked, Wanted
<1>8. Asked(p) \subseteq RuledBy(p)
    BY <1>5 DEF Asked, RuledBy
<1>9. \A x \in Asked(p) : RuleLists(p)[x] \notin {None, {}} /\ x \in Prefixes
    BY <1>5 DEF Asked
<1> QED
    BY <1>2, <1>3, <1>7, <1>8, <1>9

\* b goes on with p, or is done with it.
Advances(b, p) ==
    \/ pc'[b] \in SyncPC /\ Works(b, p)'
    \/ SyncReturns(b) /\ Synced(p)'

LEMMA ReadsAdvance ==
    ASSUME TypeInv, NEW p \in Projects, NEW b \in Actors, prj(b) = p, Works(b, p),
           UNCHANGED <<rowVars, clusterVars>>,
           ReadHosts(b) \/ ReadAllow(b) \/ ReadFallback(b) \/ ReadRules(b)
    PROVE  Advances(b, p)
<1>0. pc \in [Actors -> AllPC] /\ job \in [Actors -> Job] /\ job[b] \in Job
    BY DEF TypeInv, TypeOK, ProcTypeOK
<1>1. Rows(p)' = Rows(p)
    BY DEF rowVars, Rows
<1>2. /\ pc[b] \in {"hosts", "allow", "fallback", "rules"}
      /\ pc'[b] \in {"allow", "fallback", "rules", "getList"}
    BY <1>0 DEF ReadHosts, ReadAllow, ReadFallback, ReadRules, Goto
<1>3. SUFFICES HasRead(b, p)'
    <2>1. CanGoOn(b, p)' /\ HasWritten(b, p)'
        BY <1>2 DEF CanGoOn, HasWritten, AfterIng
    <2> QED
        BY <1>2, <1>3, <2>1 DEF Advances, Works, Early, SyncPC
<1>4. HasRead(b, p)
    BY DEF Works
<1> USE DEF HasRead, Goto, SyncPC, AfterAllow, AfterRules, Early, prj, Job
<1>5. CASE ReadHosts(b)
    <2>1. pc[b] = "hosts" /\ pc'[b] = "allow" /\ job'[b] = [job[b] EXCEPT !.hosts = domains[p]]
        BY <1>0, <1>5 DEF ReadHosts
    <2> QED
        BY <1>0, <1>1, <1>4, <2>1, SameDemand
<1>6. CASE ReadAllow(b) /\ Usable(job[b].row.preset)
    <2>1. /\ pc[b] = "allow" /\ pc'[b] = "rules"
          /\ job'[b] = [job[b] EXCEPT !.allow = presets[job[b].row.preset]]
        BY <1>0, <1>6 DEF ReadAllow
    <2>2. Usable(project[p].preset) /\ AllowOf(p) = presets[job[b].row.preset]
        BY <1>4, <1>6, <2>1 DEF AllowOf
    <2> QED
        BY <1>0, <1>1, <1>4, <2>1, <2>2, SameDemand
<1>7. CASE ReadAllow(b) /\ ~Usable(job[b].row.preset)
    <2>1. pc[b] = "allow" /\ pc'[b] = "fallback" /\ job' = job
        BY <1>0, <1>7 DEF ReadAllow
    <2>2. ~Usable(project[p].preset)
        BY <1>4, <1>7, <2>1
    <2> QED
        BY <1>0, <1>1, <1>4, <2>1, <2>2, SameDemand
<1>8. CASE ReadFallback(b)
    <2>1. /\ pc[b] = "fallback" /\ pc'[b] = "rules"
          /\ job'[b] = [job[b] EXCEPT !.allow = InternalList]
        BY <1>0, <1>8 DEF ReadFallback
    <2> QED
        BY <1>0, <1>1, <1>4, <2>1, SameDemand
<1>9. CASE ReadRules(b)
    <2>1. /\ pc[b] = "rules" /\ pc'[b] = "getList"
          /\ job'[b] = [job[b] EXCEPT !.want = RuleLists(p)]
        BY <1>0, <1>9 DEF ReadRules
    <2> QED
        BY <1>0, <1>1, <1>4, <2>1, SameDemand
<1> QED
    BY <1>5, <1>6, <1>7, <1>8, <1>9

\* HasRead asks for these parts of the job only.
LEMMA ReadStays ==
    ASSUME NEW p, NEW b, Rows(p)' = Rows(p), HasRead(b, p),
           pc[b] \in AfterRules, pc'[b] \in AfterRules,
           job'[b].row = job[b].row, job'[b].hosts = job[b].hosts,
           job'[b].allow = job[b].allow, job'[b].want = job[b].want
    PROVE  HasRead(b, p)'
BY SameDemand DEF HasRead, AfterRules, AfterAllow, SyncPC, Early

LEMMA IngressAdvances ==
    ASSUME TypeInv, WorldInv, Tidy, NEW p \in Projects, NEW b \in Actors, prj(b) = p,
           Works(b, p), UNCHANGED rowVars,
           GetList(b) \/ PutList(b) \/ GetIngress(b) \/ PutIngress(b)
    PROVE  Advances(b, p)
<1>0. /\ pc \in [Actors -> AllPC] /\ job \in [Actors -> Job] /\ job[b] \in Job
      /\ seen \in [Actors -> {"absent", "current", "old"}]
      /\ list \in [Projects -> Cidrs \union {None}]
      /\ ing \in [Projects -> IngressObject \union {None}]
    BY DEF TypeInv, TypeOK, ProcTypeOK, ClusterTypeOK
<1>1. Rows(p)' = Rows(p)
    BY DEF rowVars, Rows
<1>2. pc[b] \in AfterRules \ AfterIng
    BY DEF GetList, PutList, GetIngress, PutIngress, AfterRules, AfterAllow, AfterIng, SyncPC
<1>3. HasRead(b, p) /\ CanGoOn(b, p) /\ HasWritten(b, p)
    BY DEF Works
<1>4. ASSUME pc'[b] \in AfterRules, CanGoOn(b, p)', HasWritten(b, p)',
             job'[b].row = job[b].row, job'[b].hosts = job[b].hosts,
             job'[b].allow = job[b].allow, job'[b].want = job[b].want
      PROVE  Advances(b, p)
    <2>1. HasRead(b, p)'
        BY <1>1, <1>2, <1>3, <1>4, ReadStays
    <2> QED
        BY <1>4, <2>1 DEF Advances, Works, AfterRules, AfterAllow, SyncPC, Early
<1>5. CASE GetList(b)
    <2>1. /\ pc'[b] = "putList" /\ job' = job /\ list' = list
          /\ seen'[b] = IF list[p] = None THEN "absent" ELSE "current"
        BY <1>0, <1>5 DEF GetList, Get, clusterVars
    <2>2. CanGoOn(b, p)' /\ HasWritten(b, p)'
        BY <2>1 DEF CanGoOn, Fresh, HasWritten, AfterIng
    <2> QED
        BY <1>4, <2>1, <2>2 DEF AfterRules, AfterAllow, SyncPC
<1>6. CASE PutList(b)
    <2>1. /\ pc[b] = "putList" /\ pc'[b] = "getIng" /\ ns' = ns
          /\ job'[b] = [job[b] EXCEPT !.listed = CanWrite(b, list[p])]
          /\ CanWrite(b, list[p]) => list'[p] = job[b].allow
        BY <1>0, <1>6 DEF PutList, prj
    <2>2. CanWrite(b, list[p]) \in BOOLEAN
        BY DEF CanWrite, Fresh
    <2>3. /\ job'[b].row = job[b].row /\ job'[b].hosts = job[b].hosts
          /\ job'[b].allow = job[b].allow /\ job'[b].want = job[b].want
          /\ job'[b].listed = CanWrite(b, list[p])
        BY <1>0, <2>1 DEF Job
    <2>4. p \in ns => CanWrite(b, list[p])
        BY <1>3, <2>1 DEF CanGoOn, CanWrite
    <2>5. p \in ns => ListOK(p)'
        BY <1>1, <1>3, <2>1, <2>4, SameDemand DEF ListOK, HasRead, AfterAllow, SyncPC
    <2>6. CanGoOn(b, p)' /\ HasWritten(b, p)'
        BY <2>1, <2>3, <2>4, <2>5 DEF CanGoOn, HasWritten, AfterIng
    <2> QED
        BY <1>4, <2>1, <2>3, <2>6 DEF AfterRules, AfterAllow, SyncPC
<1>7. CASE GetIngress(b)
    <2>1. /\ pc[b] = "getIng" /\ pc'[b] = "putIng" /\ job' = job /\ UNCHANGED <<ing, list, ns>>
          /\ seen'[b] = IF ing[p] = None THEN "absent" ELSE "current"
        BY <1>0, <1>7 DEF GetIngress, Get, clusterVars
    <2>2. ListOK(p)' <=> ListOK(p)
        BY <1>1, <2>1, SameDemand DEF ListOK
    <2>3. CanGoOn(b, p)' /\ HasWritten(b, p)'
        BY <1>3, <2>1, <2>2 DEF CanGoOn, Fresh, HasWritten, AfterIng
    <2> QED
        BY <1>4, <2>1, <2>3 DEF AfterRules, AfterAllow, SyncPC
<1>8. CASE PutIngress(b) /\ p \notin ns
    <2>1. SyncReturns(b) /\ UNCHANGED <<ing, ns>>
        BY <1>8 DEF PutIngress, CanWrite
    <2>2. ing[p] = None
        BY <1>8 DEF Tidy
    <2> QED
        BY <2>1, <2>2 DEF Advances, Synced
<1>9. CASE PutIngress(b) /\ p \in ns
    <2>1. CanWrite(b, ing[p]) /\ pc[b] = "putIng"
        BY <1>3, <1>9 DEF PutIngress, CanGoOn, CanWrite
    <2>2. /\ ing' = [ing EXCEPT ![p] = [hosts |-> job[b].hosts, gate |-> Gate(b),
                                        tls |-> job[b].row.tls]]
          /\ job'[b] = [job[b] EXCEPT !.left = Wanted(b)]
          /\ pc'[b] = IF Wanted(b) = {} THEN "delRoute" ELSE "rule"
          /\ UNCHANGED <<ns, list, ruleList, route>>
        BY <1>0, <1>9, <2>1 DEF PutIngress, prj
    <2>3. /\ job'[b].row = job[b].row /\ job'[b].hosts = job[b].hosts
          /\ job'[b].allow = job[b].allow /\ job'[b].want = job[b].want
          /\ job'[b].listed = job[b].listed /\ job'[b].left = Wanted(b)
        BY <1>0, <2>2 DEF Job
    <2>4. /\ job[b].listed /\ ListOK(p) /\ job[b].row = project[p] /\ job[b].hosts = domains[p]
          /\ job[b].want = RuleLists(p)
        BY <1>3, <1>9, <2>1 DEF HasWritten, HasRead, AfterRules, AfterAllow, SyncPC
    <2>5. ing'[p] = IngressOf(p)'
        BY <1>0, <1>1, <2>2, <2>4, SameDemand DEF IngressOf, Gate
    <2>6. ListOK(p)'
        BY <1>1, <2>2, <2>4, SameDemand DEF ListOK
    <2>7. Wanted(b) = RuledBy(p)' /\ Asked(p)' \subseteq Wanted(b)
        BY <1>1, <2>4, OwnLists, SameDemand
    <2>8. CanGoOn(b, p)'
        BY <2>2 DEF CanGoOn
    <2>9. HasWritten(b, p)'
        BY <1>9, <2>2, <2>3, <2>4, <2>5, <2>6, <2>7 DEF HasWritten, AfterIng
    <2> QED
        BY <1>4, <2>2, <2>3, <2>8, <2>9 DEF AfterRules, AfterAllow, SyncPC
<1> QED
    BY <1>5, <1>6, <1>7, <1>8, <1>9

\* The part after the ingress has been written.
LEMMA RulesAdvance ==
    ASSUME TypeInv, WorldInv, NEW p \in Projects, NEW b \in Actors, prj(b) = p,
           Works(b, p), UNCHANGED rowVars,
           \/ NextRule(b) \/ PutRule(b) \/ Prune(b) \/ Drop(b)
           \/ GetRoute(b) \/ PutRoute(b) \/ DeleteRoute(b)
    PROVE  Advances(b, p)
<1>0. /\ pc \in [Actors -> AllPC] /\ job \in [Actors -> Job] /\ job[b] \in Job
      /\ seen \in [Actors -> {"absent", "current", "old"}]
      /\ ruleList \in [Projects -> Lists] /\ route \in [Projects -> RouteObject \union {None}]
      /\ Holds(b)
    BY DEF TypeInv, TypeOK, ProcTypeOK, ClusterTypeOK, InHand
<1>1. Rows(p)' = Rows(p)
    BY DEF rowVars, Rows
<1>2. pc[b] \in AfterIng /\ pc[b] \in AfterRules /\ UNCHANGED <<ns, list, ing>>
    BY DEF NextRule, PutRule, Prune, Drop, GetRoute, PutRoute, DeleteRoute, clusterVars,
        AfterRules, AfterAllow, AfterIng, SyncPC
<1>3. HasRead(b, p) /\ CanGoOn(b, p) /\ HasWritten(b, p)
    BY DEF Works
<1>a. /\ job[b].listed /\ p \in ns /\ ing[p] = IngressOf(p) /\ ListOK(p)
      /\ job[b].row = project[p] /\ job[b].hosts = domains[p] /\ job[b].want = RuleLists(p)
      /\ Usable(project[p].preset) => job[b].allow = AllowOf(p)
    BY <1>2, <1>3 DEF HasRead, HasWritten, AfterRules, AfterAllow, AfterIng, SyncPC
<1>b. /\ Wanted(b) = RuledBy(p) /\ WithOwnList(b) = Asked(p) /\ Asked(p) \subseteq RuledBy(p)
      /\ \A x \in Asked(p) : /\ OwnList(b, x) # None
                             /\ job[b].allow = AllowOf(p) => OwnList(b, x) = OwnOf(p, x)
    BY <1>a, OwnLists
<1>c. /\ RuledBy(p)' = RuledBy(p) /\ Asked(p)' = Asked(p) /\ ListOK(p)'
      /\ ing'[p] = IngressOf(p)' /\ p \in ns' /\ RouteOf(p)' = RouteOf(p)
      /\ \A x : OwnOf(p, x)' = OwnOf(p, x)
      /\ Usable(project[p].preset)' <=> Usable(project[p].preset)
      /\ project'[p] = project[p] /\ AllowOf(p)' = AllowOf(p)
    BY <1>1, <1>2, <1>a, SameDemand DEF ListOK
<1>d. \A x : ruleList'[p][x] = ruleList[p][x] => (OwnOK(p, x)' <=> OwnOK(p, x))
    BY <1>c DEF OwnOK
\* One more step on p.
<1>4. ASSUME pc'[b] \in AfterIng, CanGoOn(b, p)', HasWritten(b, p)',
             job'[b].row = job[b].row, job'[b].hosts = job[b].hosts,
             job'[b].allow = job[b].allow, job'[b].want = job[b].want
      PROVE  Advances(b, p)
    <2>0. pc'[b] \in AfterRules
        BY <1>4 DEF AfterIng, AfterRules, AfterAllow, SyncPC
    <2>1. HasRead(b, p)'
        BY <1>1, <1>2, <1>3, <1>4, <2>0, ReadStays
    <2> QED
        BY <1>4, <2>1 DEF Advances, Works, AfterIng, SyncPC, Early
<1>5. CASE NextRule(b) /\ job[b].left \intersect Asked(p) = {}
    <2>1. pc[b] = "rule" /\ pc'[b] = "prune" /\ job' = job /\ UNCHANGED <<ruleList, route>>
        BY <1>0, <1>5, <1>b DEF NextRule, Goto, clusterVars
    <2>2. \A x \in Asked(p) : OwnOK(p, x)
        BY <1>3, <1>5, <2>1 DEF HasWritten
    <2>3. CanGoOn(b, p)' /\ HasWritten(b, p)'
        BY <1>3, <1>a, <1>c, <1>d, <2>1, <2>2 DEF CanGoOn, HasWritten, AfterIng
    <2> QED
        BY <1>4, <2>1, <2>3 DEF AfterIng
<1>6. CASE NextRule(b) /\ job[b].left \intersect Asked(p) # {}
    <2>1. PICK x \in job[b].left \intersect Asked(p) :
             /\ job' = [job EXCEPT ![b].left = @ \ {x}, ![b].cur = x]
             /\ Get(b, ruleList[p][x], "putRule")
        BY <1>6, <1>b DEF NextRule, prj
    <2>2. pc[b] = "rule" /\ pc'[b] = "putRule" /\ UNCHANGED <<ruleList, route>>
          /\ seen'[b] = IF ruleList[p][x] = None THEN "absent" ELSE "current"
        BY <1>0, <1>6, <2>1 DEF NextRule, Get, clusterVars
    <2>3. /\ job'[b].row = job[b].row /\ job'[b].hosts = job[b].hosts
          /\ job'[b].allow = job[b].allow /\ job'[b].want = job[b].want
          /\ job'[b].listed = job[b].listed /\ job'[b].left = job[b].left \ {x}
          /\ job'[b].cur = x
        BY <1>0, <2>1 DEF Job
    <2>4. CanGoOn(b, p)'
        BY <2>2, <2>3 DEF CanGoOn, Fresh
    <2>5. \A y \in Asked(p) \ (job[b].left \ {x}) : OwnOK(p, y) \/ y = x
        BY <1>3, <2>2 DEF HasWritten
    <2>6. HasWritten(b, p)'
        BY <1>3, <1>a, <1>c, <1>d, <2>2, <2>3, <2>5 DEF HasWritten, AfterIng
    <2> QED
        BY <1>4, <2>2, <2>3, <2>4, <2>6 DEF AfterIng
<1>7. CASE PutRule(b)
    <2>0. PICK x : x = job[b].cur
        OBVIOUS
    <2>1. pc[b] = "putRule" /\ CanWrite(b, ruleList[p][x]) /\ x \in Asked(p) /\ x \in Prefixes
        BY <1>3, <1>7, <1>a, <2>0 DEF PutRule, CanWrite, CanGoOn, HasWritten, Asked
    <2>2. /\ ruleList' = [ruleList EXCEPT ![p][x] = OwnList(b, x)]
          /\ job' = [job EXCEPT ![b].cur = None] /\ pc'[b] = "rule" /\ route' = route
        BY <1>0, <1>7, <2>0, <2>1 DEF PutRule, prj
    <2>3. /\ job'[b].row = job[b].row /\ job'[b].hosts = job[b].hosts
          /\ job'[b].allow = job[b].allow /\ job'[b].want = job[b].want
          /\ job'[b].listed = job[b].listed /\ job'[b].left = job[b].left
        BY <1>0, <2>2 DEF Job
    <2>4. ruleList'[p][x] = OwnList(b, x) /\ \A y \in Prefixes : y # x => ruleList'[p][y] = ruleList[p][y]
        BY <1>0, <2>1, <2>2 DEF Lists
    <2>5. OwnOK(p, x)'
        BY <1>a, <1>b, <1>c, <2>1, <2>4 DEF OwnOK
    <2>6. \A y \in Asked(p) \ job[b].left : OwnOK(p, y)'
        <3>1. \A y \in Asked(p) : y \in Prefixes
            BY DEF Asked
        <3> QED
            BY <1>3, <1>d, <2>0, <2>1, <2>4, <2>5, <3>1 DEF HasWritten
    <2>7. CanGoOn(b, p)'
        BY <2>2 DEF CanGoOn
    <2>8. HasWritten(b, p)'
        BY <1>3, <1>a, <1>c, <2>1, <2>2, <2>3, <2>6 DEF HasWritten, AfterIng
    <2> QED
        BY <1>4, <2>2, <2>3, <2>7, <2>8 DEF AfterIng
<1>8. CASE Prune(b)
    <2>1. /\ pc[b] = "prune" /\ pc'[b] = "drop" /\ UNCHANGED <<ruleList, route>>
          /\ job'[b] = [job[b] EXCEPT !.left = Stale(b)]
        BY <1>0, <1>8 DEF Prune, Goto, clusterVars
    <2>2. /\ job'[b].row = job[b].row /\ job'[b].hosts = job[b].hosts
          /\ job'[b].allow = job[b].allow /\ job'[b].want = job[b].want
          /\ job'[b].listed = job[b].listed /\ job'[b].left = Stale(b)
        BY <1>0, <2>1 DEF Job
    <2>3. /\ Stale(b) \intersect Asked(p) = {}
          /\ {x \in Prefixes : ruleList'[p][x] # None} \subseteq Asked(p) \union Stale(b)
        BY <1>b, <2>1 DEF Stale, prj
    <2>4. CanGoOn(b, p)'
        BY <2>1 DEF CanGoOn
    <2>5. HasWritten(b, p)'
        BY <1>3, <1>a, <1>c, <1>d, <2>1, <2>2, <2>3 DEF HasWritten, AfterIng
    <2> QED
        BY <1>4, <2>1, <2>2, <2>4, <2>5 DEF AfterIng
<1>9. CASE Drop(b) /\ job[b].left # {}
    <2>1. PICK x \in job[b].left :
             /\ ruleList' = [ruleList EXCEPT ![p][x] = None]
             /\ job' = [job EXCEPT ![b].left = @ \ {x}]
        BY <1>9 DEF Drop, prj
    <2>2. pc[b] = "drop" /\ pc' = pc /\ route' = route /\ x \in Prefixes /\ x \notin Asked(p)
        BY <1>0, <1>3, <1>9 DEF Drop, HasWritten, Job
    <2>3. /\ job'[b].row = job[b].row /\ job'[b].hosts = job[b].hosts
          /\ job'[b].allow = job[b].allow /\ job'[b].want = job[b].want
          /\ job'[b].listed = job[b].listed /\ job'[b].left = job[b].left \ {x}
        BY <1>0, <2>1 DEF Job
    <2>4. ruleList'[p][x] = None /\ \A y \in Prefixes : y # x => ruleList'[p][y] = ruleList[p][y]
        BY <1>0, <2>1, <2>2 DEF Lists
    <2>5. \A y \in Asked(p) : y \in Prefixes /\ y # x
        BY <2>2 DEF Asked
    <2>6. {y \in Prefixes : ruleList'[p][y] # None} \subseteq Asked(p) \union (job[b].left \ {x})
        BY <1>3, <2>2, <2>4 DEF HasWritten
    <2>7. CanGoOn(b, p)'
        BY <2>2 DEF CanGoOn
    <2>8. HasWritten(b, p)'
        BY <1>3, <1>a, <1>c, <1>d, <2>2, <2>3, <2>4, <2>5, <2>6 DEF HasWritten, AfterIng
    <2> QED
        BY <1>4, <2>2, <2>3, <2>7, <2>8 DEF AfterIng
\* Nothing but the route is missing.
<1>e. ASSUME UNCHANGED ruleList, \A x \in Asked(p) : OwnOK(p, x),
             {x \in Prefixes : ruleList[p][x] # None} \subseteq Asked(p),
             route'[p] = RouteOf(p)
      PROVE  Synced(p)'
    <2>1. \A x \in Prefixes : (ruleList[p][x] # None) <=> (OwnOf(p, x) # None)
        BY <1>e DEF Asked, OwnOK
    <2>2. Usable(project[p].preset) => \A x \in Prefixes : ruleList[p][x] = OwnOf(p, x)
        BY <1>e, <2>1 DEF Asked, OwnOK
    <2> QED
        BY <1>c, <1>e, <2>1, <2>2 DEF Synced, ListOK
<1>10. CASE Drop(b) /\ job[b].left = {} /\ Wanted(b) = {}
    <2>1. SyncReturns(b) /\ pc[b] = "drop" /\ UNCHANGED <<ruleList, route>>
        BY <1>10 DEF Drop
    <2>2. route'[p] = RouteOf(p)
        BY <1>3, <1>10, <1>b, <2>1 DEF HasWritten, RouteOf
    <2>3. Synced(p)'
        BY <1>3, <1>10, <1>e, <2>1, <2>2 DEF HasWritten
    <2> QED
        BY <2>1, <2>3 DEF Advances
<1>11. CASE Drop(b) /\ job[b].left = {} /\ Wanted(b) # {}
    <2>1. pc[b] = "drop" /\ pc'[b] = "getRoute" /\ job' = job /\ UNCHANGED <<ruleList, route>>
        BY <1>0, <1>11 DEF Drop
    <2>2. CanGoOn(b, p)' /\ HasWritten(b, p)'
        BY <1>3, <1>11, <1>a, <1>b, <1>c, <1>d, <2>1 DEF CanGoOn, HasWritten, AfterIng
    <2> QED
        BY <1>4, <2>1, <2>2 DEF AfterIng
<1>12. CASE GetRoute(b)
    <2>1. /\ pc[b] = "getRoute" /\ pc'[b] = "putRoute" /\ job' = job /\ UNCHANGED <<ruleList, route>>
          /\ seen'[b] = IF route[p] = None THEN "absent" ELSE "current"
        BY <1>0, <1>12 DEF GetRoute, Get, clusterVars
    <2>2. CanGoOn(b, p)'
        BY <2>1 DEF CanGoOn, Fresh
    <2>3. HasWritten(b, p)'
        BY <1>3, <1>a, <1>c, <1>d, <2>1 DEF HasWritten, AfterIng
    <2> QED
        BY <1>4, <2>1, <2>2, <2>3 DEF AfterIng
<1>13. CASE PutRoute(b)
    <2>1. pc[b] = "putRoute" /\ CanWrite(b, route[p]) /\ RuledBy(p) # {}
        BY <1>3, <1>13, <1>a DEF PutRoute, CanWrite, CanGoOn, HasWritten
    <2>2. /\ route' = [route EXCEPT ![p] = [hosts |-> job[b].hosts, tls |-> job[b].row.tls,
                                            all |-> Wanted(b), own |-> WithOwnList(b),
                                            base |-> job[b].listed]]
          /\ SyncReturns(b) /\ ruleList' = ruleList
        BY <1>13, <2>1 DEF PutRoute, prj
    <2>3. job[b].listed = TRUE
        BY <1>0, <1>a DEF Job
    <2>4. route'[p] = RouteOf(p)
        BY <1>0, <1>a, <1>b, <2>1, <2>2, <2>3 DEF RouteOf, Asked
    <2>5. Synced(p)'
        BY <1>3, <1>e, <2>1, <2>2, <2>4 DEF HasWritten
    <2> QED
        BY <2>2, <2>5 DEF Advances
<1>14. CASE DeleteRoute(b)
    <2>1. /\ pc[b] = "delRoute" /\ pc'[b] = "prune" /\ job' = job /\ ruleList' = ruleList
          /\ route'[p] = None
        BY <1>0, <1>14 DEF DeleteRoute, prj
    <2>2. Asked(p) = {} /\ RuledBy(p) = {}
        BY <1>3, <1>b, <2>1 DEF HasWritten
    <2>3. CanGoOn(b, p)' /\ HasWritten(b, p)'
        BY <1>a, <1>c, <2>1, <2>2 DEF CanGoOn, HasWritten, AfterIng
    <2> QED
        BY <1>4, <2>1, <2>3 DEF AfterIng
<1> QED
    BY <1>5, <1>6, <1>7, <1>8, <1>9, <1>10, <1>11, <1>12, <1>13, <1>14, <1>b DEF NextRule

--------------------------------------------------------------------------------
\* A synchronisation of another project.
\* A synchronisation outdates nobody but those who write the same project's objects.
LEMMA SyncOutdates ==
    ASSUME TypeInv, NEW b \in Actors, SyncStep(b), NEW a \in Actors \ {b}
    PROVE  seen'[a] = seen[a] \/ (prj(a) = prj(b) /\ pc[a] # "putPlatform")
<1>0. seen \in [Actors -> {"absent", "current", "old"}]
    BY DEF TypeInv, TypeOK, ProcTypeOK
<1>1. CASE ReadHosts(b) \/ ReadAllow(b) \/ ReadFallback(b) \/ ReadRules(b) \/ Prune(b)
    BY <1>1 DEF ReadHosts, ReadAllow, ReadFallback, ReadRules, Prune, Goto
<1>2. CASE GetList(b) \/ GetIngress(b) \/ NextRule(b) \/ GetRoute(b)
    BY <1>0, <1>2 DEF GetList, GetIngress, NextRule, GetRoute, Get, Goto
<1>3. CASE PutList(b) \/ PutIngress(b) \/ PutRule(b) \/ PutRoute(b) \/ DeleteRoute(b)
    BY <1>0, <1>3 DEF PutList, PutIngress, PutRule, PutRoute, DeleteRoute, Outdate, Rivals
<1>4. CASE Drop(b)
    BY <1>0, <1>4 DEF Drop, Outdate
<1> QED
    BY <1>1, <1>2, <1>3, <1>4 DEF SyncStep

LEMMA SyncFrame ==
    ASSUME TypeInv, NEW p \in Projects, NEW b \in Actors, prj(b) # p, SyncStep(b)
    PROVE  SameObjects(p)
<1>0. /\ ruleList \in [Projects -> Lists] /\ route \in [Projects -> RouteObject \union {None}]
      /\ list \in [Projects -> Cidrs \union {None}]
      /\ ing \in [Projects -> IngressObject \union {None}]
    BY DEF TypeInv, TypeOK, ProcTypeOK, ClusterTypeOK
<1>1. CASE ReadHosts(b) \/ ReadAllow(b) \/ ReadFallback(b) \/ ReadRules(b) \/ GetList(b)
           \/ GetIngress(b) \/ NextRule(b) \/ Prune(b) \/ GetRoute(b)
    BY <1>1 DEF ReadHosts, ReadAllow, ReadFallback, ReadRules, GetList, GetIngress, NextRule,
        Prune, GetRoute, clusterVars, SameObjects
<1>2. CASE PutList(b) \/ PutIngress(b) \/ PutRule(b) \/ Drop(b) \/ PutRoute(b) \/ DeleteRoute(b)
    BY <1>0, <1>2 DEF PutList, PutIngress, PutRule, Drop, PutRoute, DeleteRoute, SameObjects
<1> QED
    BY <1>1, <1>2 DEF SyncStep

LEMMA KeptSync ==
    ASSUME TypeInv, WorldInv, Tidy, NEW p \in Projects, Kept(p), Alone(p)',
           NEW b \in Actors, SyncStep(b), UNCHANGED notCluster
    PROVE  Kept(p)'
<1>0. /\ OnlyMoves(b) /\ todo' = todo /\ ns' = ns /\ UNCHANGED <<snapshot, platform, rowVars>>
      /\ Rows(p)' = Rows(p) /\ project' = project
      /\ \/ pc'[b] \in SyncPC /\ prj(b)' = prj(b)
         \/ pc'[b] = (IF todo[b] = {} THEN "idle" ELSE "next") /\ prj(b)' = None
    BY SyncMoves DEF notCluster, rowVars, Rows
<1>1. pc[b] \in SyncPC /\ prj(b) \in Projects /\ None \notin Projects
    <2>1. pc[b] \in SyncPC
        BY DEF SyncStep, ReadHosts, ReadAllow, ReadFallback, ReadRules, GetList, PutList,
            GetIngress, PutIngress, NextRule, PutRule, Prune, Drop, GetRoute, PutRoute, DeleteRoute, SyncPC
    <2> QED
        BY <2>1, ConstantsOK DEF Assumptions, TypeInv, InHand, Holds, WithProject
<1>2. pc'[b] \notin PresetPC /\ pc[b] \notin PresetPC /\ pc[b] # "idle"
    BY <1>0, <1>1 DEF SyncPC, PresetPC, PlatformPC
<1>3. Concerns(b, p) <=> prj(b) = p \/ p \in todo[b]
    BY <1>2 DEF Concerns
<1>4. p \in todo[b] => Concerns(b, p)'
    BY <1>0 DEF Concerns, SyncPC
<1>5. Concerns(b, p)' => Concerns(b, p)
    BY <1>0, <1>1, <1>2, <1>3 DEF Concerns
<1>6. ASSUME Stage(b, p), p \in todo[b] \/ pc'[b] \in SyncPC, prj(b)' = p => Works(b, p)'
      PROVE  Stage(b, p)'
    BY <1>0, <1>2, <1>6 DEF Stage
<1>7. ASSUME Concerns(b, p), Stage(b, p) PROVE Tends(b, p)
    <2>1. CASE prj(b) # p
        BY <1>0, <1>1, <1>3, <1>4, <1>6, <1>7, <2>1 DEF Tends
    <2>2. CASE prj(b) = p
        <3>1. Works(b, p)
            BY <1>7, <2>2 DEF Stage
        <3>2. Advances(b, p)
            <4>1. CASE ReadHosts(b) \/ ReadAllow(b) \/ ReadFallback(b) \/ ReadRules(b)
                <5>1. UNCHANGED clusterVars
                    BY <4>1 DEF ReadHosts, ReadAllow, ReadFallback, ReadRules
                <5> QED
                    BY <1>0, <2>2, <3>1, <4>1, <5>1, ReadsAdvance
            <4>2. CASE GetList(b) \/ PutList(b) \/ GetIngress(b) \/ PutIngress(b)
                BY <1>0, <2>2, <3>1, <4>2, IngressAdvances
            <4>3. CASE NextRule(b) \/ PutRule(b) \/ Prune(b) \/ Drop(b) \/ GetRoute(b)
                       \/ PutRoute(b) \/ DeleteRoute(b)
                BY <1>0, <2>2, <3>1, <4>3, RulesAdvance
            <4> QED
                BY <4>1, <4>2, <4>3 DEF SyncStep
        <3>3. CASE pc'[b] \in SyncPC /\ Works(b, p)'
            <4>1. Concerns(b, p)'
                BY <1>0, <1>1, <2>2, <3>3 DEF Concerns, SyncPC
            <4> QED
                BY <1>6, <1>7, <3>3, <4>1 DEF Tends
        <3>4. CASE SyncReturns(b) /\ Synced(p)'
            <4>1. prj(b)' = None
                BY <3>4 DEF SyncReturns, TypeInv, TypeOK, ProcTypeOK, NoJob, prj
            <4>2. Concerns(b, p)' => p \in todo[b]
                BY <1>0, <1>1, <1>2, <4>1 DEF Concerns
            <4> QED
                BY <1>1, <1>6, <1>7, <3>4, <4>1, <4>2 DEF Tends
        <3> QED
            BY <3>2, <3>3, <3>4 DEF Advances
    <2> QED
        BY <2>1, <2>2
<1>8. ASSUME ~Concerns(b, p) PROVE Elsewhere(b, p)
    <2>1. prj(b) # p
        BY <1>3, <1>8
    <2>2. /\ SameObjects(p)
          /\ \A a \in Actors \ {b} :
                seen'[a] = seen[a] \/ (prj(a) = prj(b) /\ pc[a] # "putPlatform")
        BY <2>1, SyncFrame, SyncOutdates
    <2> QED
        BY <1>0, <2>1, <2>2 DEF Elsewhere, Fresh
<1> QED
    BY <1>0, <1>5, <1>7, <1>8, KeptBy

--------------------------------------------------------------------------------
(***************************************************************************)
(* The steps of a request.                                                 *)
(***************************************************************************)

\* Less is demanded of p than before, and its objects are the same.
LEMMA SyncedUnder ==
    ASSUME RowTypeOK, RowTypeOK', NEW p \in Projects, SameObjects(p), Synced(p),
           rules'[p] = rules[p], domains'[p] = domains[p], project'[p].tls = project[p].tls,
           Usable(project[p].preset)' => Usable(project[p].preset) /\ AllowOf(p)' = AllowOf(p)
    PROVE  Synced(p)'
<1>1. RuleLists(p)' = RuleLists(p) /\ RuleLists(p) \in Lists /\ None \notin Cidrs
    BY SameLists, RuleListsType, ConstantsOK DEF Assumptions
<1>2. AllowOf(p) \in Cidrs
    BY AllowType
<1>3. AllowOf(p)' \in Cidrs
    <2>1. (RowTypeOK => AllowOf(p) \in Cidrs)'
        BY AllowType, PTL
    <2> QED
        BY <2>1 DEF Cidrs
<1>4. ASSUME NEW x \in Prefixes PROVE OwnOf(p, x)' # None <=> OwnOf(p, x) # None
    <2>1. RuleLists(p)[x] \in Cidrs \union {None}
        BY <1>1 DEF Lists
    <2>2. RuleLists(p)[x] # None => /\ AllowOf(p) \union RuleLists(p)[x] \in Cidrs
                                    /\ AllowOf(p)' \union RuleLists(p)[x] \in Cidrs
        BY <1>2, <1>3, <2>1 DEF Cidrs
    <2> QED
        BY <1>1, <2>1, <2>2 DEF OwnOf
<1>5. Usable(project[p].preset)' => \A x \in Prefixes : OwnOf(p, x)' = OwnOf(p, x)
    BY <1>1 DEF OwnOf
<1>6. RuledBy(p)' = RuledBy(p)
    BY <1>1 DEF RuledBy
<1>7. {x \in Prefixes : OwnOf(p, x)' # None} = {x \in Prefixes : OwnOf(p, x) # None}
    BY <1>4
<1>8. RouteOf(p)' = RouteOf(p)
    BY <1>6, <1>7 DEF RouteOf
<1>9. IngressOf(p)' = IngressOf(p)
    BY DEF IngressOf
<1> QED
    BY <1>4, <1>5, <1>8, <1>9 DEF Synced, SameObjects

LEMMA KeptRequest ==
    ASSUME TypeInv, TypeInv', Tidy, Tidy', NEW p \in Projects, Kept(p), Alone(p)',
           NEW r \in Requests, RequestStep(r), ~RefusedHalfway(p)
    PROVE  Kept(p)'
<1>0. /\ pc \in [Actors -> AllPC] /\ job \in [Actors -> Job] /\ r \in Actors /\ job[r] \in Job
      /\ todo \in [Actors -> SUBSET Projects] /\ r # Sweep /\ r # Tick
      /\ None \notin Projects /\ None \notin Presets
      /\ RowTypeOK /\ RowTypeOK'
      /\ project \in [Projects -> Row] /\ domains \in [Projects -> SUBSET Hosts]
      /\ rules \in [Projects -> [Ids -> Rule \union {None}]]
      /\ presets \in [Presets -> Cidrs \union {None}]
    BY ConstantsOK DEF TypeInv, TypeOK, ProcTypeOK, RowTypeOK, Assumptions
<1>1. /\ OnlyMoves(r) /\ UNCHANGED <<clusterVars, seen, platform, snapshot>>
      /\ SameObjects(p)
    BY RequestMoves DEF clusterVars, SameObjects
<1>2. ASSUME Rows(p)' = Rows(p) PROVE Elsewhere(r, p)
    BY <1>1, <1>2 DEF Elsewhere, Fresh, clusterVars
<1>3. pc[r] \in Early \union {"cidrs"} => prj(r) \in Projects /\ todo[r] = {}
    BY <1>0 DEF TypeInv, InHand, Holds, WithProject, Tidy, Early, SyncPC
\* On to the synchronisation of p, or to the check before it, with the row that
\* was written.
<1>4. ASSUME pc'[r] \in {"hosts", "cidrs"}, job'[r].prj = p, job'[r].row = project'[p]
      PROVE  Concerns(r, p)' /\ Stage(r, p)'
    <2>1. HasRead(r, p)' /\ CanGoOn(r, p)' /\ HasWritten(r, p)'
        BY <1>4 DEF HasRead, CanGoOn, HasWritten, AfterIng, AfterRules, AfterAllow, SyncPC
    <2> QED
        BY <1>0, <1>4, <2>1 DEF Concerns, Stage, Works, Early, PresetPC, PlatformPC, prj
\* Nothing is changed yet.
<1>5. ASSUME pc'[r] \in Early, job'[r].prj = p, job'[r].row = project'[p], Synced(p)'
      PROVE  Concerns(r, p)' /\ Stage(r, p)'
    <2>1. HasRead(r, p)' /\ CanGoOn(r, p)' /\ HasWritten(r, p)'
        BY <1>5 DEF HasRead, CanGoOn, HasWritten, AfterIng, AfterRules, AfterAllow, SyncPC, Early
    <2> QED
        BY <1>0, <1>5, <2>1 DEF Concerns, Stage, Works, Early, PresetPC, PlatformPC, prj
\* What a handler that has the project in hand may do.
<1>6. ASSUME pc[r] \in Early,
             \/ Return(r) /\ UNCHANGED rowVars
             \/ /\ pc'[r] \in Early /\ UNCHANGED rowVars
                /\ job'[r].prj = job[r].prj /\ job'[r].row = job[r].row
             \/ /\ pc'[r] \in {"hosts", "cidrs"} /\ job'[r].prj = job[r].prj
                /\ job[r].row = project[prj(r)] => job'[r].row = project'[prj(r)]
                /\ \A q \in Projects : q # prj(r) => Rows(q)' = Rows(q)
      PROVE  Kept(p)'
    <2>1. Concerns(r, p) <=> prj(r) = p
        BY <1>3, <1>6 DEF Concerns, Early, PresetPC, PlatformPC
    <2>2. ASSUME prj(r) = p, Stage(r, p) PROVE Tends(r, p)
        <3>1. Synced(p) /\ job[r].row = project[p]
            BY <1>6, <2>2 DEF Stage, Works, HasRead
        <3>2. CASE Return(r) /\ UNCHANGED rowVars
            <4>1. ~Concerns(r, p)'
                BY <1>0, <3>2 DEF Return, Concerns
            <4>2. Synced(p)'
                BY <1>1, <3>1, <3>2, SyncedStays DEF Rows, rowVars
            <4> QED
                BY <4>1, <4>2 DEF Tends
        <3>3. CASE pc'[r] \in Early /\ UNCHANGED rowVars /\ job'[r].prj = job[r].prj
                   /\ job'[r].row = job[r].row
            <4>1. Synced(p)' /\ project' = project
                BY <1>1, <3>1, <3>3, SyncedStays DEF Rows, rowVars
            <4> QED
                BY <1>5, <2>2, <3>1, <3>3, <4>1 DEF Tends, prj
        <3>4. CASE pc'[r] \in {"hosts", "cidrs"} /\ job'[r].prj = job[r].prj
                   /\ (job[r].row = project[prj(r)] => job'[r].row = project'[prj(r)])
            BY <1>4, <2>2, <3>1, <3>4 DEF Tends, prj
        <3> QED
            BY <1>6, <3>2, <3>3, <3>4
    <2>3. ASSUME prj(r) # p PROVE ~Concerns(r, p)' /\ Rows(p)' = Rows(p)
        <3>1. pc'[r] \in Early \union {"idle", "hosts", "cidrs"} /\ job'[r].prj \in {job[r].prj, None}
            BY <1>0, <1>6 DEF Return, NoJob
        <3>3. todo' = todo
            BY <1>6 DEF Return, RequestStep, LoadProject, Refuse, CountDomains, AddDomain, RemoveDomain,
                PatchTLS, PatchAccess, CheckCidrs, CreatePathRule, ReadPathRule, UpdatePathRule,
                DeletePathRule, StoreRule, Synchronise, PutPreset, DeletePreset, FanOut, Goto, Early
        <3>4. ~Concerns(r, p)'
            BY <1>0, <1>3, <1>6, <2>3, <3>1, <3>3 DEF Concerns, Early, PresetPC, PlatformPC, prj
        <3> QED
            BY <1>6, <2>3, <3>4 DEF Rows, rowVars
    <2> QED
        BY <1>0, <1>1, <1>2, <2>1, <2>2, <2>3, KeptBy
<1>7. CASE Refuse(r) \/ CountDomains(r) \/ AddDomain(r) \/ RemoveDomain(r)
    <2>1. pc[r] \in Early /\ prj(r) \in Projects /\ project' = project /\ presets' = presets /\ rules' = rules
        BY <1>3, <1>7 DEF Refuse, CountDomains, AddDomain, RemoveDomain, Edit, Early, rowVars
    <2>2. CASE UNCHANGED domains
        <3>1. Return(r) \/ /\ pc'[r] \in Early \union {"hosts"} /\ job' = job
            BY <1>0, <1>7, <2>1 DEF Refuse, CountDomains, AddDomain, RemoveDomain, Synchronise, Goto, Early
        <3> QED
            BY <1>6, <2>1, <2>2, <3>1 DEF rowVars, Rows, Early
    <2>3. CASE domains' # domains
        <3>1. /\ pc'[r] = "hosts" /\ job' = job
              /\ \E S : domains' = [domains EXCEPT ![prj(r)] = S]
            BY <1>0, <1>7, <2>3 DEF Refuse, CountDomains, AddDomain, RemoveDomain, Synchronise, Goto, rowVars
        <3>2. \A q \in Projects : q # prj(r) => Rows(q)' = Rows(q)
            BY <1>0, <2>1, <3>1 DEF Rows
        <3> QED
            BY <1>6, <2>1, <3>1, <3>2
    <2> QED
        BY <2>2, <2>3
<1>8. CASE PatchTLS(r) \/ PatchAccess(r)
    <2>1. /\ pc[r] \in Early /\ prj(r) \in Projects /\ pc'[r] \in {"hosts", "cidrs"}
          /\ UNCHANGED <<presets, domains, rules>>
        BY <1>0, <1>3, <1>8 DEF PatchTLS, PatchAccess, Edit, Synchronise, Goto, Early
    <2>2. \/ \E t \in BOOLEAN : /\ project' = [project EXCEPT ![prj(r)].tls = t]
                               /\ job' = [job EXCEPT ![r].row.tls = t]
          \/ \E n \in Presets \union {None} :
                /\ project' = [project EXCEPT ![prj(r)].preset = n]
                /\ job' = [job EXCEPT ![r].row.preset = n]
          \/ UNCHANGED <<project, job>>
        BY <1>8 DEF PatchTLS, PatchAccess
    <2>3. /\ job'[r].prj = job[r].prj
          /\ job[r].row = project[prj(r)] => job'[r].row = project'[prj(r)]
        <3>1. /\ job[r].row \in Row /\ project[prj(r)] \in Row
            BY <1>0, <2>1 DEF Job
        <3>2. ASSUME NEW t, project' = [project EXCEPT ![prj(r)].tls = t],
                     job' = [job EXCEPT ![r].row.tls = t]
              PROVE  /\ job'[r].prj = job[r].prj
                     /\ job[r].row = project[prj(r)] => job'[r].row = project'[prj(r)]
            <4>1. /\ job'[r] = [job[r] EXCEPT !.row = [job[r].row EXCEPT !.tls = t]]
                  /\ project'[prj(r)] = [project[prj(r)] EXCEPT !.tls = t]
                BY <1>0, <2>1, <3>2
            <4> QED
                BY <1>0, <3>1, <4>1 DEF Job
        <3>3. ASSUME NEW n, project' = [project EXCEPT ![prj(r)].preset = n],
                     job' = [job EXCEPT ![r].row.preset = n]
              PROVE  /\ job'[r].prj = job[r].prj
                     /\ job[r].row = project[prj(r)] => job'[r].row = project'[prj(r)]
            <4>1. /\ job'[r] = [job[r] EXCEPT !.row = [job[r].row EXCEPT !.preset = n]]
                  /\ project'[prj(r)] = [project[prj(r)] EXCEPT !.preset = n]
                BY <1>0, <2>1, <3>3
            <4> QED
                BY <1>0, <3>1, <4>1 DEF Job
        <3> QED
            BY <2>2, <3>2, <3>3
    <2>4. \A q \in Projects : q # prj(r) => Rows(q)' = Rows(q)
        BY <1>0, <2>1, <2>2 DEF Rows
    <2> QED
        BY <1>6, <2>1, <2>3, <2>4
<1>9. CASE CreatePathRule(r) \/ UpdatePathRule(r) \/ DeletePathRule(r) \/ ReadPathRule(r)
    <2>1. pc[r] \in Early /\ prj(r) \in Projects /\ project' = project /\ presets' = presets /\ domains' = domains
        BY <1>3, <1>9 DEF CreatePathRule, UpdatePathRule, DeletePathRule, ReadPathRule, Edit, Early, rowVars
    <2>2. CASE Return(r)
        <3>1. UNCHANGED rowVars
            BY <1>0, <1>9, <2>1, <2>2 DEF CreatePathRule, UpdatePathRule, DeletePathRule, ReadPathRule,
                StoreRule, Synchronise, Goto, Return, rowVars
        <3> QED
            BY <1>6, <2>1, <2>2, <3>1
    <2>3. CASE ReadPathRule(r)
        <3>1. pc'[r] = "rewrite" /\ \E c, i : job' = [job EXCEPT ![r].allow = c, ![r].id = i]
            BY <1>0, <2>3 DEF ReadPathRule, Goto
        <3>2. job'[r].prj = job[r].prj /\ job'[r].row = job[r].row
            BY <1>0, <3>1 DEF Job
        <3> QED
            BY <1>6, <2>1, <2>3, <3>1, <3>2 DEF ReadPathRule, Early
    <2>4. CASE ~Return(r) /\ ~ReadPathRule(r)
        <3>1. pc'[r] = "hosts" /\ \E i, e : rules' = [rules EXCEPT ![prj(r)][i] = e]
            BY <1>0, <1>9, <2>4 DEF CreatePathRule, UpdatePathRule, DeletePathRule, StoreRule, Synchronise, Goto
        <3>2. job' = job \/ job' = [job EXCEPT ![r].allow = {}, ![r].id = None]
            BY <1>9, <2>4 DEF CreatePathRule, UpdatePathRule, DeletePathRule
        <3>3. job'[r].prj = job[r].prj /\ job'[r].row = job[r].row
            BY <1>0, <3>2 DEF Job
        <3>4. \A q \in Projects : q # prj(r) => Rows(q)' = Rows(q)
            BY <1>0, <2>1, <3>1 DEF Rows
        <3> QED
            BY <1>6, <2>1, <3>1, <3>3, <3>4
    <2> QED
        BY <2>2, <2>3, <2>4
<1>10. CASE \E q \in Projects : LoadProject(r, q)
    <2>1. PICK q \in Projects : LoadProject(r, q)
        BY <1>10
    <2>2. /\ pc[r] = "idle" /\ pc'[r] = "ready" /\ todo' = todo /\ todo[r] = {} /\ Rows(p)' = Rows(p)
          /\ job' = [job EXCEPT ![r].prj = q, ![r].row = project[q]] /\ project' = project
        BY <1>0, <2>1 DEF LoadProject, Goto, Tidy, SyncPC, Rows, rowVars
    <2>3. job'[r].prj = q /\ job'[r].row = project[q]
        BY <1>0, <2>2 DEF Job
    <2>4. ~Concerns(r, p) /\ (Concerns(r, p)' => q = p)
        BY <2>2, <2>3 DEF Concerns, PresetPC, PlatformPC, prj
    <2>5. ASSUME q = p, Synced(p) PROVE Stage(r, p)'
        BY <1>1, <1>5, <2>2, <2>3, <2>5, SyncedStays DEF Early
    <2> QED
        BY <1>0, <1>1, <1>2, <2>2, <2>4, <2>5, KeptBy
<1>11. CASE PutPreset(r) \/ DeletePreset(r)
    <2>1. /\ pc[r] = "idle" /\ pc'[r] \in {"platform", "fan"} /\ UNCHANGED <<domains, rules>>
        BY <1>0, <1>11 DEF PutPreset, DeletePreset, Goto
    <2>2. ~Concerns(r, p) /\ Concerns(r, p)'
        BY <2>1 DEF Concerns, PresetPC, PlatformPC
    <2>3. ASSUME Synced(p) PROVE Stage(r, p)'
        <3>1. prj(r)' = None
            BY <1>0, <2>1 DEF Tidy, PresetPC, PlatformPC
        <3>2. PICK n \in Presets :
                 /\ presets' = [presets EXCEPT ![n] = presets'[n]]
                 /\ job' = [job EXCEPT ![r].row.preset = n]
                 /\ \/ project' = project
                    \/ n # Internal /\
                       project' = [q \in Projects |-> IF project[q].preset = n
                                                      THEN [project[q] EXCEPT !.preset = None]
                                                      ELSE project[q]]
            BY <1>0, <1>11 DEF PutPreset, DeletePreset
        <3>3. job'[r].row.preset = n
            BY <1>0, <3>2 DEF Job, Row
        <3>4. CASE project[p].preset = n /\ project' = project
            BY <1>0, <2>1, <3>1, <3>3, <3>4 DEF Stage, Fans
        <3>5. CASE project[p].preset # n \/ project'# project
            <4>1. project'[p].tls = project[p].tls
                BY <1>0, <3>2 DEF Row
            <4>2. /\ project'[p].preset \in {project[p].preset, None}
                  /\ project'[p].preset # n \/ project'[p].preset = None
                  /\ project[p].preset \in Presets \union {None}
                BY <1>0, <3>2, <3>5 DEF Row
            <4>3. ASSUME Usable(project[p].preset)'
                  PROVE  Usable(project[p].preset) /\ AllowOf(p)' = AllowOf(p)
                <5>1. project'[p].preset # None
                    BY <4>3 DEF Usable
                <5>2. project'[p].preset = project[p].preset /\ presets'[project[p].preset] = presets[project[p].preset]
                    BY <1>0, <3>2, <4>2, <5>1
                <5>3. Usable(project[p].preset)
                    BY <4>3, <5>2 DEF Usable, Restricts
                <5> QED
                    BY <4>3, <5>2, <5>3 DEF AllowOf
            <4>4. Synced(p)'
                BY <1>0, <1>1, <2>1, <2>3, <4>1, <4>3, SyncedUnder
            <4> QED
                BY <1>0, <2>1, <3>1, <4>4 DEF Stage, Fans
        <3> QED
            BY <3>4, <3>5
    <2> QED
        BY <1>0, <1>1, <2>2, <2>3, KeptBy
<1>12. CASE FanOut(r)
    <2>1. /\ pc[r] = "fan" /\ UNCHANGED rowVars /\ Rows(p)' = Rows(p)
          /\ todo' = [todo EXCEPT ![r] = {q \in Projects : project[q].preset = job[r].row.preset}]
          /\ pc'[r] \in {"idle", "next"} /\ (pc'[r] = "idle" <=> todo'[r] = {})
          /\ job'[r] = NoJob
        BY <1>0, <1>12 DEF FanOut, rowVars, Rows
    <2>2. todo'[r] = {q \in Projects : project[q].preset = job[r].row.preset}
        BY <1>0, <2>1
    <2>3. Concerns(r, p)
        BY <2>1 DEF Concerns, PresetPC
    <2>4. ASSUME Stage(r, p) PROVE Tends(r, p)
        <3>1. Fans(r, p)
            BY <2>1, <2>4 DEF Stage, PresetPC
        <3>2. Concerns(r, p)' <=> p \in todo'[r]
            BY <1>0, <2>1 DEF Concerns, PresetPC, PlatformPC, NoJob, prj
        <3>3. p \notin todo'[r] => Synced(p)'
            BY <1>1, <2>1, <2>2, <3>1, SyncedStays DEF Fans
        <3>4. Stage(r, p)'
            BY <1>0, <2>1 DEF Stage, PresetPC, PlatformPC, NoJob, prj
        <3> QED
            BY <3>2, <3>3, <3>4 DEF Tends
    <2> QED
        BY <1>0, <1>1, <2>3, <2>4, KeptBy
\* The list is refused for another project than p.
<1>13. CASE CheckCidrs(r)
    <2>1. /\ pc[r] = "cidrs" /\ pc'[r] \in {"idle", "hosts"} /\ todo' = todo /\ todo[r] = {}
          /\ UNCHANGED rowVars /\ project' = project /\ Rows(p)' = Rows(p)
          /\ pc'[r] = "hosts" => job' = job
          /\ job'[r].prj \in {job[r].prj, None}
        BY <1>0, <1>3, <1>13 DEF CheckCidrs, Return, Synchronise, Goto, NoJob, rowVars, Rows
    <2>2. Concerns(r, p) <=> prj(r) = p
        BY <2>1 DEF Concerns, PresetPC, PlatformPC
    <2>3. ASSUME prj(r) = p, Stage(r, p) PROVE Tends(r, p)
        <3>1. job[r].row = project[p]
            BY <2>1, <2>3 DEF Stage, Works, HasRead
        <3>2. pc'[r] = "hosts"
            BY <2>1, <2>3 DEF RefusedHalfway
        <3> QED
            BY <1>4, <2>1, <2>3, <3>1, <3>2 DEF Tends, prj
    <2>4. prj(r) # p => ~Concerns(r, p)'
        BY <1>0, <2>1 DEF Concerns, PresetPC, PlatformPC, prj
    <2> QED
        BY <1>0, <1>1, <1>2, <2>1, <2>2, <2>3, <2>4, KeptBy
<1> QED
    BY <1>7, <1>8, <1>9, <1>10, <1>11, <1>12, <1>13 DEF RequestStep

--------------------------------------------------------------------------------
(***************************************************************************)
(* The tick, the sweep, the platform's list, faults.                       *)
(***************************************************************************)

LEMMA KeptTick ==
    ASSUME TypeInv, Tidy, Tidy', NEW p \in Projects, Kept(p), Alone(p)', TickStep
    PROVE  Kept(p)'
<1>0. /\ pc \in [Actors -> AllPC] /\ job \in [Actors -> Job] /\ Tick \in Actors /\ job[Tick] \in Job
      /\ seen \in [Actors -> {"absent", "current", "old"}]
      /\ ing \in [Projects -> IngressObject \union {None}]
      /\ Tick \notin Requests /\ Tick # Sweep /\ None \notin Projects
      /\ pc[Tick] \in TickPC => prj(Tick) \in Projects
    BY ConstantsOK DEF TypeInv, TypeOK, ProcTypeOK, ClusterTypeOK, Assumptions, InHand, Holds, WithProject
<1>1. /\ OnlyMoves(Tick) /\ UNCHANGED <<rowVars, platform, snapshot>> /\ project' = project
      /\ Rows(p)' = Rows(p)
    BY TickMoves DEF rowVars, Rows
<1>2. /\ pc[Tick] \in TickPC \union {"idle"} /\ todo' = todo /\ todo[Tick] = {}
    <2>1. pc[Tick] \in TickPC \union {"idle"} /\ todo' = todo
        BY DEF TickStep, Apply, ProjectRuns, GetBare, PutBare, Load, Goto, Get, SyncReturns, procVars, TickPC
    <2> QED
        BY <1>0, <2>1 DEF Tidy, TickPC, SyncPC
<1>3. Concerns(Tick, p) <=> pc[Tick] # "idle" /\ prj(Tick) = p
    BY <1>0, <1>2 DEF Concerns
<1>4. Concerns(Tick, p)' <=> pc'[Tick] # "idle" /\ job'[Tick].prj = p
    BY <1>0, <1>2 DEF Concerns, prj
\* On with p, at a step before the synchronisation.
<1>5. ASSUME pc'[Tick] \in TickPC, CanGoOn(Tick, p)' PROVE Stage(Tick, p)'
    <2>1. HasRead(Tick, p)' /\ HasWritten(Tick, p)'
        BY <1>5 DEF HasRead, HasWritten, AfterIng, AfterRules, AfterAllow, SyncPC, Early, TickPC
    <2> QED
        BY <1>0, <1>5, <2>1 DEF Stage, Works, Early, TickPC
<1>6. ASSUME SameObjects(p), p \in ns' <=> p \in ns,
             \A a \in Actors \ {Tick} : prj(a) = p \/ pc[a] = "putPlatform" => seen'[a] = seen[a]
      PROVE  Elsewhere(Tick, p)
    BY <1>1, <1>6 DEF Elsewhere, Fresh
<1>7. CASE \E q \in Projects : Apply(q)
    <2>1. PICK q \in Projects : Apply(q)
        BY <1>7
    <2>2. /\ pc[Tick] = "idle" /\ pc'[Tick] = "getBare" /\ job'[Tick].prj = q /\ seen' = seen
          /\ ns' = ns \union {q} /\ SameObjects(p)
        BY <1>0, <2>1 DEF Apply, Goto, Job, SameObjects
    <2>3. q = p => Stage(Tick, p)'
        BY <1>5, <2>2 DEF CanGoOn, TickPC
    <2>4. q # p => Elsewhere(Tick, p)
        BY <1>6, <2>2
    <2> QED
        BY <1>0, <1>1, <1>3, <1>4, <2>2, <2>3, <2>4, KeptBy
<1>8. CASE \E q \in Projects : ProjectRuns(q)
    <2>1. UNCHANGED <<clusterVars, procVars>> /\ pc[Tick] = "idle"
        BY <1>8 DEF ProjectRuns
    <2>2. Elsewhere(Tick, p)
        BY <1>6, <2>1 DEF SameObjects, clusterVars, procVars
    <2> QED
        BY <1>0, <1>1, <1>3, <1>4, <2>1, <2>2, KeptBy DEF procVars
<1>9. CASE GetBare
    <2>1. /\ pc[Tick] = "getBare" /\ pc'[Tick] = "putBare" /\ job' = job /\ UNCHANGED clusterVars
          /\ seen' = [seen EXCEPT ![Tick] = IF ing[prj(Tick)] = None THEN "absent" ELSE "current"]
        BY <1>0, <1>9 DEF GetBare, Get, notRows
    <2>2. ASSUME prj(Tick) = p, Stage(Tick, p) PROVE Stage(Tick, p)'
        <3>1. p \in ns
            BY <2>1, <2>2 DEF Stage, Works, CanGoOn
        <3>2. CanGoOn(Tick, p)'
            BY <1>0, <2>1, <2>2, <3>1 DEF CanGoOn, Fresh, clusterVars
        <3> QED
            BY <1>5, <2>1, <3>2 DEF TickPC
    <2>3. prj(Tick) # p => Elsewhere(Tick, p)
        BY <1>0, <1>6, <2>1 DEF SameObjects, clusterVars
    <2> QED
        BY <1>0, <1>1, <1>3, <1>4, <2>1, <2>2, <2>3, KeptBy DEF Tends, prj
<1>10. CASE PutBare
    <2>1. /\ pc[Tick] = "putBare" /\ prj(Tick) \in Projects /\ UNCHANGED <<ns, list, ruleList, route>>
        BY <1>0, <1>10 DEF PutBare, TickPC
    <2>2. ASSUME prj(Tick) = p, Stage(Tick, p) PROVE Tends(Tick, p)
        <3>1. CanWrite(Tick, ing[prj(Tick)])
            BY <2>1, <2>2 DEF Stage, Works, CanGoOn, CanWrite
        <3>2. pc'[Tick] = "load" /\ job' = job
            BY <1>0, <1>10, <3>1 DEF PutBare
        <3>3. CanGoOn(Tick, p)'
            BY <3>2 DEF CanGoOn
        <3> QED
            BY <1>4, <1>5, <2>2, <3>2, <3>3 DEF Tends, TickPC, prj
    <2>3. ASSUME prj(Tick) # p PROVE Elsewhere(Tick, p) /\ ~Concerns(Tick, p)'
        <3>1. ing'[p] = ing[p]
            BY <1>0, <1>10, <2>3 DEF PutBare
        <3>2. \A a \in Actors \ {Tick} : prj(a) = p \/ pc[a] = "putPlatform" => seen'[a] = seen[a]
            BY <1>0, <1>10, <2>3 DEF PutBare, Outdate, Rivals
        <3>3. ~Concerns(Tick, p)'
            BY <1>0, <1>4, <1>10, <2>3 DEF PutBare, SyncReturns, NoJob, prj
        <3> QED
            BY <1>6, <2>1, <3>1, <3>2, <3>3 DEF SameObjects
    <2> QED
        BY <1>0, <1>1, <1>3, <2>1, <2>2, <2>3, KeptBy
<1>11. CASE Load
    <2>1. /\ pc[Tick] = "load" /\ pc'[Tick] = "hosts" /\ UNCHANGED clusterVars /\ seen' = seen
          /\ job' = [job EXCEPT ![Tick].row = project[prj(Tick)]]
        BY <1>0, <1>11 DEF Load, Goto, notRows
    <2>2. job'[Tick].prj = job[Tick].prj /\ job'[Tick].row = project[prj(Tick)]
        BY <1>0, <2>1 DEF Job
    <2>3. ASSUME prj(Tick) = p PROVE Stage(Tick, p)'
        <3>1. HasRead(Tick, p)' /\ CanGoOn(Tick, p)' /\ HasWritten(Tick, p)'
            BY <1>1, <2>1, <2>2, <2>3 DEF HasRead, CanGoOn, HasWritten, AfterIng, AfterRules, AfterAllow
        <3> QED
            BY <1>0, <2>1, <3>1 DEF Stage, Works, Early
    <2>4. prj(Tick) # p => Elsewhere(Tick, p)
        BY <1>6, <2>1 DEF SameObjects, clusterVars
    <2> QED
        BY <1>0, <1>1, <1>3, <1>4, <2>1, <2>2, <2>3, <2>4, KeptBy DEF Tends, prj
<1> QED
    BY <1>7, <1>8, <1>9, <1>10, <1>11 DEF TickStep

LEMMA KeptPlatform ==
    ASSUME TypeInv, Tidy, Tidy', NEW p \in Projects, Kept(p), Alone(p)', NEW a \in Actors,
           ReadInternal(a) \/ GetPlatform(a) \/ PutPlatform(a)
    PROVE  Kept(p)'
<1>0. /\ pc \in [Actors -> AllPC] /\ job \in [Actors -> Job] /\ job[a] \in Job
      /\ seen \in [Actors -> {"absent", "current", "old"}]
      /\ None \notin Projects
    BY ConstantsOK DEF TypeInv, TypeOK, ProcTypeOK, Assumptions
<1>1. OnlyMoves(a) /\ UNCHANGED <<rowVars, clusterVars>> /\ project' = project /\ Rows(p)' = Rows(p)
      /\ SameObjects(p) /\ ns' = ns
    BY OtherMoves DEF rowVars, Rows, clusterVars, SameObjects
<1>2. /\ pc[a] \in PlatformPC /\ pc'[a] \in PlatformPC \union {"fan", "idle"} /\ todo' = todo
      /\ snapshot' = snapshot
    BY <1>0 DEF ReadInternal, GetPlatform, PutPlatform, Goto, Get, PlatformPC, notRows
<1>3. /\ todo[a] = {} /\ prj(a) = None
    BY <1>2 DEF Tidy, SyncPC, PresetPC, PlatformPC
<1>4. prj(a)' = None
    BY <1>2 DEF Tidy, PresetPC
<1>5. CASE a \in Requests
    <2>1. Concerns(a, p)
        BY <1>2, <1>5 DEF Concerns, PresetPC, PlatformPC
    <2>2. ASSUME Stage(a, p) PROVE Tends(a, p)
        <3>1. Fans(a, p)
            BY <1>2, <1>5, <2>2 DEF Stage, PresetPC
        <3>2. job'[a].row = job[a].row
            BY <1>0 DEF ReadInternal, GetPlatform, PutPlatform, Job
        <3>3. Synced(p) => Synced(p)'
            BY <1>1, SyncedStays
        <3>4. pc'[a] \in PresetPC
            BY <1>0, <1>2, <1>5, <3>1 DEF ReadInternal, GetPlatform, PutPlatform, Goto, Get, Fans,
                PresetPC, PlatformPC
        <3>5. pc'[a] = "putPlatform" => Fresh(a, platform)'
            BY <1>0 DEF ReadInternal, GetPlatform, PutPlatform, Goto, Get, Fresh, notRows
        <3>6. Fans(a, p)'
            BY <1>1, <3>1, <3>2, <3>3, <3>5 DEF Fans
        <3>7. Concerns(a, p)'
            BY <1>5, <3>4 DEF Concerns, PresetPC, PlatformPC
        <3> QED
            BY <1>0, <1>2, <1>3, <1>4, <3>6, <3>7 DEF Tends, Stage
    <2> QED
        BY <1>1, <2>1, <2>2, KeptBy
<1>6. CASE a \notin Requests
    <2>1. ~Concerns(a, p) /\ ~Concerns(a, p)'
        BY <1>0, <1>2, <1>3, <1>4, <1>6 DEF Concerns
    <2>2. \A c \in Actors \ {a} : pc[c] \notin PlatformPC
        BY <1>2 DEF Kept
    <2>3. \A c \in Actors \ {a} : seen'[c] = seen[c]
        BY <1>0, <2>2 DEF ReadInternal, GetPlatform, PutPlatform, Goto, Get, Outdate, Rivals, PlatformPC
    <2>4. Elsewhere(a, p)
        BY <1>1, <1>2, <2>2, <2>3 DEF Elsewhere, PlatformPC
    <2> QED
        BY <1>1, <2>1, <2>4, KeptBy
<1> QED
    BY <1>5, <1>6

LEMMA KeptNext ==
    ASSUME TypeInv, Tidy, NEW p \in Projects, Kept(p), Alone(p)', NEW a \in Actors, NextProject(a)
    PROVE  Kept(p)'
<1>0. /\ pc \in [Actors -> AllPC] /\ job \in [Actors -> Job] /\ job[a] \in Job
      /\ todo \in [Actors -> SUBSET Projects] /\ None \notin Projects
    BY ConstantsOK DEF TypeInv, TypeOK, ProcTypeOK, Assumptions
<1>1. OnlyMoves(a) /\ UNCHANGED <<rowVars, clusterVars>> /\ project' = project /\ Rows(p)' = Rows(p)
      /\ SameObjects(p) /\ ns' = ns
    BY OtherMoves DEF rowVars, Rows, clusterVars, SameObjects
<1>2. PICK q \in todo[a] :
         /\ todo' = [todo EXCEPT ![a] = @ \ {q}]
         /\ job' = [job EXCEPT ![a].prj = q, ![a].row = IF a = Sweep THEN snapshot[q] ELSE project[q]]
    BY DEF NextProject
<1>3. /\ pc[a] = "next" /\ pc'[a] = "hosts" /\ UNCHANGED <<seen, snapshot, platform>>
      /\ todo'[a] = todo[a] \ {q} /\ job'[a].prj = q
      /\ job'[a].row = IF a = Sweep THEN snapshot[q] ELSE project[q]
      /\ prj(a) = None
    BY <1>0, <1>2 DEF NextProject, notRows, Job, Tidy
<1>4. Concerns(a, p) <=> p \in todo[a]
    BY <1>0, <1>3 DEF Concerns, PresetPC, PlatformPC
<1>5. Concerns(a, p)' <=> p \in todo[a]
    BY <1>2, <1>3 DEF Concerns, PresetPC, PlatformPC, prj
<1>6. ASSUME p \in todo[a], Stage(a, p) PROVE Stage(a, p)'
    <2>1. q = p => HasRead(a, p)' /\ CanGoOn(a, p)' /\ HasWritten(a, p)'
        BY <1>1, <1>3, <1>6 DEF HasRead, CanGoOn, HasWritten, AfterIng, AfterRules, AfterAllow, Stage
    <2> QED
        BY <1>1, <1>3, <1>6, <2>1 DEF Stage, Works, Early, PresetPC, PlatformPC, prj
<1>7. Elsewhere(a, p)
    BY <1>1, <1>3 DEF Elsewhere, Fresh
<1> QED
    BY <1>1, <1>4, <1>5, <1>6, <1>7, KeptBy DEF Tends

LEMMA KeptSweep ==
    ASSUME TypeInv, Tidy, NEW p \in Projects, Kept(p), Alone(p)', ListForSweep
    PROVE  Kept(p)'
<1>0. /\ pc \in [Actors -> AllPC] /\ todo \in [Actors -> SUBSET Projects]
      /\ Sweep \in Actors /\ Sweep \notin Requests /\ None \notin Projects
    BY ConstantsOK DEF TypeInv, TypeOK, ProcTypeOK, Assumptions
<1>1. /\ pc[Sweep] = "sweep" /\ job' = job /\ seen' = seen /\ platform' = platform
      /\ snapshot' = project /\ UNCHANGED <<rowVars, clusterVars>> /\ project' = project
      /\ todo'[Sweep] = known /\ pc'[Sweep] = IF known = {} THEN "idle" ELSE "next"
    BY <1>0 DEF ListForSweep, rowVars
<1>2. OnlyMoves(Sweep)
    BY OtherMoves, <1>0
<1>3. prj(Sweep) = None /\ prj(Sweep)' = None /\ todo[Sweep] = {}
    BY <1>0, <1>1 DEF Tidy, SyncPC, prj
<1>4. CASE p \in known
    <2>1. Concerns(Sweep, p)'
        BY <1>1, <1>4 DEF Concerns
    <2>2. Stage(Sweep, p)'
        BY <1>0, <1>1, <1>3 DEF Stage
    <2> QED
        BY <1>0, <2>1, <2>2, AloneThen DEF Kept, Only, AtRest
<1>5. CASE p \notin known
    <2>1. ~Concerns(Sweep, p) /\ ~Concerns(Sweep, p)'
        BY <1>0, <1>1, <1>3, <1>5 DEF Concerns
    <2>2. Elsewhere(Sweep, p)
        BY <1>1 DEF Elsewhere, Rows, SameObjects, Fresh, rowVars, clusterVars
    <2> QED
        BY <1>0, <1>2, <1>5, <2>1, <2>2, KeptBy
<1> QED
    BY <1>4, <1>5

LEMMA KeptFault ==
    ASSUME TypeInv, Tidy, NEW p \in Projects, Kept(p), Alone(p)', Faulty, AtRest(p)
    PROVE  Kept(p)'
<1>0. /\ pc \in [Actors -> AllPC] /\ todo \in [Actors -> SUBSET Projects]
      /\ seen \in [Actors -> {"absent", "current", "old"}] /\ job \in [Actors -> Job]
      /\ Actors = Requests \union {Tick, Sweep} /\ None \notin Projects
      /\ Tick \notin Requests /\ Sweep \notin Requests
    BY ConstantsOK DEF TypeInv, TypeOK, ProcTypeOK, Assumptions
<1>1. /\ UNCHANGED <<rowVars, platform, snapshot>> /\ Rows(p)' = Rows(p)
    BY DEF Faulty, Rows, rowVars
<1>2. CASE Restart
    <2>1. \A a \in Actors : ~Concerns(a, p)'
        BY <1>0, <1>2 DEF Restart, Concerns, NoJob, prj
    <2>2. Synced(p)'
        BY <1>1, <1>2, SyncedStays DEF Restart, Kept, clusterVars, SameObjects
    <2> QED
        BY <2>1, <2>2, AloneThen DEF Kept
<1>3. ASSUME NEW b \in Actors, Breaks(b) PROVE Kept(p)'
    <2>1. OnlyMoves(b) /\ UNCHANGED clusterVars /\ Tidy'
        BY <1>3, FaultMoves
    <2>2. ~Concerns(b, p)
        BY DEF AtRest
    <2>3. ~Concerns(b, p)'
        <3>1. CASE CallFails(b)
            <4>1. /\ todo' = todo /\ pc[b] # "idle"
                  /\ pc'[b] \in SyncPC \union {"idle", "next"}
                  /\ prj(b)' = prj(b) \/ prj(b)' = None
                BY <3>1, SyncMoves DEF CallFails, SyncPC
            <4> QED
                BY <1>0, <2>2, <4>1 DEF Concerns, SyncPC, PresetPC, PlatformPC
        <3>2. CASE CallerFails(b) /\ Return(b)
            BY <1>0, <3>2 DEF Return, Concerns
        <3>3. CASE CallerFails(b) /\ ~Return(b)
            <4>1. CASE pc[b] = "next"
                <5>1. pc'[b] \in {"idle", "next"} /\ todo'[b] \subseteq todo[b] /\ job' = job
                    BY <1>0, <3>3, <4>1 DEF CallerFails, TickPC
                <5> QED
                    BY <2>2, <4>1, <5>1 DEF Concerns, PresetPC, PlatformPC, prj
            <4>2. CASE pc[b] = "platform"
                <5>1. /\ pc'[b] = "getPlatform" /\ todo' = todo
                      /\ job' = [job EXCEPT ![b].allow = {}]
                    BY <1>0, <3>3, <4>2 DEF CallerFails, Goto, TickPC
                <5>2. prj(b)' = prj(b)
                    BY <1>0, <5>1 DEF prj, Job
                <5> QED
                    BY <2>2, <4>2, <5>1, <5>2 DEF Concerns, PresetPC, PlatformPC
            <4> QED
                BY <3>3, <4>1, <4>2 DEF CallerFails
        <3>4. CASE ClientGone(b)
            BY <1>0, <3>4 DEF ClientGone, Concerns
        <3> QED
            BY <1>3, <3>1, <3>2, <3>3, <3>4 DEF Breaks
    <2>4. \A a \in Actors \ {b} : seen'[a] = seen[a]
        BY <1>0, <1>3 DEF Breaks, CallFails, CallerFails, ClientGone, Return, Goto, SyncReturns
    <2>5. Elsewhere(b, p)
        BY <1>1, <2>1, <2>4 DEF Elsewhere, Fresh, SameObjects, clusterVars
    <2> QED
        BY <2>1, <2>2, <2>3, <2>5, KeptBy
<1> QED
    BY <1>0, <1>2, <1>3 DEF Faulty, Breaks

\* A synchronisation that is alone with p has its row and its hostnames: that is
\* where it starts, whatever happened before.
LEMMA KeptBegins ==
    ASSUME TypeInv, Tidy, Tidy', NEW p \in Projects, Alone(p)', Begins(p), Next
    PROVE  Kept(p)'
<1>1. PICK a \in Actors : /\ prj(a) = p /\ pc[a] = "hosts" /\ pc'[a] = "allow"
                           /\ job[a].row = project[p]
    BY DEF Begins
<1>2. /\ faults' = faults
      /\ pc \in [Actors -> AllPC] /\ job \in [Actors -> Job] /\ job[a] \in Job
      /\ Requests \subseteq Actors /\ Tick \in Actors /\ Sweep \in Actors
    BY ConstantsOK DEF Begins, Assumptions, TypeInv, TypeOK, ProcTypeOK
<1>3. ~Faulty
    BY <1>2 DEF Faulty, Fault, TypeInv, TypeOK, OtherTypeOK
<1>4. ASSUME NEW r \in Requests, RequestStep(r) PROVE FALSE
    <2>1. a = r
        BY <1>1, <1>2, <1>4, RequestMoves DEF OnlyMoves
    <2>2. pc[r] # "hosts"
        BY <1>4 DEF RequestStep, LoadProject, Refuse, CountDomains, AddDomain, RemoveDomain,
            PatchTLS, PatchAccess, CheckCidrs, CreatePathRule, ReadPathRule, UpdatePathRule,
            DeletePathRule, PutPreset, DeletePreset, FanOut, Edit
    <2> QED
        BY <1>1, <2>1, <2>2
<1>5. ~TickStep
    <2>1. ASSUME TickStep PROVE FALSE
        <3>1. a = Tick
            BY <1>1, <1>2, <2>1, TickMoves DEF OnlyMoves
        <3>2. pc[Tick] # "hosts"
            BY <1>1, <1>2, <2>1, <3>1 DEF TickStep, Apply, ProjectRuns, GetBare, PutBare, Load
        <3> QED
            BY <1>1, <3>1, <3>2
    <2> QED
        BY <2>1
<1>6. ~ListForSweep
    <2>1. ASSUME ListForSweep PROVE FALSE
        <3>1. a = Sweep /\ pc[Sweep] = "sweep"
            BY <1>1, <1>2, <2>1, OtherMoves DEF OnlyMoves, ListForSweep
        <3> QED
            BY <1>1, <3>1
    <2> QED
        BY <2>1
<1>7. ReadHosts(a) /\ UNCHANGED notCluster
    <2>1. PICK b \in Actors : SharedStep(b)
        BY <1>3, <1>4, <1>5, <1>6 DEF Next
    <2>2. a = b
        BY <1>1, <1>2, <2>1, SyncMoves, OtherMoves DEF OnlyMoves, SharedStep
    <2> QED
        BY <1>1, <2>1, <2>2 DEF SharedStep, SyncStep, ReadInternal, GetPlatform, PutPlatform,
            NextProject, ReadAllow, ReadFallback, ReadRules, GetList, PutList, GetIngress,
            PutIngress, NextRule, PutRule, Prune, Drop, GetRoute, PutRoute, DeleteRoute
<1>8. job'[a].row = project'[p] /\ job'[a].hosts = domains'[p] /\ prj(a)' = p
    BY <1>1, <1>2, <1>7 DEF ReadHosts, notCluster, rowVars, Job, prj
<1>9. Concerns(a, p)'
    BY <1>1, <1>8 DEF Concerns
<1>10. Stage(a, p)'
    <2>1. HasRead(a, p)' /\ CanGoOn(a, p)' /\ HasWritten(a, p)'
        BY <1>1, <1>8 DEF HasRead, CanGoOn, HasWritten, AfterIng, AfterRules, AfterAllow
    <2>2. p \notin todo'[a]
        BY <1>8 DEF Tidy
    <2> QED
        BY <1>1, <2>1, <2>2 DEF Stage, Works, Early, PresetPC, PlatformPC
<1>11. \A b \in Actors : Concerns(b, p)' => b = a
    BY <1>9, AloneThen DEF Only
<1> QED
    BY <1>9, <1>10, <1>11, AloneThen DEF Kept, AtRest

LEMMA KeptStutters ==
    ASSUME UNCHANGED vars, NEW p, Kept(p)
    PROVE  Kept(p)'
<1>1. /\ Rows(p)' = Rows(p) /\ SameObjects(p) /\ (p \in ns' <=> p \in ns)
      /\ pc' = pc /\ job' = job /\ todo' = todo /\ seen' = seen /\ snapshot' = snapshot
      /\ platform' = platform /\ project' = project
    BY DEF vars, rowVars, clusterVars, procVars, Rows, SameObjects
<1>2. \A a : Concerns(a, p)' <=> Concerns(a, p)
    BY <1>1 DEF Concerns, prj
<1>3. ASSUME NEW a \in Actors, Stage(a, p) PROVE Stage(a, p)'
    <2>1. prj(a)' = p => Works(a, p)'
        BY <1>1, <1>3, WorksStays DEF Stage, prj
    <2>2. Fans(a, p) => Fans(a, p)'
        BY <1>1, SyncedStays DEF Fans, Fresh
    <2> QED
        BY <1>1, <1>3, <2>1, <2>2 DEF Stage
<1> QED
    BY <1>1, <1>2, <1>3, SyncedStays DEF Kept, Only, AtRest

LEMMA SyncInit == Init => SyncInv
<1> SUFFICES ASSUME Init, NEW p \in Projects PROVE Kept(p)
    BY TidyInit DEF SyncInv, Init
<1>1. \A a \in Actors : ~Concerns(a, p) /\ pc[a] \notin PlatformPC
    BY DEF Init, Concerns, PlatformPC
<1>2. \A x \in Prefixes : RuleLists(p)[x] = None
    BY DEF Init, RuleLists
<1>3. RuledBy(p) = {} /\ RouteOf(p) = None /\ \A x \in Prefixes : OwnOf(p, x) = None
    BY <1>2 DEF RuledBy, RouteOf, OwnOf
<1>4. Synced(p)
    BY <1>3 DEF Init, Synced, NoLists
<1> QED
    BY <1>1, <1>4 DEF Kept

LEMMA SyncNext == TypeInv /\ WorldInv /\ SyncInv /\ [Next]_vars => SyncInv'
<1> SUFFICES ASSUME TypeInv, WorldInv, SyncInv, [Next]_vars PROVE SyncInv'
    OBVIOUS
<1>0. /\ TypeInv' /\ Tidy /\ Tidy' /\ clean \subseteq Projects
      /\ Requests \subseteq Actors /\ Sweep \in Actors
    BY TypeNext, TidyNext, ConstantsOK DEF SyncInv, Assumptions, TypeInv, TypeOK, OtherTypeOK
<1>1. CASE UNCHANGED vars
    BY <1>0, <1>1, KeptStutters DEF SyncInv, vars
<1>2. CASE Next
    <2> SUFFICES ASSUME NEW p \in clean' PROVE Kept(p)'
        BY <1>0 DEF SyncInv
    <2>1. /\ p \in Projects /\ Alone(p)'
          /\ \/ p \in clean /\ ~RefusedHalfway(p) /\ (faults' = faults \/ AtRest(p))
             \/ Begins(p)
        BY <1>2 DEF Next, Judge, AtRest
    <2>2. CASE Begins(p)
        BY <1>0, <1>2, <2>1, <2>2, KeptBegins
    <2>3. CASE p \in clean /\ ~RefusedHalfway(p) /\ (faults' = faults \/ AtRest(p))
        <3>1. Kept(p)
            BY <2>3 DEF SyncInv
        <3>2. CASE \E r \in Requests : RequestStep(r)
            BY <1>0, <2>1, <2>3, <3>1, <3>2, KeptRequest
        <3>3. CASE TickStep
            BY <1>0, <2>1, <3>1, <3>3, KeptTick
        <3>4. CASE ListForSweep
            BY <1>0, <2>1, <3>1, <3>4, KeptSweep
        <3>5. CASE \E a \in Actors : SharedStep(a)
            BY <1>0, <2>1, <3>1, <3>5, KeptSync, KeptPlatform, KeptNext DEF SharedStep
        <3>6. CASE Faulty
            <4>1. faults' # faults
                BY <3>6 DEF TypeInv, TypeOK, OtherTypeOK, Faulty, Fault
            <4> QED
                BY <1>0, <2>1, <2>3, <3>1, <3>6, <4>1, KeptFault
        <3> QED
            BY <1>2, <3>2, <3>3, <3>4, <3>5, <3>6 DEF Next
    <2> QED
        BY <2>1, <2>2, <2>3
<1> QED
    BY <1>1, <1>2

\* With nobody at work on a project and a clean history of it, the cluster holds
\* what its rows say: whoever edited it (project_actions.go, cidr_presets.go),
\* deployed it (reconciler.go) or listed it at startup (SweepIngressesAtStartup) last
\* has brought every object of it up to date, those included that earlier overlaps,
\* failures and refused requests (project_actions.go:313-317) had left behind.
THEOREM InSyncAlways == Spec => []InSync
<1>1. Spec => [](TypeInv /\ WorldInv /\ SyncInv)
    <2>1. Init => TypeInv /\ WorldInv /\ SyncInv
        BY TypeInit, WorldInit, SyncInit
    <2>2. TypeInv /\ WorldInv /\ SyncInv /\ [Next]_vars => (TypeInv /\ WorldInv /\ SyncInv)'
        BY TypeNext, WorldNext, SyncNext
    <2> QED
        BY <2>1, <2>2, PTL DEF Spec
<1>2. SyncInv => InSync
    BY DEF SyncInv, Kept, InSync, Synced
<1> QED
    BY <1>1, <1>2, PTL
--------------------------------------------------------------------------------
(***************************************************************************)
(* PlatformInSync.  Who edits "internal" goes on to tell the platform, and *)
(* as long as one at a time does, it tells what the row says.              *)
(***************************************************************************)

\* Nobody is about to tell, or who does has read the row as it is and will write it.
Mirrors ==
    /\ (\A a \in Actors : pc[a] \notin PlatformPC) => platform = InternalList
    /\ \A a \in Actors : pc[a] \in {"getPlatform", "putPlatform"} => job[a].allow = InternalList
    /\ \A a \in Actors : pc[a] = "putPlatform" => Fresh(a, platform)

OneTells == \A a, b \in Actors : pc[a] \in PlatformPC /\ pc[b] \in PlatformPC => a = b

MirrorInv == mirrored => OneTells /\ Mirrors

LEMMA MirrorElsewhere ==
    ASSUME Mirrors, NEW b \in Actors, OnlyMoves(b),
           platform' = platform, InternalList' = InternalList,
           pc[b] \notin PlatformPC, pc'[b] \notin PlatformPC,
           \A a \in Actors \ {b} : pc[a] = "putPlatform" => seen'[a] = seen[a]
    PROVE  Mirrors'
BY DEF Mirrors, OnlyMoves, PlatformPC, Fresh

LEMMA MirrorRequest ==
    ASSUME TypeInv, Tidy, Mirrors, OneTells', NEW r \in Requests, RequestStep(r)
    PROVE  Mirrors'
<1>0. /\ pc \in [Actors -> AllPC] /\ r \in Actors
      /\ presets \in [Presets -> Cidrs \union {None}] /\ Internal \in Presets
    BY ConstantsOK DEF TypeInv, TypeOK, ProcTypeOK, RowTypeOK, Assumptions
<1>1. OnlyMoves(r) /\ UNCHANGED <<seen, platform>>
    BY RequestMoves
<1>2. CASE PutPreset(r)
    <2>1. PICK n \in Presets, c \in PresetCidrs :
                /\ presets' = [presets EXCEPT ![n] = c]
                /\ Goto(r, IF n = Internal THEN "platform" ELSE "fan")
        BY <1>2 DEF PutPreset
    <2>2. pc[r] = "idle" /\ pc'[r] = IF n = Internal THEN "platform" ELSE "fan"
        BY <1>0, <1>2, <2>1 DEF PutPreset, Goto
    <2>3. CASE n = Internal
        BY <1>0, <2>2, <2>3 DEF OneTells, Mirrors, PlatformPC
    <2>4. CASE n # Internal
        <3>1. InternalList' = InternalList
            BY <1>0, <2>1, <2>4 DEF InternalList
        <3> QED
            BY <1>0, <1>1, <2>2, <2>4, <3>1, MirrorElsewhere DEF PlatformPC
    <2> QED
        BY <2>3, <2>4
<1>3. CASE DeletePreset(r)
    <2>1. PICK n \in Presets \ {Internal, Public} : presets' = [presets EXCEPT ![n] = None]
        BY <1>3 DEF DeletePreset
    <2>2. InternalList' = InternalList
        BY <1>0, <2>1 DEF InternalList
    <2>3. pc[r] = "idle" /\ pc'[r] = "fan"
        BY <1>0, <1>3 DEF DeletePreset, Goto
    <2> QED
        BY <1>0, <1>1, <2>2, <2>3, MirrorElsewhere DEF PlatformPC
<1>4. CASE ~PutPreset(r) /\ ~DeletePreset(r)
    <2>1. InternalList' = InternalList
        BY <1>4 DEF RequestStep, LoadProject, Refuse, CountDomains, AddDomain, RemoveDomain,
            PatchTLS, PatchAccess, CheckCidrs, CreatePathRule, ReadPathRule, UpdatePathRule,
            DeletePathRule, FanOut, InternalList, rowVars
    <2>2. pc[r] \notin PlatformPC
        BY <1>4 DEF RequestStep, LoadProject, Refuse, CountDomains, AddDomain, RemoveDomain,
            PatchTLS, PatchAccess, CheckCidrs, CreatePathRule, ReadPathRule, UpdatePathRule,
            DeletePathRule, FanOut, Edit, PlatformPC
    <2>3. pc'[r] \notin PlatformPC
        BY <1>0, <1>4 DEF RequestStep, LoadProject, Refuse, CountDomains, AddDomain,
            RemoveDomain, PatchTLS, PatchAccess, CheckCidrs, CreatePathRule, ReadPathRule,
            UpdatePathRule, DeletePathRule, StoreRule, FanOut, Return, Synchronise, Goto,
            PlatformPC
    <2> QED
        BY <1>0, <1>1, <2>1, <2>2, <2>3, MirrorElsewhere
<1> QED
    BY <1>2, <1>3, <1>4

\* What does not tell the platform.
Does(b) ==
    \/ b = Tick /\ TickStep
    \/ b = Sweep /\ ListForSweep
    \/ SyncStep(b) /\ UNCHANGED notCluster
    \/ NextProject(b)

LEMMA MirrorOthers ==
    ASSUME TypeInv, Tidy, Mirrors,
           NEW b \in Actors, Does(b)
    PROVE  Mirrors'
<1>0. /\ pc \in [Actors -> AllPC] /\ job \in [Actors -> Job]
      /\ seen \in [Actors -> {"absent", "current", "old"}]
    BY DEF TypeInv, TypeOK, ProcTypeOK
<1>1. /\ OnlyMoves(b) /\ platform' = platform /\ UNCHANGED rowVars
    BY TickMoves, OtherMoves, SyncMoves DEF Does, ListForSweep, NextProject, notCluster, notRows
<1>2. InternalList' = InternalList
    BY <1>1 DEF InternalList, rowVars
<1>3. CASE b = Tick /\ TickStep
    <2>1. pc[b] \notin PlatformPC /\ pc'[b] \notin PlatformPC
        BY <1>0, <1>3 DEF TickStep, Apply, ProjectRuns, GetBare, PutBare, Load, Goto, Get,
            SyncReturns, procVars, PlatformPC
    <2>2. \A a \in Actors \ {b} : pc[a] = "putPlatform" => seen'[a] = seen[a]
        BY <1>0, <1>3 DEF TickStep, Apply, ProjectRuns, GetBare, PutBare, Load, Goto, Get,
            Outdate, Rivals, procVars
    <2> QED
        BY <1>1, <1>2, <2>1, <2>2, MirrorElsewhere
<1>4. CASE (b = Sweep /\ ListForSweep) \/ NextProject(b)
    <2>1. pc[b] \notin PlatformPC /\ pc'[b] \notin PlatformPC /\ seen' = seen
        BY <1>0, <1>4 DEF ListForSweep, NextProject, PlatformPC
    <2> QED
        BY <1>1, <1>2, <2>1, MirrorElsewhere
<1>5. CASE SyncStep(b) /\ UNCHANGED notCluster
    <2>1. pc[b] \in SyncPC
        BY <1>5 DEF SyncStep, ReadHosts, ReadAllow, ReadFallback, ReadRules, GetList, PutList,
            GetIngress, PutIngress, NextRule, PutRule, Prune, Drop, GetRoute, PutRoute,
            DeleteRoute, SyncPC
    <2>2. pc'[b] \in SyncPC \union {"idle", "next"}
        BY <1>5, SyncMoves
    <2>3. pc[b] \notin PlatformPC /\ pc'[b] \notin PlatformPC
        BY <2>1, <2>2 DEF SyncPC, PlatformPC
    <2> QED
        BY <1>1, <1>2, <1>5, <2>3, SyncOutdates, MirrorElsewhere
<1> QED
    BY <1>3, <1>4, <1>5 DEF Does

\* Those who tell the platform: from a lone reading of "internal" on, whatever was
\* before it.
LEMMA MirrorPlatform ==
    ASSUME TypeInv, Tidy, OneTells', NEW b \in Actors,
           ReadInternal(b) \/ (OneTells /\ Mirrors /\ (GetPlatform(b) \/ PutPlatform(b)))
    PROVE  Mirrors'
<1>0. /\ pc \in [Actors -> AllPC] /\ job \in [Actors -> Job]
      /\ seen \in [Actors -> {"absent", "current", "old"}]
    BY DEF TypeInv, TypeOK, ProcTypeOK
<1>1. OnlyMoves(b) /\ UNCHANGED rowVars /\ InternalList' = InternalList
    BY OtherMoves DEF rowVars, InternalList
<1>2. CASE ReadInternal(b)
    <2>1. pc'[b] = "getPlatform" /\ job'[b].allow = InternalList
        BY <1>0, <1>2 DEF ReadInternal, Goto, Job
    <2>2. \A a \in Actors \ {b} : pc'[a] \notin PlatformPC
        BY <2>1 DEF OneTells, PlatformPC
    <2> QED
        BY <1>1, <2>1, <2>2 DEF Mirrors, PlatformPC
<1>3. CASE OneTells /\ Mirrors /\ GetPlatform(b)
    <2>1. /\ pc[b] = "getPlatform" /\ pc'[b] = "putPlatform" /\ job' = job /\ platform' = platform
          /\ seen'[b] = IF platform = None THEN "absent" ELSE "current"
        BY <1>0, <1>3 DEF GetPlatform, Get, notRows
    <2>2. \A a \in Actors \ {b} : pc'[a] \notin PlatformPC
        BY <2>1 DEF OneTells, PlatformPC
    <2>3. Fresh(b, platform)'
        BY <2>1 DEF Fresh
    <2>4. job[b].allow = InternalList
        BY <1>3, <2>1 DEF Mirrors
    <2> QED
        BY <1>1, <2>1, <2>2, <2>3, <2>4 DEF Mirrors, PlatformPC
<1>4. CASE OneTells /\ Mirrors /\ PutPlatform(b)
    <2>1. pc[b] = "putPlatform" /\ Fresh(b, platform) /\ job[b].allow = InternalList
        BY <1>4 DEF PutPlatform, Mirrors
    <2>2. platform' = InternalList /\ pc'[b] \in {"fan", "idle"}
        BY <1>0, <1>4, <2>1 DEF PutPlatform
    <2>3. \A a \in Actors \ {b} : pc'[a] \notin PlatformPC
        BY <1>1, <1>4, <2>1 DEF OneTells, OnlyMoves, PlatformPC
    <2> QED
        BY <1>1, <2>2, <2>3 DEF Mirrors, PlatformPC
<1> QED
    BY <1>2, <1>3, <1>4

\* A fault while nobody tells: at most the start of the control plane begins to.
LEMMA MirrorFault ==
    ASSUME TypeInv, Mirrors, OneTells', AtPlatform = {}, Faulty
    PROVE  Mirrors'
<1>0. /\ pc \in [Actors -> AllPC] /\ Tick \in Actors /\ Tick # Sweep
      /\ Requests \subseteq Actors
    BY ConstantsOK DEF TypeInv, TypeOK, ProcTypeOK, Assumptions
<1>1. platform' = platform /\ InternalList' = InternalList
    BY DEF Faulty, rowVars, InternalList
<1>2. \A a \in Actors : pc[a] \notin PlatformPC
    BY DEF AtPlatform
<1>3. platform = InternalList
    BY <1>2 DEF Mirrors
<1>4. CASE Restart
    <2>1. pc'[Tick] = "platform" /\ \A a \in Actors : pc'[a] \in {"platform", "sweep", "idle"}
        BY <1>0, <1>4 DEF Restart
    <2> QED
        BY <1>0, <2>1 DEF Mirrors, PlatformPC
<1>5. ASSUME NEW b \in Actors, Breaks(b) PROVE Mirrors'
    <2>1. \A a \in Actors : pc'[a] \notin PlatformPC
        BY <1>0, <1>2, <1>5 DEF Breaks, CallFails, CallerFails, ClientGone, Return, Goto,
            SyncReturns, PlatformPC
    <2> QED
        BY <1>1, <1>3, <2>1 DEF Mirrors, PlatformPC
<1> QED
    BY <1>0, <1>4, <1>5 DEF Faulty, Breaks

LEMMA MirrorInit == Init => MirrorInv
BY DEF Init, MirrorInv, OneTells, Mirrors, PlatformPC

LEMMA MirrorNext == TypeInv /\ Tidy /\ MirrorInv /\ [Next]_vars => MirrorInv'
<1> SUFFICES ASSUME TypeInv, Tidy, MirrorInv, [Next]_vars, mirrored'
             PROVE  OneTells' /\ Mirrors'
    BY DEF MirrorInv
<1>0. /\ pc \in [Actors -> AllPC] /\ Tick \in Actors /\ Sweep \in Actors
      /\ Requests \subseteq Actors
    BY ConstantsOK DEF TypeInv, TypeOK, ProcTypeOK, Assumptions
<1>1. CASE UNCHANGED vars
    BY <1>1 DEF MirrorInv, OneTells, Mirrors, Fresh, InternalList, vars, rowVars, procVars
<1>2. CASE Next
    <2>1. /\ Cardinality(AtPlatform') <= 1
          /\ \/ mirrored /\ (faults' = faults \/ AtPlatform = {})
             \/ /\ faults' = faults
                /\ \E a \in Actors : pc[a] = "platform" /\ pc'[a] = "getPlatform"
        BY <1>2 DEF Next, JudgePlatform
    <2>2. OneTells'
        <3>1. AtPlatform' = {a \in Actors : pc'[a] \in PlatformPC}
            BY DEF AtPlatform
        <3>2. IsFiniteSet(AtPlatform')
            BY <3>1, ActorsFinite, FS_Subset
        <3> QED
            BY <2>1, <3>1, <3>2, AtMostOne DEF OneTells
    <2>3. Faulty => faults' # faults
        BY DEF Faulty, Fault, TypeInv, TypeOK, OtherTypeOK
    <2>4. CASE mirrored
        <3>1. OneTells /\ Mirrors
            BY <2>4 DEF MirrorInv
        <3>2. CASE Faulty
            <4>1. AtPlatform = {}
                BY <2>1, <2>3, <3>2
            <4> QED
                BY <2>2, <3>1, <3>2, <4>1, MirrorFault
        <3>3. CASE \E r \in Requests : RequestStep(r)
            BY <2>2, <3>1, <3>3, MirrorRequest
        <3>4. CASE TickStep \/ ListForSweep
            <4>1. CASE TickStep
                <5>1. Does(Tick)
                    BY <4>1 DEF Does
                <5> QED
                    BY <1>0, <2>2, <3>1, <5>1, MirrorOthers
            <4>2. CASE ListForSweep
                <5>1. Does(Sweep)
                    BY <4>2 DEF Does
                <5> QED
                    BY <1>0, <2>2, <3>1, <5>1, MirrorOthers
            <4> QED
                BY <3>4, <4>1, <4>2
        <3>5. CASE \E a \in Actors : SharedStep(a)
            BY <2>2, <3>1, <3>5, MirrorOthers, MirrorPlatform DEF SharedStep, Does
        <3> QED
            BY <1>2, <2>2, <3>2, <3>3, <3>4, <3>5 DEF Next
    <2>5. CASE ~mirrored
        <3>1. PICK a \in Actors : pc[a] = "platform" /\ pc'[a] = "getPlatform"
            BY <2>1, <2>5
        <3>2. ReadInternal(a)
            <4>1. ~Faulty
                BY <2>1, <2>3, <2>5
            <4>2. ASSUME NEW r \in Requests, RequestStep(r) PROVE FALSE
                <5>1. a = r
                    BY <1>0, <3>1, <4>2, RequestMoves DEF OnlyMoves
                <5>2. pc'[r] # "getPlatform"
                    BY <1>0, <4>2 DEF RequestStep, LoadProject, Refuse, CountDomains, AddDomain,
                        RemoveDomain, PatchTLS, PatchAccess, CheckCidrs, CreatePathRule,
                        ReadPathRule, UpdatePathRule, DeletePathRule, StoreRule, PutPreset,
                        DeletePreset, FanOut, Return, Synchronise, Goto
                <5> QED
                    BY <3>1, <5>1, <5>2
            <4>3. ~TickStep
                BY <1>0, <3>1 DEF TickStep, Apply, ProjectRuns, GetBare, PutBare, Load, Goto, Get,
                    SyncReturns, procVars
            <4>4. ~ListForSweep
                BY <1>0, <3>1 DEF ListForSweep
            <4>5. PICK b \in Actors : SharedStep(b)
                BY <1>2, <4>1, <4>2, <4>3, <4>4 DEF Next
            <4>6. a = b
                BY <3>1, <4>5, SyncMoves, OtherMoves DEF OnlyMoves, SharedStep
            <4>7. ~SyncStep(a)
                BY <3>1 DEF SyncStep, ReadHosts, ReadAllow, ReadFallback, ReadRules, GetList,
                    PutList, GetIngress, PutIngress, NextRule, PutRule, Prune, Drop, GetRoute,
                    PutRoute, DeleteRoute
            <4> QED
                BY <3>1, <4>5, <4>6, <4>7 DEF SharedStep, GetPlatform, PutPlatform, NextProject
        <3> QED
            BY <2>2, <3>2, MirrorPlatform
    <2> QED
        BY <2>4, <2>5
<1> QED
    BY <1>1, <1>2

\* Once nobody is about to tell them, the platform's own entry points admit whom the
\* preset "internal" admits, whatever edits of presets there were: unless two that
\* tell them overlapped, a PUT and the start of the control plane, or a call of
\* theirs failed (handlePutCIDRPreset, syncPlatformAllowList).
THEOREM PlatformInSyncAlways == Spec => []PlatformInSync
<1>1. Spec => [](TypeInv /\ Tidy /\ MirrorInv)
    <2>1. Init => TypeInv /\ Tidy /\ MirrorInv
        BY TypeInit, TidyInit, MirrorInit
    <2>2. TypeInv /\ Tidy /\ MirrorInv /\ [Next]_vars => (TypeInv /\ Tidy /\ MirrorInv)'
        BY TypeNext, TidyNext, MirrorNext
    <2> QED
        BY <2>1, <2>2, PTL DEF Spec
<1>2. MirrorInv => PlatformInSync
    BY DEF MirrorInv, Mirrors, PlatformInSync, AtPlatform
<1> QED
    BY <1>1, <1>2, PTL
================================================================================
