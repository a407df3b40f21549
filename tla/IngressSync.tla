------------------------------- MODULE IngressSync -------------------------------
(***************************************************************************)
(* syncIngressForProject (api) and SyncIngressHostnames (k8sdriver): how   *)
(* the rows that say who may reach a project get to the cluster.           *)
(*                                                                         *)
(* Any number of goroutines run it at the same time, each on the project   *)
(* row its caller had read.  Every cluster object is written by a Get and  *)
(* an Update that carries the resourceVersion of the Get, so the Update    *)
(* fails when somebody changed the object in between.                      *)
(*                                                                         *)
(*   hosts -> allow [-> fallback] -> rules -> getList -> putList ->        *)
(*   getIng -> putIng -> ( rule -> putRule )* -> prune -> drop* ->         *)
(*   getRoute -> putRoute          or, without rules,                      *)
(*   delRoute -> prune -> drop*                                            *)
(***************************************************************************)
EXTENDS Naturals, FiniteSets

CONSTANTS
    Projects,
    Hosts,       \* custom hostnames; the platform's own one is left out
    Prefixes,    \* path prefixes of rules
    Presets,     \* names of presets
    Internal,    \* the preset "internal"
    Public,      \* the retired preset "public"
    Sources,     \* CIDRs
    World,       \* the one that admits everybody
    Ids,         \* ids of rules
    Actors,      \* goroutines
    None         \* absent

ASSUME SyncAssumption ==
    /\ Internal \in Presets /\ Public \in Presets /\ Internal # Public
    /\ World \in Sources
    /\ None \notin Presets \union Projects \union Prefixes \union Ids
    /\ \A c \in SUBSET Sources : c # None

VARIABLES
    presets,   \* cidr_presets.cidrs; None: no such row
    project,   \* projects.access_preset and projects.tls_enabled
    domains,   \* rows of domains
    rules,     \* rows of project_path_rules by id; None: no such row
    ns,        \* projects that have a namespace
    list,      \* Middleware iai-allowlist-<slug>; {} is the loopback list
    ing,       \* Ingress app: hosts, tls and which middlewares it names
    ruleList,  \* Middlewares of single rules
    route,     \* IngressRoute app-overrides
    pc,        \* where each goroutine is
    job,       \* what it has read
    todo,      \* projects it still has to synchronise
    seen       \* what it knows of the object it is about to write

rowVars     == <<presets, project, domains, rules>>
clusterVars == <<ns, list, ing, ruleList, route>>
procVars    == <<pc, job, todo, seen>>

Cidrs  == SUBSET Sources
Row    == [preset : Presets \union {None}, tls : BOOLEAN]
NoRow  == [preset |-> None, tls |-> FALSE]
Rule   == [prefix : Prefixes, cidrs : Cidrs]

\* Lists by prefix, of the rules or of the Middlewares made from them.
Lists   == [Prefixes -> Cidrs \union {None}]
NoLists == [x \in Prefixes |-> None]

\* The allow_cidrs that the rules of project p give to each prefix.
RuleLists(p) ==
    [x \in Prefixes |-> IF \E i \in Ids : rules[p][i] # None /\ rules[p][i].prefix = x
                        THEN (CHOOSE r \in {rules[p][i] : i \in Ids} \ {None} :
                                r.prefix = x).cidrs
                        ELSE None]

\* gate: no middleware at all, only sign-in, or allow-list and sign-in.
IngressObject == [hosts : SUBSET Hosts, gate : {"bare", "sso", "full"}, tls : BOOLEAN]

\* own: the prefixes whose route names a list of its own; base: the others name
\* the project's list.
RouteObject == [hosts : SUBSET Hosts, tls : BOOLEAN, all : SUBSET Prefixes,
                own : SUBSET Prefixes, base : BOOLEAN]

Job == [prj : Projects \union {None}, row : Row, hosts : SUBSET Hosts, allow : Cidrs,
        want : Lists, left : SUBSET Prefixes, cur : Prefixes \union {None},
        id : Ids \union {None}, listed : BOOLEAN]
NoJob == [prj |-> None, row |-> NoRow, hosts |-> {}, allow |-> {}, want |-> NoLists,
          left |-> {}, cur |-> None, id |-> None, listed |-> FALSE]

SyncPC == {"hosts", "allow", "fallback", "rules", "getList", "putList", "getIng",
           "putIng", "rule", "putRule", "prune", "drop", "getRoute", "putRoute",
           "delRoute"}

RowTypeOK ==
    /\ presets \in [Presets -> Cidrs \union {None}]
    /\ presets[Internal] # None /\ presets[Public] # None
    /\ project \in [Projects -> Row]
    /\ domains \in [Projects -> SUBSET Hosts]
    /\ rules \in [Projects -> [Ids -> Rule \union {None}]]

ClusterTypeOK ==
    /\ ns \in SUBSET Projects
    /\ list \in [Projects -> Cidrs \union {None}]
    /\ ing \in [Projects -> IngressObject \union {None}]
    /\ ruleList \in [Projects -> Lists]
    /\ route \in [Projects -> RouteObject \union {None}]

--------------------------------------------------------------------------------
(***************************************************************************)
(* What the steps have in common.                                          *)
(***************************************************************************)

prj(a) == job[a].prj

Goto(a, at) == pc' = [pc EXCEPT ![a] = at] /\ UNCHANGED <<todo, seen>>

\* The synchronisation of one project is over, with or without an error: the
\* caller goes on with its next project or returns.
SyncReturns(a) ==
    /\ pc' = [pc EXCEPT ![a] = IF todo[a] = {} THEN "idle" ELSE "next"]
    /\ job' = [job EXCEPT ![a] = NoJob]
    /\ UNCHANGED todo

\* A Get of an object that is to be written next.
Get(a, object, at) ==
    /\ pc' = [pc EXCEPT ![a] = at]
    /\ seen' = [seen EXCEPT ![a] = IF object = None THEN "absent" ELSE "current"]
    /\ UNCHANGED todo

\* Create succeeds if there is no object, Update if it is the one that was read.
Fresh(a, object) == IF seen[a] = "absent" THEN object = None ELSE seen[a] = "current"

CanWrite(a, object) == Fresh(a, object) /\ prj(a) \in ns

\* The actors of S hold an old version of what a changed.
Outdate(a, S, changed) ==
    seen' = [b \in Actors |-> IF b = a \/ (changed /\ b \in S /\ seen[b] = "current")
                              THEN "old" ELSE seen[b]]

\* Those who are about to write the same object as a, at one of these points.
Rivals(a, points) ==
    {b \in Actors \ {a} : pc[b] \in points /\ prj(b) = prj(a) /\ job[b].cur = job[a].cur}

--------------------------------------------------------------------------------
(***************************************************************************)
(* syncIngressForProject: the reads.                                       *)
(***************************************************************************)

ReadHosts(a) ==
    /\ pc[a] = "hosts"
    /\ job' = [job EXCEPT ![a].hosts = domains[prj(a)]]
    /\ Goto(a, "allow")
    /\ UNCHANGED clusterVars

Restricts(c) == c # None /\ c # {} /\ World \notin c

Usable(n) == n \notin {None, Public} /\ Restricts(presets[n])

\* effectiveAllowCIDRs, the project's own preset.
ReadAllow(a) ==
    /\ pc[a] = "allow"
    /\ IF Usable(job[a].row.preset)
       THEN /\ job' = [job EXCEPT ![a].allow = presets[job[a].row.preset]]
            /\ Goto(a, "rules")
       ELSE Goto(a, "fallback") /\ UNCHANGED job
    /\ UNCHANGED clusterVars

\* Sensitivity variant: the fallback is not looked at.
UncheckedInternal == presets[Internal]

InternalList == IF World \in presets[Internal] THEN {} ELSE presets[Internal]

\* effectiveAllowCIDRs, everything else: "internal", or nobody.
ReadFallback(a) ==
    /\ pc[a] = "fallback"
    /\ job' = [job EXCEPT ![a].allow = InternalList]
    /\ Goto(a, "rules")
    /\ UNCHANGED clusterVars

ReadRules(a) ==
    /\ pc[a] = "rules"
    /\ job' = [job EXCEPT ![a].want = RuleLists(prj(a))]
    /\ Goto(a, "getList")
    /\ UNCHANGED clusterVars

--------------------------------------------------------------------------------
(***************************************************************************)
(* SyncIngressHostnames: allow-list, then Ingress.                         *)
(***************************************************************************)

GetList(a) ==
    /\ pc[a] = "getList"
    /\ Get(a, list[prj(a)], "putList")
    /\ UNCHANGED <<job, clusterVars>>

\* The error of syncIPAllowList is dropped; the Ingress will not name the list.
PutList(a) ==
    /\ pc[a] = "putList"
    /\ job' = [job EXCEPT ![a].listed = CanWrite(a, list[prj(a)])]
    /\ list' = IF CanWrite(a, list[prj(a)])
               THEN [list EXCEPT ![prj(a)] = job[a].allow] ELSE list
    /\ Outdate(a, Rivals(a, {"putList"}), list' # list)
    /\ pc' = [pc EXCEPT ![a] = "getIng"]
    /\ UNCHANGED <<todo, ns, ing, ruleList, route>>

GetIngress(a) ==
    /\ pc[a] = "getIng"
    /\ Get(a, ing[prj(a)], "putIng")
    /\ UNCHANGED <<job, clusterVars>>

Wanted(a) == {x \in Prefixes : job[a].want[x] # None}

Gate(a) == IF job[a].listed THEN "full" ELSE "sso"

PutIngress(a) ==
    /\ pc[a] = "putIng"
    /\ IF CanWrite(a, ing[prj(a)])
       THEN /\ ing' = [ing EXCEPT ![prj(a)] =
                        [hosts |-> job[a].hosts, gate |-> Gate(a),
                         tls |-> job[a].row.tls]]
            /\ job' = [job EXCEPT ![a].left = Wanted(a)]
            /\ pc' = [pc EXCEPT ![a] = IF Wanted(a) = {} THEN "delRoute" ELSE "rule"]
            /\ UNCHANGED todo
       ELSE SyncReturns(a) /\ UNCHANGED ing
    /\ Outdate(a, Rivals(a, {"putIng", "putBare"}), ing' # ing)
    /\ UNCHANGED <<ns, list, ruleList, route>>

--------------------------------------------------------------------------------
(***************************************************************************)
(* syncPathRuleIngressRoute.                                               *)
(***************************************************************************)

\* The project's list and the rule's own sources; none of the latter: the route
\* names the project's list.
OwnList(a, x) == IF job[a].want[x] = {} THEN {} ELSE job[a].allow \union (job[a].want[x] \ {World})

WithOwnList(a) == {x \in Wanted(a) : OwnList(a, x) # {}}

\* The next rule, if it needs a list of its own; the last one leads to prune.
NextRule(a) ==
    /\ pc[a] = "rule"
    /\ IF job[a].left \intersect WithOwnList(a) = {}
       THEN Goto(a, "prune") /\ UNCHANGED job
       ELSE \E x \in job[a].left \intersect WithOwnList(a) :
                /\ job' = [job EXCEPT ![a].left = @ \ {x}, ![a].cur = x]
                /\ Get(a, ruleList[prj(a)][x], "putRule")
    /\ UNCHANGED clusterVars

PutRule(a) ==
    /\ pc[a] = "putRule"
    /\ IF CanWrite(a, ruleList[prj(a)][job[a].cur])
       THEN /\ ruleList' = [ruleList EXCEPT ![prj(a)][job[a].cur] = OwnList(a, job[a].cur)]
            /\ job' = [job EXCEPT ![a].cur = None]
            /\ pc' = [pc EXCEPT ![a] = "rule"]
            /\ UNCHANGED todo
       ELSE SyncReturns(a) /\ UNCHANGED ruleList
    /\ Outdate(a, Rivals(a, {"putRule"}), ruleList' # ruleList)
    /\ UNCHANGED <<ns, list, ing, route>>

\* Sensitivity variant: the lists of removed rules stay.
PruneNothing(a) == {}

\* Sensitivity variant: what to delete is told by content and not by name.
StaleByContent(a) == {ruleList[prj(a)][x] : x \in Prefixes \ WithOwnList(a)} \ {None}

\* The lists that no rule asks for.
Stale(a) == {x \in Prefixes : ruleList[prj(a)][x] # None} \ WithOwnList(a)

\* pruneRuleAllowLists: list them ...
Prune(a) ==
    /\ pc[a] = "prune"
    /\ job' = [job EXCEPT ![a].left = Stale(a)]
    /\ Goto(a, "drop")
    /\ UNCHANGED clusterVars

\* ... and delete them one by one; then update the route, if there is one.
Drop(a) ==
    /\ pc[a] = "drop"
    /\ IF job[a].left # {}
       THEN \E x \in job[a].left :
                /\ ruleList' = [ruleList EXCEPT ![prj(a)][x] = None]
                /\ job' = [job EXCEPT ![a].left = @ \ {x}]
                /\ Outdate(a, {b \in Actors : /\ pc[b] = "putRule" /\ prj(b) = prj(a)
                                              /\ job[b].cur = x}, TRUE)
                /\ UNCHANGED <<pc, todo>>
       ELSE /\ IF Wanted(a) = {} THEN SyncReturns(a)
               ELSE pc' = [pc EXCEPT ![a] = "getRoute"] /\ UNCHANGED <<job, todo>>
            /\ UNCHANGED <<seen, ruleList>>
    /\ UNCHANGED <<ns, list, ing, route>>

GetRoute(a) ==
    /\ pc[a] = "getRoute"
    /\ Get(a, route[prj(a)], "putRoute")
    /\ UNCHANGED <<job, clusterVars>>

PutRoute(a) ==
    /\ pc[a] = "putRoute"
    /\ route' = IF CanWrite(a, route[prj(a)])
                THEN [route EXCEPT ![prj(a)] =
                        [hosts |-> job[a].hosts, tls |-> job[a].row.tls,
                         all |-> Wanted(a), own |-> WithOwnList(a),
                         base |-> job[a].listed]]
                ELSE route
    /\ SyncReturns(a)
    /\ Outdate(a, Rivals(a, {"putRoute"}), route' # route)
    /\ UNCHANGED <<ns, list, ing, ruleList>>

DeleteRoute(a) ==
    /\ pc[a] = "delRoute"
    /\ route' = [route EXCEPT ![prj(a)] = None]
    /\ Outdate(a, Rivals(a, {"putRoute"}), TRUE)
    /\ pc' = [pc EXCEPT ![a] = "prune"]
    /\ UNCHANGED <<job, todo, ns, list, ing, ruleList>>

SyncStep(a) ==
    \/ ReadHosts(a) \/ ReadAllow(a) \/ ReadFallback(a) \/ ReadRules(a)
    \/ GetList(a) \/ PutList(a) \/ GetIngress(a) \/ PutIngress(a)
    \/ NextRule(a) \/ PutRule(a) \/ Prune(a) \/ Drop(a)
    \/ GetRoute(a) \/ PutRoute(a) \/ DeleteRoute(a)

(***************************************************************************)
(* A database or API call of the synchronisation fails.  Reads of rows     *)
(* leave their result empty, the allow-list is left out of the Ingress,    *)
(* and everything else ends the synchronisation.                           *)
(***************************************************************************)
CallFails(a) ==
    /\ \/ /\ pc[a] = "hosts"
          /\ Goto(a, "allow")
          /\ UNCHANGED job
       \/ /\ pc[a] = "allow"
          /\ Goto(a, "fallback")
          /\ UNCHANGED job
       \/ /\ pc[a] = "fallback"
          /\ Goto(a, "rules")
          /\ UNCHANGED job
       \/ /\ pc[a] = "rules"
          /\ Goto(a, "getList")
          /\ UNCHANGED job
       \/ /\ pc[a] \in {"getList", "putList"}
          /\ pc' = [pc EXCEPT ![a] = "getIng"]
          /\ seen' = [seen EXCEPT ![a] = "old"]
          /\ UNCHANGED <<job, todo>>
       \/ /\ pc[a] \in SyncPC \ {"hosts", "allow", "fallback", "rules", "getList",
                                 "putList", "rule"}
          /\ SyncReturns(a)
          /\ seen' = [seen EXCEPT ![a] = "old"]
    /\ UNCHANGED clusterVars
================================================================================
