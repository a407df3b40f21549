------------------------------- MODULE AccessSync -------------------------------
(***************************************************************************)
(* Who may reach a project: the handlers that edit it (domains, TLS,       *)
(* preset, path rules, presets themselves), the ingress step of the        *)
(* reconciler's tick and the sweep at startup.  Each of them ends in the   *)
(* synchronisation of IngressSync, on the project row it had read.         *)
(***************************************************************************)
EXTENDS IngressSync

CONSTANTS
    Requests,       \* HTTP requests in flight
    Tick, Sweep,    \* goroutines of the control plane
    MaxDomains,     \* MaxCustomDomains
    InitPresets,    \* the presets stored at first
    PresetCidrs,    \* bound: lists that a preset may be given
    RuleCidrs,      \* bound: lists that a rule may be given
    MaxOps,         \* bound: requests and deployments
    MaxFaults,      \* bound: failed calls, vanished clients, restarts
    Edits           \* bound: which handlers are called

ASSUME AccessAssumption ==
    /\ Actors = Requests \union {Tick, Sweep}
    /\ Tick # Sweep /\ Tick \notin Requests /\ Sweep \notin Requests
    /\ IsFiniteSet(Requests) /\ IsFiniteSet(Hosts)
    /\ MaxDomains \in Nat \ {0} /\ MaxOps \in Nat /\ MaxFaults \in Nat
    /\ InitPresets \in [Presets -> Cidrs \union {None}]
    /\ InitPresets[Internal] # None /\ InitPresets[Public] # None
    /\ PresetCidrs \subseteq Cidrs
    /\ RuleCidrs \subseteq SUBSET (Sources \ {World})

VARIABLES
    known,      \* projects whose status is running, stopped or error
    platform,   \* the allow-list of the platform's own entry points
    snapshot,   \* the project rows that the sweep has listed
    ops,        \* bounds
    faults,
    clean,      \* history: projects whose last work did not overlap or break off
    cutOff,     \* history: projects whose deployment a fault ended halfway
    mirrored    \* history: so for the platform's list

bookkeeping == <<ops, faults>>
vars == <<rowVars, clusterVars, procVars, known, platform, snapshot, bookkeeping, clean,
          cutOff, mirrored>>

\* What a step of a goroutine outside the synchronisation may leave alone.
notRows    == <<clusterVars, known, platform, snapshot, bookkeeping>>
notCluster == <<rowVars, known, platform, snapshot, bookkeeping>>

PlatformPC == {"platform", "getPlatform", "putPlatform"}
PresetPC   == PlatformPC \union {"fan"}
RequestPC  == {"ready", "insert", "rewrite", "cidrs", "next"} \union PresetPC
TickPC     == {"getBare", "putBare", "load"}
AllPC      == SyncPC \union RequestPC \union TickPC \union {"idle", "sweep"}

ProcTypeOK ==
    /\ pc \in [Actors -> AllPC]
    /\ job \in [Actors -> Job]
    /\ todo \in [Actors -> SUBSET Projects]
    /\ seen \in [Actors -> {"absent", "current", "old"}]

OtherTypeOK ==
    /\ known \in SUBSET Projects
    /\ platform \in Cidrs \union {None}
    /\ snapshot \in [Projects -> Row]
    /\ ops \in 0 .. MaxOps
    /\ faults \in 0 .. MaxFaults
    /\ clean \in SUBSET Projects
    /\ cutOff \in SUBSET Projects
    /\ mirrored \in BOOLEAN

TypeOK == RowTypeOK /\ ClusterTypeOK /\ ProcTypeOK /\ OtherTypeOK

--------------------------------------------------------------------------------
(***************************************************************************)
(* What the cluster should hold, by the rows.                              *)
(***************************************************************************)

AllowOf(p) == IF Usable(project[p].preset) THEN presets[project[p].preset] ELSE InternalList

\* As OwnList, of the rows.
OwnOf(p, x) == IF RuleLists(p)[x] \in {None, {}} THEN None
               ELSE AllowOf(p) \union RuleLists(p)[x]

RuledBy(p) == {x \in Prefixes : RuleLists(p)[x] # None}

IngressOf(p) == [hosts |-> domains[p], gate |-> "full", tls |-> project[p].tls]

RouteOf(p) == IF RuledBy(p) = {} THEN None
              ELSE [hosts |-> domains[p], tls |-> project[p].tls, all |-> RuledBy(p),
                    own |-> {x \in Prefixes : OwnOf(p, x) # None}, base |-> TRUE]

\* Projects without domains and rules: not deployed yet, or running and in sync.
Init ==
    /\ presets = InitPresets
    /\ known \in SUBSET Projects
    /\ project \in [Projects -> [preset : {n \in Presets : presets[n] # None}, tls : {FALSE}]]
    /\ \A p \in Projects \ known : project[p].preset = Internal
    /\ domains = [p \in Projects |-> {}]
    /\ rules = [p \in Projects |-> [i \in Ids |-> None]]
    /\ ns = known
    /\ list = [p \in Projects |-> IF p \in known THEN AllowOf(p) ELSE None]
    /\ ing = [p \in Projects |-> IF p \in known THEN IngressOf(p) ELSE None]
    /\ ruleList = [p \in Projects |-> NoLists]
    /\ route = [p \in Projects |-> None]
    /\ platform = InternalList
    /\ pc = [a \in Actors |-> "idle"]
    /\ job = [a \in Actors |-> NoJob]
    /\ todo = [a \in Actors |-> {}]
    /\ seen = [a \in Actors |-> "old"]
    /\ snapshot = [p \in Projects |-> NoRow]
    /\ ops = 0 /\ faults = 0
    /\ clean = Projects
    /\ cutOff = {}
    /\ mirrored = TRUE

--------------------------------------------------------------------------------
(***************************************************************************)
(* Requests on a project.                                                  *)
(***************************************************************************)

Counted == ops < MaxOps /\ ops' = ops + 1 /\ UNCHANGED faults

\* The handler answers.
Return(a) ==
    /\ pc' = [pc EXCEPT ![a] = "idle"]
    /\ job' = [job EXCEPT ![a] = NoJob]
    /\ UNCHANGED <<todo, seen>>

\* The middleware loads the project; all the handler uses of it later is this.
LoadProject(r, p) ==
    /\ pc[r] = "idle"
    /\ Counted
    /\ job' = [job EXCEPT ![r].prj = p, ![r].row = project[p]]
    /\ Goto(r, "ready")
    /\ UNCHANGED <<rowVars, clusterVars, known, platform, snapshot>>

Edit(r, kind) == pc[r] = "ready" /\ kind \in Edits

Synchronise(r) == Goto(r, "hosts")

\* Not authorised, not valid, not found or a duplicate.
Refuse(r) ==
    /\ pc[r] \in {"ready", "rewrite"}
    /\ Return(r)
    /\ UNCHANGED <<rowVars, notRows>>

\* handleAddDomain: the domains are counted ...
CountDomains(r) ==
    /\ Edit(r, "domain")
    /\ IF Cardinality(domains[prj(r)]) >= MaxDomains THEN Return(r)
       ELSE Goto(r, "insert") /\ UNCHANGED job
    /\ UNCHANGED <<rowVars, notRows>>

Taken(h) == \E p \in Projects : h \in domains[p]

\* ... and then one is inserted; a hostname is unique in the table.
AddDomain(r) ==
    /\ pc[r] = "insert"
    /\ \/ (\E h \in Hosts : Taken(h)) /\ Return(r) /\ UNCHANGED domains
       \/ \E h \in Hosts :
            /\ ~Taken(h)
            /\ domains' = [domains EXCEPT ![prj(r)] = @ \union {h}]
            /\ Synchronise(r)
            /\ UNCHANGED job
    /\ UNCHANGED <<presets, project, rules, notRows>>

\* handleRemoveDomain, of a domain that is there.
RemoveDomain(r) ==
    /\ Edit(r, "domain")
    /\ \E h \in domains[prj(r)] : domains' = [domains EXCEPT ![prj(r)] = @ \ {h}]
    /\ Synchronise(r)
    /\ UNCHANGED <<presets, project, rules, job, notRows>>

\* handlePatchProjectTLS.
PatchTLS(r) ==
    /\ Edit(r, "tls")
    /\ \E t \in BOOLEAN :
          /\ project' = [project EXCEPT ![prj(r)].tls = t]
          /\ job' = [job EXCEPT ![r].row.tls = t]
    /\ Synchronise(r)
    /\ UNCHANGED <<presets, domains, rules, notRows>>

\* handlePatchProjectAccess, for an administrator.  The preset exists: it is
\* looked up first, and the foreign key looks again.  A request with allow_cidrs
\* alone drops the preset, and one with neither field changes nothing.
PatchAccess(r) ==
    /\ Edit(r, "access")
    /\ \/ /\ \E n \in {m \in Presets : presets[m] # None} \union {None} :
                /\ project' = [project EXCEPT ![prj(r)].preset = n]
                /\ job' = [job EXCEPT ![r].row.preset = n]
          /\ Goto(r, "cidrs") \/ Synchronise(r)
       \/ Synchronise(r) /\ UNCHANGED <<project, job>>
    /\ UNCHANGED <<presets, domains, rules, notRows>>

\* The allow_cidrs that were sent are checked and stored only now: a bad one is
\* refused with the preset already written.
CheckCidrs(r) ==
    /\ pc[r] = "cidrs"
    /\ \/ Return(r)
       \/ Synchronise(r) /\ UNCHANGED job
    /\ UNCHANGED <<rowVars, notRows>>

--------------------------------------------------------------------------------
(***************************************************************************)
(* Path rules.                                                             *)
(***************************************************************************)

\* UNIQUE (project_id, path_prefix).
PrefixTaken(p, i, x) ==
    \E k \in Ids \ {i} : rules[p][k] # None /\ rules[p][k].prefix = x

StoreRule(r, i, x, c) ==
    /\ ~PrefixTaken(prj(r), i, x)
    /\ rules' = [rules EXCEPT ![prj(r)][i] = [prefix |-> x, cidrs |-> c]]
    /\ Synchronise(r)

\* handleCreatePathRule.
CreatePathRule(r) ==
    /\ Edit(r, "rule")
    /\ \E i \in Ids, x \in Prefixes, c \in RuleCidrs :
          rules[prj(r)][i] = None /\ StoreRule(r, i, x, c)
    /\ UNCHANGED <<presets, project, domains, job, notRows>>

\* handleUpdatePathRule reads the list of the rule, which it keeps when the
\* request has none ...
ReadPathRule(r) ==
    /\ Edit(r, "rule")
    /\ \E i \in Ids :
          /\ rules[prj(r)][i] # None
          /\ job' = [job EXCEPT ![r].allow = rules[prj(r)][i].cidrs, ![r].id = i]
    /\ Goto(r, "rewrite")
    /\ UNCHANGED <<rowVars, notRows>>

\* ... and writes prefix and list, if the row is still there.
UpdatePathRule(r) ==
    /\ pc[r] = "rewrite"
    /\ \/ /\ rules[prj(r)][job[r].id] = None
          /\ Return(r)
          /\ UNCHANGED rules
       \/ /\ rules[prj(r)][job[r].id] # None
          /\ \E x \in Prefixes, c \in RuleCidrs \union {job[r].allow} :
                StoreRule(r, job[r].id, x, c)
          /\ job' = [job EXCEPT ![r].allow = {}, ![r].id = None]
    /\ UNCHANGED <<presets, project, domains, notRows>>

\* handleDeletePathRule; deleting a rule that is gone is no error.
DeletePathRule(r) ==
    /\ Edit(r, "rule")
    /\ \E i \in Ids : rules' = [rules EXCEPT ![prj(r)][i] = None]
    /\ Synchronise(r)
    /\ UNCHANGED <<presets, project, domains, job, notRows>>

--------------------------------------------------------------------------------
(***************************************************************************)
(* Presets.  While a preset is fanned out, row.preset is its name.         *)
(***************************************************************************)

\* Sensitivity variant: the platform is not told of a new "internal".
PutPresetUnmirrored(r) ==
    /\ pc[r] = "idle" /\ "preset" \in Edits
    /\ Counted
    /\ \E n \in Presets, c \in PresetCidrs :
          /\ presets' = [presets EXCEPT ![n] = c]
          /\ job' = [job EXCEPT ![r].row.preset = n]
    /\ Goto(r, "fan")
    /\ UNCHANGED <<project, domains, rules, clusterVars, known, platform, snapshot>>

\* handlePutCIDRPreset.
PutPreset(r) ==
    /\ pc[r] = "idle" /\ "preset" \in Edits
    /\ Counted
    /\ \E n \in Presets, c \in PresetCidrs :
          /\ presets' = [presets EXCEPT ![n] = c]
          /\ job' = [job EXCEPT ![r].row.preset = n]
          /\ Goto(r, IF n = Internal THEN "platform" ELSE "fan")
    /\ UNCHANGED <<project, domains, rules, clusterVars, known, platform, snapshot>>

\* handleDeleteCIDRPreset: the foreign key unbinds the projects.
DeletePreset(r) ==
    /\ pc[r] = "idle" /\ "preset" \in Edits
    /\ Counted
    /\ \E n \in Presets \ {Internal, Public} :
          /\ presets[n] # None
          /\ presets' = [presets EXCEPT ![n] = None]
          /\ project' = [p \in Projects |-> IF project[p].preset = n
                                            THEN [project[p] EXCEPT !.preset = None]
                                            ELSE project[p]]
          /\ job' = [job EXCEPT ![r].row.preset = n]
    /\ Goto(r, "fan")
    /\ UNCHANGED <<domains, rules, clusterVars, known, platform, snapshot>>

\* syncPlatformAllowList, of PUT internal and of the reconciler's start.
ReadInternal(a) ==
    /\ pc[a] = "platform"
    /\ job' = [job EXCEPT ![a].allow = InternalList]
    /\ Goto(a, "getPlatform")
    /\ UNCHANGED <<rowVars, notRows>>

GetPlatform(a) ==
    /\ pc[a] = "getPlatform"
    /\ Get(a, platform, "putPlatform")
    /\ UNCHANGED <<job, rowVars, notRows>>

\* A failed write ends the request before the fan-out.
PutPlatform(a) ==
    /\ pc[a] = "putPlatform"
    /\ platform' = IF Fresh(a, platform) THEN job[a].allow ELSE platform
    /\ job' = [job EXCEPT ![a].allow = {}]
    /\ pc' = [pc EXCEPT ![a] = IF a \in Requests /\ Fresh(a, platform) THEN "fan" ELSE "idle"]
    /\ Outdate(a, Rivals(a, {"putPlatform"}), platform' # platform)
    /\ UNCHANGED <<todo, rowVars, clusterVars, known, snapshot, bookkeeping>>

\* resyncProjectsUsingPreset: who is bound to the preset now ...
FanOut(r) ==
    /\ pc[r] = "fan"
    /\ todo' = [todo EXCEPT ![r] = {p \in Projects : project[p].preset = job[r].row.preset}]
    /\ pc' = [pc EXCEPT ![r] = IF todo'[r] = {} THEN "idle" ELSE "next"]
    /\ job' = [job EXCEPT ![r] = NoJob]
    /\ UNCHANGED <<seen, rowVars, notRows>>

\* ... and each of them, with its row as of now (the sweep: as of its list).
NextProject(a) ==
    /\ pc[a] = "next"
    /\ \E p \in todo[a] :
          /\ todo' = [todo EXCEPT ![a] = @ \ {p}]
          /\ job' = [job EXCEPT ![a].prj = p,
                                ![a].row = IF a = Sweep THEN snapshot[p] ELSE project[p]]
    /\ pc' = [pc EXCEPT ![a] = "hosts"]
    /\ UNCHANGED <<seen, rowVars, notRows>>
--------------------------------------------------------------------------------
(***************************************************************************)
(* The reconciler's tick and the sweep at startup.                         *)
(***************************************************************************)

\* Deployer.Apply up to the ingress.
Apply(p) ==
    /\ pc[Tick] = "idle"
    /\ Counted
    /\ ns' = ns \union {p}
    /\ job' = [job EXCEPT ![Tick].prj = p]
    /\ Goto(Tick, "getBare")
    /\ UNCHANGED <<rowVars, list, ing, ruleList, route, known, platform, snapshot>>

GetBare ==
    /\ pc[Tick] = "getBare"
    /\ Get(Tick, ing[prj(Tick)], "putBare")
    /\ UNCHANGED <<job, rowVars, notRows>>

Bare == [hosts |-> {}, gate |-> "bare", tls |-> FALSE]

\* applyIngress: the platform's hostname and no middlewares.  Losing to another
\* write fails the deployment, and nothing is synchronised.
PutBare ==
    /\ pc[Tick] = "putBare"
    /\ IF CanWrite(Tick, ing[prj(Tick)])
       THEN /\ ing' = [ing EXCEPT ![prj(Tick)] = Bare]
            /\ pc' = [pc EXCEPT ![Tick] = "load"]
            /\ UNCHANGED <<job, todo>>
       ELSE SyncReturns(Tick) /\ UNCHANGED ing
    /\ Outdate(Tick, Rivals(Tick, {"putIng"}), ing' # ing)
    /\ UNCHANGED <<rowVars, ns, list, ruleList, route, known, platform, snapshot,
                   bookkeeping>>

\* Sensitivity variant: a deployment is not followed by a synchronisation.
LoadNothing == pc[Tick] = "load" /\ Return(Tick) /\ UNCHANGED <<rowVars, notRows>>

Load ==
    /\ pc[Tick] = "load"
    /\ job' = [job EXCEPT ![Tick].row = project[prj(Tick)]]
    /\ Goto(Tick, "hosts")
    /\ UNCHANGED <<rowVars, notRows>>

\* A later tick finds the pod ready, or the health loop finds it down.
ProjectRuns(p) ==
    /\ pc[Tick] = "idle"
    /\ ing[p] # None
    /\ known' = known \union {p}
    /\ UNCHANGED <<rowVars, clusterVars, procVars, platform, snapshot, bookkeeping>>

\* SweepIngressesAtStartup.
ListForSweep ==
    /\ pc[Sweep] = "sweep"
    /\ snapshot' = project
    /\ todo' = [todo EXCEPT ![Sweep] = known]
    /\ pc' = [pc EXCEPT ![Sweep] = IF known = {} THEN "idle" ELSE "next"]
    /\ UNCHANGED <<job, seen, rowVars, clusterVars, known, platform, bookkeeping>>

--------------------------------------------------------------------------------
(***************************************************************************)
(* Faults, and the behaviour of it all.                                    *)
(***************************************************************************)

Fault == faults < MaxFaults /\ faults' = faults + 1 /\ UNCHANGED ops

\* A call outside the synchronisation fails, which ends a request, a deployment
\* or the sweep; a project that cannot be loaded is skipped, and "internal" that
\* cannot be read is an empty list.
CallerFails(a) ==
    /\ \/ /\ pc[a] \in {"insert", "rewrite", "cidrs", "sweep", "fan", "getPlatform",
                         "putPlatform"} \union TickPC
          /\ Return(a)
       \/ /\ pc[a] = "platform"
          /\ job' = [job EXCEPT ![a].allow = {}]
          /\ Goto(a, "getPlatform")
       \/ /\ pc[a] = "next" /\ a # Sweep
          /\ \E p \in todo[a] :
                /\ todo' = [todo EXCEPT ![a] = @ \ {p}]
                /\ pc' = [pc EXCEPT ![a] = IF todo'[a] = {} THEN "idle" ELSE "next"]
          /\ UNCHANGED <<job, seen>>
    /\ UNCHANGED clusterVars

\* The client of r hangs up: all further calls of its handler fail.
ClientGone(r) ==
    /\ pc[r] # "idle"
    /\ pc' = [pc EXCEPT ![r] = "idle"]
    /\ job' = [job EXCEPT ![r] = NoJob]
    /\ todo' = [todo EXCEPT ![r] = {}]
    /\ UNCHANGED <<seen, clusterVars>>

\* The control plane dies and starts again.
Restart ==
    /\ pc' = [a \in Actors |-> CASE a = Tick -> "platform" [] a = Sweep -> "sweep"
                              [] OTHER -> "idle"]
    /\ job' = [a \in Actors |-> NoJob]
    /\ todo' = [a \in Actors |-> {}]
    /\ seen' = [a \in Actors |-> "old"]
    /\ UNCHANGED clusterVars

RequestStep(r) ==
    \/ \E p \in Projects : LoadProject(r, p)
    \/ Refuse(r) \/ CountDomains(r) \/ AddDomain(r) \/ RemoveDomain(r)
    \/ PatchTLS(r) \/ PatchAccess(r) \/ CheckCidrs(r)
    \/ CreatePathRule(r) \/ ReadPathRule(r) \/ UpdatePathRule(r) \/ DeletePathRule(r)
    \/ PutPreset(r) \/ DeletePreset(r) \/ FanOut(r)

TickStep ==
    \/ \E p \in Projects : Apply(p) \/ ProjectRuns(p)
    \/ GetBare \/ PutBare \/ Load

SharedStep(a) ==
    \/ SyncStep(a) /\ UNCHANGED notCluster
    \/ ReadInternal(a) \/ GetPlatform(a) \/ PutPlatform(a) \/ NextProject(a)

Faulty ==
    /\ Fault
    /\ \/ \E a \in Actors : CallFails(a) \/ CallerFails(a)
       \/ \E r \in Requests : ClientGone(r)
       \/ Restart
    /\ UNCHANGED <<rowVars, known, platform, snapshot>>

\* What a works on, or is going to: a preset may concern every project.
Concerns(a, p) ==
    /\ pc[a] # "idle"
    /\ prj(a) = p \/ p \in todo[a] \/ (a \in Requests /\ pc[a] \in PresetPC)

AtPlatform == {a \in Actors : pc[a] \in PlatformPC}

\* Two writers of the platform's list disturb each other, and the fan-out of a
\* request that loses is skipped.
Alone(p) ==
    /\ Cardinality({a \in Actors : Concerns(a, p)}) <= 1
    /\ Cardinality(AtPlatform) <= 1

\* A preset was written, and the list that came with it refused.
RefusedHalfway(p) ==
    \E r \in Requests : prj(r) = p /\ pc[r] = "cidrs" /\ pc'[r] = "idle"

\* A synchronisation of p starts, with the row as it is.
Begins(p) ==
    /\ faults' = faults
    /\ \E a \in Actors : /\ prj(a) = p /\ pc[a] = "hosts" /\ pc'[a] = "allow"
                          /\ job[a].row = project[p]

\* A project is clean as long as nothing overlapped, failed or was refused halfway
\* in what concerned it, and again from any synchronisation that is alone with it.
Judge ==
    clean' = {p \in Projects :
                /\ Alone(p)'
                /\ \/ /\ p \in clean /\ ~RefusedHalfway(p)
                      /\ faults' = faults \/ ~\E a \in Actors : Concerns(a, p)
                   \/ Begins(p)}

\* As Judge, for the platform's list: again from any lone reading of "internal".
JudgePlatform ==
    mirrored' = /\ Cardinality(AtPlatform') <= 1
                /\ \/ mirrored /\ (faults' = faults \/ AtPlatform = {})
                   \/ /\ faults' = faults
                      /\ \E a \in Actors : pc[a] = "platform" /\ pc'[a] = "getPlatform"

BareAt(p) == ing[p] # None /\ ing[p].gate = "bare"

\* The tick has written p's ingress and has yet to protect it.
Protecting(p) ==
    /\ prj(Tick) = p
    /\ pc[Tick] \in {"load", "hosts", "allow", "fallback", "rules", "getList", "putList",
                     "getIng", "putIng"}

\* Until p is protected, or written again.
NoteCutOff ==
    cutOff' = {p \in Projects :
                 /\ BareAt(p)' /\ ~Protecting(p)'
                 /\ p \in cutOff \/ (faults' # faults /\ Protecting(p))}

Next ==
    /\ \/ \E r \in Requests : RequestStep(r)
       \/ TickStep
       \/ ListForSweep
       \/ \E a \in Actors : SharedStep(a)
       \/ Faulty
    /\ Judge
    /\ JudgePlatform
    /\ NoteCutOff

Spec == Init /\ [][Next]_vars

--------------------------------------------------------------------------------
(***************************************************************************)
(* Properties.                                                             *)
(***************************************************************************)

\* No list in the cluster admits everybody, whatever the presets hold and
\* whatever fails or overlaps (effectiveAllowCIDRs: "nothing here can widen
\* access to everyone").
NeverWorldOpen ==
    /\ platform # None => World \notin platform
    /\ \A p \in Projects :
          /\ list[p] # None => World \notin list[p]
          /\ \A x \in Prefixes : ruleList[p][x] # None => World \notin ruleList[p][x]

\* The ingress that Apply writes without middlewares is there only while the
\* tick that wrote it is on its way to synchronise it, unless a fault ended that
\* tick halfway: neither other synchronisations nor their failures leave it
\* behind (reconciler.go:310-316).
BareOnlyInDeploy ==
    \A p \in Projects : BareAt(p) => Protecting(p) \/ p \in cutOff

AtRest(p) == ~\E a \in Actors : Concerns(a, p)

\* With nobody at work and a clean history, what the cluster holds of a deployed
\* project is what its rows say: hostnames, TLS, middlewares, path rules and
\* their lists, with nothing left over.  A synchronisation that is alone repairs
\* whatever earlier overlaps, failures and refused requests left
\* (syncIngressForProject).  The list of a project without a preset of its own is
\* excepted: an edit of "internal" is not fanned out to it.
InSync ==
    \A p \in clean :
        AtRest(p) /\ ing[p] # None =>
            /\ ing[p] = IngressOf(p)
            /\ route[p] = RouteOf(p)
            /\ \A x \in Prefixes : (ruleList[p][x] # None) <=> (OwnOf(p, x) # None)
            /\ Usable(project[p].preset) =>
                  list[p] = AllowOf(p) /\ \A x \in Prefixes : ruleList[p][x] = OwnOf(p, x)

\* The platform's entry points admit whom "internal" admits, once nobody is about to
\* tell them: unless two that tell them overlapped, the start of the control plane
\* and a PUT, or a call of theirs failed (syncPlatformAllowList).
PlatformInSync == mirrored /\ AtPlatform = {} => platform = InternalList

\* Overlapping requests exceed the limit of domains by less than their number.
CapBounded ==
    \A p \in Projects :
        Cardinality(domains[p]) <= MaxDomains + Cardinality(Requests) - 1

\* What the comment at domains.go:73 says of concurrent requests.
CapKept == \A p \in Projects : Cardinality(domains[p]) <= MaxDomains
================================================================================
