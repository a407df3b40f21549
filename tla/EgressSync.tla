------------------------------- MODULE EgressSync -------------------------------
(***************************************************************************)
(* Egress control: a project's pods reach the Internet only through a      *)
(* forward proxy (squid) that has one listener per project.  Four things   *)
(* must agree with the rows: the proxy's ConfigMap, the hash stamped on    *)
(* its Deployment, the NetworkPolicy of each project and HTTPS_PROXY in    *)
(* its pods.  They are written by requests that change the mode ("patch")  *)
(* or the allow-list ("put"), by the sweep at startup and by every         *)
(* deployment, and no lock orders these.                                   *)
(*                                                                         *)
(*   patch:  [port [-> alloc -> assign]] -> mode -> proxy -> access -> app *)
(*   put:    replace -> access -> port [-> alloc -> assign] -> proxy       *)
(*   sweep:  proxy -> modes -> port ... -> proxy -> (access -> app)*       *)
(*   deploy: access -> app                                                 *)
(*                                                                         *)
(*   proxy:  list -> getConf -> putConf -> getDep -> putDep                *)
(*   access: allows -> config -> getPolicy -> putPolicy                    *)
(*   app:    getApp -> putApp                                              *)
(*                                                                         *)
(* A Put of a cluster object fails if the object changed since its Get.    *)
(***************************************************************************)
EXTENDS Naturals, FiniteSets

CONSTANTS
    Projects,
    Deployed,   \* the projects that were deployed before the model starts
    Requests,   \* goroutines of HTTP requests
    Tick,       \* the reconciler
    Sweep,      \* the goroutine of the two startup sweeps
    Ports,      \* the window of listener ports
    Domains,    \* domain rules
    AnyPort,    \* those of them with port 0: any port
    Endpoints,  \* endpoint rules
    Absent,     \* there is no app Deployment
    None,
    MaxOps,     \* bound on requests, deployments, deletions and database edits
    MaxFaults   \* bound on failed calls and restarts

Actors == Requests \union {Tick, Sweep}

ASSUME EgressAssumption ==
    /\ Tick # Sweep /\ Tick \notin Requests /\ Sweep \notin Requests
    /\ Ports \subseteq Nat
    /\ None \notin Ports \union Projects \union Actors /\ Absent \notin Ports \union {None}
    /\ AnyPort \subseteq Domains /\ Deployed \subseteq Projects
    /\ Domains \intersect Endpoints = {}
    /\ MaxOps \in Nat /\ MaxFaults \in Nat

VARIABLES
    project,  \* projects: live, egress_proxy_port and egress_mode
    rules,    \* project_egress_rules
    conf,     \* the ConfigMap: a set of listeners
    stamp,    \* the config-hash on the proxy's Deployment
    proxy,    \* the proxy's pod: the hash of its template, what it has loaded
    ns,       \* projects that have a namespace
    policy,   \* NetworkPolicy of each project
    env,      \* HTTPS_PROXY in each project's Deployment
    pc, job, seen,
    alone,    \* history: the actor whose operation nothing has disturbed so far
    moved,    \* history: the projects whose port was replaced
    blind,    \* history: the projects deployed without their configuration
    ops, faults

rowVars     == <<project, rules>>
proxyVars   == <<conf, stamp, proxy>>
clusterVars == <<ns, policy, env>>
procVars    == <<pc, job, seen>>
history     == <<alone, moved, blind, ops, faults>>
vars        == <<rowVars, proxyVars, clusterVars, procVars, history>>

--------------------------------------------------------------------------------
(***************************************************************************)
(* What is read and written.                                               *)
(***************************************************************************)

Mode  == {"off", "observe", "enforce"}
Rules == Domains \union Endpoints
Row   == [live : BOOLEAN, port : Ports \union {None}, mode : Mode]

\* One http_port of squid.conf: open lets everything through, else only domains.
Listener == [slug : Projects, port : Ports, open : BOOLEAN, domains : SUBSET Domains]

Config == [port : Ports \union {None}, public : BOOLEAN, allows : SUBSET Endpoints]
Shut   == [port |-> None, public |-> FALSE, allows |-> {}]

live(p) == project[p].live

Targets == {p \in Projects : live(p) /\ project[p].port # None}

\* renderSquidConf of one target of ListEgressProxyTargets.  An any-port name is
\* rendered in enforce mode only, the others also for a project that is off.
Render(p) ==
    [slug |-> p, port |-> project[p].port, open |-> project[p].mode = "observe",
     domains |-> CASE project[p].mode = "observe" -> {}
                   [] project[p].mode = "enforce" -> rules[p] \intersect Domains
                   [] OTHER -> (rules[p] \intersect Domains) \ AnyPort]

Rendered == {Render(p) : p \in Targets}

Taken == {project[p].port : p \in Targets}
Free  == Ports \ Taken
\* A mutant: the ports in use are counted, and from the wrong end.
BeyondCount == Cardinality(Taken) + 2

LowestFree == IF Free = {} THEN None ELSE CHOOSE n \in Free : \A m \in Free : n <= m

\* A mutant: observing leaves the public Internet open.
PublicConfigOf(p, allows) ==
    [port |-> IF project[p].mode = "off" THEN None ELSE project[p].port,
     public |-> project[p].mode = "observe", allows |-> allows]

\* What egressConfigForProject makes of the row, given the endpoint rules read
\* before it: the listener is reachable unless the project is off or has none.
ConfigOf(p, allows) ==
    [port |-> IF project[p].mode = "off" THEN None ELSE project[p].port,
     public |-> FALSE, allows |-> allows]

--------------------------------------------------------------------------------
(***************************************************************************)
(* Operations in progress.  left: the projects the sweep has still to do   *)
(* in its present loop, all: those its list named.                         *)
(***************************************************************************)

Op == {"none", "patch", "put", "deploy", "proxySweep", "portSweep", "modeSweep"}

Job == [op : Op, prj : Projects \union {None}, mode : Mode, port : Ports \union {None},
        conf : SUBSET Listener, cfg : Config, left : SUBSET Projects, all : SUBSET Projects]

NoJob == [op |-> "none", prj |-> None, mode |-> "off", port |-> None, conf |-> {},
          cfg |-> Shut, left |-> {}, all |-> {}]

BootSweep == [NoJob EXCEPT !.op = "proxySweep"]

PC == {"idle", "port", "alloc", "assign", "mode", "list", "getConf", "putConf", "getDep",
       "putDep", "allows", "config", "getPolicy", "putPolicy", "getApp", "putApp",
       "modes", "next"}

TypeOK ==
    /\ project \in [Projects -> Row]
    /\ rules \in [Projects -> SUBSET Rules]
    /\ conf \in SUBSET Listener /\ stamp \in SUBSET Listener
    /\ proxy \in [stamp : SUBSET Listener, conf : SUBSET Listener]
    /\ ns \in SUBSET Projects
    /\ policy \in [Projects -> Config \union {None}]
    /\ env \in [Projects -> Ports \union {None, Absent}]
    /\ pc \in [Actors -> PC]
    /\ job \in [Actors -> Job]
    /\ seen \in [Actors -> {"none", "absent", "current", "old"}]
    /\ alone \in Actors \union {None}
    /\ moved \in SUBSET Projects /\ blind \in SUBSET Projects
    /\ ops \in 0..MaxOps /\ faults \in 0..MaxFaults

\* A platform that has been started once: the proxy runs, without any listener.
Init ==
    /\ project = [p \in Projects |-> [live |-> TRUE, port |-> None, mode |-> "off"]]
    /\ rules = [p \in Projects |-> {}]
    /\ conf = {} /\ stamp = {} /\ proxy = [stamp |-> {}, conf |-> {}]
    /\ ns = Deployed
    /\ policy = [p \in Projects |-> IF p \in Deployed THEN Shut ELSE None]
    /\ env = [p \in Projects |-> IF p \in Deployed THEN None ELSE Absent]
    /\ pc = [a \in Actors |-> "idle"]
    /\ job = [a \in Actors |-> NoJob]
    /\ seen = [a \in Actors |-> "none"]
    /\ alone = None /\ moved = {} /\ blind = {}
    /\ ops = 0 /\ faults = 0

prj(a) == job[a].prj
op(a)  == job[a].op

Goto(a, at) == pc' = [pc EXCEPT ![a] = at]

\* The next step of a, with nothing learnt.
Steps(a, at) == Goto(a, at) /\ UNCHANGED <<job, seen, history>>

\* The next step of a, with something learnt: j is its job from now on.
Learns(a, at, j) ==
    /\ Goto(a, at)
    /\ job' = [job EXCEPT ![a] = j]
    /\ UNCHANGED <<seen, history>>

\* An operation starts; it is alone if nobody else is at work.
Begins(a, at, j) ==
    /\ pc[a] = "idle" /\ ops < MaxOps
    /\ ops' = ops + 1
    /\ Goto(a, at)
    /\ job' = [job EXCEPT ![a] = j]
    /\ alone' = IF \A b \in Actors \ {a} : pc[b] = "idle" THEN a ELSE None
    /\ UNCHANGED <<seen, moved, blind, faults>>

\* An operation is over: the response is written or the sweep returns.
Ends(a) ==
    /\ Goto(a, "idle")
    /\ job' = [job EXCEPT ![a] = NoJob]
    /\ UNCHANGED <<seen, history>>

PortSteps   == {"port", "alloc", "assign"}
ProxySteps  == {"list", "getConf", "putConf", "getDep", "putDep"}
ConfigSteps == {"allows", "config"}

\* Where a goes on when a call returns an error.  A patch gives up at once, a put
\* goes on to the proxy without a port, the sweeps with what comes next unless
\* their list cannot be read.
OnError(a) ==
    CASE op(a) = "put" /\ pc[a] \in PortSteps       -> "list"
      [] op(a) = "proxySweep" /\ pc[a] # "modes"     -> "modes"
      [] op(a) = "portSweep" /\ pc[a] \in PortSteps -> "next"
      [] op(a) = "modeSweep"                        -> "next"
      [] op(a) = "deploy" /\ pc[a] \in ConfigSteps  -> "getPolicy"
      [] OTHER                                      -> "idle"

\* A deployment whose configuration cannot be read is applied without it, and
\* that leaves the public Internet open.
GoesBlind(a) == op(a) = "deploy" /\ pc[a] \in ConfigSteps

BreaksOff(a) ==
    /\ Goto(a, OnError(a))
    /\ job' = [job EXCEPT ![a] = IF OnError(a) = "idle" THEN NoJob
                                 ELSE IF GoesBlind(a) THEN [@ EXCEPT !.cfg.public = TRUE]
                                 ELSE @]
    /\ seen' = [seen EXCEPT ![a] = "none"]
    /\ alone' = IF alone = a THEN None ELSE alone
    /\ blind' = IF GoesBlind(a) THEN blind \union {prj(a)} ELSE blind
    /\ UNCHANGED ops

Fails(a) == BreaksOff(a) /\ UNCHANGED moved

\* A Get of an object that is to be written next.
Get(a, object, at) ==
    /\ Goto(a, at)
    /\ seen' = [seen EXCEPT ![a] = IF object = None THEN "absent" ELSE "current"]
    /\ UNCHANGED <<job, history>>

\* Create succeeds if there is no object, Update if it is the one that was read.
Fresh(a, object) == IF seen[a] = "absent" THEN object = None ELSE seen[a] = "current"

\* The actors of S hold an old version of what a has changed.
Outdate(a, S, changed) ==
    seen' = [b \in Actors |-> IF b = a THEN "none"
                              ELSE IF changed /\ b \in S /\ seen[b] = "current" THEN "old"
                              ELSE seen[b]]

At(points) == {b \in Actors : pc[b] \in points}

--------------------------------------------------------------------------------
(***************************************************************************)
(* EnsureEgressProxyPort: read the port, and if there is none assign the   *)
(* lowest that was free when the UPDATE began.                             *)
(***************************************************************************)

HavePort(a) == Steps(a, CASE op(a) = "patch" -> "mode"
                          [] op(a) = "put"   -> "list"
                          [] OTHER           -> "next")

ReadPort(a) ==
    /\ pc[a] = "port"
    /\ \/ live(prj(a)) /\ project[prj(a)].port # None /\ HavePort(a)
       \/ live(prj(a)) /\ project[prj(a)].port = None /\ Steps(a, "alloc")
       \/ ~live(prj(a)) /\ Fails(a) /\ UNCHANGED faults
    /\ UNCHANGED <<rowVars, proxyVars, clusterVars>>

PickPort(a) ==
    /\ pc[a] = "alloc"
    /\ Learns(a, "assign", [job[a] EXCEPT !.port = LowestFree])
    /\ UNCHANGED <<rowVars, proxyVars, clusterVars>>

\* A mutant: no unique index.
Unindexed(p, n) == FALSE

\* The partial unique index on the ports of live projects.
Rejected(p, n) == n # None /\ \E q \in Targets \ {p} : project[q].port = n

\* The UPDATE writes what it picked, over a port that was assigned meanwhile too.
\* With an exhausted window it writes NULL.
AssignPort(a) ==
    LET p == prj(a)
        n == job[a].port
        had == project[p].port
    IN /\ pc[a] = "assign"
       /\ IF live(p) /\ ~Rejected(p, n)
          THEN /\ project' = [project EXCEPT ![p].port = n]
               /\ moved' = IF had \in {None, n} THEN moved ELSE moved \union {p}
               /\ \/ /\ n # None
                     /\ Goto(a, CASE op(a) = "patch" -> "mode"
                                  [] op(a) = "put"   -> "list"
                                  [] OTHER           -> "next")
                     /\ job' = [job EXCEPT ![a].port = None]
                     /\ UNCHANGED <<seen, alone, blind, ops>>
                  \/ n = None /\ BreaksOff(a)
          ELSE Fails(a) /\ UNCHANGED project
       /\ UNCHANGED <<rules, proxyVars, clusterVars, faults>>

--------------------------------------------------------------------------------
(***************************************************************************)
(* syncEgressProxy and EnsureEgressProxy.                                  *)
(***************************************************************************)

ListTargets(a) ==
    /\ pc[a] = "list"
    /\ Learns(a, "getConf", [job[a] EXCEPT !.conf = Rendered])
    /\ UNCHANGED <<rowVars, proxyVars, clusterVars>>

GetConf(a) ==
    /\ pc[a] = "getConf"
    /\ Get(a, conf, "putConf")
    /\ UNCHANGED <<rowVars, proxyVars, clusterVars>>

PutConf(a) ==
    /\ pc[a] = "putConf"
    /\ \/ /\ Fresh(a, conf)
          /\ conf' = job[a].conf
          /\ Outdate(a, At({"putConf"}), conf' # conf)
          /\ Goto(a, "getDep")
          /\ UNCHANGED <<job, history>>
       \/ ~Fresh(a, conf) /\ Fails(a) /\ UNCHANGED <<conf, faults>>
    /\ UNCHANGED <<rowVars, stamp, proxy, clusterVars>>

GetDep(a) ==
    /\ pc[a] = "getDep"
    /\ Get(a, stamp, "putDep")
    /\ UNCHANGED <<rowVars, proxyVars, clusterVars>>

\* The proxy is in sync, as far as this operation goes: a put is done, the sweep
\* of the proxy is followed by that of the modes.
ProxySynced(a) ==
    /\ Goto(a, CASE op(a) = "patch"      -> "allows"
                 [] op(a) = "put"        -> "idle"
                 [] op(a) = "proxySweep" -> "modes"
                 [] OTHER                -> "next")
    /\ job' = [job EXCEPT ![a] =
                  CASE op(a) = "put"       -> NoJob
                    [] op(a) = "portSweep" -> [@ EXCEPT !.op = "modeSweep", !.conf = {},
                                                        !.left = job[a].all]
                    [] OTHER               -> [@ EXCEPT !.conf = {}]]

PutDep(a) ==
    /\ pc[a] = "putDep"
    /\ \/ /\ Fresh(a, stamp)
          /\ stamp' = job[a].conf
          /\ Outdate(a, At({"putDep"}), stamp' # stamp)
          /\ ProxySynced(a)
          /\ UNCHANGED history
       \/ ~Fresh(a, stamp) /\ Fails(a) /\ UNCHANGED <<stamp, faults>>
    /\ UNCHANGED <<rowVars, conf, proxy, clusterVars>>

\* The Deployment controller: strategy Recreate, and the new pod mounts what the
\* ConfigMap holds by then.
Rollout ==
    /\ proxy.stamp # stamp
    /\ proxy' = [stamp |-> stamp, conf |-> conf]
    /\ UNCHANGED <<rowVars, conf, stamp, clusterVars, procVars, history>>

\* A subPath mount does not follow the ConfigMap; a container that is started
\* again mounts it anew.
ContainerRestarts ==
    /\ proxy.conf # conf
    /\ proxy' = [proxy EXCEPT !.conf = conf]
    /\ UNCHANGED <<rowVars, conf, stamp, clusterVars, procVars, history>>

--------------------------------------------------------------------------------
(***************************************************************************)
(* egressConfigForProject, SyncEgressPolicy and SetProxyEnv; the           *)
(* reconciler's Apply writes the same two objects.                         *)
(***************************************************************************)

ReadAllows(a) ==
    /\ pc[a] = "allows"
    /\ Learns(a, "config", [job[a] EXCEPT !.cfg.allows = rules[prj(a)] \intersect Endpoints])
    /\ UNCHANGED <<rowVars, proxyVars, clusterVars>>

\* The row of a deleted project is not found.
ReadConfig(a) ==
    /\ pc[a] = "config"
    /\ \/ /\ live(prj(a))
          /\ Learns(a, "getPolicy", [job[a] EXCEPT !.cfg = ConfigOf(prj(a), @.allows)])
       \/ ~live(prj(a)) /\ Fails(a) /\ UNCHANGED faults
    /\ UNCHANGED <<rowVars, proxyVars, clusterVars>>

\* Apply makes the namespace if it is missing, SyncEgressPolicy does not.
GetPolicy(a) ==
    /\ pc[a] = "getPolicy"
    /\ ns' = IF op(a) = "deploy" THEN ns \union {prj(a)} ELSE ns
    /\ Get(a, policy[prj(a)], "putPolicy")
    /\ UNCHANGED <<rowVars, proxyVars, policy, env>>

SameProject(a) == {b \in Actors : prj(b) = prj(a)}

PutPolicy(a) ==
    LET p == prj(a)
        ok == p \in ns /\ Fresh(a, policy[p])
    IN /\ pc[a] = "putPolicy"
       /\ \/ /\ ok
             /\ policy' = [policy EXCEPT ![p] = job[a].cfg]
             /\ Outdate(a, At({"putPolicy"}) \intersect SameProject(a), policy' # policy)
             /\ Goto(a, IF op(a) = "put" THEN "port" ELSE "getApp")
             /\ UNCHANGED <<job, history>>
          \/ ~ok /\ Fails(a) /\ UNCHANGED <<policy, faults>>
       /\ UNCHANGED <<rowVars, proxyVars, ns, env>>

\* The project is done: the end of the request, the next one of the sweep.
AccessSynced(a) ==
    /\ Goto(a, IF op(a) = "modeSweep" THEN "next" ELSE "idle")
    /\ job' = [job EXCEPT ![a] = IF op(a) = "modeSweep" THEN [@ EXCEPT !.cfg = Shut, !.prj = None]
                                 ELSE NoJob]

HasApp(p) == env[p] # Absent

\* SetProxyEnv leaves a project without a Deployment to its first one.
GetApp(a) ==
    /\ pc[a] = "getApp"
    /\ IF HasApp(prj(a)) \/ op(a) = "deploy"
       THEN Get(a, IF HasApp(prj(a)) THEN "app" ELSE None, "putApp")
       ELSE AccessSynced(a) /\ UNCHANGED <<seen, history>>
    /\ UNCHANGED <<rowVars, proxyVars, clusterVars>>

PutApp(a) ==
    LET p == prj(a)
        ok == p \in ns /\ Fresh(a, IF HasApp(p) THEN "app" ELSE None)
    IN /\ pc[a] = "putApp"
       /\ \/ /\ ok
             /\ env' = [env EXCEPT ![p] = job[a].cfg.port]
             /\ Outdate(a, At({"putApp"}) \intersect SameProject(a), env' # env)
             /\ AccessSynced(a)
             /\ UNCHANGED history
          \/ ~ok /\ Fails(a) /\ UNCHANGED <<env, faults>>
       /\ UNCHANGED <<rowVars, proxyVars, ns, policy>>

--------------------------------------------------------------------------------
(***************************************************************************)
(* The operations.                                                         *)
(***************************************************************************)

\* handlePatchEgressMode.
PatchMode(r, p, m) ==
    /\ live(p)
    /\ Begins(r, IF m = "off" THEN "mode" ELSE "port",
              [NoJob EXCEPT !.op = "patch", !.prj = p, !.mode = m])
    /\ UNCHANGED <<rowVars, proxyVars, clusterVars>>

\* SetProjectEgressMode; the mode is not needed afterwards.
SetMode(a) ==
    /\ pc[a] = "mode"
    /\ project' = [project EXCEPT ![prj(a)].mode = job[a].mode]
    /\ Learns(a, "list", [job[a] EXCEPT !.mode = "off"])
    /\ UNCHANGED <<rules, proxyVars, clusterVars>>

\* handlePutProjectEgress: the whole list is replaced in one transaction.
PutRules(r, p, S) ==
    /\ live(p)
    /\ rules' = [rules EXCEPT ![p] = S]
    /\ Begins(r, "allows", [NoJob EXCEPT !.op = "put", !.prj = p])
    /\ UNCHANGED <<project, proxyVars, clusterVars>>

\* The reconciler rolls out a deployment of p.
Deploy(p) ==
    /\ live(p)
    /\ Begins(Tick, "allows", [NoJob EXCEPT !.op = "deploy", !.prj = p])
    /\ UNCHANGED <<rowVars, proxyVars, clusterVars>>

\* A mutant: the sweep forgets the projects in observe mode.
ListEnforced(a) ==
    LET S == {p \in Projects : live(p) /\ project[p].mode = "enforce"}
    IN /\ pc[a] = "modes"
       /\ Learns(a, "next", [NoJob EXCEPT !.op = "portSweep", !.left = S, !.all = S])
       /\ UNCHANGED <<rowVars, proxyVars, clusterVars>>

\* SweepEgressModesAtStartup: the projects that are not off.
ListModes(a) ==
    LET S == {p \in Projects : live(p) /\ project[p].mode # "off"}
    IN /\ pc[a] = "modes"
       /\ Learns(a, "next", [NoJob EXCEPT !.op = "portSweep", !.left = S, !.all = S])
       /\ UNCHANGED <<rowVars, proxyVars, clusterVars>>

\* First a port for each of them, then the proxy, then policy and pods of each.
NextProject(a) ==
    /\ pc[a] = "next"
    /\ \/ /\ job[a].left = {}
          /\ IF op(a) = "portSweep" THEN Learns(a, "list", [job[a] EXCEPT !.prj = None])
                                    ELSE Ends(a)
       \/ \E p \in job[a].left :
            Learns(a, IF op(a) = "portSweep" THEN "port" ELSE "allows",
                   [job[a] EXCEPT !.prj = p, !.left = @ \ {p}])
    /\ UNCHANGED <<rowVars, proxyVars, clusterVars>>

\* DELETE of a project, in one step: its namespace goes, its row stays as a
\* tombstone, and nobody tells the proxy.
DeleteProject(p) ==
    /\ live(p) /\ ops < MaxOps
    /\ project' = [project EXCEPT ![p].live = FALSE]
    /\ ns' = ns \ {p}
    /\ policy' = [policy EXCEPT ![p] = None]
    /\ env' = [env EXCEPT ![p] = Absent]
    /\ seen' = [a \in Actors |-> IF prj(a) = p /\ pc[a] \in {"putPolicy", "putApp"}
                                    /\ seen[a] = "current" THEN "old" ELSE seen[a]]
    /\ ops' = ops + 1 /\ alone' = None
    /\ UNCHANGED <<rules, proxyVars, pc, job, moved, blind, faults>>

\* An operator flips a mode in the database, for the next restart to take up.
FlipInDatabase(p, m) ==
    /\ live(p) /\ project[p].mode # m /\ ops < MaxOps
    /\ project' = [project EXCEPT ![p].mode = m]
    /\ ops' = ops + 1 /\ alone' = None
    /\ UNCHANGED <<rules, proxyVars, clusterVars, procVars, moved, blind, faults>>

--------------------------------------------------------------------------------
(***************************************************************************)
(* Faults.                                                                 *)
(***************************************************************************)

\* A statement or a call of the Kubernetes API returns an error.
CallFails(a) ==
    /\ pc[a] \notin {"idle", "next"}
    /\ faults < MaxFaults
    /\ faults' = faults + 1
    /\ Fails(a)
    /\ UNCHANGED <<rowVars, proxyVars, clusterVars>>

\* The control plane stops and starts again, with its sweeps.
Restart ==
    /\ faults < MaxFaults
    /\ faults' = faults + 1
    /\ pc' = [a \in Actors |-> IF a = Sweep THEN "list" ELSE "idle"]
    /\ job' = [a \in Actors |-> IF a = Sweep THEN BootSweep ELSE NoJob]
    /\ seen' = [a \in Actors |-> "none"]
    /\ alone' = Sweep
    /\ UNCHANGED <<rowVars, proxyVars, clusterVars, moved, blind, ops>>

--------------------------------------------------------------------------------

Begin ==
    \/ \E r \in Requests, p \in Projects, m \in Mode : PatchMode(r, p, m)
    \/ \E r \in Requests, p \in Projects, S \in SUBSET Rules : PutRules(r, p, S)
    \/ \E p \in Projects : Deploy(p) \/ DeleteProject(p)
    \/ \E p \in Projects, m \in Mode : FlipInDatabase(p, m)

Step(a) ==
    \/ ReadPort(a) \/ PickPort(a) \/ AssignPort(a) \/ SetMode(a)
    \/ ListTargets(a) \/ GetConf(a) \/ PutConf(a) \/ GetDep(a) \/ PutDep(a)
    \/ ReadAllows(a) \/ ReadConfig(a) \/ GetPolicy(a) \/ PutPolicy(a)
    \/ GetApp(a) \/ PutApp(a) \/ ListModes(a) \/ NextProject(a)
    \/ CallFails(a)

Next ==
    \/ Begin
    \/ \E a \in Actors : Step(a)
    \/ Rollout \/ ContainerRestarts \/ Restart

Spec == Init /\ [][Next]_vars

--------------------------------------------------------------------------------
(***************************************************************************)
(* Safety.                                                                 *)
(***************************************************************************)

OneOwnerEach(C) == \A l, m \in C : l.port = m.port \/ l.slug = m.slug => l = m

\* A configuration, wherever it has got to -- rendered and not yet written, in
\* the ConfigMap or loaded by the running proxy -- never holds two listeners on
\* one port or two of one project, across deletions that give a port back,
\* concurrent first allocations and an exhausted window (EnsureEgressProxyPort,
\* ListEgressProxyTargets and the partial unique index).
ListenersDisjoint ==
    /\ OneOwnerEach(conf) /\ OneOwnerEach(proxy.conf)
    /\ \A a \in Actors : OneOwnerEach(job[a].conf)

\* The pods of a live project are not pointed at a port on which the running
\* proxy serves another live project, unless one of the two had its port
\* replaced by a second allocation: EnsureEgressProxyPort, deletion, the policy
\* and HTTPS_PROXY that lag behind, and the proxy's own rollout together.
ListenerIsOwn ==
    \A p, q \in Projects \ moved :
        p # q /\ live(p) /\ live(q)
            => \A l \in proxy.conf : l.slug = q => l.port # env[p]

\* The public Internet is open to a project's pods only after a deployment that
\* could not read the project's configuration: no mode, no edit, no sweep and no
\* race between them opens it (egressConfigForProject, Apply).
OpensOnlyBlind == \A p \in Projects : policy[p] # None /\ policy[p].public => p \in blind

ProxySettled == conf = Rendered /\ stamp = Rendered

AccessSettled(p) ==
    LET want == ConfigOf(p, rules[p] \intersect Endpoints)
    IN policy[p] = want /\ env[p] \in {Absent, want.port}

\* The projects whose policy and pods an operation brings up to date.
Serves(a) ==
    CASE op(a) \in {"patch", "deploy"} -> {prj(a)}
      [] op(a) = "put"                 -> {}
      [] OTHER                         -> {p \in Projects : live(p) /\ project[p].mode # "off"}

\* A mode change, an edit, a deployment or a start of the control plane that runs
\* undisturbed leaves the ConfigMap, the Deployment's hash, the policy and the
\* pods' HTTPS_PROXY in agreement with the rows, whatever earlier operations
\* that raced or failed half-way left there (handlePatchEgressMode,
\* handlePutProjectEgress, SweepEgressModesAtStartup).
SoloConverges ==
    [][\A a \in Actors :
          pc[a] # "idle" /\ pc'[a] = "idle" /\ alone = a /\ alone' = a /\ faults' = faults
              => /\ op(a) # "deploy" => ProxySettled'
                 /\ \A p \in Serves(a) : AccessSettled(p)'
                 /\ op(a) = "put" => \A p \in {prj(a)} :
                       ~policy[p].public /\ policy[p].allows = rules[p] \intersect Endpoints]_vars

--------------------------------------------------------------------------------
(***************************************************************************)
(* What the repository says and the code does not keep.                    *)
(***************************************************************************)

\* migrations/0012_project_egress_proxy_port.up.sql: a port is "never reused
\* while the project is live, so a pod holding a stale HTTPS_PROXY value can't
\* inherit another project's allow-list".
NeverInherits ==
    \A p, q \in Projects :
        p # q /\ live(p) /\ live(q) /\ env[p] \in Ports => project[q].port # env[p]

\* api/egress_rules.go: "Direct internet is never open.  The public catch-all is
\* dropped in every mode".
NeverOpen == \A p \in Projects : policy[p] # None => ~policy[p].public

\* k8sdriver/egress_proxy.go: "a rollout is the only way to be sure the running
\* process matches what the database says".  Nobody is synchronising, the
\* ConfigMap and the Deployment agree, and the rollout is finished.
RolloutIsEnough ==
    /\ At(ProxySteps) = {}
    /\ stamp = conf /\ proxy.stamp = stamp
    => proxy.conf = conf
================================================================================
