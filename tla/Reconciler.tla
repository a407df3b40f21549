------------------------------- MODULE Reconciler -------------------------------
(***************************************************************************)
(* src/internal/api/reconciler.go and the part of the cluster it drives.   *)
(*                                                                         *)
(* One goroutine runs tick: it reads at most TickLimit rows in 'pushing'   *)
(* or 'deploying' and handles them one after the other, each with the      *)
(* status it had when the list was read.  Another goroutine compares the   *)
(* status of every live project with the cluster (runHealthLoop).  The     *)
(* cluster itself is external: it rolls the newest pod to the image of the *)
(* Deployment object, and pods become ready or break on their own.         *)
(***************************************************************************)
EXTENDS DeployStore

CONSTANTS
    TickLimit,      \* LIMIT of the tick query (8 in the code)
    NeedsSidecar    \* deployments whose manifest asks for PG, Redis or S3

ASSUME TickLimitAssumption == TickLimit \in Nat \ {0}

VARIABLES
    rpc,        \* where the tick goroutine is
    todo,       \* rows read by the tick and not handled yet
    rdep,       \* the deployment being handled
    health,     \* rows read by the health loop and not probed yet
    hwrite,     \* statuses the health loop has decided on and not written yet
    spec,       \* image of the k8s Deployment object; NoDep: no such object
    pod,        \* the newest pod: the image it runs and its state
    oldReady,   \* an older pod, not yet torn down by the rollout, is ready
    ingress,    \* the project's Ingress
    secrets,    \* projects with sidecar accounts and their project_env rows
    applied     \* history: deployments whose image reached the cluster

tickVars    == <<rpc, todo, rdep>>
healthVars  == <<health, hwrite>>
podVars     == <<pod, oldReady>>
clusterVars == <<spec, podVars, ingress, secrets, applied>>

TickPC == {"idle", "next", "prepare", "mark", "apply", "sync",
           "probe", "ready", "siblings", "project", "fail"}

Entry     == [dep : Deployments, st : {"pushing", "deploying"}, at : Nat]
ProjectRow == [prj : Projects, st : ProjectStatus]
PodState  == {"none", "starting", "ready", "broken"}
NoPod     == [dep |-> NoDep, st |-> "none"]

ReconcilerTypeOK ==
    /\ rpc \in TickPC
    /\ todo \in SUBSET Entry
    /\ rdep \in Deployments \union {NoDep}
    /\ health \in SUBSET ProjectRow
    /\ hwrite \in SUBSET ProjectRow
    /\ spec \in [Projects -> Deployments \union {NoDep}]
    /\ pod \in [Projects -> [dep : Deployments \union {NoDep}, st : PodState]]
    /\ oldReady \in [Projects -> BOOLEAN]
    /\ ingress \in [Projects -> {"none", "bare", "gated"}]
    /\ secrets \in SUBSET Projects
    /\ applied \in SUBSET Deployments

ReconcilerInit ==
    /\ rpc = "idle"
    /\ todo = {}
    /\ rdep = NoDep
    /\ health = {}
    /\ hwrite = {}
    /\ spec = [p \in Projects |-> NoDep]
    /\ pod = [p \in Projects |-> NoPod]
    /\ oldReady = [p \in Projects |-> FALSE]
    /\ ingress = [p \in Projects |-> "none"]
    /\ secrets = {}
    /\ applied = {}

Proj == ProjectOf[rdep]

--------------------------------------------------------------------------------
(***************************************************************************)
(* tick                                                                    *)
(***************************************************************************)

TickRows ==
    {d \in Deployments :
        status[d] \in {"pushing", "deploying"} /\ live[ProjectOf[d]]}

\* ORDER BY queued_at ASC LIMIT TickLimit
FirstRows(T) ==
    /\ T \subseteq TickRows
    /\ Cardinality(T) <= TickLimit
    /\ T # TickRows => Cardinality(T) = TickLimit
    /\ \A d \in T, e \in TickRows \ T : queuedAt[d] <= queuedAt[e]

Tick ==
    /\ rpc = "idle"
    /\ \E T \in SUBSET TickRows \ {{}} :
        /\ FirstRows(T)
        /\ todo' = {[dep |-> d, st |-> status[d], at |-> queuedAt[d]] : d \in T}
    /\ rpc' = "next"
    /\ UNCHANGED <<rdep, rowVars, clusterVars>>

EndTick ==
    /\ rpc = "next"
    /\ todo = {}
    /\ rpc' = "idle"
    /\ UNCHANGED <<todo, rdep, rowVars, clusterVars>>

\* Sensitivity variant: handle() trusts the join of the tick query.
HandleEntryUnchecked(e) ==
    /\ rpc = "next"
    /\ \A f \in todo : e.at <= f.at
    /\ todo' = todo \ {e}
    /\ rdep' = e.dep
    /\ rpc' = IF e.st = "pushing" THEN "prepare" ELSE "probe"
    /\ UNCHANGED <<rowVars, clusterVars>>

\* The switch of handle() and the slugFor at the head of both cases.
HandleEntry(e) ==
    /\ rpc = "next"
    /\ \A f \in todo : e.at <= f.at
    /\ todo' = todo \ {e}
    /\ IF live[ProjectOf[e.dep]]
       THEN /\ rdep' = e.dep
            /\ rpc' = IF e.st = "pushing" THEN "prepare" ELSE "probe"
       ELSE IF e.st = "pushing"
            THEN rdep' = e.dep /\ rpc' = "fail"
            ELSE UNCHANGED <<rdep, rpc>>
    /\ UNCHANGED <<rowVars, clusterVars>>

GotoTick(pc) == rpc' = pc /\ UNCHANGED <<todo, rdep>>

Handled == rpc' = "next" /\ rdep' = NoDep /\ UNCHANGED todo

--------------------------------------------------------------------------------
(***************************************************************************)
(* handle, case "pushing"                                                  *)
(***************************************************************************)

\* Manifest, project_env, sidecar provisioning and egress configuration; every
\* failure but the last one fails the deployment.  The accounts and the env
\* rows may have been written before the failure.
PrepareEnv ==
    /\ rpc = "prepare"
    /\ \/ /\ secrets' = secrets \union
                {p \in {Proj} : rdep \in NeedsSidecar}
          /\ GotoTick("mark") \/ GotoTick("fail")
       \/ /\ secrets' = secrets
          /\ GotoTick("fail")
    /\ UNCHANGED <<rowVars, spec, podVars, ingress, applied>>

MarkDeploying ==
    /\ rpc = "mark"
    /\ MarkDeploymentStatus(rdep, "deploying")
    /\ GotoTick("apply")
    /\ UNCHANGED <<hasImage, queuedAt, clock, clusterVars>>

\* Sensitivity variant: an error of Apply is treated as success.
ApplyErrorIgnored ==
    /\ rpc = "apply"
    /\ GotoTick("sync")
    /\ \/ UNCHANGED <<spec, applied, ingress>>
       \/ /\ spec' = [spec EXCEPT ![Proj] = rdep]
          /\ applied' = applied \union {rdep}
          /\ ingress' = [ingress EXCEPT ![Proj] = "bare"]
    /\ UNCHANGED <<rowVars, podVars, secrets>>

\* deployer.Apply: namespace, egress policy, Secret, Deployment, Service and an
\* Ingress without middlewares, in that order; an error stops it anywhere.
ApplyManifests ==
    /\ rpc = "apply"
    /\ \/ /\ GotoTick("fail")                    \* before the Deployment object
          /\ UNCHANGED <<spec, applied, ingress>>
       \/ /\ spec' = [spec EXCEPT ![Proj] = rdep]
          /\ applied' = applied \union {rdep}
          /\ \/ GotoTick("fail") /\ UNCHANGED ingress
             \/ /\ GotoTick("sync")
                /\ ingress' = [ingress EXCEPT ![Proj] = "bare"]
    /\ UNCHANGED <<rowVars, podVars, secrets>>

\* GetProjectByID + syncIngressForProject; an error (the namespace may be gone
\* again) is only a warning.
SyncIngress ==
    /\ rpc = "sync"
    /\ \/ /\ live[Proj] /\ ingress[Proj] # "none"
          /\ ingress' = [ingress EXCEPT ![Proj] = "gated"]
       \/ UNCHANGED ingress
    /\ Handled
    /\ UNCHANGED <<rowVars, spec, podVars, secrets, applied>>

--------------------------------------------------------------------------------
(***************************************************************************)
(* handle, case "deploying"                                                *)
(***************************************************************************)

\* Sensitivity variant: no reason is terminal, the row is polled forever.
ProbePatient ==
    /\ rpc = "probe"
    /\ \/ pod[Proj].st = "ready" /\ GotoTick("ready")
       \/ pod[Proj].st # "ready" /\ Handled
    /\ UNCHANGED <<rowVars, clusterVars>>

\* PodSummary looks at the newest pod and not at the image it runs.
Probe ==
    /\ rpc = "probe"
    /\ \/ pod[Proj].st = "ready" /\ GotoTick("ready")
       \/ pod[Proj].st = "broken" /\ GotoTick("fail")
       \/ pod[Proj].st \in {"none", "starting"} /\ Handled
    /\ UNCHANGED <<rowVars, clusterVars>>

MarkRunning ==
    /\ rpc = "ready"
    /\ MarkDeploymentStatus(rdep, "running")
    /\ GotoTick("siblings")
    /\ UNCHANGED <<hasImage, queuedAt, clock, clusterVars>>

SupersedeSiblings ==
    /\ rpc = "siblings"
    /\ SupersedeRunningSiblings(rdep)
    /\ GotoTick("project")
    /\ UNCHANGED <<hasImage, queuedAt, clock, clusterVars>>

\* UpdateProjectStatus(running); TouchProjectPushed writes no modelled column.
TouchProject ==
    /\ rpc = "project"
    /\ UpdateProjectStatus(Proj, "running")
    /\ Handled
    /\ UNCHANGED <<rowVars, clusterVars>>

\* fail(): unconditional.
FailDeployment ==
    /\ rpc = "fail"
    /\ MarkDeploymentStatus(rdep, "failed")
    /\ Handled
    /\ UNCHANGED <<hasImage, queuedAt, clock, clusterVars>>

TickStep ==
    \/ /\ \/ Tick \/ EndTick \/ \E e \in todo : HandleEntry(e)
          \/ PrepareEnv \/ MarkDeploying \/ ApplyManifests \/ SyncIngress
          \/ Probe \/ MarkRunning \/ SupersedeSiblings \/ FailDeployment
       /\ UNCHANGED projectVars
    \/ TouchProject

\* The error of every status write above is dropped: the statement is lost and
\* the goroutine goes on.
LostWrite ==
    /\ \/ rpc = "mark" /\ GotoTick("apply")
       \/ rpc = "ready" /\ GotoTick("siblings")
       \/ rpc = "siblings" /\ GotoTick("project")
       \/ rpc \in {"project", "fail"} /\ Handled
    /\ UNCHANGED <<rowVars, clusterVars>>

--------------------------------------------------------------------------------
(***************************************************************************)
(* runHealthLoop                                                           *)
(***************************************************************************)

HealthList ==
    /\ health = {} /\ hwrite = {}
    /\ health' = {[prj |-> p, st |-> projectStatus[p]] :
                    p \in {q \in Projects : HealthReconcilable(q)}}
    /\ UNCHANGED <<hwrite, projectVars, clusterVars>>

\* IsDeploymentReady: ReadyReplicas > 0.
Ready(p) == pod[p].st = "ready" \/ oldReady[p]

\* Sensitivity variant: the loop only ever flips a project up.
HealthProbeUpOnly(r) ==
    /\ hwrite = {}
    /\ health' = health \ {r}
    /\ IF Ready(r.prj) /\ r.st # "running"
       THEN hwrite' = {[prj |-> r.prj, st |-> "running"]}
       ELSE UNCHANGED hwrite
    /\ UNCHANGED <<projectVars, clusterVars>>

\* Without a Deployment object the probe is an error and the row is skipped.
HealthProbe(r) ==
    /\ hwrite = {}
    /\ health' = health \ {r}
    /\ IF spec[r.prj] = NoDep
       THEN UNCHANGED hwrite
       ELSE LET desired == IF Ready(r.prj) THEN "running" ELSE "stopped"
            IN  hwrite' = {[prj |-> r.prj, st |-> s] : s \in {desired} \ {r.st}}
    /\ UNCHANGED <<projectVars, clusterVars>>

HealthWrite(r) ==
    /\ UpdateProjectStatus(r.prj, r.st)
    /\ hwrite' = hwrite \ {r}
    /\ UNCHANGED <<health, clusterVars>>

HealthStep ==
    \/ HealthList
    \/ \E r \in health : HealthProbe(r)
    \/ \E r \in hwrite : HealthWrite(r)

--------------------------------------------------------------------------------
(***************************************************************************)
(* The cluster.                                                            *)
(***************************************************************************)

SetPod(p, d, st) == pod' = [pod EXCEPT ![p] = [dep |-> d, st |-> st]]

\* The Deployment controller creates the pod of a new image; a ready pod is
\* kept until the new one is ready.
Rollout(p) ==
    /\ spec[p] # NoDep
    /\ pod[p].dep # spec[p]
    /\ SetPod(p, spec[p], "starting")
    /\ oldReady' = [oldReady EXCEPT ![p] = Ready(p)]
    /\ UNCHANGED <<spec, ingress, secrets, applied>>

\* The readiness probe passes, or the pod cannot start.
PodSettles(p) ==
    /\ pod[p].st = "starting"
    /\ \/ /\ SetPod(p, pod[p].dep, "ready")
          /\ oldReady' = [oldReady EXCEPT ![p] = FALSE]
       \/ /\ SetPod(p, pod[p].dep, "broken")
          /\ UNCHANGED oldReady
    /\ UNCHANGED <<spec, ingress, secrets, applied>>

PodBreaks(p) ==
    /\ \/ /\ pod[p].st = "ready"
          /\ SetPod(p, pod[p].dep, "broken")
          /\ UNCHANGED oldReady
       \/ /\ oldReady[p]
          /\ oldReady' = [oldReady EXCEPT ![p] = FALSE]
          /\ UNCHANGED pod
    /\ UNCHANGED <<spec, ingress, secrets, applied>>

ClusterStep(p) == Rollout(p) \/ PodSettles(p) \/ PodBreaks(p)

--------------------------------------------------------------------------------

\* What a restart of the control plane forgets; the rows and the cluster stay.
ReconcilerRestart ==
    /\ rpc' = "idle"
    /\ todo' = {}
    /\ rdep' = NoDep
    /\ health' = {}
    /\ hwrite' = {}
================================================================================
