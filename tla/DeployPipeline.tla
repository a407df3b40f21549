----------------------------- MODULE DeployPipeline -----------------------------
(***************************************************************************)
(* The deployment pipeline: the HTTP handlers that create and queue a      *)
(* deployment and delete a project, the build service, the reconciler and  *)
(* the cluster, all working on the rows of DeployStore.                    *)
(*                                                                         *)
(* The handlers are the third kind of actor here.  Each is modelled as the *)
(* sequence of its statements, so that every other actor can run between   *)
(* two of them.                                                            *)
(***************************************************************************)
EXTENDS BuildService, Reconciler

CONSTANTS
    MaxUploads,    \* bound: calls of POST .../uploaded per deployment
    MaxFaults,     \* bound: crashes, lost writes and dropped requests
    Deletable,     \* projects whose owner may send DELETE
    HealthOn       \* whether the 30 s health loop runs

ASSUME BoundsAssumption ==
    /\ MaxUploads \in Nat
    /\ MaxFaults \in Nat
    /\ Deletable \subseteq Projects
    /\ HealthOn \in BOOLEAN

VARIABLES
    upload,    \* the request POST .../uploaded in flight for a deployment
    uploads,   \* how many such requests there have been
    delete,    \* the request DELETE in flight for a project
    faults,    \* faults so far
    lost,      \* history: deployments a fault took from the actor at work on them
    skipped,   \* history: projects whose latest DELETE left a step undone
    overlapped \* history: projects a tick worked on during their latest DELETE

apiVars   == <<upload, uploads, delete>>
faultVars == <<faults, lost>>

vars == <<rowVars, projectVars, workerVars, tickVars, healthVars, clusterVars,
          apiVars, faultVars, skipped, overlapped>>

ApiTypeOK ==
    /\ upload \in [Deployments -> {"idle", "accepted", "queued"}]
    /\ uploads \in [Deployments -> 0 .. MaxUploads]
    /\ delete \in [Projects -> {"idle", "cluster", "sidecars", "row"}]

TypeOK ==
    /\ StoreTypeOK
    /\ BuildTypeOK
    /\ ReconcilerTypeOK
    /\ ApiTypeOK
    /\ faults \in 0 .. MaxFaults
    /\ lost \in SUBSET Deployments
    /\ skipped \in SUBSET Projects
    /\ overlapped \in SUBSET Projects

Init ==
    /\ StoreInit
    /\ BuildInit
    /\ ReconcilerInit
    /\ upload = [d \in Deployments |-> "idle"]
    /\ uploads = [d \in Deployments |-> 0]
    /\ delete = [p \in Projects |-> "idle"]
    /\ faults = 0
    /\ lost = {}
    /\ skipped = {}
    /\ overlapped = {}

--------------------------------------------------------------------------------
(***************************************************************************)
(* handleCreateDeployment and handleDeploymentUploaded.  Both are reached  *)
(* only while the middleware finds the project live.                       *)
(***************************************************************************)

Create(d) ==
    /\ live[ProjectOf[d]]
    /\ CreateDeployment(d)
    /\ UNCHANGED <<hasImage, queuedAt, clock, apiVars>>

\* Middleware, GetDeployment and the project check: the reads of the request.
UploadedAccepted(d) ==
    /\ live[ProjectOf[d]]
    /\ status[d] # "absent"
    /\ upload[d] = "idle"
    /\ uploads[d] < MaxUploads
    /\ upload' = [upload EXCEPT ![d] = "accepted"]
    /\ uploads' = [uploads EXCEPT ![d] = @ + 1]
    /\ UNCHANGED <<rowVars, delete>>

UploadedQueues(d) ==
    /\ upload[d] = "accepted"
    /\ MarkDeploymentQueued(d)
    /\ upload' = [upload EXCEPT ![d] = "queued"]
    /\ UNCHANGED <<hasImage, uploads, delete>>

UploadedSupersedes(d) ==
    /\ upload[d] = "queued"
    /\ SupersedeOlderDeployments(d)
    /\ upload' = [upload EXCEPT ![d] = "idle"]
    /\ UNCHANGED <<hasImage, queuedAt, clock, uploads, delete>>

UploadStep(d) ==
    \/ Create(d)
    \/ UploadedAccepted(d)
    \/ UploadedQueues(d)
    \/ UploadedSupersedes(d)

--------------------------------------------------------------------------------
(***************************************************************************)
(* handleDeleteProject: cluster first, sidecars and env next, row last.    *)
(* Only the last statement can stop it; the others are best effort.        *)
(***************************************************************************)

DeleteAccepted(p) ==
    /\ p \in Deletable
    /\ live[p]
    /\ delete[p] = "idle"
    /\ delete' = [delete EXCEPT ![p] = "cluster"]
    /\ skipped' = skipped \ {p}
    /\ UNCHANGED <<projectVars, clusterVars, upload, uploads>>

DeleteNamespace(p) ==
    /\ delete[p] = "cluster"
    /\ delete' = [delete EXCEPT ![p] = "sidecars"]
    /\ spec' = [spec EXCEPT ![p] = NoDep]
    /\ pod' = [pod EXCEPT ![p] = NoPod]
    /\ oldReady' = [oldReady EXCEPT ![p] = FALSE]
    /\ ingress' = [ingress EXCEPT ![p] = "none"]
    /\ UNCHANGED <<projectVars, secrets, applied, upload, uploads, skipped>>

\* Deprovision of the three sidecars and DeleteAllProjectEnv.
DeleteSidecars(p) ==
    /\ delete[p] = "sidecars"
    /\ delete' = [delete EXCEPT ![p] = "row"]
    /\ secrets' = secrets \ {p}
    /\ UNCHANGED <<projectVars, spec, podVars, ingress, applied, upload, uploads, skipped>>

DeleteRow(p) ==
    /\ delete[p] = "row"
    /\ SoftDeleteProject(p)
    /\ delete' = [delete EXCEPT ![p] = "idle"]
    /\ UNCHANGED <<clusterVars, upload, uploads, skipped>>

DeleteStep(p) ==
    \/ DeleteAccepted(p)
    \/ DeleteNamespace(p)
    \/ DeleteSidecars(p)
    \/ DeleteRow(p)

--------------------------------------------------------------------------------
(***************************************************************************)
(* Faults, at most MaxFaults of them.  'lost' and 'skipped' record what a  *)
(* fault left undone.                                                      *)
(***************************************************************************)

Lose(D) == lost' = lost \union (D \ {NoDep})

\* The client goes away: r.Context() is cancelled and the handler stops at its
\* next statement.
ClientGone ==
    /\ \/ \E d \in Deployments :
            /\ upload[d] # "idle"
            /\ upload' = [upload EXCEPT ![d] = "idle"]
            /\ UNCHANGED <<uploads, delete>>
       \/ \E p \in Projects :
            /\ delete[p] # "idle"
            /\ delete' = [delete EXCEPT ![p] = "idle"]
            /\ UNCHANGED <<upload, uploads>>
    /\ UNCHANGED <<tickVars, healthVars, lost, skipped>>

\* A step of the DELETE fails; the handler ignores that and goes on.
CleanupFails ==
    /\ \E p \in Projects :
        /\ \/ delete[p] = "cluster" /\ delete' = [delete EXCEPT ![p] = "sidecars"]
           \/ delete[p] = "sidecars" /\ delete' = [delete EXCEPT ![p] = "row"]
        /\ skipped' = skipped \union {p}
    /\ UNCHANGED <<upload, uploads, tickVars, healthVars, lost>>

\* The control plane crashes or is redeployed: the reconciler, the health loop
\* and every request in flight are gone.
ControlPlaneRestart ==
    /\ ReconcilerRestart
    /\ upload' = [d \in Deployments |-> "idle"]
    /\ delete' = [p \in Projects |-> "idle"]
    /\ Lose({rdep})
    /\ UNCHANGED <<uploads, skipped>>

WorkerFault ==
    /\ \/ \E w \in Slots :
            \/ SetImageError(w) /\ UNCHANGED lost
            \/ DroppedWrite(w) /\ Lose({wdep[w]})
       \/ BuildServiceRestart /\ Lose({wdep[w] : w \in Slots})
    /\ UNCHANGED <<tickVars, healthVars, clusterVars, apiVars, skipped>>

ControlPlaneFault ==
    /\ \/ ClientGone
       \/ CleanupFails
       \/ ControlPlaneRestart
       \/ LostWrite /\ Lose({rdep}) /\ UNCHANGED <<healthVars, apiVars, skipped>>
    /\ UNCHANGED <<rowVars, workerVars, clusterVars>>

\* A broken container is restarted once more.
PodRestarts(p) ==
    /\ pod[p].st = "broken"
    /\ SetPod(p, pod[p].dep, "starting")
    /\ UNCHANGED <<oldReady, spec, ingress, secrets, applied>>

ClusterFault ==
    /\ \E p \in Projects : PodRestarts(p)
    /\ UNCHANGED <<rowVars, workerVars, tickVars, healthVars, apiVars, lost, skipped>>

Fault ==
    /\ faults < MaxFaults
    /\ faults' = faults + 1
    /\ WorkerFault \/ ControlPlaneFault \/ ClusterFault
    /\ UNCHANGED projectVars

--------------------------------------------------------------------------------

ApiNext ==
    \/ /\ \E d \in Deployments : UploadStep(d)
       /\ UNCHANGED <<projectVars, workerVars, tickVars, healthVars,
                      clusterVars, faultVars, skipped>>
    \/ /\ \E p \in Projects : DeleteStep(p)
       /\ UNCHANGED <<rowVars, workerVars, tickVars, healthVars, faultVars>>

WorkerNext(w) ==
    /\ WorkerStep(w)
    /\ UNCHANGED <<projectVars, tickVars, healthVars, clusterVars, apiVars, faultVars,
                   skipped>>

TickNext ==
    /\ TickStep
    /\ UNCHANGED <<workerVars, healthVars, apiVars, faultVars, skipped>>

HealthNext ==
    /\ HealthOn
    /\ HealthStep
    /\ UNCHANGED <<rowVars, workerVars, tickVars, apiVars, faultVars, skipped>>

ClusterNext(p) ==
    /\ ClusterStep(p)
    /\ UNCHANGED <<rowVars, projectVars, workerVars, tickVars, healthVars,
                   apiVars, faultVars, skipped>>

\* The tick works on a deployment of p between the first and the last
\* statement of a DELETE of p.  A new DELETE starts with a clean record.
Overlap ==
    {p \in Projects : /\ delete[p] \in {"sidecars", "row"}
                      /\ rdep # NoDep
                      /\ Proj = p}

History ==
    overlapped' = {p \in overlapped : delete'[p] # "cluster"} \union Overlap'

Next ==
    /\ \/ ApiNext
       \/ \E w \in Slots : WorkerNext(w)
       \/ TickNext
       \/ HealthNext
       \/ \E p \in Projects : ClusterNext(p)
       \/ Fault
    /\ History

Spec == Init /\ [][Next]_vars

--------------------------------------------------------------------------------
(***************************************************************************)
(* Safety.                                                                 *)
(***************************************************************************)

HeldByWorker(d) == \E w \in Slots : wdep[w] = d
HeldByTick(d)   == rdep = d \/ \E e \in todo : e.dep = d

\* A deployment queued at most once has at most one actor working on it: two
\* slots never build it, and no slot still holds it once the reconciler has
\* read it (ClaimNextQueued, TryAdvanceDeploymentStatus, the tick query).
SingleOwner ==
    \A d \in Deployments : uploads[d] <= 1 =>
        /\ \A v, w \in Slots : wdep[v] = d /\ wdep[w] = d => v = w
        /\ ~(HeldByWorker(d) /\ HeldByTick(d))

\* A row in 'building' has a slot working on it, unless a crash or a lost write
\* took just this deployment from its slot, however often it was queued and
\* whatever befell the others (every exit of run() moves the row or has seen it
\* moved).
BuildingHasWorker ==
    \A d \in Deployments :
        status[d] = "building" => HeldByWorker(d) \/ d \in lost

\* A row past the build has its image_tag: what Apply would roll out exists
\* (SetDeploymentImage before the hand-off, and no way around either).
ImageRecorded ==
    \A d \in Deployments :
        status[d] \in {"pushing", "deploying", "running"} => hasImage[d]

\* Two deployments of a project are both 'running' only between the two
\* statements with which the reconciler promotes one of them, or after a crash
\* or a lost write took one of these two from it.
RunningUnique ==
    \A d, e \in Deployments :
        /\ status[d] = "running" /\ status[e] = "running"
        /\ d # e /\ ProjectOf[d] = ProjectOf[e]
        => (rpc = "siblings" /\ rdep \in {d, e}) \/ {d, e} \cap lost # {}

\* What the table shows as deploying or running was handed to the cluster,
\* except while the reconciler is about to do so, or when a crash or a lost
\* write took just this deployment from it.
RunningWasApplied ==
    \A d \in Deployments :
        status[d] \in {"deploying", "running"} =>
            \/ d \in applied \union lost
            \/ rdep = d /\ rpc \in {"apply", "fail"}

\* A deleted project leaves nothing behind -- no workload, no ingress, no
\* sidecar secrets, no other status -- unless the DELETE that went through
\* failed in one of its steps or had a tick working on the project, or, for the
\* status, the health loop runs.  Crashes, lost writes and a DELETE cut off and
\* sent again do no harm (the join of the tick query, slugFor).
TombstoneClean ==
    \A p \in Projects : ~live[p] /\ p \notin overlapped \union skipped =>
        /\ spec[p] = NoDep
        /\ ingress[p] = "none"
        /\ p \notin secrets
        /\ HealthOn \/ projectStatus[p] = "deleting"

--------------------------------------------------------------------------------
(***************************************************************************)
(* Refinement: a superseded row stays in the stage of the actor that still *)
(* has it in hand, and is closed when that actor lets go.  The second      *)
(* report of an upload takes a deployment out of the picture.              *)
(***************************************************************************)

stage ==
    [d \in Deployments |->
        IF uploads[d] > 1 THEN "reuploaded" ELSE
        CASE status[d] \in {"absent", "pending"}     -> "new"
          [] status[d] \in {"queued", "building"}    -> status[d]
          [] status[d] \in {"pushing", "deploying"}  -> "rollout"
          [] status[d] = "running"                   -> "live"
          [] status[d] = "failed"                    -> "closed"
          [] status[d] = "superseded" ->
                IF HeldByWorker(d) THEN "aborting"
                ELSE IF HeldByTick(d) THEN "rollout" ELSE "closed"]

Lifecycle == INSTANCE DeployLifecycle WITH Deployments <- Deployments, stage <- stage

\* A deployment whose upload is reported once goes through the stages of
\* DeployLifecycle in order, skips none, never leaves 'closed' and is not rolled
\* out once its build was superseded, whatever crashes or is lost and however
\* often its siblings are reported (the claims, compare-and-sets and tick
\* snapshots of all actors).
FollowsLifecycle == Lifecycle!Spec

--------------------------------------------------------------------------------
(***************************************************************************)
(* Fairness.  The handlers, both polling loops and the Deployment          *)
(* controller go on.  Nothing in the code bounds a fetch or a build, not   *)
(* even one that the watchdog has cancelled: runStream returns when the    *)
(* output of the build is closed, and only the direct child is killed.     *)
(* What a property needs of them it says.  A pod either passes its probe   *)
(* or breaks, except in PatientSpec.                                       *)
(***************************************************************************)

HandlerGoesOn(d) ==
    /\ ApiNext
    /\ History
    /\ upload'[d] # upload[d] /\ upload[d] # "idle"

\* w waits for the object store, or for the processes of a build.
Waits(w) == wpc[w] \in {"fetch", "build"}

\* Beside a wait only the watchdog goes on.
WorkerGoesOn(w) ==
    /\ WorkerNext(w)
    /\ History
    /\ Waits(w) => killed'[w] # killed[w]

CodeGoesOn ==
    /\ \A d \in Deployments : WF_vars(HandlerGoesOn(d))
    /\ \A w \in Slots : WF_vars(WorkerGoesOn(w))
    /\ WF_vars(TickNext /\ History)
    /\ WF_vars(HealthNext /\ History)
    /\ \A p \in Projects : WF_vars(ClusterNext(p) /\ History /\ spec[p] # pod[p].dep)

BuildsReturn ==
    \A w \in Slots : WF_vars(WorkerNext(w) /\ History /\ wpc'[w] # wpc[w])

PodsSettle ==
    \A p \in Projects : WF_vars(ClusterNext(p) /\ History /\ pod[p].st = "starting")

PatientSpec == Spec /\ CodeGoesOn /\ BuildsReturn
FairSpec    == Spec /\ CodeGoesOn /\ PodsSettle

--------------------------------------------------------------------------------
(***************************************************************************)
(* Liveness.                                                               *)
(***************************************************************************)

\* What the watchdog cannot end: a fetch, and a build that it has cancelled.
Uncancellable(w) == wpc[w] = "fetch" \/ (wpc[w] = "build" /\ killed[w])

\* If fetches and cancelled builds return, a slot whose deployment has left
\* 'building' is given back, whatever the build would have done by itself (the
\* watchdog goroutine; the leaked slot it was written for).
\* This needs a deployment to be uploaded once: the watchdog samples the status
\* every 3 s and a row that was queued and claimed again in between looks
\* unchanged to it.
SlotReclaimed ==
    (\A w \in Slots : []<>~Uncancellable(w)) =>
        \A w \in Slots :
            (wdep[w] # NoDep /\ status[wdep[w]] # "building") ~> wdep[w] = NoDep

\* If every fetch and build returns, every deployment is eventually at rest: no
\* row stays queued, building, pushing or deploying (claims, hand-off, tick,
\* pods).
EventuallyQuiescent ==
    (\A w \in Slots : []<>~Waits(w)) =>
        <>[](\A d \in Deployments : status[d] \notin InFlight)

Down(p) ==
    spec[p] # NoDep /\ pod[p].dep = spec[p] /\ pod[p].st = "broken" /\ ~oldReady[p]

\* A project whose workload is down for good does not stay 'running': the
\* health loop corrects the row, whatever the tick wrote in between.
DriftCorrected ==
    \A p \in Projects :
        <>[]Down(p) => <>[](projectStatus[p] # "running")

--------------------------------------------------------------------------------
(***************************************************************************)
(* What comments and documents of the repository say of the pipeline and   *)
(* its code does not do (each is checked by a run of its own that fails).  *)
(***************************************************************************)

\* store/deployments.go: the previous deployment is superseded when "the new one
\* is ready".  PodSummary takes the newest pod, whatever image it runs.
RunsOwnPod ==
    [][\A d \in Deployments :
         status[d] # "running" /\ status'[d] = "running"
            => pod[ProjectOf[d]].dep = d]_vars

\* api/reconciler.go: a deployment of a soft-deleted project is not re-applied.
\* The tick checks once per deployment, before its slow steps.
DeletedStaysDown ==
    \A p \in Projects :
        ~live[p] /\ delete[p] = "idle" /\ rdep = NoDep => spec[p] = NoDep

\* store/deployments.go: SupersedeOlderDeployments, by its name.  Two requests
\* that overlap supersede each other's deployment.
OnlyOlderSuperseded ==
    (\A d \in Deployments : upload[d] = "idle") =>
        \A d \in Deployments : status[d] = "superseded" =>
            \E e \in Siblings(d) : queuedAt[e] > queuedAt[d]

\* cmd/build-service: the watchdog cancels a superseded build so that its slot is
\* not "leaked forever".  Build goes on until every descendant of the child that
\* is killed has closed the output.
CancelledBuildReturns == \A w \in Slots : killed[w] ~> wdep[w] = NoDep

\* api/reconciler.go: the tick "drives in-flight deployments forward".  Rows
\* whose pod never becomes ready fill its LIMIT.
PushingIsHandled ==
    \A d \in Deployments :
        status[d] = "pushing" ~> status[d] # "pushing"
================================================================================
