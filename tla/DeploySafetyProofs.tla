---------------------------- MODULE DeploySafetyProofs ----------------------------
(***************************************************************************)
(* The safety invariants of DeployPipeline, each from an inductive         *)
(* invariant of its own on top of TypeInv.                                 *)
(***************************************************************************)
EXTENDS DeployPipelineProofs

(***************************************************************************)
(* The steps that touch no row, no worker and no tick: DELETE, the health  *)
(* loop, the cluster and stuttering.                                       *)
(***************************************************************************)
Quiet ==
    UNCHANGED <<status, hasImage, wpc, wdep, rpc, todo, rdep, applied, upload,
                uploads, lost>>

LEMMA NextSplit ==
    ASSUME [Next]_vars
    PROVE  \/ Quiet
           \/ \E d \in Deployments :
                UploadStep(d) /\ UNCHANGED <<workerVars, tickVars, applied, lost>>
           \/ \E w \in Slots : WorkerNext(w)
           \/ TickNext
           \/ Fault
<1> USE DEF Quiet, rowVars, workerVars, tickVars, clusterVars, apiVars, faultVars
<1>1. ASSUME NEW p \in Projects, DeleteStep(p),
             UNCHANGED <<rowVars, workerVars, tickVars, healthVars, faultVars>>
      PROVE  Quiet
    BY <1>1 DEF DeleteStep, DeleteAccepted, DeleteNamespace, DeleteSidecars, DeleteRow
<1>2. ASSUME HealthNext PROVE Quiet
    BY <1>2 DEF HealthNext, HealthStep, HealthList, HealthProbe, HealthWrite
<1>3. ASSUME NEW p \in Projects, ClusterNext(p) PROVE Quiet
    BY <1>3 DEF ClusterNext, ClusterStep, Rollout, PodSettles, PodBreaks
<1>4. ASSUME UNCHANGED vars PROVE Quiet
    BY <1>4 DEF vars
<1> QED
    BY <1>1, <1>2, <1>3, <1>4 DEF Next, ApiNext

\* A fault changes no row and no history of the cluster, and what it takes from
\* a slot or from the tick it records.
LEMMA FaultLoses ==
    ASSUME TypeInv, Fault
    PROVE  /\ UNCHANGED <<status, hasImage, applied, uploads>>
           /\ lost \subseteq lost'
           /\ \A w \in Slots :
                \/ wdep'[w] = wdep[w]
                \/ wdep'[w] = NoDep /\ wdep[w] \in lost' \union {NoDep}
           /\ todo' \subseteq todo
           /\ \/ UNCHANGED <<rpc, todo, rdep>>
              \/ rdep \in lost' \union {NoDep}
           /\ rdep' \in {rdep, NoDep}
<1> USE DEF TypeInv, TypeOK, BuildTypeOK, rowVars, workerVars, tickVars, clusterVars, apiVars,
        Lose
<1>1. CASE WorkerFault
    BY <1>1 DEF Fault, WorkerFault, SetImageError, DroppedWrite, BuildServiceRestart, Goto,
                Release
<1>2. CASE ControlPlaneFault
  <2>1. UNCHANGED <<status, hasImage, applied, uploads, wdep>>
    BY <1>2 DEF ControlPlaneFault, ClientGone, CleanupFails, ControlPlaneRestart
  <2>2. CASE ClientGone \/ CleanupFails
    BY <2>1, <2>2 DEF ClientGone, CleanupFails
  <2>3. CASE ControlPlaneRestart
    BY <2>1, <2>3 DEF ControlPlaneRestart, ReconcilerRestart
  <2>4. CASE LostWrite /\ Lose({rdep})
    BY <2>1, <2>4 DEF LostWrite, GotoTick, Handled
  <2> QED
    BY <1>2, <2>2, <2>3, <2>4 DEF ControlPlaneFault
<1>3. CASE ClusterFault
    BY <1>3 DEF Fault, ClusterFault, PodRestarts
<1> QED
    BY <1>1, <1>2, <1>3 DEF Fault

--------------------------------------------------------------------------------
(***************************************************************************)
(* ImageRecorded.  The image is on record before the hand-off and before   *)
(* the tick reads the row; no statement takes it away again.               *)
(***************************************************************************)

ImageInv ==
    /\ ImageRecorded
    /\ \A w \in Slots : wpc[w] = "handoff" => hasImage[wdep[w]]
    /\ \A d \in Deployments : HeldByTick(d) => hasImage[d]

LEMMA ImageUpload ==
    ASSUME TypeInv, ImageInv, NEW d \in Deployments, UploadStep(d),
           UNCHANGED <<workerVars, tickVars>>
    PROVE  ImageInv'
<1> USE DEF TypeInv, TypeOK, StoreTypeOK, ImageInv, ImageRecorded, HeldByTick, rowVars,
        workerVars, tickVars, DeploymentStatus, InFlight
<1>1. CASE Create(d)
    BY <1>1 DEF Create, CreateDeployment
<1>2. CASE UploadedAccepted(d)
    BY <1>2 DEF UploadedAccepted
<1>3. CASE UploadedQueues(d)
    BY <1>3 DEF UploadedQueues, MarkDeploymentQueued
<1>4. CASE UploadedSupersedes(d)
    BY <1>4 DEF UploadedSupersedes, SupersedeOlderDeployments, SupersedeSet
<1> QED
    BY <1>1, <1>2, <1>3, <1>4 DEF UploadStep

LEMMA ImageWorker ==
    ASSUME TypeInv, ImageInv, NEW w \in Slots, WorkerNext(w)
    PROVE  ImageInv'
<1> USE DEF TypeInv, TypeOK, StoreTypeOK, BuildTypeOK, ImageInv, ImageRecorded, HeldByTick,
        rowVars, workerVars, tickVars, SlotPC, WorkerHolds
<1>0. UNCHANGED <<rpc, todo, rdep>> /\ WorkerStep(w)
    BY DEF WorkerNext
<1>1. ASSUME NEW d \in Deployments, Claim(w, d) PROVE ImageInv'
    BY <1>0, <1>1 DEF Claim, ClaimNextQueued
<1>2. CASE FetchSource(w)
    BY <1>0, <1>2 DEF FetchSource, Goto
<1>3. CASE Watchdog(w)
    BY <1>0, <1>3 DEF Watchdog
<1>4. CASE BuildReturns(w)
    BY <1>0, <1>4 DEF BuildReturns, Goto
<1>5. CASE RecheckStatus(w)
    BY <1>0, <1>5 DEF RecheckStatus, Goto, Release
<1>6. CASE MarkFailed(w)
    BY <1>0, <1>6 DEF MarkFailed, MarkDeploymentStatus, Release
<1>7. CASE SetImage(w)
  <2>1. wdep[w] \in Deployments
    BY <1>7 DEF SetImage
  <2> QED
    BY <1>0, <1>7, <2>1 DEF SetImage, SetDeploymentImage, Goto
<1>8. CASE HandOff(w)
    BY <1>0, <1>8 DEF HandOff, TryAdvanceDeploymentStatus, Release
<1> QED
    BY <1>0, <1>1, <1>2, <1>3, <1>4, <1>5, <1>6, <1>7, <1>8 DEF WorkerStep

LEMMA ImageTick ==
    ASSUME TypeInv, ImageInv, TickNext
    PROVE  ImageInv'
<1> USE ConstantsOK DEF Assumptions, TypeInv, TypeOK, StoreTypeOK, ReconcilerTypeOK,
        TickHolds, ImageInv, ImageRecorded, HeldByTick, rowVars, workerVars, GotoTick, Handled
<1>0. UNCHANGED <<wpc, wdep>> /\ TickStep
    BY DEF TickNext
<1>a. CASE Tick
  <2>1. PICK T \in SUBSET TickRows \ {{}} :
            todo' = {[dep |-> d, st |-> status[d], at |-> queuedAt[d]] : d \in T}
    BY <1>a DEF Tick
  <2>2. \A e \in todo' : hasImage[e.dep]
    BY <2>1 DEF TickRows
  <2> QED
    BY <1>0, <1>a, <2>2 DEF Tick
<1>b. CASE EndTick
    BY <1>0, <1>b DEF EndTick
<1>c. ASSUME NEW e \in todo, HandleEntry(e) PROVE ImageInv'
    BY <1>0, <1>c DEF HandleEntry
<1>d. CASE PrepareEnv
    BY <1>0, <1>d DEF PrepareEnv
<1>e. CASE MarkDeploying
    BY <1>0, <1>e DEF MarkDeploying, MarkDeploymentStatus
<1>f. CASE ApplyManifests
    BY <1>0, <1>f DEF ApplyManifests
<1>g. CASE SyncIngress
    BY <1>0, <1>g DEF SyncIngress
<1>h. CASE Probe
    BY <1>0, <1>h DEF Probe
<1>i. CASE MarkRunning
    BY <1>0, <1>i DEF MarkRunning, MarkDeploymentStatus
<1>j. CASE SupersedeSiblings
    BY <1>0, <1>j DEF SupersedeSiblings, SupersedeRunningSiblings, SupersedeSet
<1>k. CASE FailDeployment
    BY <1>0, <1>k DEF FailDeployment, MarkDeploymentStatus
<1>l. CASE TouchProject
    BY <1>0, <1>l DEF TouchProject
<1> QED
    BY <1>0, <1>a, <1>b, <1>c, <1>d, <1>e, <1>f, <1>g, <1>h, <1>i, <1>j, <1>k, <1>l
    DEF TickStep

LEMMA ImageFault ==
    ASSUME TypeInv, ImageInv, Fault
    PROVE  ImageInv'
<1> USE DEF TypeInv, TypeOK, BuildTypeOK, SlotPC
<1>1. \A w \in Slots : wpc'[w] = "handoff" => wpc[w] = "handoff" /\ wdep'[w] = wdep[w]
    BY DEF Fault, WorkerFault, ControlPlaneFault, ClusterFault, SetImageError, DroppedWrite,
           BuildServiceRestart, Goto, Release, workerVars
<1>2. \A d \in Deployments : HeldByTick(d)' => HeldByTick(d)
    BY FaultLoses, ConstantsOK DEF Assumptions, HeldByTick
<1> QED
    BY <1>1, <1>2, FaultLoses DEF ImageInv, ImageRecorded

\* A row past the build has its image on record, for every number of retries and
\* faults (SetDeploymentImage, TryAdvanceDeploymentStatus, the tick).
THEOREM ImageRecordedAlways == Spec => []ImageRecorded
<1>1. Init => ImageInv
    BY ConstantsOK DEF Assumptions, Init, StoreInit, BuildInit, ReconcilerInit, ImageInv,
                       ImageRecorded, HeldByTick
<1>2. ASSUME TypeInv, ImageInv, [Next]_vars PROVE ImageInv'
  <2>1. CASE Quiet
    BY <1>2, <2>1 DEF Quiet, ImageInv, ImageRecorded, HeldByTick
  <2> QED
    BY <1>2, <2>1, NextSplit, ImageUpload, ImageWorker, ImageTick, ImageFault
<1> QED
    BY <1>1, <1>2, Typed, PTL DEF Spec, ImageInv

--------------------------------------------------------------------------------
(***************************************************************************)
(* BuildingHasWorker is inductive: only a claim writes 'building', and     *)
(* every exit of run() but the faults leaves another status behind.        *)
(***************************************************************************)

LEMMA BuildingUpload ==
    ASSUME TypeInv, BuildingHasWorker, NEW d \in Deployments, UploadStep(d),
           UNCHANGED <<workerVars, tickVars, applied, lost>>
    PROVE  BuildingHasWorker'
<1> USE DEF TypeInv, TypeOK, StoreTypeOK, BuildingHasWorker, HeldByWorker, rowVars,
        workerVars, DeploymentStatus, InFlight
<1>1. CASE Create(d)
    BY <1>1 DEF Create, CreateDeployment
<1>2. CASE UploadedAccepted(d)
    BY <1>2 DEF UploadedAccepted
<1>3. CASE UploadedQueues(d)
    BY <1>3 DEF UploadedQueues, MarkDeploymentQueued
<1>4. CASE UploadedSupersedes(d)
    BY <1>4 DEF UploadedSupersedes, SupersedeOlderDeployments, SupersedeSet
<1> QED
    BY <1>1, <1>2, <1>3, <1>4 DEF UploadStep

LEMMA BuildingWorker ==
    ASSUME TypeInv, BuildingHasWorker, NEW w \in Slots, WorkerNext(w)
    PROVE  BuildingHasWorker'
<1> USE ConstantsOK DEF Assumptions, TypeInv, TypeOK, StoreTypeOK, BuildTypeOK,
        BuildingHasWorker, HeldByWorker, rowVars, workerVars, SlotPC, WorkerHolds
<1>0. lost' = lost /\ WorkerStep(w)
    BY DEF WorkerNext, faultVars
<1>1. ASSUME NEW d \in Deployments, Claim(w, d) PROVE BuildingHasWorker'
    BY <1>0, <1>1 DEF Claim, ClaimNextQueued
<1>2. CASE FetchSource(w)
    BY <1>0, <1>2 DEF FetchSource, Goto
<1>3. CASE Watchdog(w)
    BY <1>0, <1>3 DEF Watchdog
<1>4. CASE BuildReturns(w)
    BY <1>0, <1>4 DEF BuildReturns, Goto
<1>5. CASE RecheckStatus(w)
    BY <1>0, <1>5 DEF RecheckStatus, Goto, Release
<1>6. CASE MarkFailed(w)
    BY <1>0, <1>6 DEF MarkFailed, MarkDeploymentStatus, Release
<1>7. CASE SetImage(w)
    BY <1>0, <1>7 DEF SetImage, Goto
<1>8. CASE HandOff(w)
    BY <1>0, <1>8 DEF HandOff, TryAdvanceDeploymentStatus, Release
<1> QED
    BY <1>0, <1>1, <1>2, <1>3, <1>4, <1>5, <1>6, <1>7, <1>8 DEF WorkerStep

LEMMA BuildingTick ==
    ASSUME TypeInv, BuildingHasWorker, TickNext
    PROVE  BuildingHasWorker'
<1> USE DEF TypeInv, TypeOK, StoreTypeOK, BuildingHasWorker, HeldByWorker, rowVars,
        workerVars
<1>1. UNCHANGED <<wdep, lost>> /\ TickStep
    BY DEF TickNext, faultVars
<1>2. \A d \in Deployments : status'[d] = "building" => status[d] = "building"
    BY <1>1 DEF TickStep, Tick, EndTick, HandleEntry, PrepareEnv, MarkDeploying,
                ApplyManifests, SyncIngress, Probe, MarkRunning, SupersedeSiblings,
                SupersedeRunningSiblings, SupersedeSet, FailDeployment, TouchProject,
                MarkDeploymentStatus
<1> QED
    BY <1>1, <1>2

\* A row in 'building' has a slot at work on it, however often its upload was
\* reported, unless a crash or a lost write took this very row from its slot; no
\* fault of another actor or on another row does (run, fail).
THEOREM BuildingHasWorkerAlways == Spec => []BuildingHasWorker
<1>1. Init => BuildingHasWorker
    BY DEF Init, StoreInit, BuildingHasWorker
<1>2. ASSUME TypeInv, BuildingHasWorker, [Next]_vars PROVE BuildingHasWorker'
  <2>1. CASE Quiet
    BY <1>2, <2>1 DEF Quiet, BuildingHasWorker, HeldByWorker
  <2>2. CASE Fault
    BY <1>2, <2>2, FaultLoses, ConstantsOK DEF Assumptions, BuildingHasWorker, HeldByWorker
  <2> QED
    BY <1>2, <2>1, <2>2, NextSplit, BuildingUpload, BuildingWorker, BuildingTick
<1> QED
    BY <1>1, <1>2, Typed, PTL DEF Spec

--------------------------------------------------------------------------------
(***************************************************************************)
(* RunningUnique is inductive: the tick is the only one to write 'running' *)
(* and supersedes the running siblings in its next statement.              *)
(***************************************************************************)

LEMMA RunningOthers ==
    ASSUME TypeInv, RunningUnique,
           UNCHANGED <<rpc, rdep, lost>>,
           \A d \in Deployments : status'[d] = "running" => status[d] = "running"
    PROVE  RunningUnique'
BY DEF RunningUnique

LEMMA RunningUpload ==
    ASSUME TypeInv, NEW d \in Deployments, UploadStep(d)
    PROVE  \A e \in Deployments : status'[e] = "running" => status[e] = "running"
BY DEF TypeInv, TypeOK, StoreTypeOK, DeploymentStatus, InFlight, UploadStep, Create,
       CreateDeployment, UploadedAccepted, UploadedQueues, MarkDeploymentQueued,
       UploadedSupersedes, SupersedeOlderDeployments, SupersedeSet, rowVars

LEMMA RunningWorker ==
    ASSUME TypeInv, NEW w \in Slots, WorkerStep(w)
    PROVE  \A e \in Deployments : status'[e] = "running" => status[e] = "running"
<1> USE DEF TypeInv, TypeOK, StoreTypeOK, rowVars
<1>1. ASSUME NEW d \in Deployments, Claim(w, d)
      PROVE  \A e \in Deployments : status'[e] = "running" => status[e] = "running"
    BY <1>1 DEF Claim, ClaimNextQueued
<1> QED
    BY <1>1 DEF WorkerStep, FetchSource, Watchdog, BuildReturns, RecheckStatus, MarkFailed,
                MarkDeploymentStatus, SetImage, HandOff, TryAdvanceDeploymentStatus

LEMMA RunningTick ==
    ASSUME TypeInv, RunningUnique, TickNext
    PROVE  RunningUnique'
<1> USE DEF TypeInv, TypeOK, StoreTypeOK, ReconcilerTypeOK, RunningUnique, rowVars,
        GotoTick, Handled, TickHolds
<1>0. lost' = lost /\ TickStep
    BY DEF TickNext, faultVars
<1>1. CASE \/ Tick \/ EndTick \/ (\E e \in todo : HandleEntry(e)) \/ PrepareEnv
           \/ ApplyManifests \/ SyncIngress \/ Probe \/ TouchProject
  <2>1. status' = status /\ rpc # "siblings"
    BY <1>1 DEF Tick, EndTick, HandleEntry, PrepareEnv, ApplyManifests, SyncIngress, Probe,
                TouchProject
  <2> QED
    BY <1>0, <2>1
<1>2. CASE MarkDeploying
    BY <1>0, <1>2 DEF MarkDeploying, MarkDeploymentStatus
<1>3. CASE MarkRunning
    BY <1>0, <1>3 DEF MarkRunning, MarkDeploymentStatus
<1>4. CASE SupersedeSiblings
    BY <1>0, <1>4 DEF SupersedeSiblings, SupersedeRunningSiblings, SupersedeSet, Siblings
<1>5. CASE FailDeployment
    BY <1>0, <1>5 DEF FailDeployment, MarkDeploymentStatus
<1> QED
    BY <1>0, <1>1, <1>2, <1>3, <1>4, <1>5 DEF TickStep

\* Two deployments of a project are 'running' together only between MarkRunning
\* and SupersedeRunningSiblings of one of them, or when a fault took one of the
\* two from the tick.
THEOREM RunningUniqueAlways == Spec => []RunningUnique
<1>1. Init => RunningUnique
    BY DEF Init, StoreInit, RunningUnique
<1>2. ASSUME TypeInv, RunningUnique, [Next]_vars PROVE RunningUnique'
  <2>1. CASE Quiet
    BY <1>2, <2>1, RunningOthers DEF Quiet
  <2>2. ASSUME NEW d \in Deployments, UploadStep(d),
               UNCHANGED <<workerVars, tickVars, applied, lost>>
        PROVE  RunningUnique'
    BY <1>2, <2>2, RunningOthers, RunningUpload DEF tickVars
  <2>3. ASSUME NEW w \in Slots, WorkerNext(w) PROVE RunningUnique'
    BY <1>2, <2>3, RunningOthers, RunningWorker DEF WorkerNext, tickVars, faultVars
  <2>4. CASE Fault
    BY <2>4, <1>2, FaultLoses, ConstantsOK DEF Assumptions, RunningUnique
  <2> QED
    BY <1>2, <2>1, <2>2, <2>3, <2>4, NextSplit, RunningTick
<1> QED
    BY <1>1, <1>2, Typed, PTL DEF Spec

--------------------------------------------------------------------------------
(***************************************************************************)
(* RunningWasApplied.  What the tick probes was read as 'deploying', so it *)
(* was applied before.                                                     *)
(***************************************************************************)

AppliedInv ==
    /\ RunningWasApplied
    /\ \A e \in todo : e.st = "deploying" => e.dep \in applied \union lost
    /\ rpc \in {"sync", "probe", "ready", "siblings", "project"}
            => rdep \in applied \union lost

LEMMA AppliedOthers ==
    ASSUME TypeInv, AppliedInv, UNCHANGED <<rpc, todo, rdep, lost, applied>>,
           \A d \in Deployments : status'[d] \in {"deploying", "running"}
                                    => status[d] \in {"deploying", "running"}
    PROVE  AppliedInv'
BY DEF AppliedInv, RunningWasApplied

LEMMA AppliedUpload ==
    ASSUME TypeInv, NEW d \in Deployments, UploadStep(d)
    PROVE  \A e \in Deployments : status'[e] \in {"deploying", "running"}
                                    => status[e] \in {"deploying", "running"}
BY DEF TypeInv, TypeOK, StoreTypeOK, DeploymentStatus, InFlight, UploadStep, Create,
       CreateDeployment, UploadedAccepted, UploadedQueues, MarkDeploymentQueued,
       UploadedSupersedes, SupersedeOlderDeployments, SupersedeSet, rowVars

LEMMA AppliedWorker ==
    ASSUME TypeInv, NEW w \in Slots, WorkerStep(w)
    PROVE  \A e \in Deployments : status'[e] \in {"deploying", "running"}
                                    => status[e] \in {"deploying", "running"}
<1> USE DEF TypeInv, TypeOK, StoreTypeOK, rowVars
<1>1. ASSUME NEW d \in Deployments, Claim(w, d)
      PROVE  \A e \in Deployments : status'[e] \in {"deploying", "running"}
                                      => status[e] \in {"deploying", "running"}
    BY <1>1 DEF Claim, ClaimNextQueued
<1> QED
    BY <1>1 DEF WorkerStep, FetchSource, Watchdog, BuildReturns, RecheckStatus, MarkFailed,
                MarkDeploymentStatus, SetImage, HandOff, TryAdvanceDeploymentStatus

LEMMA AppliedTick ==
    ASSUME TypeInv, AppliedInv, TickNext
    PROVE  AppliedInv'
<1> USE ConstantsOK DEF Assumptions, TypeInv, TypeOK, StoreTypeOK, ReconcilerTypeOK,
        AppliedInv, RunningWasApplied, rowVars, clusterVars, GotoTick, Handled, TickHolds
<1>0. lost' = lost /\ TickStep
    BY DEF TickNext, faultVars
<1>a. CASE Tick
  <2>1. PICK T \in SUBSET TickRows \ {{}} :
            todo' = {[dep |-> d, st |-> status[d], at |-> queuedAt[d]] : d \in T}
    BY <1>a DEF Tick
  <2>2. \A e \in todo' : e.st = "deploying" => e.dep \in applied \union lost
    BY <1>a, <2>1 DEF Tick, TickRows
  <2> QED
    BY <1>0, <1>a, <2>2 DEF Tick
<1>b. CASE EndTick
    BY <1>0, <1>b DEF EndTick
<1>c. ASSUME NEW e \in todo, HandleEntry(e) PROVE AppliedInv'
    BY <1>0, <1>c DEF HandleEntry, Entry
<1>d. CASE PrepareEnv
    BY <1>0, <1>d DEF PrepareEnv
<1>e. CASE MarkDeploying
    BY <1>0, <1>e DEF MarkDeploying, MarkDeploymentStatus
<1>f. CASE ApplyManifests
    BY <1>0, <1>f DEF ApplyManifests
<1>g. CASE SyncIngress
    BY <1>0, <1>g DEF SyncIngress
<1>h. CASE Probe
    BY <1>0, <1>h DEF Probe
<1>i. CASE MarkRunning
    BY <1>0, <1>i DEF MarkRunning, MarkDeploymentStatus
<1>j. CASE SupersedeSiblings
    BY <1>0, <1>j DEF SupersedeSiblings, SupersedeRunningSiblings, SupersedeSet
<1>k. CASE FailDeployment
    BY <1>0, <1>k DEF FailDeployment, MarkDeploymentStatus
<1>l. CASE TouchProject
    BY <1>0, <1>l DEF TouchProject
<1> QED
    BY <1>0, <1>a, <1>b, <1>c, <1>d, <1>e, <1>f, <1>g, <1>h, <1>i, <1>j, <1>k, <1>l
    DEF TickStep

LEMMA AppliedFault ==
    ASSUME TypeInv, AppliedInv, Fault
    PROVE  AppliedInv'
<1> USE ConstantsOK, FaultLoses DEF Assumptions, TypeInv, TypeOK, ReconcilerTypeOK, AppliedInv,
        RunningWasApplied, TickHolds
<1>1. CASE UNCHANGED <<rpc, todo, rdep>>
    BY <1>1
<1>2. CASE rdep \in lost'
  <2>1. \A d \in Deployments :
            d \in applied \union lost \/ rdep = d => d \in applied' \union lost'
    BY <1>2
  <2>2. \A e \in todo' : e.st = "deploying" => e.dep \in applied' \union lost'
    OBVIOUS
  <2>3. rdep' # NoDep => rdep' \in lost'
    BY <1>2
  <2>4. TickHolds'
    BY TypeFault
  <2> QED
    BY <2>1, <2>2, <2>3, <2>4
<1>3. CASE rdep = NoDep
  <2>1. TickHolds'
    BY TypeFault
  <2> QED
    BY <1>3, <2>1
<1> QED
    BY <1>1, <1>2, <1>3

\* Every row that says 'deploying' or 'running' reached the cluster, or the tick
\* is about to send or fail it, or a fault took this row from the tick
\* (MarkDeploying, Apply).
THEOREM RunningWasAppliedAlways == Spec => []RunningWasApplied
<1>1. Init => AppliedInv
    BY DEF Init, StoreInit, ReconcilerInit, AppliedInv, RunningWasApplied
<1>2. ASSUME TypeInv, AppliedInv, [Next]_vars PROVE AppliedInv'
  <2>1. CASE Quiet
    BY <1>2, <2>1, AppliedOthers DEF Quiet
  <2>2. ASSUME NEW d \in Deployments, UploadStep(d),
               UNCHANGED <<workerVars, tickVars, applied, lost>>
        PROVE  AppliedInv'
    BY <1>2, <2>2, AppliedOthers, AppliedUpload DEF tickVars
  <2>3. ASSUME NEW w \in Slots, WorkerNext(w) PROVE AppliedInv'
    BY <1>2, <2>3, AppliedOthers, AppliedWorker
    DEF WorkerNext, tickVars, clusterVars, faultVars
  <2>4. CASE Fault
    BY <1>2, <2>4, AppliedFault
  <2> QED
    BY <1>2, <2>1, <2>2, <2>3, <2>4, NextSplit, AppliedTick
<1> QED
    BY <1>1, <1>2, Typed, PTL DEF Spec, AppliedInv

--------------------------------------------------------------------------------
(***************************************************************************)
(* SingleOwner.  The status of a row tells which actor may hold it: nobody *)
(* before the claim, a worker while 'building', the tick afterwards, and   *)
(* either of them (but not both) once it is superseded.                    *)
(***************************************************************************)

OwnerInv ==
    \A d \in Deployments : uploads[d] <= 1 =>
        /\ uploads[d] = 0 => upload[d] = "idle" /\ status[d] \in {"absent", "pending"}
        /\ upload[d] = "accepted" => status[d] = "pending"
        /\ \A w \in Slots : wdep[w] = d => status[d] \in {"building", "superseded"}
        /\ HeldByTick(d) =>
            status[d] \in {"pushing", "deploying", "running", "failed", "superseded"}
        /\ \A v, w \in Slots : wdep[v] = d /\ wdep[w] = d => v = w
        /\ ~(HeldByWorker(d) /\ HeldByTick(d))

LEMMA OwnerUpload ==
    ASSUME TypeInv, OwnerInv, NEW d \in Deployments, UploadStep(d),
           UNCHANGED <<workerVars, tickVars, applied, lost>>
    PROVE  OwnerInv'
<1> USE DEF TypeInv, TypeOK, StoreTypeOK, ApiTypeOK, OwnerInv, HeldByWorker, HeldByTick,
        rowVars, workerVars, tickVars, apiVars
<1>1. CASE Create(d)
    BY <1>1 DEF Create, CreateDeployment
<1>2. CASE UploadedAccepted(d)
    BY <1>2 DEF UploadedAccepted
<1>3. CASE UploadedQueues(d)
    BY <1>3 DEF UploadedQueues, MarkDeploymentQueued
<1>4. CASE UploadedSupersedes(d)
    BY <1>4 DEF UploadedSupersedes, SupersedeOlderDeployments, SupersedeSet, InFlight
<1> QED
    BY <1>1, <1>2, <1>3, <1>4 DEF UploadStep

LEMMA OwnerWorker ==
    ASSUME TypeInv, OwnerInv, NEW w \in Slots, WorkerNext(w)
    PROVE  OwnerInv'
<1> USE ConstantsOK DEF Assumptions, TypeInv, TypeOK, StoreTypeOK, BuildTypeOK, ApiTypeOK,
        OwnerInv, HeldByWorker, HeldByTick, rowVars, workerVars, tickVars, SlotPC,
        WorkerHolds
<1>0. UNCHANGED <<todo, rdep, upload, uploads>> /\ WorkerStep(w)
    BY DEF WorkerNext, apiVars
<1>1. ASSUME NEW d \in Deployments, Claim(w, d) PROVE OwnerInv'
    BY <1>0, <1>1 DEF Claim, ClaimNextQueued, NextQueued
<1>2. CASE FetchSource(w)
    BY <1>0, <1>2 DEF FetchSource, Goto
<1>3. CASE Watchdog(w)
    BY <1>0, <1>3 DEF Watchdog
<1>4. CASE BuildReturns(w)
    BY <1>0, <1>4 DEF BuildReturns, Goto
<1>5. CASE RecheckStatus(w)
    BY <1>0, <1>5 DEF RecheckStatus, Goto, Release
<1>6. CASE MarkFailed(w)
    BY <1>0, <1>6 DEF MarkFailed, MarkDeploymentStatus, Release
<1>7. CASE SetImage(w)
    BY <1>0, <1>7 DEF SetImage, Goto
<1>8. CASE HandOff(w)
    BY <1>0, <1>8 DEF HandOff, TryAdvanceDeploymentStatus, Release
<1> QED
    BY <1>0, <1>1, <1>2, <1>3, <1>4, <1>5, <1>6, <1>7, <1>8 DEF WorkerStep

LEMMA OwnerTick ==
    ASSUME TypeInv, OwnerInv, TickNext
    PROVE  OwnerInv'
<1> USE ConstantsOK DEF Assumptions, TypeInv, TypeOK, StoreTypeOK, ReconcilerTypeOK,
        ApiTypeOK, OwnerInv, HeldByWorker, HeldByTick, rowVars, GotoTick, Handled, TickHolds
<1>0. UNCHANGED <<wdep, upload, uploads>> /\ TickStep
    BY DEF TickNext, workerVars, apiVars
<1>a. CASE Tick
  <2>1. PICK T \in SUBSET TickRows \ {{}} :
            todo' = {[dep |-> d, st |-> status[d], at |-> queuedAt[d]] : d \in T}
    BY <1>a DEF Tick
  <2>2. \A e \in todo' : status[e.dep] \in {"pushing", "deploying"}
    BY <2>1 DEF TickRows
  <2>3. status' = status /\ rdep' = rdep /\ rdep = NoDep
    BY <1>a DEF Tick
  <2>4. \A d \in Deployments : HeldByTick(d)' => status[d] \in {"pushing", "deploying"}
    BY <2>2, <2>3
  <2> QED
    BY <1>0, <2>3, <2>4
<1>b. CASE EndTick
    BY <1>0, <1>b DEF EndTick
<1>c. ASSUME NEW e \in todo, HandleEntry(e) PROVE OwnerInv'
    BY <1>0, <1>c DEF HandleEntry
<1>d. CASE PrepareEnv
    BY <1>0, <1>d DEF PrepareEnv
<1>e. CASE MarkDeploying
    BY <1>0, <1>e DEF MarkDeploying, MarkDeploymentStatus
<1>f. CASE ApplyManifests
    BY <1>0, <1>f DEF ApplyManifests
<1>g. CASE SyncIngress
    BY <1>0, <1>g DEF SyncIngress
<1>h. CASE Probe
    BY <1>0, <1>h DEF Probe
<1>i. CASE MarkRunning
    BY <1>0, <1>i DEF MarkRunning, MarkDeploymentStatus
<1>j. CASE SupersedeSiblings
    BY <1>0, <1>j DEF SupersedeSiblings, SupersedeRunningSiblings, SupersedeSet
<1>k. CASE FailDeployment
    BY <1>0, <1>k DEF FailDeployment, MarkDeploymentStatus
<1>l. CASE TouchProject
    BY <1>0, <1>l DEF TouchProject
<1> QED
    BY <1>0, <1>a, <1>b, <1>c, <1>d, <1>e, <1>f, <1>g, <1>h, <1>i, <1>j, <1>k, <1>l
    DEF TickStep

LEMMA OwnerFault ==
    ASSUME TypeInv, OwnerInv, Fault
    PROVE  OwnerInv'
<1>1. \A d \in Deployments : upload'[d] = upload[d] \/ upload'[d] = "idle"
    BY DEF Fault, WorkerFault, ControlPlaneFault, ClusterFault, ClientGone, CleanupFails,
           ControlPlaneRestart, apiVars, TypeInv, TypeOK, ApiTypeOK
<1>2. \A w \in Slots, d \in Deployments : wdep'[w] = d => wdep[w] = d
    BY FaultLoses, ConstantsOK DEF Assumptions
<1>3. \A d \in Deployments : HeldByTick(d)' => HeldByTick(d)
    BY FaultLoses, ConstantsOK DEF Assumptions, HeldByTick
<1>4. UNCHANGED <<status, uploads>>
    BY FaultLoses
<1> QED
    BY <1>1, <1>2, <1>3, <1>4 DEF OwnerInv, HeldByWorker

LEMMA OwnedAlways == Spec => []OwnerInv
<1>1. Init => OwnerInv
    BY ConstantsOK DEF Assumptions, Init, StoreInit, BuildInit, ReconcilerInit, OwnerInv,
                       HeldByWorker, HeldByTick
<1>2. ASSUME TypeInv, OwnerInv, [Next]_vars PROVE OwnerInv'
  <2>1. CASE Quiet
    BY <1>2, <2>1 DEF Quiet, OwnerInv, HeldByWorker, HeldByTick
  <2> QED
    BY <1>2, <2>1, NextSplit, OwnerUpload, OwnerWorker, OwnerTick, OwnerFault
<1> QED
    BY <1>1, <1>2, Typed, PTL DEF Spec

\* A deployment queued at most once never has two actors at work on it, faults
\* or not (ClaimNextQueued, TryAdvanceDeploymentStatus, the tick query).
THEOREM SingleOwnerAlways == Spec => []SingleOwner
<1>1. OwnerInv => SingleOwner
    BY DEF OwnerInv, SingleOwner
<1> QED
    BY <1>1, OwnedAlways, PTL

--------------------------------------------------------------------------------
(***************************************************************************)
(* TombstoneClean.  From DeleteNamespace on nobody but the tick can write  *)
(* to the project again, and a tick that does is in overlapped; once the   *)
(* row is dead the tick's entry check lets it do no more than fail a row.  *)
(***************************************************************************)

OnTick(p) == rdep # NoDep /\ Proj = p

Grave(p) ==
    /\ delete[p] \in {"sidecars", "row"} =>
            ~OnTick(p) /\ spec[p] = NoDep /\ ingress[p] = "none"
    /\ delete[p] = "row" => p \notin secrets
    /\ ~live[p] =>
            /\ spec[p] = NoDep /\ ingress[p] = "none" /\ p \notin secrets
            /\ HealthOn \/ projectStatus[p] = "deleting"
            /\ OnTick(p) => rpc = "fail"

\* The record of p is clean: what its latest DELETE had to do was done.
Undisturbed(p) == p \notin overlapped \union skipped

\* Only a live project is deleted, whatever its record says: a DELETE that was
\* cut off and is sent again starts with a clean one.
GraveInv ==
    \A p \in Projects :
        /\ delete[p] # "idle" => live[p]
        /\ Undisturbed(p) => Grave(p)

\* What a step may do to a project without touching its tombstone.
LEMMA GraveKept ==
    ASSUME NEW p \in Projects, Grave(p),
           live'[p] = live[p], HealthOn \/ projectStatus'[p] = projectStatus[p],
           spec'[p] = spec[p], ingress'[p] = ingress[p], delete'[p] \in {delete[p], "idle"},
           p \in secrets' => p \in secrets,
           delete'[p] \in {"sidecars", "row"} => ~OnTick(p)',
           ~live[p] /\ OnTick(p)' => rpc' = "fail"
    PROVE  Grave(p)'
BY DEF Grave

\* Only live projects are being deleted: the row dies with the last statement.
LEMMA DeleteLive ==
    ASSUME TypeInv, Next, \A p \in Projects : delete[p] # "idle" => live[p]
    PROVE  \A p \in Projects : delete'[p] # "idle" => live'[p]
<1> USE DEF TypeInv, TypeOK, StoreTypeOK, ApiTypeOK, projectVars, apiVars
<1>1. ASSUME NEW q \in Projects, DeleteStep(q)
      PROVE  \A p \in Projects : delete'[p] # "idle" => live'[p]
    BY <1>1 DEF DeleteStep, DeleteAccepted, DeleteNamespace, DeleteSidecars, DeleteRow,
                SoftDeleteProject
<1>2. CASE Fault
    BY <1>2 DEF Fault, WorkerFault, ControlPlaneFault, ClusterFault, ClientGone, CleanupFails,
                ControlPlaneRestart
<1>3. CASE TickNext \/ HealthNext
  <2>1. live' = live
    BY <1>3 DEF TickNext, HealthNext, TickStep, TouchProject, UpdateProjectStatus, HealthStep,
                HealthList, HealthProbe, HealthWrite
  <2> QED
    BY <1>3, <2>1 DEF TickNext, HealthNext
<1>4. ASSUME NEW d \in Deployments, UploadStep(d), UNCHANGED projectVars
      PROVE  \A p \in Projects : delete'[p] # "idle" => live'[p]
    BY <1>4 DEF UploadStep, Create, UploadedAccepted, UploadedQueues, UploadedSupersedes
<1> QED
    BY <1>1, <1>2, <1>3, <1>4 DEF Next, ApiNext, WorkerNext, ClusterNext

\* A project with a clean record had one before the step, unless its DELETE
\* starts here; and a tick that has in hand a project whose DELETE got this far
\* is recorded.
LEMMA Unrecorded ==
    ASSUME TypeInv, Next, NEW p \in Projects, Undisturbed(p)'
    PROVE  /\ delete'[p] # "cluster" => Undisturbed(p)
           /\ delete'[p] \in {"sidecars", "row"} => ~OnTick(p)'
<1>1. /\ delete'[p] # "cluster" => p \notin overlapped
      /\ delete'[p] \in {"sidecars", "row"} => ~OnTick(p)'
    BY DEF Next, History, Overlap, OnTick, Undisturbed
<1>2. ASSUME NEW q \in Projects, DeleteStep(q)
      PROVE  delete'[p] # "cluster" => p \notin skipped
  <2>1. CASE DeleteAccepted(q)
    <3>1. skipped' = skipped \ {q} /\ delete'[q] = "cluster"
      BY <2>1 DEF DeleteAccepted, TypeInv, TypeOK, ApiTypeOK
    <3> QED
      BY <3>1 DEF Undisturbed
  <2>2. CASE ~DeleteAccepted(q)
    <3>1. skipped' = skipped
      BY <1>2, <2>2 DEF DeleteStep, DeleteNamespace, DeleteSidecars, DeleteRow
    <3> QED
      BY <3>1 DEF Undisturbed
  <2> QED
    BY <2>1, <2>2
<1>3. CASE Fault
  <2>1. skipped \subseteq skipped'
    BY <1>3 DEF Fault, WorkerFault, ControlPlaneFault, ClusterFault, ClientGone, CleanupFails,
                ControlPlaneRestart
  <2> QED
    BY <1>1, <2>1 DEF Undisturbed
<1>4. ASSUME skipped' = skipped
      PROVE  delete'[p] # "cluster" => p \notin skipped
    BY <1>4 DEF Undisturbed
<1> QED
    BY <1>1, <1>2, <1>3, <1>4
    DEF Next, ApiNext, WorkerNext, TickNext, HealthNext, ClusterNext, Undisturbed

LEMMA GraveDelete ==
    ASSUME TypeInv, NEW q \in Projects, DeleteStep(q), UNCHANGED tickVars,
           NEW p \in Projects, Grave(p), delete[p] # "idle" => live[p],
           delete'[p] # "cluster",
           delete'[p] \in {"sidecars", "row"} => ~OnTick(p)'
    PROVE  Grave(p)'
<1> USE DEF TypeInv, TypeOK, StoreTypeOK, ReconcilerTypeOK, ApiTypeOK, projectVars, clusterVars, podVars
<1>1. (OnTick(p)' <=> OnTick(p)) /\ rpc' = rpc
    BY DEF tickVars, OnTick, Proj
<1>2. CASE DeleteAccepted(q)
    BY <1>1, <1>2 DEF DeleteAccepted, Grave
<1>3. CASE DeleteNamespace(q)
    BY <1>1, <1>3 DEF DeleteNamespace, Grave
<1>4. CASE DeleteSidecars(q)
    BY <1>1, <1>4 DEF DeleteSidecars, Grave
<1>5. CASE DeleteRow(q)
    BY <1>1, <1>5 DEF DeleteRow, SoftDeleteProject, Grave
<1> QED
    BY <1>2, <1>3, <1>4, <1>5 DEF DeleteStep

LEMMA GraveTick ==
    ASSUME TypeInv, TickNext, NEW p \in Projects, Grave(p),
           delete'[p] \in {"sidecars", "row"} => ~OnTick(p)'
    PROVE  Grave(p)'
<1> USE ConstantsOK DEF Assumptions, TypeInv, TypeOK, StoreTypeOK, ReconcilerTypeOK,
        TickHolds, rowVars, projectVars, clusterVars, podVars, GotoTick, Handled
<1>1. delete' = delete /\ TickStep
    BY DEF TickNext, apiVars
<1>2. CASE ~OnTick(p) /\ ~OnTick(p)'
    <2>1. /\ live' = live /\ projectStatus'[p] = projectStatus[p]
          /\ spec'[p] = spec[p] /\ ingress'[p] = ingress[p]
          /\ p \in secrets' => p \in secrets
        BY <1>1, <1>2 DEF TickStep, Tick, EndTick, HandleEntry, PrepareEnv, MarkDeploying,
            ApplyManifests, SyncIngress, Probe, MarkRunning, SupersedeSiblings,
            FailDeployment, TouchProject, UpdateProjectStatus, OnTick, Proj
    <2> QED
        BY <1>1, <1>2, <2>1, GraveKept
<1>3. CASE OnTick(p) /\ live[p]
    <2>1. delete[p] \notin {"sidecars", "row"} /\ live'[p]
        BY <1>1, <1>3 DEF Grave, TickStep, TouchProject, UpdateProjectStatus
    <2> QED
        BY <1>1, <1>3, <2>1 DEF Grave
<1>4. CASE OnTick(p) /\ ~live[p]
    <2>1. rpc = "fail"
        BY <1>4 DEF Grave
    <2>2. FailDeployment /\ UNCHANGED projectVars
        BY <1>1, <2>1 DEF TickStep, Tick, EndTick, HandleEntry, PrepareEnv, MarkDeploying,
            ApplyManifests, SyncIngress, Probe, MarkRunning, SupersedeSiblings, TouchProject
    <2>3. ~OnTick(p)'
        BY <2>2 DEF FailDeployment, OnTick
    <2> QED
        BY <1>1, <1>4, <2>2, <2>3, GraveKept DEF FailDeployment
<1>5. CASE ~OnTick(p) /\ OnTick(p)'
    <2>1. PICK e \in todo : HandleEntry(e) /\ UNCHANGED projectVars
        BY <1>1, <1>5 DEF TickStep, Tick, EndTick, PrepareEnv, MarkDeploying,
            ApplyManifests, SyncIngress, Probe, MarkRunning, SupersedeSiblings,
            FailDeployment, TouchProject, OnTick, Proj
    <2>2. ~live[p] => rpc' = "fail"
        BY <1>5, <2>1 DEF HandleEntry, OnTick, Proj
    <2> QED
        BY <1>1, <2>1, <2>2, GraveKept DEF HandleEntry
<1> QED
    BY <1>2, <1>3, <1>4, <1>5

\* A fault touches neither cluster objects nor the project row.  A restart drops
\* the tick, and the write it may lose on a dead project is its last.
LEMMA GraveFault ==
    ASSUME TypeInv, Fault, NEW p \in Projects, Grave(p), Undisturbed(p)',
           delete'[p] \in {"sidecars", "row"} => ~OnTick(p)'
    PROVE  Grave(p)'
<1> USE DEF projectVars, clusterVars, podVars, apiVars, tickVars
<1>1. UNCHANGED <<live, projectStatus, spec, ingress, secrets>>
    BY DEF Fault, WorkerFault, ControlPlaneFault, ClusterFault, PodRestarts
<1>2. delete'[p] \in {delete[p], "idle"}
  <2>1. CASE CleanupFails
    BY <2>1 DEF CleanupFails, Undisturbed, TypeInv, TypeOK, ApiTypeOK
  <2> QED
    BY <2>1 DEF Fault, WorkerFault, ControlPlaneFault, ClusterFault, ClientGone,
                ControlPlaneRestart, TypeInv, TypeOK, ApiTypeOK
<1>3. ~live[p] /\ OnTick(p)' => rpc' = "fail"
  <2>1. CASE UNCHANGED tickVars
    BY <2>1 DEF Grave, OnTick, Proj
  <2>2. CASE ControlPlaneRestart
    BY <2>2 DEF ControlPlaneRestart, ReconcilerRestart, OnTick
  <2>3. CASE LostWrite
    BY <2>3 DEF LostWrite, GotoTick, Handled, Grave, OnTick, Proj
  <2> QED
    BY <2>1, <2>2, <2>3 DEF Fault, WorkerFault, ControlPlaneFault, ClusterFault, ClientGone,
                            CleanupFails
<1> QED
    BY <1>1, <1>2, <1>3, GraveKept

\* Nobody else writes what the tombstone speaks of.
LEMMA GraveOthers ==
    ASSUME UNCHANGED <<live, spec, ingress, secrets, delete, rpc, rdep>>,
           HealthOn \/ UNCHANGED projectStatus,
           NEW p \in Projects, Grave(p)
    PROVE  Grave(p)'
<1>1. OnTick(p)' <=> OnTick(p)
    BY DEF OnTick, Proj
<1> QED
    BY <1>1 DEF Grave

\* A deleted project leaves nothing behind, for any number of deployments, slots,
\* projects and faults, unless the DELETE that removed the row failed in a step
\* or a tick had the project in hand during it; the status, unless the health
\* loop runs (handleDeleteProject, handle, runHealthLoop).
THEOREM TombstoneCleanAlways == Spec => []TombstoneClean
<1>1. Init => GraveInv
    BY DEF Init, StoreInit, ReconcilerInit, GraveInv, Grave, OnTick
<1>2. ASSUME TypeInv, GraveInv, [Next]_vars PROVE GraveInv'
  <2>1. CASE UNCHANGED vars
    BY <1>2, <2>1 DEF vars, GraveInv, Grave, Undisturbed, OnTick, Proj, projectVars,
                      clusterVars, tickVars, apiVars
  <2> SUFFICES ASSUME Next PROVE GraveInv'
    BY <1>2, <2>1
  <2>2. \A p \in Projects : delete'[p] # "idle" => live'[p]
    BY <1>2, DeleteLive DEF GraveInv
  <2> SUFFICES ASSUME NEW p \in Projects, Undisturbed(p)' PROVE Grave(p)'
    BY <2>2 DEF GraveInv
  <2>3. CASE delete'[p] = "cluster"
    BY <2>2, <2>3 DEF Grave
  <2> SUFFICES ASSUME delete'[p] # "cluster" PROVE Grave(p)'
    BY <2>3
  <2>4. /\ Grave(p)
        /\ delete[p] # "idle" => live[p]
        /\ delete'[p] \in {"sidecars", "row"} => ~OnTick(p)'
    BY <1>2, Unrecorded DEF GraveInv
  <2>5. ASSUME NEW q \in Projects, DeleteStep(q), UNCHANGED tickVars
        PROVE  Grave(p)'
    BY <1>2, <2>4, <2>5, GraveDelete
  <2>6. CASE TickNext
    BY <1>2, <2>4, <2>6, GraveTick
  <2>7. CASE Fault
    BY <1>2, <2>4, <2>7, GraveFault
  <2>8. CASE HealthNext
    BY <2>4, <2>8, GraveOthers
    DEF HealthNext, HealthStep, HealthList, HealthProbe, HealthWrite, UpdateProjectStatus,
        projectVars, clusterVars, tickVars, apiVars
  <2>9. ASSUME NEW d \in Deployments, UploadStep(d),
               UNCHANGED <<projectVars, workerVars, tickVars, healthVars, clusterVars>>
        PROVE  Grave(p)'
    <3>1. delete' = delete
        BY <2>9 DEF UploadStep, Create, UploadedAccepted, UploadedQueues, UploadedSupersedes,
                    apiVars
    <3> QED
        BY <2>4, <2>9, <3>1, GraveOthers DEF projectVars, tickVars, clusterVars
  <2>10. ASSUME NEW w \in Slots, WorkerNext(w) PROVE Grave(p)'
    BY <2>4, <2>10, GraveOthers DEF WorkerNext, projectVars, tickVars, clusterVars, apiVars
  <2>11. ASSUME NEW q \in Projects, ClusterNext(q) PROVE Grave(p)'
    BY <2>4, <2>11, GraveOthers
    DEF ClusterNext, ClusterStep, Rollout, PodSettles, PodBreaks, projectVars, tickVars, apiVars
  <2> QED
    BY <2>5, <2>6, <2>7, <2>8, <2>9, <2>10, <2>11 DEF Next, ApiNext
<1>3. GraveInv => TombstoneClean
    BY DEF GraveInv, Grave, Undisturbed, TombstoneClean
<1> QED
    BY <1>1, <1>2, <1>3, Typed, PTL DEF Spec
================================================================================
