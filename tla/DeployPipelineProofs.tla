--------------------------- MODULE DeployPipelineProofs ---------------------------
(***************************************************************************)
(* Safety of DeployPipeline for every set of deployments, projects and     *)
(* slots and for every bound.                                              *)
(***************************************************************************)
EXTENDS DeployPipeline, TLAPS

Assumptions ==
    /\ ProjectOf \in [Deployments -> Projects]
    /\ NoDep \notin Deployments
    /\ TickLimit \in Nat \ {0}
    /\ MaxUploads \in Nat
    /\ MaxFaults \in Nat

LEMMA ConstantsOK == Assumptions
BY ProjectOfAssumption, NoDepAssumption, TickLimitAssumption, BoundsAssumption
   DEF Assumptions

--------------------------------------------------------------------------------
(***************************************************************************)
(* Type correctness.                                                       *)
(***************************************************************************)

LEMMA TypeInit == Init => TypeOK
<1> USE ConstantsOK DEF Assumptions
<1> SUFFICES ASSUME Init PROVE TypeOK
    OBVIOUS
<1>1. StoreTypeOK
    BY DEF Init, StoreInit, StoreTypeOK, DeploymentStatus, ProjectStatus
<1>2. BuildTypeOK
    BY DEF Init, BuildInit, BuildTypeOK, SlotPC
<1>3. ReconcilerTypeOK
    BY DEF Init, ReconcilerInit, ReconcilerTypeOK, TickPC, Entry, ProjectRow,
           PodState, NoPod
<1>4. ApiTypeOK
    BY DEF Init, ApiTypeOK
<1>5. /\ faults \in 0 .. MaxFaults
      /\ lost \in SUBSET Deployments
      /\ skipped \in SUBSET Projects
      /\ overlapped \in SUBSET Projects
    BY DEF Init
<1> QED
    BY <1>1, <1>2, <1>3, <1>4, <1>5 DEF TypeOK

LEMMA TypeUpload ==
    ASSUME TypeOK, NEW d \in Deployments, UploadStep(d)
    PROVE  /\ status' \in [Deployments -> DeploymentStatus]
           /\ hasImage' = hasImage
           /\ queuedAt' \in [Deployments -> Nat]
           /\ clock' \in Nat
           /\ ApiTypeOK'
<1> USE ConstantsOK DEF Assumptions, TypeOK, StoreTypeOK, ApiTypeOK, DeploymentStatus,
        InFlight
<1>1. CASE Create(d)
    BY <1>1 DEF Create, CreateDeployment, apiVars
<1>2. CASE UploadedAccepted(d)
    BY <1>2 DEF UploadedAccepted, rowVars
<1>3. CASE UploadedQueues(d)
    BY <1>3 DEF UploadedQueues, MarkDeploymentQueued
<1>4. CASE UploadedSupersedes(d)
    BY <1>4 DEF UploadedSupersedes, SupersedeOlderDeployments, SupersedeSet
<1> QED
    BY <1>1, <1>2, <1>3, <1>4 DEF UploadStep

LEMMA TypeDelete ==
    ASSUME TypeOK, NEW p \in Projects, DeleteStep(p)
    PROVE  /\ live' \in [Projects -> BOOLEAN]
           /\ projectStatus' \in [Projects -> ProjectStatus]
           /\ spec' \in [Projects -> Deployments \union {NoDep}]
           /\ pod' \in [Projects -> [dep : Deployments \union {NoDep}, st : PodState]]
           /\ oldReady' \in [Projects -> BOOLEAN]
           /\ ingress' \in [Projects -> {"none", "bare", "gated"}]
           /\ secrets' \in SUBSET Projects
           /\ applied' \in SUBSET Deployments
           /\ ApiTypeOK'
<1> USE DEF TypeOK, StoreTypeOK, ReconcilerTypeOK, ApiTypeOK, ProjectStatus, PodState,
        projectVars, clusterVars, podVars
<1>1. CASE DeleteAccepted(p)
    BY <1>1 DEF DeleteAccepted
<1>2. CASE DeleteNamespace(p)
    BY <1>2 DEF DeleteNamespace, NoPod
<1>3. CASE DeleteSidecars(p)
    BY <1>3 DEF DeleteSidecars
<1>4. CASE DeleteRow(p)
    BY <1>4 DEF DeleteRow, SoftDeleteProject
<1> QED
    BY <1>1, <1>2, <1>3, <1>4 DEF DeleteStep

LEMMA TypeWorker ==
    ASSUME TypeOK, NEW w \in Slots, WorkerStep(w)
    PROVE  /\ status' \in [Deployments -> DeploymentStatus]
           /\ hasImage' \in [Deployments -> BOOLEAN]
           /\ queuedAt' = queuedAt /\ clock' = clock
           /\ BuildTypeOK'
<1> USE DEF TypeOK, StoreTypeOK, BuildTypeOK, DeploymentStatus, InFlight, SlotPC,
        rowVars, workerVars
<1>1. ASSUME NEW d \in Deployments, Claim(w, d)
      PROVE  /\ status' \in [Deployments -> DeploymentStatus]
             /\ hasImage' \in [Deployments -> BOOLEAN]
             /\ queuedAt' = queuedAt /\ clock' = clock
             /\ BuildTypeOK'
    BY <1>1 DEF Claim, ClaimNextQueued
<1>2. CASE FetchSource(w)
    BY <1>2 DEF FetchSource, Goto
<1>3. CASE Watchdog(w)
    BY <1>3 DEF Watchdog
<1>4. CASE BuildReturns(w)
    BY <1>4 DEF BuildReturns, Goto
<1>5. CASE RecheckStatus(w)
    BY <1>5 DEF RecheckStatus, Goto, Release
<1>6. CASE MarkFailed(w)
    BY <1>6 DEF MarkFailed, MarkDeploymentStatus, Release
<1>7. CASE SetImage(w)
    BY <1>7 DEF SetImage, SetDeploymentImage, Goto
<1>8. CASE HandOff(w)
    BY <1>8 DEF HandOff, TryAdvanceDeploymentStatus, Release
<1> QED
    BY <1>1, <1>2, <1>3, <1>4, <1>5, <1>6, <1>7, <1>8 DEF WorkerStep

\* A slot is busy exactly when it holds a deployment.
WorkerHolds == \A w \in Slots : wpc[w] = "idle" <=> wdep[w] = NoDep

\* The tick goroutine is past the head of handle() exactly when it holds one.
TickHolds == rpc \in {"idle", "next"} <=> rdep = NoDep

LEMMA HoldsWorker ==
    ASSUME TypeOK, WorkerHolds, NEW w \in Slots, WorkerStep(w)
    PROVE  WorkerHolds'
<1> USE ConstantsOK DEF Assumptions, TypeOK, BuildTypeOK, SlotPC, WorkerHolds, rowVars,
        workerVars
<1>1. ASSUME NEW d \in Deployments, Claim(w, d) PROVE WorkerHolds'
    BY <1>1 DEF Claim
<1>2. CASE FetchSource(w)
    BY <1>2 DEF FetchSource, Goto
<1>3. CASE Watchdog(w)
    BY <1>3 DEF Watchdog
<1>4. CASE BuildReturns(w)
    BY <1>4 DEF BuildReturns, Goto
<1>5. CASE RecheckStatus(w)
    BY <1>5 DEF RecheckStatus, Goto, Release
<1>6. CASE MarkFailed(w)
    BY <1>6 DEF MarkFailed, Release
<1>7. CASE SetImage(w)
    BY <1>7 DEF SetImage, Goto
<1>8. CASE HandOff(w)
    BY <1>8 DEF HandOff, Release
<1> QED
    BY <1>1, <1>2, <1>3, <1>4, <1>5, <1>6, <1>7, <1>8 DEF WorkerStep

TickTypeOK ==
    /\ rpc \in TickPC
    /\ todo \in SUBSET Entry
    /\ rdep \in Deployments \union {NoDep}
    /\ TickHolds

ClusterTypeOK ==
    /\ spec \in [Projects -> Deployments \union {NoDep}]
    /\ pod \in [Projects -> [dep : Deployments \union {NoDep}, st : PodState]]
    /\ oldReady \in [Projects -> BOOLEAN]
    /\ ingress \in [Projects -> {"none", "bare", "gated"}]
    /\ secrets \in SUBSET Projects
    /\ applied \in SUBSET Deployments

\* Everything a step of the tick may change.
TickFrame ==
    /\ StoreTypeOK
    /\ TickTypeOK
    /\ ClusterTypeOK

LEMMA TypeTick ==
    ASSUME TypeOK, TickHolds, TickStep
    PROVE  TickFrame'
<1> USE ConstantsOK DEF Assumptions, TypeOK, StoreTypeOK, ReconcilerTypeOK, TickTypeOK,
        ClusterTypeOK, TickFrame, TickHolds, DeploymentStatus, InFlight, ProjectStatus,
        TickPC, rowVars, projectVars, clusterVars, podVars, GotoTick, Handled
<1>a. CASE Tick /\ UNCHANGED projectVars
  <2>1. PICK T \in SUBSET TickRows \ {{}} :
            todo' = {[dep |-> d, st |-> status[d], at |-> queuedAt[d]] : d \in T}
    BY <1>a DEF Tick
  <2>2. todo' \in SUBSET Entry
    BY <2>1 DEF TickRows, Entry
  <2> QED
    BY <1>a, <2>2 DEF Tick
<1>b. CASE EndTick /\ UNCHANGED projectVars
    BY <1>b DEF EndTick
<1>c. ASSUME NEW e \in todo, HandleEntry(e) /\ UNCHANGED projectVars
      PROVE  TickFrame'
  <2>1. e.dep \in Deployments
    BY DEF Entry
  <2> QED
    BY <1>c, <2>1 DEF HandleEntry
<1>d. CASE PrepareEnv /\ UNCHANGED projectVars
    BY <1>d DEF PrepareEnv, Proj
<1>e. CASE MarkDeploying /\ UNCHANGED projectVars
    BY <1>e DEF MarkDeploying, MarkDeploymentStatus
<1>f. CASE ApplyManifests /\ UNCHANGED projectVars
  <2>1. rdep \in Deployments /\ StoreTypeOK' /\ TickTypeOK'
    BY <1>f DEF ApplyManifests
  <2>2. UNCHANGED <<pod, oldReady, secrets>>
    BY <1>f DEF ApplyManifests
  <2>3. spec' = spec \/ spec' = [spec EXCEPT ![Proj] = rdep]
    BY <1>f DEF ApplyManifests
  <2>4. spec' \in [Projects -> Deployments \union {NoDep}]
    BY <2>1, <2>3
  <2>5. applied' \in SUBSET Deployments
    BY <1>f, <2>1 DEF ApplyManifests
  <2>6. ingress' \in [Projects -> {"none", "bare", "gated"}]
    BY <1>f DEF ApplyManifests
  <2> QED
    BY <2>1, <2>2, <2>4, <2>5, <2>6
<1>g. CASE SyncIngress /\ UNCHANGED projectVars
    BY <1>g DEF SyncIngress, Proj
<1>h. CASE Probe /\ UNCHANGED projectVars
    BY <1>h DEF Probe
<1>i. CASE MarkRunning /\ UNCHANGED projectVars
    BY <1>i DEF MarkRunning, MarkDeploymentStatus
<1>j. CASE SupersedeSiblings /\ UNCHANGED projectVars
    BY <1>j DEF SupersedeSiblings, SupersedeRunningSiblings, SupersedeSet
<1>k. CASE FailDeployment /\ UNCHANGED projectVars
    BY <1>k DEF FailDeployment, MarkDeploymentStatus
<1>l. CASE TouchProject
    BY <1>l DEF TouchProject, UpdateProjectStatus
<1> QED
    BY <1>a, <1>b, <1>c, <1>d, <1>e, <1>f, <1>g, <1>h, <1>i, <1>j, <1>k, <1>l
    DEF TickStep

LEMMA TypeHealth ==
    ASSUME TypeOK, HealthStep
    PROVE  /\ health' \in SUBSET ProjectRow
           /\ hwrite' \in SUBSET ProjectRow
           /\ live' = live
           /\ projectStatus' \in [Projects -> ProjectStatus]
           /\ UNCHANGED clusterVars
<1> USE DEF TypeOK, StoreTypeOK, ReconcilerTypeOK, projectVars
<1>1. CASE HealthList
    BY <1>1 DEF HealthList, ProjectRow
<1>2. ASSUME NEW r \in health, HealthProbe(r)
      PROVE  /\ health' \in SUBSET ProjectRow
             /\ hwrite' \in SUBSET ProjectRow
             /\ UNCHANGED projectVars
             /\ UNCHANGED clusterVars
    BY <1>2 DEF HealthProbe, ProjectRow, ProjectStatus
<1>3. ASSUME NEW r \in hwrite, HealthWrite(r)
      PROVE  /\ health' = health
             /\ hwrite' \in SUBSET ProjectRow
             /\ live' = live
             /\ projectStatus' \in [Projects -> ProjectStatus]
             /\ UNCHANGED clusterVars
    BY <1>3 DEF HealthWrite, UpdateProjectStatus, ProjectRow
<1> QED
    BY <1>1, <1>2, <1>3 DEF HealthStep

LEMMA TypeCluster ==
    ASSUME TypeOK, NEW p \in Projects, ClusterStep(p)
    PROVE  ClusterTypeOK'
<1> USE DEF TypeOK, ReconcilerTypeOK, ClusterTypeOK, SetPod, PodState, Ready
<1>1. CASE Rollout(p)
  <2>1. Ready(p) \in BOOLEAN
    OBVIOUS
  <2>2. oldReady' \in [Projects -> BOOLEAN]
    BY <1>1, <2>1 DEF Rollout
  <2>3. pod' \in [Projects -> [dep : Deployments \union {NoDep}, st : PodState]]
    BY <1>1 DEF Rollout
  <2> QED
    BY <1>1, <2>2, <2>3 DEF Rollout
<1>2. CASE PodSettles(p)
  <2>1. pod' \in [Projects -> [dep : Deployments \union {NoDep}, st : PodState]]
    BY <1>2 DEF PodSettles
  <2> QED
    BY <1>2, <2>1 DEF PodSettles
<1>3. CASE PodBreaks(p)
  <2>1. pod' \in [Projects -> [dep : Deployments \union {NoDep}, st : PodState]]
    BY <1>3 DEF PodBreaks
  <2>2. oldReady' \in [Projects -> BOOLEAN]
    BY <1>3 DEF PodBreaks
  <2> QED
    BY <1>3, <2>1, <2>2 DEF PodBreaks
<1> QED
    BY <1>1, <1>2, <1>3 DEF ClusterStep

LEMMA TypeFault ==
    ASSUME TypeOK, TickHolds, WorkerHolds, Fault
    PROVE  /\ StoreTypeOK'
           /\ BuildTypeOK'
           /\ ReconcilerTypeOK'
           /\ ApiTypeOK'
           /\ faults' \in 0 .. MaxFaults
           /\ TickHolds'
           /\ WorkerHolds'
<1> USE ConstantsOK DEF Assumptions, TypeOK, StoreTypeOK, BuildTypeOK, ReconcilerTypeOK,
        ApiTypeOK, TickHolds, WorkerHolds, rowVars, projectVars, workerVars, tickVars,
        healthVars, clusterVars, podVars, apiVars, Fault
<1>1. faults' \in 0 .. MaxFaults
    OBVIOUS
<1>2. CASE WorkerFault
  <2>1. ASSUME NEW w \in Slots, SetImageError(w)
        PROVE  BuildTypeOK' /\ WorkerHolds' /\ UNCHANGED rowVars
    BY <2>1 DEF SetImageError, Goto, SlotPC
  <2>2. ASSUME NEW w \in Slots, DroppedWrite(w)
        PROVE  BuildTypeOK' /\ WorkerHolds' /\ UNCHANGED rowVars
    BY <2>2 DEF DroppedWrite, Release, SlotPC
  <2>3. ASSUME BuildServiceRestart
        PROVE  BuildTypeOK' /\ WorkerHolds' /\ UNCHANGED rowVars
    BY <2>3 DEF BuildServiceRestart, SlotPC
  <2>4. BuildTypeOK' /\ WorkerHolds' /\ UNCHANGED rowVars
    BY <1>2, <2>1, <2>2, <2>3 DEF WorkerFault
  <2> QED
    BY <1>1, <1>2, <2>4 DEF WorkerFault
<1>3. CASE ControlPlaneFault
  <2>1. CASE ClientGone
    <3>1. upload' \in [Deployments -> {"idle", "accepted", "queued"}]
      BY <2>1 DEF ClientGone
    <3>2. uploads' = uploads
      BY <2>1 DEF ClientGone
    <3>3. delete' \in [Projects -> {"idle", "cluster", "sidecars", "row"}]
      BY <2>1 DEF ClientGone
    <3> QED
      BY <1>1, <1>3, <2>1, <3>1, <3>2, <3>3 DEF ClientGone, ControlPlaneFault
  <2>2. CASE CleanupFails
    BY <1>1, <1>3, <2>2 DEF CleanupFails, ControlPlaneFault
  <2>3. CASE ControlPlaneRestart
    BY <1>1, <1>3, <2>3 DEF ControlPlaneRestart, ReconcilerRestart, ControlPlaneFault, TickPC
  <2>4. CASE LostWrite /\ UNCHANGED <<healthVars, apiVars>>
    BY <1>1, <1>3, <2>4 DEF LostWrite, ControlPlaneFault, GotoTick, Handled, TickPC
  <2> QED
    BY <1>1, <1>3, <2>1, <2>2, <2>3, <2>4 DEF ControlPlaneFault
<1>4. CASE ClusterFault
  <2>1. pod' \in [Projects -> [dep : Deployments \union {NoDep}, st : PodState]]
    BY <1>4 DEF ClusterFault, PodRestarts, SetPod, PodState
  <2> QED
    BY <1>1, <1>4, <2>1 DEF ClusterFault, PodRestarts
<1> QED
    BY <1>2, <1>3, <1>4

LEMMA TypeLost ==
    ASSUME TypeOK, Fault
    PROVE  lost' \in SUBSET Deployments /\ skipped' \in SUBSET Projects
<1> USE DEF TypeOK, BuildTypeOK, ReconcilerTypeOK, Lose
<1>1. CASE WorkerFault
    BY <1>1 DEF WorkerFault
<1>2. CASE ControlPlaneFault
    BY <1>2 DEF ControlPlaneFault, ClientGone, CleanupFails, ControlPlaneRestart
<1>3. CASE ClusterFault
    BY <1>3 DEF ClusterFault
<1> QED
    BY <1>1, <1>2, <1>3 DEF Fault

LEMMA TypeHistory ==
    ASSUME TypeOK, Next
    PROVE  /\ lost' \in SUBSET Deployments
           /\ skipped' \in SUBSET Projects
           /\ overlapped' \in SUBSET Projects
<1>1. overlapped' \in SUBSET Projects
    BY DEF Next, History, Overlap, TypeOK
<1>2. CASE Fault
    BY <1>1, <1>2, TypeLost
<1>3. CASE ~Fault
  <2>1. lost' = lost
    BY <1>3 DEF Next, ApiNext, WorkerNext, TickNext, HealthNext, ClusterNext, faultVars
  <2>2. skipped' \subseteq skipped
    BY <1>3 DEF Next, ApiNext, WorkerNext, TickNext, HealthNext, ClusterNext, DeleteStep,
                DeleteAccepted, DeleteNamespace, DeleteSidecars, DeleteRow
  <2> QED
    BY <1>1, <2>1, <2>2 DEF TypeOK
<1> QED
    BY <1>2, <1>3

TypeInv == TypeOK /\ TickHolds /\ WorkerHolds

LEMMA TypeStep ==
    ASSUME TypeInv, [Next]_vars
    PROVE  TypeInv'
<1> USE DEF TypeInv, faultVars
<1>1. ASSUME Next, StoreTypeOK', BuildTypeOK', ReconcilerTypeOK', ApiTypeOK',
             faults' \in 0 .. MaxFaults, TickHolds', WorkerHolds'
      PROVE  TypeInv'
    BY <1>1, TypeHistory DEF TypeOK
<1>2. ASSUME Next, NEW d \in Deployments, UploadStep(d),
             UNCHANGED <<projectVars, workerVars, tickVars, healthVars, clusterVars, faultVars>>
      PROVE  TypeInv'
  <2>1. StoreTypeOK'
    BY <1>2, TypeUpload DEF TypeOK, StoreTypeOK, projectVars
  <2>2. BuildTypeOK' /\ WorkerHolds'
    BY <1>2 DEF TypeOK, BuildTypeOK, WorkerHolds, workerVars
  <2>3. ReconcilerTypeOK' /\ TickHolds'
    BY <1>2 DEF TypeOK, ReconcilerTypeOK, TickHolds, tickVars, healthVars, clusterVars, podVars
  <2> QED
    BY <1>1, <1>2, <2>1, <2>2, <2>3, TypeUpload DEF TypeOK
<1>3. ASSUME Next, NEW p \in Projects, DeleteStep(p),
             UNCHANGED <<rowVars, workerVars, tickVars, healthVars, faultVars>>
      PROVE  TypeInv'
  <2>1. StoreTypeOK'
    BY <1>3, TypeDelete DEF TypeOK, StoreTypeOK, rowVars
  <2>2. BuildTypeOK' /\ WorkerHolds'
    BY <1>3 DEF TypeOK, BuildTypeOK, WorkerHolds, workerVars
  <2>3. ReconcilerTypeOK' /\ TickHolds'
    BY <1>3, TypeDelete DEF TypeOK, ReconcilerTypeOK, TickHolds, tickVars, healthVars
  <2> QED
    BY <1>1, <1>3, <2>1, <2>2, <2>3, TypeDelete DEF TypeOK
<1>4. ASSUME Next, NEW w \in Slots, WorkerNext(w)
      PROVE  TypeInv'
  <2>1. StoreTypeOK' /\ BuildTypeOK'
    BY <1>4, TypeWorker DEF WorkerNext, TypeOK, StoreTypeOK, projectVars
  <2>2. WorkerHolds'
    BY <1>4, HoldsWorker DEF WorkerNext
  <2>3. ReconcilerTypeOK' /\ TickHolds' /\ ApiTypeOK' /\ faults' = faults
    BY <1>4 DEF WorkerNext, TypeOK, ReconcilerTypeOK, ApiTypeOK, TickHolds, tickVars,
                healthVars, clusterVars, podVars, apiVars
  <2> QED
    BY <1>1, <1>4, <2>1, <2>2, <2>3 DEF TypeOK
<1>5. ASSUME Next, TickNext
      PROVE  TypeInv'
  <2>1. TickFrame'
    BY <1>5, TypeTick DEF TickNext
  <2>2. BuildTypeOK' /\ WorkerHolds' /\ ApiTypeOK' /\ faults' = faults
    BY <1>5 DEF TickNext, TypeOK, BuildTypeOK, ApiTypeOK, WorkerHolds, workerVars, apiVars
  <2>3. ReconcilerTypeOK' /\ TickHolds'
    BY <1>5, <2>1 DEF TickNext, TypeOK, ReconcilerTypeOK, TickFrame, TickTypeOK,
                      ClusterTypeOK, healthVars
  <2> QED
    BY <1>1, <1>5, <2>1, <2>2, <2>3 DEF TypeOK, TickFrame
<1>6. ASSUME Next, HealthNext
      PROVE  TypeInv'
  <2>1. StoreTypeOK'
    BY <1>6, TypeHealth DEF HealthNext, TypeOK, StoreTypeOK, rowVars
  <2>2. BuildTypeOK' /\ WorkerHolds' /\ ApiTypeOK' /\ faults' = faults
    BY <1>6 DEF HealthNext, TypeOK, BuildTypeOK, ApiTypeOK, WorkerHolds, workerVars, apiVars
  <2>3. ReconcilerTypeOK' /\ TickHolds'
    BY <1>6, TypeHealth DEF HealthNext, TypeOK, ReconcilerTypeOK, TickHolds, tickVars,
                            clusterVars, podVars
  <2> QED
    BY <1>1, <1>6, <2>1, <2>2, <2>3 DEF TypeOK
<1>7. ASSUME Next, NEW p \in Projects, ClusterNext(p)
      PROVE  TypeInv'
  <2>1. StoreTypeOK' /\ BuildTypeOK' /\ WorkerHolds' /\ ApiTypeOK' /\ faults' = faults
    BY <1>7 DEF ClusterNext, TypeOK, StoreTypeOK, BuildTypeOK, ApiTypeOK, WorkerHolds,
                rowVars, projectVars, workerVars, apiVars
  <2>2. ReconcilerTypeOK' /\ TickHolds'
    BY <1>7, TypeCluster DEF ClusterNext, TypeOK, ReconcilerTypeOK, ClusterTypeOK,
                             TickHolds, tickVars, healthVars
  <2> QED
    BY <1>1, <1>7, <2>1, <2>2 DEF TypeOK
<1>8. ASSUME Next, Fault
      PROVE  TypeInv'
    BY <1>1, <1>8, TypeFault
<1>9. CASE UNCHANGED vars
    BY <1>9 DEF vars, TypeOK, StoreTypeOK, BuildTypeOK, ReconcilerTypeOK, ApiTypeOK,
                TickHolds, WorkerHolds, rowVars, projectVars, workerVars, tickVars,
                healthVars, clusterVars, podVars, apiVars
<1> QED
    BY <1>2, <1>3, <1>4, <1>5, <1>6, <1>7, <1>8, <1>9 DEF Next, ApiNext

LEMMA Typed == Spec => []TypeInv
<1>1. Init => TypeInv
    BY TypeInit DEF TypeInv, TickHolds, WorkerHolds, Init, ReconcilerInit, BuildInit
<1>2. TypeInv /\ [Next]_vars => TypeInv'
    BY TypeStep
<1> QED
    BY <1>1, <1>2, PTL DEF Spec

\* The variables keep their types, whatever the number of deployments, projects,
\* slots, retries and faults.
THEOREM TypeCorrect == Spec => []TypeOK
BY Typed, PTL DEF TypeInv
================================================================================
