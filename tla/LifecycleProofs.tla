----------------------------- MODULE LifecycleProofs -----------------------------
(***************************************************************************)
(* DeployPipeline implements DeployLifecycle, for every number of upload   *)
(* requests per deployment.  On top of OwnerInv the proof needs to know    *)
(* which status a row that was reported once may have at each point of the *)
(* tick, and that the tick holds a row only once.                          *)
(***************************************************************************)
EXTENDS DeploySafetyProofs

Once(d) == uploads[d] <= 1

LifeInv ==
    /\ \A e \in todo :
        /\ Once(e.dep) => status[e.dep] \in {"pushing", "deploying", "superseded"}
        /\ e.dep # rdep
    /\ \A e, f \in todo : e.dep = f.dep => e = f
    /\ rpc \in {"prepare", "mark", "apply", "sync", "probe", "ready", "fail"} =>
        (Once(rdep) => status[rdep] \in {"pushing", "deploying", "superseded"})
    /\ rpc \in {"siblings", "project"} =>
        (Once(rdep) => status[rdep] \in {"pushing", "deploying", "running", "superseded"})

Known == TypeInv /\ OwnerInv /\ LifeInv

LEMMA OnceAll ==
    ASSUME Known, NEW d \in Deployments, Once(d)
    PROVE  /\ upload[d] = "accepted" => status[d] = "pending"
           /\ HeldByWorker(d) => status[d] \in {"building", "superseded"}
           /\ HeldByTick(d) =>
                status[d] \in {"pushing", "deploying", "running", "failed", "superseded"}
           /\ ~(HeldByWorker(d) /\ HeldByTick(d))
BY DEF Known, OwnerInv, HeldByWorker, Once

\* A report makes no deployment a once-reported one.
LEMMA OnceUpload ==
    ASSUME TypeInv, NEW d \in Deployments, UploadStep(d)
    PROVE  /\ \A e \in Deployments : Once(e)' => Once(e)
           /\ \A e \in Deployments \ {d} : uploads'[e] = uploads[e]
           /\ uploads' = uploads \/ (UploadedAccepted(d) /\ status' = status)
BY DEF TypeInv, TypeOK, ApiTypeOK, UploadStep, Create, UploadedAccepted, UploadedQueues,
       UploadedSupersedes, Once, apiVars, rowVars

LEMMA LifeUpload ==
    ASSUME Known, NEW d \in Deployments, UploadStep(d),
           UNCHANGED <<workerVars, tickVars, applied, lost>>
    PROVE  LifeInv'
<1>t. /\ status \in [Deployments -> DeploymentStatus]
      /\ \A e \in todo : e.dep \in Deployments
      /\ rpc \notin {"idle", "next"} => rdep \in Deployments
    BY DEF Known, TypeInv, TypeOK, StoreTypeOK, ReconcilerTypeOK, TickHolds, Entry
<1>0. UNCHANGED <<rpc, todo, rdep>>
    BY DEF tickVars
<1>1. \A e \in Deployments :
        HeldByTick(e) /\ Once(e)' =>
            Once(e) /\ (status'[e] = status[e] \/ status'[e] = "superseded")
  <2> SUFFICES ASSUME NEW e \in Deployments, HeldByTick(e), Once(e)'
               PROVE  Once(e) /\ (status'[e] = status[e] \/ status'[e] = "superseded")
    OBVIOUS
  <2>1. Once(e)
    BY OnceUpload DEF Known
  <2>2. /\ upload[e] = "accepted" => status[e] = "pending"
        /\ status[e] \in {"pushing", "deploying", "running", "failed", "superseded"}
    BY <2>1, OnceAll
  <2>3. CASE Create(d)
    BY <1>t, <2>1, <2>2, <2>3 DEF Create, CreateDeployment
  <2>4. CASE UploadedAccepted(d)
    BY <2>1, <2>4 DEF UploadedAccepted, rowVars
  <2>5. CASE UploadedQueues(d)
    BY <1>t, <2>1, <2>2, <2>5 DEF UploadedQueues, MarkDeploymentQueued
  <2>6. CASE UploadedSupersedes(d)
    BY <2>1, <2>6 DEF UploadedSupersedes, SupersedeOlderDeployments, SupersedeSet
  <2> QED
    BY <2>3, <2>4, <2>5, <2>6 DEF UploadStep
<1>2. \A e \in todo : HeldByTick(e.dep)
    BY <1>t DEF HeldByTick
<1>3. rpc \notin {"idle", "next"} => HeldByTick(rdep)
    BY DEF HeldByTick
<1> QED
    BY <1>t, <1>0, <1>1, <1>2, <1>3 DEF Known, LifeInv

LEMMA LifeWorker ==
    ASSUME Known, NEW w \in Slots, WorkerNext(w)
    PROVE  LifeInv'
<1>t. /\ \A e \in todo : e.dep \in Deployments
      /\ rpc \notin {"idle", "next"} => rdep \in Deployments
      /\ status \in [Deployments -> DeploymentStatus]
      /\ wpc[w] # "idle" => wdep[w] \in Deployments
    BY DEF Known, TypeInv, TypeOK, StoreTypeOK, BuildTypeOK, ReconcilerTypeOK, TickHolds, Entry,
           WorkerHolds
<1>0. UNCHANGED <<rpc, todo, rdep, uploads>> /\ WorkerStep(w)
    BY DEF WorkerNext, tickVars, apiVars
<1>1. \A d \in Deployments : HeldByTick(d) /\ Once(d) => status'[d] = status[d]
  <2>1. \A d \in Deployments : HeldByTick(d) /\ Once(d) => status[d] # "queued" /\ wdep[w] # d
    BY OnceAll DEF HeldByWorker
  <2>2. ASSUME NEW d \in Deployments, Claim(w, d)
        PROVE  \A e \in Deployments : HeldByTick(e) /\ Once(e) => status'[e] = status[e]
    BY <1>t, <2>1, <2>2 DEF Claim, ClaimNextQueued, NextQueued
  <2> QED
    BY <1>t, <1>0, <2>1, <2>2
    DEF WorkerStep, FetchSource, Watchdog, BuildReturns, RecheckStatus, MarkFailed,
        MarkDeploymentStatus, SetImage, HandOff, TryAdvanceDeploymentStatus, rowVars
<1>2. \A e \in todo : HeldByTick(e.dep)
    BY <1>t DEF HeldByTick
<1>3. rpc \notin {"idle", "next"} => HeldByTick(rdep)
    BY DEF HeldByTick
<1> QED
    BY <1>t, <1>0, <1>1, <1>2, <1>3 DEF Known, LifeInv, Once

LEMMA LifeTick ==
    ASSUME Known, TickNext
    PROVE  LifeInv'
<1> USE ConstantsOK DEF Assumptions, Known, TypeInv, TypeOK, StoreTypeOK, ReconcilerTypeOK,
        LifeInv, rowVars, GotoTick, Handled, TickHolds, Entry, Once
<1>0. TickStep /\ uploads' = uploads
    BY DEF TickNext, apiVars
<1>a. CASE Tick
  <2>1. PICK T \in SUBSET TickRows \ {{}} :
            todo' = {[dep |-> d, st |-> status[d], at |-> queuedAt[d]] : d \in T}
    BY <1>a DEF Tick
  <2>2. \A e \in todo' : e.dep \in Deployments /\ status[e.dep] \in {"pushing", "deploying"}
    BY <2>1 DEF TickRows
  <2>3. \A e, f \in todo' : e.dep = f.dep => e = f
    BY <2>1
  <2> QED
    BY <1>a, <2>2, <2>3 DEF Tick
<1>b. CASE EndTick
    BY <1>0, <1>b DEF EndTick
<1>c. ASSUME NEW e \in todo, HandleEntry(e) PROVE LifeInv'
    BY <1>0, <1>c DEF HandleEntry
<1>d. CASE PrepareEnv
    BY <1>0, <1>d DEF PrepareEnv
<1>e. CASE MarkDeploying
    BY <1>0, <1>e DEF MarkDeploying, MarkDeploymentStatus
<1>f. CASE ApplyManifests
    BY <1>0, <1>f DEF ApplyManifests
<1>g. CASE SyncIngress
    BY <1>0, <1>g DEF SyncIngress
<1>h. CASE Probe
    BY <1>0, <1>h DEF Probe
<1>i. CASE MarkRunning
    BY <1>0, <1>i DEF MarkRunning, MarkDeploymentStatus
<1>j. CASE SupersedeSiblings
    BY <1>0, <1>j DEF SupersedeSiblings, SupersedeRunningSiblings, SupersedeSet, Siblings
<1>k. CASE FailDeployment
    BY <1>0, <1>k DEF FailDeployment, MarkDeploymentStatus
<1>l. CASE TouchProject
    BY <1>0, <1>l DEF TouchProject
<1> QED
    BY <1>0, <1>a, <1>b, <1>c, <1>d, <1>e, <1>f, <1>g, <1>h, <1>i, <1>j, <1>k, <1>l
    DEF TickStep

LEMMA LifeFault ==
    ASSUME Known, Fault
    PROVE  LifeInv'
<1> USE ConstantsOK, FaultLoses DEF Assumptions, Known, LifeInv, Once, TypeInv, TypeOK,
        ReconcilerTypeOK, Entry
<1>1. CASE UNCHANGED <<rpc, todo, rdep>>
    BY <1>1
<1>2. CASE LostWrite
    BY <1>2 DEF LostWrite, GotoTick, Handled
<1>3. CASE ControlPlaneRestart
    BY <1>3 DEF ControlPlaneRestart, ReconcilerRestart
<1> QED
    BY <1>1, <1>2, <1>3 DEF Fault, WorkerFault, ControlPlaneFault, ClusterFault, ClientGone,
                            CleanupFails, tickVars

--------------------------------------------------------------------------------
(***************************************************************************)
(* The value of the refinement mapping, before and after a step.           *)
(***************************************************************************)

LEMMA StageNow ==
    ASSUME TypeInv
    PROVE  /\ stage \in [Deployments -> Lifecycle!Stage]
           /\ \A d \in Deployments :
                /\ ~Once(d) => stage[d] = "reuploaded"
                /\ Once(d) =>
                    /\ status[d] \in {"absent", "pending"} => stage[d] = "new"
                    /\ status[d] \in {"queued", "building"} => stage[d] = status[d]
                    /\ status[d] \in {"pushing", "deploying"} => stage[d] = "rollout"
                    /\ status[d] = "running" => stage[d] = "live"
                    /\ status[d] = "failed" => stage[d] = "closed"
                    /\ status[d] = "superseded" /\ HeldByWorker(d) => stage[d] = "aborting"
                    /\ status[d] = "superseded" /\ ~HeldByWorker(d) /\ HeldByTick(d)
                        => stage[d] = "rollout"
                    /\ status[d] = "superseded" /\ ~HeldByWorker(d) /\ ~HeldByTick(d)
                        => stage[d] = "closed"
BY DEF TypeInv, TypeOK, StoreTypeOK, DeploymentStatus, InFlight, stage, Lifecycle!Stage, Once,
       ApiTypeOK

LEMMA StageThen ==
    ASSUME TypeInv'
    PROVE  /\ stage' \in [Deployments -> Lifecycle!Stage]
           /\ \A d \in Deployments :
                /\ ~Once(d)' => stage'[d] = "reuploaded"
                /\ Once(d)' =>
                    /\ status'[d] \in {"absent", "pending"} => stage'[d] = "new"
                    /\ status'[d] \in {"queued", "building"} => stage'[d] = status'[d]
                    /\ status'[d] \in {"pushing", "deploying"} => stage'[d] = "rollout"
                    /\ status'[d] = "running" => stage'[d] = "live"
                    /\ status'[d] = "failed" => stage'[d] = "closed"
                    /\ status'[d] = "superseded" /\ HeldByWorker(d)' => stage'[d] = "aborting"
                    /\ status'[d] = "superseded" /\ ~HeldByWorker(d)' /\ HeldByTick(d)'
                        => stage'[d] = "rollout"
                    /\ status'[d] = "superseded" /\ ~HeldByWorker(d)' /\ ~HeldByTick(d)'
                        => stage'[d] = "closed"
BY DEF TypeInv, TypeOK, StoreTypeOK, DeploymentStatus, InFlight, stage, Lifecycle!Stage, Once,
       ApiTypeOK

(***************************************************************************)
(* A step is allowed when one deployment moves on and the others stay, or  *)
(* when every deployment stays, closes or starts to abort its build.       *)
(***************************************************************************)

Stays(d)  == stage'[d] = stage[d]
Closes(d) ==
    \/ stage[d] \notin {"new", "reuploaded"} /\ stage'[d] = "closed"
    \/ stage[d] = "building" /\ stage'[d] = "aborting"

MovesOn(d) ==
    \/ <<stage[d], stage'[d]>> \in {<<"new", "queued">>, <<"queued", "building">>,
                                    <<"building", "rollout">>, <<"rollout", "live">>}
    \/ stage[d] # "reuploaded" /\ stage'[d] = "reuploaded"

LEMMA OneMoves ==
    ASSUME TypeInv, TypeInv', NEW d \in Deployments, MovesOn(d) \/ Stays(d) \/ Closes(d),
           \A e \in Deployments \ {d} : Stays(e) \/ Closes(e),
           MovesOn(d) => \A e \in Deployments \ {d} : Stays(e)
    PROVE  [Lifecycle!Next]_stage
<1>t. stage \in [Deployments -> Lifecycle!Stage] /\ stage' \in [Deployments -> Lifecycle!Stage]
    BY StageNow, StageThen
<1>1. CASE MovesOn(d)
  <2>1. stage' = [stage EXCEPT ![d] = stage'[d]]
    BY <1>t, <1>1 DEF Stays
  <2>2. CASE stage'[d] = "reuploaded"
    BY <1>t, <1>1, <2>1, <2>2 DEF MovesOn, Lifecycle!Next, Lifecycle!Reupload, Lifecycle!Move
  <2>3. CASE stage'[d] # "reuploaded"
    BY <1>t, <1>1, <2>1, <2>3 DEF MovesOn, Lifecycle!Next, Lifecycle!Enqueue, Lifecycle!Claim,
                      Lifecycle!HandOff, Lifecycle!GoLive, Lifecycle!Move
  <2> QED
    BY <2>2, <2>3
<1>2. CASE ~MovesOn(d)
  <2> DEFINE S == {e \in Deployments : /\ stage[e] \notin {"new", "reuploaded"}
                                       /\ stage'[e] = "closed"}
             A == {e \in Deployments : stage[e] = "building" /\ stage'[e] = "aborting"}
  <2>1. \A e \in Deployments : Stays(e) \/ Closes(e)
    BY <1>2
  <2>2. stage' = [e \in Deployments |->
                    IF e \in A THEN "aborting" ELSE IF e \in S THEN "closed" ELSE stage[e]]
    BY <1>t, <2>1 DEF Stays, Closes
  <2>3. Lifecycle!Close(S, A)
    BY <2>2 DEF Lifecycle!Close
  <2> QED
    BY <2>3 DEF Lifecycle!Next
<1> QED
    BY <1>1, <1>2

LEMMA NoneMoves ==
    ASSUME TypeInv, TypeInv', \A d \in Deployments : Stays(d) \/ Closes(d)
    PROVE  [Lifecycle!Next]_stage
<1>1. CASE Deployments = {}
  <2>1. stage' = stage
    BY <1>1, StageNow, StageThen
  <2> QED
    BY <2>1
<1>2. ASSUME NEW d \in Deployments PROVE [Lifecycle!Next]_stage
  <2>1. ~MovesOn(d)
    BY StageNow, StageThen DEF Stays, Closes, MovesOn
  <2> QED
    BY <2>1, OneMoves
<1> QED
    BY <1>1, <1>2

--------------------------------------------------------------------------------
(***************************************************************************)
(* Every step of an actor, seen through the mapping.                       *)
(***************************************************************************)

\* A deployment reported more than once stays out of the picture.
LEMMA OnceKept ==
    ASSUME TypeInv, TypeInv', uploads' = uploads
    PROVE  \A d \in Deployments : (Once(d)' <=> Once(d)) /\ (~Once(d) => Stays(d))
BY StageNow, StageThen DEF Once, Stays

\* With the same rows and holders nothing moves.
LEMMA SameRows ==
    ASSUME TypeInv, TypeInv', status' = status, wdep' = wdep, uploads' = uploads,
           \A d \in Deployments :
                status[d] = "superseded" /\ HeldByTick(d)' => HeldByTick(d)
    PROVE  \A d \in Deployments : Stays(d) \/ Closes(d)
<1>1. \A d \in Deployments : HeldByWorker(d)' <=> HeldByWorker(d)
    BY DEF HeldByWorker
<1>2. status \in [Deployments -> DeploymentStatus]
    BY DEF TypeInv, TypeOK, StoreTypeOK
<1> QED
    BY <1>1, <1>2, OnceKept, StageNow, StageThen DEF Stays, Closes, DeploymentStatus, InFlight

LEMMA RefineUpload ==
    ASSUME Known, TypeInv', NEW d \in Deployments, UploadStep(d),
           UNCHANGED <<workerVars, tickVars, applied, lost>>
    PROVE  [Lifecycle!Next]_stage
<1> USE DEF Known
<1>0. /\ wdep' = wdep
      /\ \A e \in Deployments : HeldByWorker(e)' <=> HeldByWorker(e)
      /\ \A e \in Deployments : HeldByTick(e)' <=> HeldByTick(e)
    BY DEF workerVars, tickVars, HeldByWorker, HeldByTick
<1>t. status \in [Deployments -> DeploymentStatus]
    BY DEF TypeInv, TypeOK, StoreTypeOK
<1>1. CASE Create(d)
  <2>1. /\ status[d] = "absent" /\ status' = [status EXCEPT ![d] = "pending"]
        /\ uploads' = uploads
    BY <1>1 DEF Create, CreateDeployment, apiVars
  <2>2. \A e \in Deployments : Stays(e)
    BY <1>0, <1>t, <2>1, OnceKept, StageNow, StageThen DEF Stays, DeploymentStatus, InFlight
  <2> QED
    BY <2>2, NoneMoves
<1>2. CASE UploadedAccepted(d)
  <2>1. /\ status' = status
        /\ \A e \in Deployments \ {d} : uploads'[e] = uploads[e]
    BY <1>2, OnceUpload DEF UploadedAccepted, rowVars
  <2>2. \A e \in Deployments \ {d} : Stays(e)
    BY <1>0, <1>t, <2>1, StageNow, StageThen DEF Stays, DeploymentStatus, InFlight, Once
  <2>3. CASE Once(d)'
    <3>1. Once(d)
      BY <2>3, OnceUpload
    <3>2. Stays(d)
      BY <1>0, <1>t, <2>1, <2>3, <3>1, StageNow, StageThen DEF Stays, DeploymentStatus, InFlight
    <3> QED
      BY <2>2, <3>2, NoneMoves
  <2>4. CASE ~Once(d)'
    <3>1. stage'[d] = "reuploaded"
      BY <2>4, StageThen
    <3>2. MovesOn(d) \/ Stays(d)
      BY <3>1 DEF MovesOn, Stays
    <3> QED
      BY <2>2, <3>2, OneMoves
  <2> QED
    BY <2>3, <2>4
<1>3. CASE UploadedQueues(d)
  <2>1. /\ status' = [status EXCEPT ![d] = "queued"]
        /\ uploads' = uploads
        /\ Once(d) => status[d] = "pending"
    BY <1>3, OnceAll DEF UploadedQueues, MarkDeploymentQueued
  <2>2. MovesOn(d) \/ Stays(d)
    BY <1>t, <2>1, OnceKept, StageNow, StageThen DEF MovesOn
  <2>3. \A e \in Deployments \ {d} : Stays(e)
    BY <1>0, <1>t, <2>1, OnceKept, StageNow, StageThen DEF Stays, DeploymentStatus, InFlight
  <2> QED
    BY <2>2, <2>3, OneMoves
<1>4. CASE UploadedSupersedes(d)
  <2>1. /\ \A e \in Deployments :
            status'[e] = status[e] \/ (status[e] \in InFlight /\ status'[e] = "superseded")
        /\ uploads' = uploads
    BY <1>4 DEF UploadedSupersedes, SupersedeOlderDeployments, SupersedeSet
  <2> SUFFICES ASSUME NEW e \in Deployments, Once(e) PROVE Stays(e) \/ Closes(e)
    BY <2>1, OnceKept, NoneMoves
  <2>2. Once(e)'
    BY <2>1, OnceKept
  <2>3. /\ HeldByWorker(e) => status[e] \in {"building", "superseded"}
        /\ HeldByTick(e) =>
            status[e] \in {"pushing", "deploying", "running", "failed", "superseded"}
        /\ ~(HeldByWorker(e) /\ HeldByTick(e))
    BY OnceAll
  <2>4. CASE status'[e] = status[e]
    BY <1>0, <1>t, <2>2, <2>4, StageNow, StageThen DEF Stays, DeploymentStatus, InFlight
  <2>5. CASE status[e] \in InFlight /\ status'[e] = "superseded"
    BY <1>0, <1>t, <2>2, <2>3, <2>5, StageNow, StageThen DEF Stays, Closes, InFlight
  <2> QED
    BY <2>1, <2>4, <2>5
<1> QED
    BY <1>1, <1>2, <1>3, <1>4 DEF UploadStep

\* A worker lets go of a row that is superseded or that it has just failed.
LEMMA ReleaseCloses ==
    ASSUME Known, TypeInv', NEW w \in Slots, Release(w), wdep[w] \in Deployments,
           UNCHANGED <<todo, rdep, uploads>>,
           \A e \in Deployments \ {wdep[w]} : status'[e] = status[e],
           \/ status'[wdep[w]] = "failed"
           \/ status'[wdep[w]] = status[wdep[w]]
    PROVE  [Lifecycle!Next]_stage
<1>d. PICK d \in Deployments : d = wdep[w]
    OBVIOUS
<1> USE <1>d DEF Known
<1>t. status \in [Deployments -> DeploymentStatus]
    BY DEF TypeInv, TypeOK, StoreTypeOK
<1>1. \A e \in Deployments : HeldByTick(e)' <=> HeldByTick(e)
    BY DEF HeldByTick
<1>2. \A e \in Deployments \ {d} : HeldByWorker(e)' <=> HeldByWorker(e)
    BY ConstantsOK DEF Release, HeldByWorker, TypeInv, TypeOK, BuildTypeOK, Assumptions
<1>3. \A e \in Deployments \ {d} : Stays(e)
    BY <1>t, <1>1, <1>2, OnceKept, StageNow, StageThen DEF Stays, DeploymentStatus, InFlight
<1>4. CASE Once(d)
  <2>1. HeldByWorker(d) /\ ~HeldByTick(d) /\ status[d] \in {"building", "superseded"}
    BY <1>4, OnceAll DEF HeldByWorker
  <2>2. Once(d)'
    BY <1>4, OnceKept
  <2>3. Stays(d) \/ Closes(d)
    BY <1>t, <1>1, <1>4, <2>1, <2>2, StageNow, StageThen
    DEF Stays, Closes, DeploymentStatus, InFlight
  <2> QED
    BY <1>3, <2>3, NoneMoves
<1>5. CASE ~Once(d)
    BY <1>3, <1>5, OnceKept, NoneMoves
<1> QED
    BY <1>4, <1>5

LEMMA RefineWorker ==
    ASSUME Known, TypeInv', NEW w \in Slots, WorkerNext(w)
    PROVE  [Lifecycle!Next]_stage
<1> USE DEF Known
<1>0. UNCHANGED <<todo, rdep, uploads>> /\ WorkerStep(w)
    BY DEF WorkerNext, tickVars, apiVars
<1>t. /\ status \in [Deployments -> DeploymentStatus]
      /\ wpc[w] # "idle" => wdep[w] \in Deployments
    BY DEF TypeInv, TypeOK, StoreTypeOK, BuildTypeOK, WorkerHolds
<1>h. \A e \in Deployments : HeldByTick(e)' <=> HeldByTick(e)
    BY <1>0 DEF HeldByTick
<1>1. ASSUME NEW d \in Deployments, Claim(w, d) PROVE [Lifecycle!Next]_stage
  <2>1. status[d] = "queued" /\ status' = [status EXCEPT ![d] = "building"]
    BY <1>1 DEF Claim, ClaimNextQueued, NextQueued
  <2>2. \A e \in Deployments \ {d} : HeldByWorker(e)' <=> HeldByWorker(e)
    BY <1>1, ConstantsOK
    DEF Claim, HeldByWorker, TypeInv, TypeOK, BuildTypeOK, WorkerHolds, Assumptions
  <2>3. MovesOn(d) \/ Stays(d)
    BY <1>0, <1>t, <2>1, OnceKept, StageNow, StageThen DEF MovesOn
  <2>4. \A e \in Deployments \ {d} : Stays(e)
    BY <1>0, <1>t, <1>h, <2>1, <2>2, OnceKept, StageNow, StageThen
    DEF Stays, DeploymentStatus, InFlight
  <2> QED
    BY <2>3, <2>4, OneMoves
<1>2. CASE FetchSource(w) \/ Watchdog(w) \/ BuildReturns(w) \/ SetImage(w)
  <2>1. status' = status /\ wdep' = wdep
    BY <1>2 DEF FetchSource, Watchdog, BuildReturns, SetImage, Goto, rowVars
  <2> QED
    BY <1>0, <1>h, <2>1, SameRows, NoneMoves
<1>3. CASE RecheckStatus(w)
  <2>1. CASE Release(w)
    BY <1>0, <1>t, <1>3, <2>1, ReleaseCloses DEF RecheckStatus, rowVars
  <2>2. CASE Goto(w, "fail")
    BY <1>0, <1>h, <1>3, <2>2, SameRows, NoneMoves DEF RecheckStatus, Goto, rowVars
  <2> QED
    BY <1>3, <2>1, <2>2 DEF RecheckStatus
<1>4. CASE MarkFailed(w)
    BY <1>0, <1>t, <1>4, ReleaseCloses DEF MarkFailed, MarkDeploymentStatus
<1>5. CASE HandOff(w)
  <2> DEFINE d == wdep[w]
  <2>1. Release(w) /\ d \in Deployments
    BY <1>5, <1>t DEF HandOff
  <2>2. CASE status[d] # "building"
    BY <1>0, <1>5, <2>1, <2>2, ReleaseCloses DEF HandOff, TryAdvanceDeploymentStatus
  <2>3. CASE status[d] = "building"
    <3>1. status' = [status EXCEPT ![d] = "pushing"]
      BY <1>5, <2>3 DEF HandOff, TryAdvanceDeploymentStatus
    <3>2. \A e \in Deployments \ {d} : HeldByWorker(e)' <=> HeldByWorker(e)
      BY <2>1, ConstantsOK DEF Release, HeldByWorker, TypeInv, TypeOK, BuildTypeOK, Assumptions
    <3>3. MovesOn(d) \/ Stays(d)
      BY <1>0, <1>t, <2>1, <2>3, <3>1, OnceKept, StageNow, StageThen DEF MovesOn
    <3>4. \A e \in Deployments \ {d} : Stays(e)
      BY <1>0, <1>t, <1>h, <3>1, <3>2, OnceKept, StageNow, StageThen
      DEF Stays, DeploymentStatus, InFlight
    <3> QED
      BY <2>1, <3>3, <3>4, OneMoves
  <2> QED
    BY <2>2, <2>3
<1> QED
    BY <1>0, <1>1, <1>2, <1>3, <1>4, <1>5 DEF WorkerStep

\* The tick lets go of the row it handles, whose status is what it was.
LEMMA HandledCloses ==
    ASSUME Known, TypeInv', Handled, UNCHANGED <<status, wdep, uploads>>
    PROVE  [Lifecycle!Next]_stage
<1>1. \A d \in Deployments : HeldByTick(d)' => HeldByTick(d)
    BY ConstantsOK DEF Handled, HeldByTick, Assumptions
<1> QED
    BY <1>1, SameRows, NoneMoves DEF Known

LEMMA RefineTick ==
    ASSUME Known, TypeInv', TickNext
    PROVE  [Lifecycle!Next]_stage
<1> USE DEF Known
<1>0. wdep' = wdep /\ uploads' = uploads /\ TickStep
    BY DEF TickNext, workerVars, apiVars
<1>t. /\ status \in [Deployments -> DeploymentStatus]
      /\ rpc \notin {"idle", "next"} => rdep \in Deployments
    BY DEF TypeInv, TypeOK, StoreTypeOK, ReconcilerTypeOK, TickHolds
<1>w. \A d \in Deployments : HeldByWorker(d)' <=> HeldByWorker(d)
    BY <1>0 DEF HeldByWorker
<1>a. CASE Tick
  <2>1. PICK T \in SUBSET TickRows \ {{}} :
            todo' = {[dep |-> d, st |-> status[d], at |-> queuedAt[d]] : d \in T}
    BY <1>a DEF Tick
  <2>2. \A e \in todo' : status[e.dep] \in {"pushing", "deploying"}
    BY <2>1 DEF TickRows
  <2>3. status' = status /\ rdep' = rdep
    BY <1>a DEF Tick, rowVars
  <2>4. \A d \in Deployments : status[d] = "superseded" /\ HeldByTick(d)' => HeldByTick(d)
    BY <2>2, <2>3 DEF HeldByTick
  <2> QED
    BY <1>0, <2>3, <2>4, SameRows, NoneMoves
<1>b. CASE EndTick
    BY <1>0, <1>b, SameRows, NoneMoves DEF EndTick, rowVars, HeldByTick
<1>c. ASSUME NEW e \in todo, HandleEntry(e) PROVE [Lifecycle!Next]_stage
  <2>1. \A d \in Deployments : HeldByTick(d)' => HeldByTick(d)
    BY <1>c, <1>t DEF HandleEntry, HeldByTick
  <2> QED
    BY <1>0, <1>c, <2>1, SameRows, NoneMoves DEF HandleEntry, rowVars
<1>d. CASE PrepareEnv \/ ApplyManifests
    BY <1>0, <1>d, SameRows, NoneMoves
    DEF PrepareEnv, ApplyManifests, GotoTick, rowVars, HeldByTick
<1>e. CASE MarkDeploying
  <2>1. rdep \in Deployments /\ status' = [status EXCEPT ![rdep] = "deploying"]
    BY <1>e, <1>t DEF MarkDeploying, MarkDeploymentStatus
  <2>2. \A d \in Deployments : HeldByTick(d)' <=> HeldByTick(d)
    BY <1>e DEF MarkDeploying, GotoTick, HeldByTick
  <2>3. Once(rdep) => ~HeldByWorker(rdep) /\ HeldByTick(rdep)
    BY <2>1, OnceAll DEF HeldByTick
  <2>4. Once(rdep) => status[rdep] \in {"pushing", "deploying", "superseded"}
    BY <1>e DEF MarkDeploying, LifeInv
  <2>5. Stays(rdep)
    BY <1>0, <1>t, <2>1, <2>3, <2>4, OnceKept, StageNow, StageThen DEF Stays
  <2>6. \A d \in Deployments \ {rdep} : Stays(d)
    BY <1>0, <1>t, <1>w, <2>1, <2>2, OnceKept, StageNow, StageThen
    DEF Stays, DeploymentStatus, InFlight
  <2> QED
    BY <2>5, <2>6, NoneMoves
<1>f. CASE SyncIngress
    BY <1>0, <1>f, HandledCloses DEF SyncIngress, rowVars
<1>g. CASE Probe
  <2>1. CASE Handled
    BY <1>0, <1>g, <2>1, HandledCloses DEF Probe, rowVars
  <2>2. CASE UNCHANGED <<todo, rdep>>
    BY <1>0, <1>g, <2>2, SameRows, NoneMoves DEF Probe, rowVars, HeldByTick
  <2> QED
    BY <1>g, <2>1, <2>2 DEF Probe, GotoTick
<1>h. CASE MarkRunning
  <2>1. rdep \in Deployments /\ status' = [status EXCEPT ![rdep] = "running"]
    BY <1>h, <1>t DEF MarkRunning, MarkDeploymentStatus
  <2>2. \A d \in Deployments : HeldByTick(d)' <=> HeldByTick(d)
    BY <1>h DEF MarkRunning, GotoTick, HeldByTick
  <2>3. Once(rdep) => ~HeldByWorker(rdep) /\ HeldByTick(rdep)
    BY <2>1, OnceAll DEF HeldByTick
  <2>4. Once(rdep) => status[rdep] \in {"pushing", "deploying", "superseded"}
    BY <1>h DEF MarkRunning, LifeInv
  <2>5. MovesOn(rdep) \/ Stays(rdep)
    BY <1>0, <1>t, <2>1, <2>3, <2>4, OnceKept, StageNow, StageThen DEF MovesOn
  <2>6. \A d \in Deployments \ {rdep} : Stays(d)
    BY <1>0, <1>t, <1>w, <2>1, <2>2, OnceKept, StageNow, StageThen
    DEF Stays, DeploymentStatus, InFlight
  <2> QED
    BY <2>1, <2>5, <2>6, OneMoves
<1>i. CASE SupersedeSiblings
  <2>1. \A d \in Deployments :
            \/ status'[d] = status[d]
            \/ d # rdep /\ status[d] = "running" /\ status'[d] = "superseded"
    BY <1>i DEF SupersedeSiblings, SupersedeRunningSiblings, SupersedeSet, Siblings
  <2>2. \A d \in Deployments : HeldByTick(d)' <=> HeldByTick(d)
    BY <1>i DEF SupersedeSiblings, GotoTick, HeldByTick
  <2>3. \A d \in Deployments : d # rdep /\ status[d] = "running" /\ Once(d)
            => ~HeldByWorker(d) /\ ~HeldByTick(d)
    BY OnceAll DEF LifeInv, HeldByTick
  <2>4. \A d \in Deployments : Stays(d) \/ Closes(d)
    BY <1>0, <1>t, <1>w, <2>1, <2>2, <2>3, OnceKept, StageNow, StageThen
    DEF Stays, Closes, DeploymentStatus, InFlight
  <2> QED
    BY <2>4, NoneMoves
<1>j. CASE FailDeployment
  <2>1. rdep \in Deployments /\ status' = [status EXCEPT ![rdep] = "failed"]
    BY <1>j, <1>t DEF FailDeployment, MarkDeploymentStatus
  <2>2. \A d \in Deployments \ {rdep} : HeldByTick(d)' <=> HeldByTick(d)
    BY <1>j, ConstantsOK DEF FailDeployment, Handled, HeldByTick, Assumptions
  <2>3. Once(rdep) => status[rdep] \in {"pushing", "deploying", "superseded"}
    BY <1>j DEF FailDeployment, LifeInv
  <2>4. Stays(rdep) \/ Closes(rdep)
    BY <1>0, <1>t, <2>1, <2>3, OnceKept, StageNow, StageThen DEF Stays, Closes
  <2>5. \A d \in Deployments \ {rdep} : Stays(d)
    BY <1>0, <1>t, <1>w, <2>1, <2>2, OnceKept, StageNow, StageThen
    DEF Stays, DeploymentStatus, InFlight
  <2> QED
    BY <2>4, <2>5, NoneMoves
<1>k. CASE TouchProject
    BY <1>0, <1>k, HandledCloses DEF TouchProject, rowVars
<1> QED
    BY <1>0, <1>a, <1>b, <1>c, <1>d, <1>e, <1>f, <1>g, <1>h, <1>i, <1>j, <1>k DEF TickStep

LEMMA RefineFault ==
    ASSUME Known, TypeInv', Fault
    PROVE  [Lifecycle!Next]_stage
<1> USE DEF Known
<1>t. status \in [Deployments -> DeploymentStatus]
    BY DEF TypeInv, TypeOK, StoreTypeOK
<1>1. UNCHANGED <<status, uploads>>
    BY FaultLoses
<1>2. \A d \in Deployments : /\ HeldByWorker(d)' => HeldByWorker(d)
                             /\ HeldByTick(d)' => HeldByTick(d)
    BY FaultLoses, ConstantsOK DEF Assumptions, HeldByWorker, HeldByTick
<1>3. \/ \A d \in Deployments : HeldByTick(d)' <=> HeldByTick(d)
      \/ \A d \in Deployments : HeldByWorker(d)' <=> HeldByWorker(d)
    BY DEF Fault, WorkerFault, ControlPlaneFault, ClusterFault, tickVars, workerVars, HeldByTick,
           HeldByWorker
<1> SUFFICES ASSUME NEW d \in Deployments, Once(d) PROVE Stays(d) \/ Closes(d)
    BY <1>1, OnceKept, NoneMoves
<1>4. Once(d)'
    BY <1>1, OnceKept
<1>5. ~(HeldByWorker(d) /\ HeldByTick(d))
    BY OnceAll
<1> QED
    BY <1>t, <1>1, <1>2, <1>3, <1>4, <1>5, StageNow, StageThen
    DEF Stays, Closes, DeploymentStatus, InFlight

--------------------------------------------------------------------------------

\* A deployment whose upload is reported once goes through the stages of
\* DeployLifecycle in order and never comes back from 'closed', for any number of
\* deployments, slots, faults and reports of its siblings (all statements that
\* write deployments.status).
THEOREM LifecycleRefined == Spec => FollowsLifecycle
<1> DEFINE Inv == TypeInv /\ OwnerInv
<1>1. Init => LifeInv /\ Lifecycle!Init
  <2>1. Init => TypeInv
    BY TypeInit DEF TypeInv, TickHolds, WorkerHolds, Init, ReconcilerInit, BuildInit
  <2>2. Init => stage = [d \in Deployments |-> "new"]
    BY <2>1, StageNow DEF Init, StoreInit, Once
  <2> QED
    BY <2>2 DEF Init, StoreInit, ReconcilerInit, LifeInv, Lifecycle!Init
<1>2. ASSUME Inv, Inv', LifeInv, [Next]_vars
      PROVE  LifeInv' /\ [Lifecycle!Next]_stage
  <2>1. Known
    BY <1>2 DEF Known
  <2>2. CASE Quiet
    <3>1. \A d \in Deployments : HeldByTick(d)' <=> HeldByTick(d)
      BY <2>2 DEF Quiet, HeldByTick
    <3> QED
      BY <1>2, <2>2, <3>1, SameRows, NoneMoves DEF Quiet, LifeInv, Once
  <2> QED
    BY <1>2, <2>1, <2>2, NextSplit, LifeUpload, LifeWorker, LifeTick, LifeFault,
       RefineUpload, RefineWorker, RefineTick, RefineFault
<1>3. Spec => [](TypeInv /\ OwnerInv)
    BY OwnedAlways, Typed, PTL
<1> QED
    BY <1>1, <1>2, <1>3, PTL DEF Spec, Lifecycle!Spec, FollowsLifecycle
================================================================================
