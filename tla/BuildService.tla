------------------------------ MODULE BuildService ------------------------------
(***************************************************************************)
(* src/cmd/build-service: a poll loop that fills at most |Slots|           *)
(* concurrency slots, each running claimAndRun for one deployment.  A slot *)
(* goes through                                                            *)
(*                                                                         *)
(*   idle -> fetch -> build -> image -> handoff -> idle                    *)
(*                                                                         *)
(* and leaves that path through recheck (Build returned an error) and fail *)
(* (every error path of run()).  The watchdog goroutine that runs beside   *)
(* Build is the action Watchdog.                                           *)
(***************************************************************************)
EXTENDS DeployStore

CONSTANT Slots   \* the weighted semaphore; |Slots| is cfg.MaxConcurrent

VARIABLES
    wpc,      \* where the goroutine holding the slot is
    wdep,     \* the deployment it claimed
    killed    \* cancelBuild() was called by the watchdog

workerVars == <<wpc, wdep, killed>>

SlotPC == {"idle", "fetch", "build", "recheck", "image", "handoff", "fail"}

BuildTypeOK ==
    /\ wpc \in [Slots -> SlotPC]
    /\ wdep \in [Slots -> Deployments \union {NoDep}]
    /\ killed \in [Slots -> BOOLEAN]

BuildInit ==
    /\ wpc = [w \in Slots |-> "idle"]
    /\ wdep = [w \in Slots |-> NoDep]
    /\ killed = [w \in Slots |-> FALSE]

Goto(w, pc) == wpc' = [wpc EXCEPT ![w] = pc] /\ UNCHANGED <<wdep, killed>>

\* sem.Release, after run() returned.
Release(w) ==
    /\ wpc' = [wpc EXCEPT ![w] = "idle"]
    /\ wdep' = [wdep EXCEPT ![w] = NoDep]
    /\ killed' = [killed EXCEPT ![w] = FALSE]

--------------------------------------------------------------------------------

Claim(w, d) ==
    /\ wpc[w] = "idle"
    /\ ClaimNextQueued(d)
    /\ wpc' = [wpc EXCEPT ![w] = "fetch"]
    /\ wdep' = [wdep EXCEPT ![w] = d]
    /\ UNCHANGED <<killed, hasImage, queuedAt, clock>>

\* lookupSlug, mkdir and downloadAndExtract: any of them may fail, and none of
\* them looks at the row again.
FetchSource(w) ==
    /\ wpc[w] = "fetch"
    /\ Goto(w, "build") \/ Goto(w, "fail")
    /\ UNCHANGED rowVars

\* Sensitivity variant: the watchdog never cancels.
WatchdogOff(w) == FALSE /\ UNCHANGED <<workerVars, rowVars>>

\* The 3 s poll beside Build: cancel once the row has left 'building'.
Watchdog(w) ==
    /\ wpc[w] = "build"
    /\ ~killed[w]
    /\ status[wdep[w]] # "building"
    /\ killed' = [killed EXCEPT ![w] = TRUE]
    /\ UNCHANGED <<wpc, wdep, rowVars>>

\* Sensitivity variant: the image is not recorded before the hand-off.
BuildReturnsUnrecorded(w) ==
    /\ wpc[w] = "build"
    /\ Goto(w, "handoff") \/ Goto(w, "recheck")
    /\ UNCHANGED rowVars

\* Build returns, if it does: also after a kill it waits until the output of the
\* build is closed, which a process that the child has started may hold open.
\* A killed build normally errors, but the push may have gone through just before.
BuildReturns(w) ==
    /\ wpc[w] = "build"
    /\ Goto(w, "image") \/ Goto(w, "recheck")
    /\ UNCHANGED rowVars

\* After a build error: bow out if the row is no longer ours, else fail it.
RecheckStatus(w) ==
    /\ wpc[w] = "recheck"
    /\ IF status[wdep[w]] = "building" THEN Goto(w, "fail") ELSE Release(w)
    /\ UNCHANGED rowVars

\* fail(): an unconditional write, whatever the row says by now.
MarkFailed(w) ==
    /\ wpc[w] = "fail"
    /\ MarkDeploymentStatus(wdep[w], "failed")
    /\ Release(w)
    /\ UNCHANGED <<hasImage, queuedAt, clock>>

SetImage(w) ==
    /\ wpc[w] = "image"
    /\ SetDeploymentImage(wdep[w])
    /\ Goto(w, "handoff")
    /\ UNCHANGED <<status, queuedAt, clock>>

\* Sensitivity variant: the slot is given back while the row still says that a
\* build is under way.
HandOffForgotten(w) ==
    /\ wpc[w] = "handoff"
    /\ Release(w)
    /\ UNCHANGED rowVars

HandOff(w) ==
    /\ wpc[w] = "handoff"
    /\ TryAdvanceDeploymentStatus(wdep[w], "building", "pushing")
    /\ Release(w)
    /\ UNCHANGED <<hasImage, queuedAt, clock>>

WorkerStep(w) ==
    \/ \E d \in Deployments : Claim(w, d)
    \/ FetchSource(w)
    \/ Watchdog(w)
    \/ BuildReturns(w)
    \/ RecheckStatus(w)
    \/ MarkFailed(w)
    \/ SetImage(w)
    \/ HandOff(w)

(***************************************************************************)
(* Faults.                                                                 *)
(***************************************************************************)

\* A database error in SetDeploymentImage is reported through fail().
SetImageError(w) ==
    /\ wpc[w] = "image"
    /\ Goto(w, "fail")
    /\ UNCHANGED rowVars

\* A database error in the recheck (its error is dropped and "" # "building"),
\* in fail() (dropped too) or in the hand-off (run() just returns it) frees the
\* slot and leaves the row as it is.
DroppedWrite(w) ==
    /\ wpc[w] \in {"recheck", "fail", "handoff"}
    /\ Release(w)
    /\ UNCHANGED rowVars

\* SIGTERM or a crash: main returns without waiting for its goroutines.  The
\* restarted process knows nothing of the rows they had claimed.
BuildServiceRestart ==
    /\ \E w \in Slots : wpc[w] # "idle"
    /\ wpc' = [w \in Slots |-> "idle"]
    /\ wdep' = [w \in Slots |-> NoDep]
    /\ killed' = [w \in Slots |-> FALSE]
    /\ UNCHANGED rowVars
================================================================================
