---------------------------- MODULE DeployLifecycle ----------------------------
(***************************************************************************)
(* What the pipeline promises about one deployment, seen from outside:     *)
(*                                                                         *)
(*     new -> queued -> building -> rollout -> live -> closed              *)
(*                          |                            ^               *)
(*                          +-----> aborting ------------+               *)
(*                                                                         *)
(* Every stage from 'queued' on may end in 'closed', which is final.  A    *)
(* build whose deployment was superseded is 'aborting': it may go on for a *)
(* while, and its result is never rolled out.                              *)
(*                                                                         *)
(* The status column itself promises less: it may move from 'superseded'   *)
(* to 'failed', 'deploying' or 'running' while an actor that had the row   *)
(* in hand finishes with it.  And it is all a promise about a deployment   *)
(* whose upload is reported once: the second report puts the row back into *)
(* the queue whatever it says, and from then on ("reuploaded") nothing is  *)
(* promised about this deployment, and still everything about the others.  *)
(***************************************************************************)
CONSTANT Deployments

VARIABLE stage

Stage == {"new", "queued", "building", "aborting", "rollout", "live", "closed",
          "reuploaded"}

Init == stage = [d \in Deployments |-> "new"]

Move(d, from, to) ==
    /\ stage[d] = from
    /\ stage' = [stage EXCEPT ![d] = to]

Enqueue(d) == Move(d, "new", "queued")
Claim(d)   == Move(d, "queued", "building")
HandOff(d) == Move(d, "building", "rollout")
GoLive(d)  == Move(d, "rollout", "live")

Reupload(d) == \E from \in Stage \ {"reuploaded"} : Move(d, from, "reuploaded")

\* Failures, a newer upload or a newer running sibling: several at a time, of
\* which the builds A are still to be stopped.
Close(S, A) ==
    /\ \A d \in S : stage[d] \notin {"new", "reuploaded"}
    /\ \A d \in A : stage[d] = "building"
    /\ stage' = [d \in Deployments |->
                    IF d \in A THEN "aborting"
                    ELSE IF d \in S THEN "closed" ELSE stage[d]]

Next ==
    \/ \E d \in Deployments :
            Enqueue(d) \/ Claim(d) \/ HandOff(d) \/ GoLive(d) \/ Reupload(d)
    \/ \E S, A \in SUBSET Deployments : Close(S, A)

Spec == Init /\ [][Next]_stage
================================================================================
