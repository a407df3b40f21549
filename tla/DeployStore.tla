------------------------------ MODULE DeployStore ------------------------------
(***************************************************************************)
(* The rows of the "deployments" and "projects" tables that drive a        *)
(* deployment, and the SQL statements of src/internal/store that write     *)
(* them.  Every statement is one atomic step of the database; everything   *)
(* that happens between two statements is left to the modules that extend  *)
(* this one (BuildService, Reconciler, DeployPipeline).                    *)
(***************************************************************************)
EXTENDS Naturals, FiniteSets

CONSTANTS
    Deployments,   \* rows that may be inserted into "deployments"
    Projects,      \* rows of "projects"
    ProjectOf,     \* deployments.project_id
    NoDep          \* no deployment

ASSUME ProjectOfAssumption == ProjectOf \in [Deployments -> Projects]
ASSUME NoDepAssumption     == NoDep \notin Deployments

VARIABLES
    status,         \* deployments.status; "absent" before the INSERT
    hasImage,       \* deployments.image_tag IS NOT NULL (the tag is <slug>:<id>)
    queuedAt,       \* deployments.queued_at; 0 stands for NULL
    clock,          \* the now() of the last statement that stamped queued_at
    live,           \* projects.deleted_at IS NULL
    projectStatus   \* projects.status

rowVars     == <<status, hasImage, queuedAt, clock>>
projectVars == <<live, projectStatus>>

InFlight == {"queued", "building", "pushing", "deploying"}

DeploymentStatus ==
    {"absent", "pending", "running", "failed", "superseded"} \union InFlight

ProjectStatus == {"created", "running", "stopped", "error", "deleting"}

StoreTypeOK ==
    /\ status \in [Deployments -> DeploymentStatus]
    /\ hasImage \in [Deployments -> BOOLEAN]
    /\ queuedAt \in [Deployments -> Nat]
    /\ clock \in Nat
    /\ live \in [Projects -> BOOLEAN]
    /\ projectStatus \in [Projects -> ProjectStatus]

StoreInit ==
    /\ status = [d \in Deployments |-> "absent"]
    /\ hasImage = [d \in Deployments |-> FALSE]
    /\ queuedAt = [d \in Deployments |-> 0]
    /\ clock = 0
    /\ live = [p \in Projects |-> TRUE]
    /\ projectStatus = [p \in Projects |-> "created"]

Siblings(d) == {e \in Deployments \ {d} : ProjectOf[e] = ProjectOf[d]}

(***************************************************************************)
(* Statements on "deployments".  Each constrains status' (and the columns  *)
(* it writes); the caller states what else is unchanged.                   *)
(***************************************************************************)

CreateDeployment(d) ==
    /\ status[d] = "absent"
    /\ status' = [status EXCEPT ![d] = "pending"]

\* No guard on the current status: a repeated call re-queues whatever is there.
MarkDeploymentQueued(d) ==
    /\ status' = [status EXCEPT ![d] = "queued"]
    /\ queuedAt' = [queuedAt EXCEPT ![d] = clock + 1]
    /\ clock' = clock + 1

NextQueued(d) ==
    /\ status[d] = "queued"
    /\ \A e \in Deployments : status[e] = "queued" => queuedAt[d] <= queuedAt[e]

\* Sensitivity variant: a claim that forgets to leave 'queued'.
ClaimNextQueuedKeepsRow(d) == NextQueued(d) /\ UNCHANGED status

\* Sensitivity variant: the claim does not wait for the report of the upload.
ClaimNextPending(d) ==
    /\ status[d] \in {"pending", "queued"}
    /\ status' = [status EXCEPT ![d] = "building"]

ClaimNextQueued(d) ==
    /\ NextQueued(d)
    /\ status' = [status EXCEPT ![d] = "building"]

MarkDeploymentStatus(d, s) == status' = [status EXCEPT ![d] = s]

\* Sensitivity variant: the compare half of the compare-and-set is lost.
BlindAdvance(d, from, to) == status' = [status EXCEPT ![d] = to]

\* Sensitivity variant: a status name outside the enumeration (the column is
\* plain text).
MistypedAdvance(d, from, to) ==
    status' = IF status[d] = from THEN [status EXCEPT ![d] = "pushed"] ELSE status

TryAdvanceDeploymentStatus(d, from, to) ==
    status' = IF status[d] = from THEN [status EXCEPT ![d] = to] ELSE status

SetDeploymentImage(d) == hasImage' = [hasImage EXCEPT ![d] = TRUE]

SupersedeSet(S) ==
    status' = [d \in Deployments |-> IF d \in S THEN "superseded" ELSE status[d]]

SupersedeOlderDeployments(keep) ==
    SupersedeSet({d \in Siblings(keep) : status[d] \in InFlight})

\* Sensitivity variant: the siblings that run are left on stage.
SupersedeInFlightOnly(keep) ==
    SupersedeSet({d \in Siblings(keep) : status[d] \in InFlight})

SupersedeRunningSiblings(keep) ==
    SupersedeSet({d \in Siblings(keep) : status[d] = "running"})

(***************************************************************************)
(* Statements on "projects".                                               *)
(***************************************************************************)

\* Both the bumping and the non-bumping form: last_active_at is not modelled,
\* and neither filters on deleted_at.
UpdateProjectStatus(p, s) ==
    /\ projectStatus' = [projectStatus EXCEPT ![p] = s]
    /\ UNCHANGED live

SoftDeleteProject(p) ==
    IF live[p]
    THEN /\ live' = [live EXCEPT ![p] = FALSE]
         /\ projectStatus' = [projectStatus EXCEPT ![p] = "deleting"]
    ELSE UNCHANGED projectVars

HealthReconcilable(p) ==
    live[p] /\ projectStatus[p] \in {"running", "stopped", "error"}
================================================================================
