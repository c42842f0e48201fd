------------------------------ MODULE WorkOrder ------------------------------
(***************************************************************************)
(* The durable Work Order row: the fields of db/models.py that decide what *)
(* happens next, and the field updates of the Delivery Control tools.  A   *)
(* tool runs in one transaction (control/state.py, session_scope), so each *)
(* operator below maps the row before the transaction to the row after it. *)
(*                                                                         *)
(* A source tree is named by a number: 0 stands for "none", 1 is the       *)
(* baseline, and every worker edit makes the next one.  A commit sha is    *)
(* the number of the tree it records.                                      *)
(***************************************************************************)
EXTENDS Naturals, Sequences

TERMINAL_STATUSES == {"complete", "failed"}

\* "absent": no row with this id exists yet.
OVERALL_STATUSES == {"absent", "in_progress"} \cup TERMINAL_STATUSES

\* "none": the column is NULL.
WORKER_STATUSES == {"none", "starting", "running", "waiting", "done", "failed"}

HEALTH == {"none", "healthy", "unhealthy"}

\* The artifact types a terminal mark leaves behind.
ARTIFACTS == {"completion_summary", "failure_reason"}

ArtifactOf(status) ==
  IF status = "complete" THEN "completion_summary" ELSE "failure_reason"

NoTree == 0

Row == [overall : OVERALL_STATUSES, runtime : BOOLEAN, baseline : Nat,
        worker : WORKER_STATUSES, candidate : Nat, deployed : BOOLEAN,
        health : HEALTH, artifacts : Seq(ARTIFACTS)]

NoRow == [overall |-> "absent", runtime |-> FALSE, baseline |-> NoTree,
          worker |-> "none", candidate |-> NoTree, deployed |-> FALSE,
          health |-> "none", artifacts |-> <<>>]

IsTerminal(r) == r.overall \in TERMINAL_STATUSES

\* update_work_order, first call: the row appears together with its fields.
Created(r) == [r EXCEPT !.overall = "in_progress"]

\* _mark_terminal raises on a row that is terminal with the other status.
MarkConflicts(r, status) == IsTerminal(r) /\ r.overall # status

\* Mutant: a mark that does not look at the row.
MarkedAnyway(r, status) ==
  [r EXCEPT !.overall = status, !.artifacts = Append(@, ArtifactOf(status))]

\* Otherwise it sets the status and appends the artifact; re-issuing the same
\* mark changes nothing.
Marked(r, status) ==
  IF IsTerminal(r)
  THEN r
  ELSE [r EXCEPT !.overall = status, !.artifacts = Append(@, ArtifactOf(status))]

\* tools/runtime.py: an already provisioned runtime is left alone.
Provisioned(r) ==
  IF r.runtime THEN r ELSE [r EXCEPT !.runtime = TRUE, !.worker = "starting"]

\* Mutant: an unhealthy deployment is recorded under another name.
DeploymentDegraded(r, commit, health) ==
  [r EXCEPT !.candidate = commit, !.deployed = TRUE,
            !.health = IF health = "unhealthy" THEN "degraded" ELSE health]

\* tools/deployment.py: the closing transaction of a deployment.
DeploymentRecorded(r, commit, health) ==
  [r EXCEPT !.candidate = commit, !.deployed = TRUE, !.health = health]

\* PostgresWorkerRegistry.init: only a NULL status becomes "starting".
Registered(r) == IF r.worker = "none" THEN [r EXCEPT !.worker = "starting"] ELSE r

\* PostgresWorkerRegistry.set_status.
WithWorkerStatus(r, status) == [r EXCEPT !.worker = status]

\* a2a_api/server.py, TASK_STATE_MAP: what an A2A client is told.
TaskState(r) ==
  CASE r.overall = "complete"    -> "completed"
    [] r.overall = "failed"      -> "failed"
    [] r.overall = "in_progress" -> "working"
    [] r.overall = "absent"      -> "unknown"
=============================================================================
