------------------------ MODULE SupervisionProperties ------------------------
(***************************************************************************)
(* What a supervised delivery must satisfy.  The first group holds for     *)
(* either backend, the second for the deterministic one, the third is what *)
(* comments and design documents say and the code does not do.             *)
(***************************************************************************)
EXTENDS Supervision, FiniteSets

-----------------------------------------------------------------------------
(* Either backend.                                                         *)

\* A delivery ends with exactly one recorded outcome, of the kind its status
\* says, and with none before that: what the client is told as the result
\* (_failure_reason, _result_from_state read it from the artifacts) is never
\* ambiguous, however many tools the model calls after its verdict.
OneVerdict ==
  row.artifacts = IF IsTerminal(row) THEN <<ArtifactOf(row.overall)>> ELSE <<>>

\* A terminal status is never taken back or overwritten, by a later mark, by
\* the exhausted turn budget or by a worker that is still running.
VerdictStands ==
  [][IsTerminal(row) => row'.overall = row.overall /\ row'.artifacts = row.artifacts]_vars

\* supervise returns only with a verdict in the database.
ReturnsWithVerdict == At("done") => IsTerminal(row)

\* The supervise loop comes to an end, by its verdict or, when a transaction
\* outside the turn's try block raises, by its thread's death; whatever the
\* model asks for, and even if the worker hangs.
SupervisionEnds == ~At("new") ~> (At("done") \/ At("dead"))

\* Without infrastructure faults every accepted delivery gets its verdict.
EventuallyTerminal == (row.overall = "in_progress") ~> IsTerminal(row)

\* The state a client reads through the endpoint.
Verified == row.deployed /\ row.health = "healthy" /\ row.candidate # NoTree /\ Passed

Task == INSTANCE DeliveryTask WITH state <- TaskState(row), verified <- Verified

\* What a client may observe of a delivery is what DeliveryTask promises:
\* completed only when verified, once, and not touched afterwards.
TaskSafety == Task!Safety

\* The same, and every accepted task is brought to an end.
TaskSpec == Task!Spec

-----------------------------------------------------------------------------
(* The deterministic backend.                                              *)

\* mark_complete is reached only with a green test run, a candidate and a
\* healthy deployment on record, whatever raised on the way.
CompletedIsVerified == row.overall = "complete" => Verified

\* No container is ever run for a work order without a passed test run.
NeverServesRed == served # NoTree => Passed

\* The tests are recorded at most once, so that choosing the "latest" run by a
\* random id is harmless; a red run is never followed by another try.
OneTestRun == Len(tests.runs) <= 1

\* A verdict freezes the delivery: nothing is deployed, tested or committed
\* after it, although no tool checks for it.
VerdictFreezes ==
  [][IsTerminal(row) =>
       /\ row'.candidate = row.candidate /\ row'.deployed = row.deployed
       /\ row'.health = row.health
       /\ UNCHANGED <<served, tests, checked>>]_vars

\* Every worker turn but the first is paid for by a fault: run_worker_task itself
\* has no guard against a second one in the same workspace, and the rules start
\* another when the record of a start was lost.
TurnsPaid == Cardinality({t \in Threads : worker[t] # "idle"}) <= faults + 1

\* The tree that is served is the recorded candidate and the one the tests
\* passed on (deploy_candidate: "deploying anything else is an error, not a
\* shortcut"), although three separate tools read the workspace in turn.
ServedIsCandidate ==
  row.deployed /\ served # NoTree =>
    /\ served = row.candidate
    /\ tests.runs[tests.top].tree = row.candidate

\* "An unexpected crash becomes a durable failure" (_crash_guarded_execute):
\* once no worker thread is left running, the row says how the turn ended.
WorkerDeathReported ==
  (\E t \in Threads : worker[t] = "dead") /\ (\A t \in Threads : ~Live(t))
    => row.worker \in {"done", "failed"}

\* Completion rests on evidence, the health check included ("persisted via
\* record_evidence, not asserted", docs/designs/delivery-control.md).
CompletedHasCheck == row.overall = "complete" => checked

-----------------------------------------------------------------------------
(* Said of the program, and not so.                                        *)

\* _latest_pytest_evidence ("the latest pytest_run evidence row") and
\* _latest_evidence_text choose the row recorded last.
LatestEvidence == tests.top = Len(tests.runs)
=============================================================================
