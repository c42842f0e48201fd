---------------------------- MODULE WorkerProofs ----------------------------
(***************************************************************************)
(* Lemmas about the Work Order row and the worker threads that the proofs  *)
(* about both runners rest on.                                             *)
(***************************************************************************)
EXTENDS Worker, TLAPS

-----------------------------------------------------------------------------
(* The row operators keep the row a row.                                   *)

\* Marking a row terminal yields a row.
LEMMA MarkedType ==
  ASSUME NEW r \in Row, NEW status \in TERMINAL_STATUSES
  PROVE  Marked(r, status) \in Row
<1>1. ArtifactOf(status) \in ARTIFACTS
  BY DEF ArtifactOf, ARTIFACTS, TERMINAL_STATUSES
<1>2. Append(r.artifacts, ArtifactOf(status)) \in Seq(ARTIFACTS)
  BY <1>1 DEF Row
<1>. QED
  BY <1>2 DEF Marked, Row, OVERALL_STATUSES

\* So does every other field update of the tools and of the worker registry.
LEMMA RowUpdates ==
  ASSUME NEW r \in Row, NEW status \in WORKER_STATUSES, NEW commit \in Nat,
         NEW health \in HEALTH
  PROVE  /\ Created(r) \in Row
         /\ Provisioned(r) \in Row
         /\ Registered(r) \in Row
         /\ WithWorkerStatus(r, status) \in Row
         /\ DeploymentRecorded(r, commit, health) \in Row
         /\ [r EXCEPT !.baseline = commit] \in Row
         /\ [r EXCEPT !.candidate = commit] \in Row
<1>1. "starting" \in WORKER_STATUSES /\ "in_progress" \in OVERALL_STATUSES
  BY DEF WORKER_STATUSES, OVERALL_STATUSES
<1>. QED
  BY <1>1 DEF Row, Created, Provisioned, Registered, WithWorkerStatus, DeploymentRecorded

-----------------------------------------------------------------------------
(* Worker steps.                                                           *)

\* The worker threads start well typed.
LEMMA WorkerInitType == WorkerInit => WorkerTypeOK
<1>1. NoRow \in Row
  BY DEF NoRow, Row, OVERALL_STATUSES, WORKER_STATUSES, HEALTH, NoTree
<1>. QED
  BY <1>1, WorkerAssumption DEF WorkerInit, WorkerTypeOK, NoTree, WORKER_PC

\* A step of a worker thread keeps the worker's variables well typed.
LEMMA WorkerStepType ==
  ASSUME WorkerTypeOK, NEW t \in Threads, WorkerStep(t)
  PROVE  WorkerTypeOK'
<1>. USE DEF WorkerTypeOK, Moves, Fault, NoFault
<1>1. \A s \in WORKER_STATUSES : WithWorkerStatus(row, s) \in Row
  BY RowUpdates DEF HEALTH
<1>2. {"starting", "running", "waiting", "done", "failed"} \subseteq WORKER_STATUSES
  BY DEF WORKER_STATUSES
<1>3. CASE WorkerBegin(t)
  BY <1>1, <1>2, <1>3, WorkerAssumption DEF WorkerBegin, SetStatus, WORKER_PC
<1>4. CASE WorkerEdit(t)
  BY <1>4, WorkerAssumption DEF WorkerEdit, WORKER_PC
<1>5. CASE WorkerReport(t)
  BY <1>1, <1>2, <1>5, WorkerAssumption DEF WorkerReport, SetStatus, WORKER_PC
<1>6. CASE WorkerFinish(t)
  BY <1>1, <1>2, <1>6, WorkerAssumption DEF WorkerFinish, SetStatus, WORKER_PC
<1>7. CASE WorkerCrash(t)
  BY <1>7 DEF WorkerCrash, WORKER_PC
<1>8. CASE WorkerReturns(t)
  BY <1>8 DEF WorkerReturns, WORKER_PC
<1>9. CASE WorkerGuard(t)
  BY <1>1, <1>2, <1>9, WorkerAssumption DEF WorkerGuard, SetStatus, WORKER_PC
<1>. QED
  BY <1>3, <1>4, <1>5, <1>6, <1>7, <1>8, <1>9 DEF WorkerStep

\* Of the row, a worker thread changes its status only; a workspace it never
\* takes away.
LEMMA WorkerStepFrame ==
  ASSUME WorkerTypeOK, NEW t \in Threads, WorkerStep(t)
  PROVE  /\ [row' EXCEPT !.worker = row.worker] = row
         /\ tree # NoTree => tree' # NoTree
<1>. USE DEF WorkerTypeOK, SetStatus, WithWorkerStatus, Row
<1>1. CASE UNCHANGED row /\ (UNCHANGED tree \/ tree' = tree + 1)
  BY <1>1 DEF NoTree
<1>2. CASE (\E s \in WORKER_STATUSES : SetStatus(s)) /\ UNCHANGED tree
  BY <1>2
<1>3. \/ UNCHANGED row /\ (UNCHANGED tree \/ tree' = tree + 1)
      \/ (\E s \in WORKER_STATUSES : SetStatus(s)) /\ UNCHANGED tree
  BY DEF WorkerStep, WorkerBegin, WorkerEdit, WorkerReport, WorkerFinish, WorkerReturns,
         WorkerCrash, WorkerGuard, WORKER_STATUSES
<1>. QED
  BY <1>1, <1>2, <1>3
=============================================================================
