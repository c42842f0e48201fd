---------------------------- MODULE DirectRunner ----------------------------
(***************************************************************************)
(* runner.py: run_delivery, the delivery loop without a supervisor.  One   *)
(* thread takes the steps in a fixed order beside the worker thread it     *)
(* started (module Worker), waits for it no longer than its deadline, and  *)
(* returns a DeliveryResult.  Nothing is retried and nothing caught: an    *)
(* exception leaves run_delivery, and the work order as it is.             *)
(***************************************************************************)
EXTENDS Worker

VARIABLES
  run,       \* run_delivery: pc, what a step in progress has read, the result
  evidence,  \* what is recorded: the pytest_run (tree NoTree: none), and
             \* whether there is a deployment_check
  served     \* the tree the work order's container serves; NoTree: none

vars == <<row, worker, tree, faults, run, evidence, served>>

RUN_PC == {"new", "runtime", "checkout", "baseline", "register", "launch", "poll",
           "tests", "record", "commit", "candidate", "remove", "build", "run",
           "probe", "save", "check", "complete", "fail", "returned", "raised"}

\* DeliveryResult.overall_status
RESULTS == {"in_progress", "delivered", "degraded", "failed"}

TypeOK ==
  /\ WorkerTypeOK
  /\ run \in [pc : RUN_PC, tree : Nat, ok : BOOLEAN, result : RESULTS]
  /\ evidence \in [tree : Nat, ok : BOOLEAN, checked : BOOLEAN]
  /\ served \in Nat

Init ==
  /\ WorkerInit
  /\ run = [pc |-> "new", tree |-> NoTree, ok |-> FALSE, result |-> "in_progress"]
  /\ evidence = [tree |-> NoTree, ok |-> FALSE, checked |-> FALSE]
  /\ served = NoTree

At(l) == run.pc = l
Goto(l) == run' = [run EXCEPT !.pc = l]
FailWith(result) == run' = [run EXCEPT !.pc = "fail", !.result = result]

-----------------------------------------------------------------------------
(* The steps of run_delivery.                                              *)

CreatesWorkOrder ==
  /\ At("new")
  /\ row' = Created(row)
  /\ Goto("runtime")
  /\ UNCHANGED <<worker, tree, faults, evidence, served>>

CreatesRuntime ==
  /\ At("runtime")
  /\ row' = Provisioned(row)
  /\ Goto("checkout")
  /\ UNCHANGED <<worker, tree, faults, evidence, served>>

ChecksOut ==
  /\ At("checkout")
  /\ tree' = 1
  /\ run' = [run EXCEPT !.pc = "baseline", !.tree = 1]
  /\ UNCHANGED <<row, worker, faults, evidence, served>>

SavesBaseline ==
  /\ At("baseline")
  /\ row' = [row EXCEPT !.baseline = run.tree]
  /\ Goto("register")
  /\ UNCHANGED <<worker, tree, faults, evidence, served>>

\* run_worker_task, in two steps.
Registers ==
  /\ At("register")
  /\ RegisterWorker
  /\ Goto("launch")
  /\ UNCHANGED <<worker, tree, faults, evidence, served>>

Launches ==
  /\ At("launch")
  /\ Launch
  /\ Goto("poll")
  /\ UNCHANGED <<row, tree, faults, evidence, served>>

\* Mutant: a worker that waits is taken for one that is done.
PollSeesWaiting ==
  /\ At("poll")
  /\ row.worker \in {"done", "failed", "waiting"}
  /\ IF row.worker = "failed" THEN FailWith("failed") ELSE Goto("tests")
  /\ UNCHANGED <<row, worker, tree, faults, evidence, served>>

PollSees ==
  /\ At("poll")
  /\ row.worker \in {"done", "failed"}
  /\ IF row.worker = "failed" THEN FailWith("failed") ELSE Goto("tests")
  /\ UNCHANGED <<row, worker, tree, faults, evidence, served>>

\* Mutant: the deadline is forgotten once the worker has begun.
PollTimesOutEarly ==
  /\ At("poll")
  /\ row.worker = "starting"
  /\ FailWith("failed")
  /\ UNCHANGED <<row, worker, tree, faults, evidence, served>>

\* The deadline has passed.  The worker thread is not stopped.
PollTimesOut ==
  /\ At("poll")
  /\ row.worker \notin {"done", "failed"}
  /\ FailWith("failed")
  /\ UNCHANGED <<row, worker, tree, faults, evidence, served>>

RunsTests ==
  /\ At("tests")
  /\ \E ok \in BOOLEAN :
       run' = [run EXCEPT !.pc = "record", !.tree = tree, !.ok = ok]
  /\ UNCHANGED <<row, worker, tree, faults, evidence, served>>

RecordsTests ==
  /\ At("record")
  /\ evidence' = [evidence EXCEPT !.tree = run.tree, !.ok = run.ok]
  /\ Goto("commit")
  /\ UNCHANGED <<row, worker, tree, faults, served>>

Commits ==
  /\ At("commit")
  /\ run' = [run EXCEPT !.pc = "candidate", !.tree = tree]
  /\ UNCHANGED <<row, worker, tree, faults, evidence, served>>

\* Mutant: the outcome of the tests is not looked at.
SavesAnyCandidate ==
  /\ At("candidate")
  /\ row' = [row EXCEPT !.candidate = run.tree]
  /\ Goto("remove")
  /\ UNCHANGED <<worker, tree, faults, evidence, served>>

\* The candidate is recorded before the outcome of the tests is looked at.
SavesCandidate ==
  /\ At("candidate")
  /\ row' = [row EXCEPT !.candidate = run.tree]
  /\ IF run.ok THEN Goto("remove") ELSE FailWith("failed")
  /\ UNCHANGED <<worker, tree, faults, evidence, served>>

\* deploy_candidate: docker.deploy in three steps, the probe, the transaction.
\* An attempt that fails and is retried is as if it came later.
Removes ==
  /\ At("remove")
  /\ served' = NoTree
  /\ Goto("build")
  /\ UNCHANGED <<row, worker, tree, faults, evidence>>

Builds ==
  /\ At("build")
  /\ run' = [run EXCEPT !.pc = "run", !.tree = tree]
  /\ UNCHANGED <<row, worker, tree, faults, evidence, served>>

Starts ==
  /\ At("run")
  /\ served' = run.tree
  /\ Goto("probe")
  /\ UNCHANGED <<row, worker, tree, faults, evidence>>

Probes ==
  /\ At("probe")
  /\ \E ok \in BOOLEAN : run' = [run EXCEPT !.pc = "save", !.ok = ok]
  /\ UNCHANGED <<row, worker, tree, faults, evidence, served>>

\* An unhealthy deployment is recorded like a healthy one, and fails.
SavesDeployment ==
  /\ At("save")
  /\ row' = DeploymentRecorded(row, row.candidate, IF run.ok THEN "healthy" ELSE "unhealthy")
  /\ IF run.ok THEN Goto("check") ELSE FailWith("degraded")
  /\ UNCHANGED <<worker, tree, faults, evidence, served>>

RecordsCheck ==
  /\ At("check")
  /\ evidence' = [evidence EXCEPT !.checked = TRUE]
  /\ Goto("complete")
  /\ UNCHANGED <<row, worker, tree, faults, served>>

Completes ==
  /\ At("complete")
  /\ row' = Marked(row, "complete")
  /\ run' = [run EXCEPT !.pc = "returned", !.result = "delivered"]
  /\ UNCHANGED <<worker, tree, faults, evidence, served>>

\* Mutants: the loop goes on after the failure; the failure is not made durable.
FailsAndGoesOn ==
  /\ At("fail")
  /\ row' = Marked(row, "failed")
  /\ Goto(IF evidence.tree = NoTree THEN "poll" ELSE "returned")
  /\ UNCHANGED <<worker, tree, faults, evidence, served>>
FailsUnmarked ==
  /\ At("fail")
  /\ Goto("returned")
  /\ UNCHANGED <<row, worker, tree, faults, evidence, served>>

Fails ==
  /\ At("fail")
  /\ row' = Marked(row, "failed")
  /\ Goto("returned")
  /\ UNCHANGED <<worker, tree, faults, evidence, served>>

\* Git, the tests, Docker or a transaction raises in any of the steps.
StepRaises ==
  /\ run.pc \notin {"new", "returned", "raised"}
  /\ Goto("raised")
  /\ UNCHANGED <<row, worker, tree, faults, evidence, served>>

RunStep ==
  \/ CreatesWorkOrder \/ CreatesRuntime \/ ChecksOut \/ SavesBaseline
  \/ Registers \/ Launches \/ PollSees \/ PollTimesOut
  \/ RunsTests \/ RecordsTests \/ Commits \/ SavesCandidate
  \/ Removes \/ Builds \/ Starts \/ Probes \/ SavesDeployment
  \/ RecordsCheck \/ Completes \/ Fails

WorkerMoves == (\E t \in Threads : WorkerStep(t)) /\ UNCHANGED <<run, evidence, served>>

Next == RunStep \/ WorkerMoves \/ StepRaises

Spec == Init /\ [][Next]_vars

\* The calls run_delivery makes return; nothing is assumed of the worker.
FairSpec == Spec /\ WF_vars(RunStep)

-----------------------------------------------------------------------------
(* Properties.                                                             *)

\* What is served is the recorded candidate, the tree that was committed and
\* the tree the recorded tests ran on, although the worker thread that made it
\* is never joined.
ServedIsTested ==
  served # NoTree => served = row.candidate /\ served = evidence.tree /\ evidence.ok

\* The DeliveryResult the caller prints agrees with the durable verdict
\* ("Every step is durable", run_delivery).
ResultIsDurable ==
  At("returned") =>
    /\ run.result = "delivered" <=> row.overall = "complete"
    /\ run.result \in {"failed", "degraded"} <=> row.overall = "failed"

\* After the verdict, also one that only a timeout brought, the worker that may
\* still be running changes nothing of the delivery but its own status.
LateWorkerHarmless ==
  [][IsTerminal(row) =>
       /\ [row' EXCEPT !.worker = row.worker] = row
       /\ UNCHANGED <<served, evidence>>]_vars

\* Tested, deployed and healthy, with the health check on record as well.
Verified ==
  /\ row.candidate # NoTree /\ evidence.ok
  /\ row.deployed /\ row.health = "healthy" /\ evidence.checked

Task == INSTANCE DeliveryTask WITH state <- TaskState(row), verified <- Verified

\* The client sees what DeliveryTask promises, whatever raises on the way ...
TaskSafety == Task!Safety

\* ... and, unless something does, a verdict in the row and a result in hand,
\* even if the worker hangs, is late, or has a row it cannot write to.
EventuallyReturns ==
  row.overall = "in_progress" ~> (At("returned") /\ IsTerminal(row)) \/ At("raised")
=============================================================================
