------------------------------- MODULE Worker -------------------------------
(***************************************************************************)
(* The worker side of one work order: the background threads that          *)
(* run_worker_task starts (codex/worker_driver.py), each running one       *)
(* worker turn under the crash guard, the workspace tree they edit and the *)
(* status they keep in the Work Order row.                                 *)
(*                                                                         *)
(* A database transaction either commits or raises.  How many raise in one *)
(* behaviour is bounded by MaxFaults; MaxLaunches bounds the threads and   *)
(* MaxTree the edits.                                                      *)
(***************************************************************************)
EXTENDS WorkOrder

CONSTANTS MaxLaunches, MaxTree, MaxFaults

ASSUME WorkerAssumption ==
  /\ MaxLaunches \in Nat \ {0}
  /\ MaxTree \in Nat \ {0}
  /\ MaxFaults \in Nat

Threads == 1 .. MaxLaunches

\* "closing" and "failing": the final status is set, execute has not returned.
WORKER_PC == {"idle", "begin", "working", "closing", "failing", "guard", "dead"}

VARIABLES
  row,      \* the Work Order row
  worker,   \* the program counter of each worker thread
  tree,     \* the tree in the worker workspace; NoTree: no workspace yet
  faults    \* infrastructure faults so far

workerVars == <<row, worker, tree, faults>>

WorkerInit ==
  /\ row = NoRow
  /\ worker = [t \in Threads |-> "idle"]
  /\ tree = NoTree
  /\ faults = 0

WorkerTypeOK ==
  /\ row \in Row
  /\ worker \in [Threads -> WORKER_PC]
  /\ tree \in Nat
  /\ faults \in 0 .. MaxFaults

Fault == faults < MaxFaults /\ faults' = faults + 1

NoFault == UNCHANGED faults

Live(t) == worker[t] \notin {"idle", "dead"}

Moves(t, l) == worker' = [worker EXCEPT ![t] = l]

SetStatus(status) == row' = WithWorkerStatus(row, status)

\* execute starts: set_status("running").
WorkerBegin(t) ==
  /\ worker[t] = "begin"
  /\ UNCHANGED tree
  /\ \/ SetStatus("running") /\ Moves(t, "working") /\ NoFault
     \/ Fault /\ Moves(t, "guard") /\ UNCHANGED row

\* A file changes in the workspace; then the observed action is recorded.  A
\* turn the driver has given up as failed may still be writing.
WorkerEdit(t) ==
  /\ worker[t] \in {"working", "failing"}
  /\ tree < MaxTree
  /\ tree' = tree + 1
  /\ UNCHANGED row
  /\ \/ NoFault /\ UNCHANGED worker
     \/ worker[t] = "working" /\ Fault /\ Moves(t, "guard")

\* A script may report a status of its own on the way, a terminal one only as
\* its last step (as every script of the repository does).
WorkerReport(t) ==
  /\ worker[t] = "working"
  /\ UNCHANGED tree
  /\ \/ (\E s \in {"running", "waiting"} : SetStatus(s)) /\ NoFault /\ UNCHANGED worker
     \/ Fault /\ Moves(t, "guard") /\ UNCHANGED row

\* The turn ends, with success or with a failure the driver understands.
WorkerFinish(t) ==
  /\ worker[t] = "working"
  /\ UNCHANGED tree
  /\ \/ SetStatus("done") /\ Moves(t, "closing") /\ NoFault
     \/ SetStatus("failed") /\ Moves(t, "failing") /\ NoFault
     \/ Fault /\ Moves(t, "guard") /\ UNCHANGED row

\* execute returns: the app server is stopped, the script's status read back.
WorkerReturns(t) ==
  /\ worker[t] \in {"closing", "failing"}
  /\ Moves(t, "dead")
  /\ UNCHANGED <<row, tree, faults>>

\* An exception execute does not handle: a broken pipe, a bad script step, an
\* app server that will not stop.
WorkerCrash(t) ==
  /\ worker[t] \in {"working", "closing", "failing"}
  /\ Moves(t, "guard")
  /\ UNCHANGED <<row, tree, faults>>

\* The bug the crash guard was written against: the thread ends silently.
SilentGuard(t) ==
  /\ worker[t] = "guard"
  /\ Moves(t, "dead")
  /\ UNCHANGED <<row, tree, faults>>

\* The guard records the crash; its own transaction may raise as well.
WorkerGuard(t) ==
  /\ worker[t] = "guard"
  /\ Moves(t, "dead")
  /\ UNCHANGED tree
  /\ \/ SetStatus("failed") /\ NoFault
     \/ Fault /\ UNCHANGED row

WorkerStep(t) ==
  \/ WorkerBegin(t) \/ WorkerEdit(t) \/ WorkerReport(t)
  \/ WorkerFinish(t) \/ WorkerReturns(t) \/ WorkerCrash(t) \/ WorkerGuard(t)

\* run_worker_task: register the work order, then start a thread (two steps of
\* the thread that calls it).
RegisterWorker == row' = Registered(row)

LaunchBy(t) == worker[t] = "idle" /\ Moves(t, "begin")

Idle == {t \in Threads : worker[t] = "idle"}

NextThread == CHOOSE t \in Idle : \A u \in Idle : t <= u

Launch == Idle # {} /\ LaunchBy(NextThread)
=============================================================================
