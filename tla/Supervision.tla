----------------------------- MODULE Supervision -----------------------------
(***************************************************************************)
(* One supervised delivery: the Supervisor thread of agent/runner.py, the  *)
(* model that decides its next tool (Backend: the rule-based one of        *)
(* agent/deterministic.py, or an LLM free to call any tool at any time),   *)
(* the tools of agent/supervisor.py and tools/, and the worker threads of  *)
(* module Worker running beside it.                                        *)
(*                                                                         *)
(* A tool is as many actions as it has transactions and external effects,  *)
(* so that the worker moves, or a transaction raises, in between.  What a  *)
(* tool returns to the model is not kept: both backends decide from the    *)
(* durable state, the LLM at will.                                         *)
(***************************************************************************)
EXTENDS Worker

CONSTANTS
  Backend,      \* "deterministic" or "llm"
  TurnBudget,   \* turn_budget of supervise
  MaxSteps,     \* MAX_STEPS of the deterministic backend; for an LLM the
                \* bound the agent framework puts on one turn's model calls
  MayExit       \* whether the process may exit

ASSUME SupervisionAssumption ==
  /\ Backend \in {"deterministic", "llm"}
  /\ TurnBudget \in Nat \ {0}
  /\ MaxSteps \in Nat \ {0}
  /\ MayExit \in BOOLEAN

\* So that bounding the threads never blocks the deterministic backend.
ASSUME EnoughThreads == Backend = "deterministic" => MaxLaunches > MaxFaults

VARIABLES
  sup,      \* the Supervisor thread: pc, turn, model calls, and what a tool
            \* in progress has read (a tree, a verdict)
  tests,    \* pytest_run evidence in recording order, and which of the rows
            \* has the greatest id (ids are random, 0: no row)
  checked,  \* deployment_check evidence is recorded
  started,  \* the worker.turn_started event is recorded
  served    \* the tree the work order's container serves; NoTree: no container

supVars == <<sup, tests, checked, started, served>>
vars == <<row, worker, tree, faults, sup, tests, checked, started, served>>

TOOLS == {"create_worker_runtime", "checkout_baseline", "start_worker_turn",
          "get_worker_status", "get_deployment_status", "run_acceptance_tests",
          "commit_candidate", "deploy_candidate", "record_evidence",
          "mark_complete", "mark_failed"}

\* The later steps of the tools that have several.
MIDTOOL == {"checkout.save", "start.launch", "start.audit", "tests.save",
            "commit.save", "deploy.build", "deploy.run", "deploy.health",
            "deploy.save", "deploy.evidence"}

LOOP == {"new", "launch", "top", "think", "audit", "final", "giveup", "done", "dead"}

Run == [tree : Nat, ok : BOOLEAN]

SUP_PC == TOOLS \cup MIDTOOL \cup LOOP

SupTypeOK ==
  sup \in [pc : SUP_PC, turn : 0 .. TurnBudget, steps : 0 .. MaxSteps,
           tree : Nat, ok : BOOLEAN]

TestsTypeOK ==
  /\ tests \in [runs : Seq(Run), top : Nat]
  /\ tests.top \in 0 .. Len(tests.runs)
  /\ tests.top = 0 => tests.runs = <<>>

TypeOK ==
  /\ WorkerTypeOK
  /\ SupTypeOK
  /\ TestsTypeOK
  /\ checked \in BOOLEAN
  /\ started \in BOOLEAN
  /\ served \in Nat

Init ==
  /\ WorkerInit
  /\ sup = [pc |-> "new", turn |-> 0, steps |-> 0, tree |-> NoTree, ok |-> FALSE]
  /\ tests = [runs |-> <<>>, top |-> 0]
  /\ checked = FALSE
  /\ started = FALSE
  /\ served = NoTree

At(l) == sup.pc = l
\* What a tool has read is forgotten unless a step says otherwise.
Goto(l) == sup' = [sup EXCEPT !.pc = l, !.tree = NoTree, !.ok = FALSE]

\* _latest_pytest_evidence: the row with the greatest id.
HasEvidence == tests.top # 0
Passed == HasEvidence /\ tests.runs[tests.top].ok

-----------------------------------------------------------------------------
(* The deterministic backend: DeterministicSupervisorLlm._next_action.     *)

\* Mutants of the rule cascade: no poll while the worker waits; red tests are
\* run again; no health rule; deployment before the tests; no terminal rule.
NextActionNoWait ==
  IF ~row.runtime THEN "create_worker_runtime"
  ELSE IF row.baseline = NoTree THEN "checkout_baseline"
  ELSE IF ~started THEN "start_worker_turn"
  ELSE IF row.worker \in {"starting", "running"} THEN "get_worker_status"
  ELSE IF row.worker = "failed" THEN "mark_failed"
  ELSE IF ~Passed THEN IF HasEvidence THEN "mark_failed" ELSE "run_acceptance_tests"
  ELSE IF row.candidate = NoTree THEN "commit_candidate"
  ELSE IF ~row.deployed THEN "deploy_candidate"
  ELSE IF row.health # "healthy" THEN "mark_failed" ELSE "mark_complete"
NextActionRetest ==
  IF IsTerminal(row) THEN "audit"
  ELSE IF started /\ row.worker = "done" /\ ~Passed THEN "run_acceptance_tests"
  ELSE NextActionNoWait
NextActionNoHealth ==
  IF row.deployed THEN IF IsTerminal(row) THEN "audit" ELSE "mark_complete"
  ELSE NextActionNoWait
NextActionUntested ==
  IF started /\ row.worker = "done" /\ row.candidate = NoTree THEN "commit_candidate"
  ELSE IF started /\ row.worker = "done" /\ ~row.deployed THEN "deploy_candidate"
  ELSE NextActionNoWait
NextActionEndless ==
  IF IsTerminal(row) /\ row.candidate # NoTree THEN "deploy_candidate"
  ELSE NextActionNoWait

NextAction ==
  IF IsTerminal(row) THEN "audit"
  ELSE IF ~row.runtime THEN "create_worker_runtime"
  ELSE IF row.baseline = NoTree THEN "checkout_baseline"
  ELSE IF ~started THEN "start_worker_turn"
  ELSE IF row.worker \in {"starting", "running", "waiting"} THEN "get_worker_status"
  ELSE IF row.worker = "failed" THEN "mark_failed"
  ELSE IF ~Passed THEN IF HasEvidence THEN "mark_failed" ELSE "run_acceptance_tests"
  ELSE IF row.candidate = NoTree THEN "commit_candidate"
  ELSE IF ~row.deployed THEN "deploy_candidate"
  ELSE IF row.health # "healthy" THEN "mark_failed" ELSE "mark_complete"

OutOfSteps == sup.steps = MaxSteps

-----------------------------------------------------------------------------
(* agent/runner.py: start_supervised_delivery and the supervise loop.      *)

SubmitDelivery ==
  /\ At("new")
  /\ row' = Created(row)
  /\ Goto("launch")
  /\ UNCHANGED <<worker, tree, faults, tests, checked, started, served>>

LaunchSupervisor ==
  /\ At("launch")
  /\ Goto("top")
  /\ UNCHANGED <<row, worker, tree, faults, tests, checked, started, served>>

\* Mutant: one turn too many.
WithinBudgetOff == sup.turn <= TurnBudget

WithinBudget == sup.turn < TurnBudget

\* The terminal check, made at the top of a turn only.  The step count of an
\* LLM turn starts afresh; the deterministic backend counts over its lifetime.
BeginTurn ==
  /\ At("top")
  /\ WithinBudget
  /\ ~IsTerminal(row)
  /\ sup' = [sup EXCEPT !.pc = "think", !.turn = @ + 1,
                        !.steps = IF Backend = "llm" THEN 0 ELSE @]
  /\ UNCHANGED <<row, worker, tree, faults, tests, checked, started, served>>

LeaveLoop ==
  /\ At("top")
  /\ ~WithinBudget \/ IsTerminal(row)
  /\ Goto("final")
  /\ UNCHANGED <<row, worker, tree, faults, tests, checked, started, served>>

\* The model answers: a tool call, or a text that ends the turn ("audit").
Calls(action) ==
  /\ At("think")
  /\ ~OutOfSteps
  /\ sup' = [sup EXCEPT !.pc = action, !.steps = @ + 1]
  /\ UNCHANGED <<row, worker, tree, faults, tests, checked, started, served>>

ThinkDeterministic == Backend = "deterministic" /\ Calls(NextAction)

\* Any tool, a text, or an error of the model's own.  Threads are bounded, so a
\* worker turn is only asked for while one is left.
ThinkLlm ==
  /\ Backend = "llm"
  /\ \E action \in TOOLS \cup {"audit"} :
       /\ action = "start_worker_turn" => Idle # {}
       /\ Calls(action)

\* Mutant: the limit on model calls does not end the turn.
StepsIgnored ==
  /\ At("think")
  /\ OutOfSteps
  /\ Goto("think")
  /\ UNCHANGED <<row, worker, tree, faults, tests, checked, started, served>>

StepsExhausted ==
  /\ At("think")
  /\ OutOfSteps
  /\ Goto("audit")
  /\ UNCHANGED <<row, worker, tree, faults, tests, checked, started, served>>

\* The turn is audited (supervisor_turn), whether it ended well or broke.
AuditTurn ==
  /\ At("audit")
  /\ Goto("top")
  /\ UNCHANGED <<row, worker, tree, faults, tests, checked, started, served>>

\* Mutant: no verdict is forced after the last turn.
ReadFinalLenient ==
  /\ At("final")
  /\ Goto("done")
  /\ UNCHANGED <<row, worker, tree, faults, tests, checked, started, served>>

ReadFinal ==
  /\ At("final")
  /\ Goto(IF IsTerminal(row) THEN "done" ELSE "giveup")
  /\ UNCHANGED <<row, worker, tree, faults, tests, checked, started, served>>

\* mark_failed: "supervisor turn budget exhausted without a terminal decision".
GiveUp ==
  /\ At("giveup")
  /\ row' = Marked(row, "failed")
  /\ Goto("done")
  /\ UNCHANGED <<worker, tree, faults, tests, checked, started, served>>

-----------------------------------------------------------------------------
(* The tools.                                                              *)

CreateWorkerRuntime ==
  /\ At("create_worker_runtime")
  /\ row' = Provisioned(row)
  /\ Goto("think")
  /\ UNCHANGED <<worker, tree, faults, tests, checked, started, served>>

\* A recorded baseline is returned; a populated workspace without one is an error.
CheckoutSkips ==
  /\ At("checkout_baseline")
  /\ row.baseline # NoTree \/ tree # NoTree
  /\ Goto("think")
  /\ UNCHANGED <<row, worker, tree, faults, tests, checked, started, served>>

CheckoutClones ==
  /\ At("checkout_baseline")
  /\ row.baseline = NoTree /\ tree = NoTree
  /\ tree' = 1
  /\ sup' = [sup EXCEPT !.pc = "checkout.save", !.tree = 1]
  /\ UNCHANGED <<row, worker, faults, tests, checked, started, served>>

CheckoutSaves ==
  /\ At("checkout.save")
  /\ row' = [row EXCEPT !.baseline = sup.tree]
  /\ Goto("think")
  /\ UNCHANGED <<worker, tree, faults, tests, checked, started, served>>

\* start_worker_turn: register, start the thread, and only then record the
\* worker.turn_started event.  Without a workspace it is refused.
StartRefused ==
  /\ At("start_worker_turn")
  /\ tree = NoTree
  /\ Goto("think")
  /\ UNCHANGED <<row, worker, tree, faults, tests, checked, started, served>>

StartRegisters ==
  /\ At("start_worker_turn")
  /\ tree # NoTree
  /\ RegisterWorker
  /\ Goto("start.launch")
  /\ UNCHANGED <<worker, tree, faults, tests, checked, started, served>>

StartLaunches ==
  /\ At("start.launch")
  /\ Launch
  /\ Goto("start.audit")
  /\ UNCHANGED <<row, tree, faults, tests, checked, started, served>>

\* Mutant: the launch leaves no trace.
StartForgets ==
  /\ At("start.audit")
  /\ Goto("think")
  /\ UNCHANGED <<row, worker, tree, faults, tests, checked, started, served>>

StartAudits ==
  /\ At("start.audit")
  /\ started' = TRUE
  /\ Goto("think")
  /\ UNCHANGED <<row, worker, tree, faults, tests, checked, served>>

\* The tools that only read, and update_work_order(gaps), which no decision reads.
GetStatus ==
  /\ At("get_worker_status")
  /\ Goto("think")
  /\ UNCHANGED <<row, worker, tree, faults, tests, checked, started, served>>

\* An id no row has raises, and the turn breaks.
GetDeploymentStatus ==
  /\ At("get_deployment_status")
  /\ Goto(IF row.deployed THEN "think" ELSE "audit")
  /\ UNCHANGED <<row, worker, tree, faults, tests, checked, started, served>>

\* run_acceptance_tests runs the suite on the workspace as it is ...
RunTests ==
  /\ At("run_acceptance_tests")
  /\ tree # NoTree
  /\ \E ok \in BOOLEAN :
       sup' = [sup EXCEPT !.pc = "tests.save", !.tree = tree, !.ok = ok]
  /\ UNCHANGED <<row, worker, tree, faults, tests, checked, started, served>>

\* ... and records what came of it under a fresh random id.
Recorded(run) ==
  \E top \in {tests.top, Len(tests.runs) + 1} \ {0} :
    tests' = [runs |-> Append(tests.runs, run), top |-> top]

TestsSaved ==
  /\ At("tests.save")
  /\ Recorded([tree |-> sup.tree, ok |-> sup.ok])
  /\ Goto("think")
  /\ UNCHANGED <<row, worker, tree, faults, checked, started, served>>

\* record_evidence called by the model itself, with a payload of its choice.
RecordEvidence ==
  /\ At("record_evidence")
  /\ \/ \E ok \in BOOLEAN : Recorded([tree |-> NoTree, ok |-> ok]) /\ UNCHANGED checked
     \/ checked' = TRUE /\ UNCHANGED tests
  /\ Goto("think")
  /\ UNCHANGED <<row, worker, tree, faults, started, served>>

Commit ==
  /\ At("commit_candidate")
  /\ tree # NoTree
  /\ sup' = [sup EXCEPT !.pc = "commit.save", !.tree = tree]
  /\ UNCHANGED <<row, worker, tree, faults, tests, checked, started, served>>

CommitSaves ==
  /\ At("commit.save")
  /\ row' = [row EXCEPT !.candidate = sup.tree]
  /\ Goto("think")
  /\ UNCHANGED <<worker, tree, faults, tests, checked, started, served>>

\* No candidate, or (an LLM's choice) a sha that is not the recorded one.
DeployRefused ==
  /\ At("deploy_candidate")
  /\ row.candidate = NoTree \/ Backend = "llm"
  /\ Goto("think")
  /\ UNCHANGED <<row, worker, tree, faults, tests, checked, started, served>>

\* docker.deploy: remove the old container, build the workspace, run the image.
\* An attempt that fails and is retried leaves nothing behind: its build is as
\* if it came later.
DeployRemoves ==
  /\ At("deploy_candidate")
  /\ row.candidate # NoTree
  /\ served' = NoTree
  /\ Goto("deploy.build")
  /\ UNCHANGED <<row, worker, tree, faults, tests, checked, started>>

DeployBuilds ==
  /\ At("deploy.build")
  /\ sup' = [sup EXCEPT !.pc = "deploy.run", !.tree = tree]
  /\ UNCHANGED <<row, worker, tree, faults, tests, checked, started, served>>

DeployRuns ==
  /\ At("deploy.run")
  /\ served' = sup.tree
  /\ Goto("deploy.health")
  /\ UNCHANGED <<row, worker, tree, faults, tests, checked, started>>

DeployProbes ==
  /\ At("deploy.health")
  /\ \E ok \in BOOLEAN : sup' = [sup EXCEPT !.pc = "deploy.save", !.ok = ok]
  /\ UNCHANGED <<row, worker, tree, faults, tests, checked, started, served>>

\* Mutant: the outcome of the probe is not recorded as evidence.
DeploySavesOnly ==
  /\ At("deploy.save")
  /\ row' = DeploymentRecorded(row, row.candidate, IF sup.ok THEN "healthy" ELSE "unhealthy")
  /\ Goto("think")
  /\ UNCHANGED <<worker, tree, faults, tests, checked, started, served>>

\* The candidate the tool read at its start: only this thread writes it.
DeploySaves ==
  /\ At("deploy.save")
  /\ row' = DeploymentRecorded(row, row.candidate, IF sup.ok THEN "healthy" ELSE "unhealthy")
  /\ Goto(IF sup.ok THEN "deploy.evidence" ELSE "think")
  /\ UNCHANGED <<worker, tree, faults, tests, checked, started, served>>

DeployRecords ==
  /\ At("deploy.evidence")
  /\ checked' = TRUE
  /\ Goto("think")
  /\ UNCHANGED <<row, worker, tree, faults, tests, started, served>>

\* mark_complete and mark_failed; the conflicting mark raises.
Mark(tool, status) ==
  /\ At(tool)
  /\ ~MarkConflicts(row, status)
  /\ row' = Marked(row, status)
  /\ Goto("think")
  /\ UNCHANGED <<worker, tree, faults, tests, checked, started, served>>

MarkRaises(tool, status) ==
  /\ At(tool)
  /\ MarkConflicts(row, status)
  /\ Goto("audit")
  /\ UNCHANGED <<row, worker, tree, faults, tests, checked, started, served>>

MarkTools ==
  \/ Mark("mark_complete", "complete") \/ MarkRaises("mark_complete", "complete")
  \/ Mark("mark_failed", "failed") \/ MarkRaises("mark_failed", "failed")

-----------------------------------------------------------------------------
(* What goes wrong.                                                        *)

\* Git, the test suite, the image build or the container fails: the wrapper
\* turns the exception into an error result.
ToolFails ==
  /\ sup.pc \in {"create_worker_runtime", "checkout_baseline", "run_acceptance_tests",
                 "commit_candidate", "deploy.build", "deploy.run"}
  /\ Goto("think")
  /\ UNCHANGED <<row, worker, tree, faults, tests, checked, started, served>>

\* Where a transaction that raises takes the Supervisor thread: a wrapped tool
\* returns the error, a raw one breaks the turn, and outside the turn's try
\* block the thread ends (as it does if building the agent raises, at "launch").
Raises(steps, next) ==
  /\ sup.pc \in steps
  /\ Fault
  /\ Goto(next)
  /\ UNCHANGED <<row, worker, tree, tests, checked, started, served>>

DbFails ==
  \/ Raises({"create_worker_runtime", "checkout_baseline", "checkout.save",
             "start_worker_turn", "start.audit", "tests.save", "commit_candidate",
             "commit.save", "deploy_candidate", "deploy.save", "deploy.evidence"}, "think")
  \/ Raises({"think", "get_worker_status", "get_deployment_status", "record_evidence",
             "mark_complete", "mark_failed"}, "audit")
  \/ Raises({"new", "launch", "top", "audit", "final", "giveup"}, "dead")

\* The process exits; its threads are daemons and end with it.
ProcessExits ==
  /\ MayExit
  /\ sup.pc \notin {"new", "done", "dead"}
  /\ Fault
  /\ Goto("dead")
  /\ worker' = [t \in Threads |-> IF Live(t) THEN "dead" ELSE worker[t]]
  /\ UNCHANGED <<row, tree, tests, checked, started, served>>

-----------------------------------------------------------------------------
SupStep ==
  \/ SubmitDelivery \/ LaunchSupervisor \/ BeginTurn \/ LeaveLoop
  \/ ThinkDeterministic \/ ThinkLlm \/ StepsExhausted
  \/ AuditTurn \/ ReadFinal \/ GiveUp
  \/ CreateWorkerRuntime \/ CheckoutSkips \/ CheckoutClones \/ CheckoutSaves
  \/ StartRefused \/ StartRegisters \/ StartLaunches \/ StartAudits
  \/ GetStatus \/ GetDeploymentStatus \/ RunTests \/ TestsSaved \/ RecordEvidence
  \/ Commit \/ CommitSaves
  \/ DeployRefused \/ DeployRemoves \/ DeployBuilds \/ DeployRuns
  \/ DeployProbes \/ DeploySaves \/ DeployRecords
  \/ MarkTools \/ ToolFails

WorkerMoves == (\E t \in Threads : WorkerStep(t)) /\ UNCHANGED supVars

Next == SupStep \/ WorkerMoves \/ DbFails \/ ProcessExits

Spec == Init /\ [][Next]_vars

\* The Supervisor thread is scheduled and the calls it makes return.  Nothing is
\* assumed of a worker: a turn may hang.
FairSpec == Spec /\ WF_vars(SupStep)
=============================================================================
