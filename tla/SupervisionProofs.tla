-------------------------- MODULE SupervisionProofs --------------------------
(***************************************************************************)
(* Proofs about module Supervision, for every value of its constants.      *)
(***************************************************************************)
EXTENDS SupervisionProperties, WorkerProofs

-----------------------------------------------------------------------------
(* Type correctness.                                                       *)

\* The initial state is well typed.
LEMMA InitType == Init => TypeOK
<1>. SUFFICES ASSUME Init PROVE TypeOK
  OBVIOUS
<1>1. NoRow \in Row
  BY DEF NoRow, Row, OVERALL_STATUSES, WORKER_STATUSES, HEALTH, NoTree
<1>2. WorkerTypeOK
  BY <1>1, WorkerAssumption DEF Init, WorkerInit, WorkerTypeOK, NoTree, WORKER_PC
<1>3. SupTypeOK
  BY SupervisionAssumption DEF Init, NoTree, SupTypeOK, SUP_PC, LOOP
<1>4. TestsTypeOK
  BY DEF Init, TestsTypeOK
<1>. QED
  BY <1>2, <1>3, <1>4 DEF Init, TypeOK, NoTree

\* Moving the Supervisor thread to any of its steps keeps it well typed.
LEMMA GotoType ==
  ASSUME SupTypeOK, NEW l \in SUP_PC, Goto(l)
  PROVE  SupTypeOK'
BY DEF SupTypeOK, Goto, NoTree

\* Appending a run under an id that is or is not the greatest keeps the
\* evidence well typed.
LEMMA RecordedType ==
  ASSUME TestsTypeOK, NEW run \in Run, Recorded(run)
  PROVE  TestsTypeOK'
<1>. DEFINE n == Len(tests.runs) + 1
<1>1. PICK top \in {tests.top, n} \ {0} :
        tests' = [runs |-> Append(tests.runs, run), top |-> top]
  BY DEF Recorded
<1>2. Append(tests.runs, run) \in Seq(Run) /\ Len(Append(tests.runs, run)) = n
  BY DEF TestsTypeOK
<1>. QED
  BY <1>1, <1>2 DEF TestsTypeOK

\* The steps of the supervise loop.
LEMMA LoopType ==
  ASSUME TypeOK,
         \/ SubmitDelivery \/ LaunchSupervisor \/ BeginTurn \/ LeaveLoop
         \/ ThinkDeterministic \/ ThinkLlm \/ StepsExhausted
         \/ AuditTurn \/ ReadFinal \/ GiveUp
  PROVE  TypeOK'
<1>. USE DEF TypeOK, WorkerTypeOK, TestsTypeOK
<1>0. {"launch", "top", "think", "audit", "final", "giveup", "done"} \subseteq SUP_PC
  BY DEF SUP_PC, LOOP
<1>1. CASE SubmitDelivery
  <2>1. Created(row) \in Row
    BY RowUpdates DEF HEALTH, WORKER_STATUSES
  <2>. QED
    BY <1>0, <1>1, <2>1, GotoType DEF SubmitDelivery
<1>2. CASE LaunchSupervisor
  BY <1>0, <1>2, GotoType DEF LaunchSupervisor
<1>3. CASE BeginTurn
  <2>1. sup.turn + 1 \in 0 .. TurnBudget /\ 0 \in 0 .. MaxSteps
    BY <1>3, SupervisionAssumption DEF BeginTurn, WithinBudget, SupTypeOK
  <2>2. SupTypeOK'
    BY <1>0, <1>3, <2>1 DEF BeginTurn, SupTypeOK
  <2>. QED
    BY <1>3, <2>2 DEF BeginTurn
<1>4. CASE LeaveLoop
  BY <1>0, <1>4, GotoType DEF LeaveLoop
<1>5. ASSUME NEW action \in SUP_PC, Calls(action)
      PROVE  TypeOK'
  <2>1. sup.steps + 1 \in 0 .. MaxSteps
    BY <1>5, SupervisionAssumption DEF Calls, OutOfSteps, SupTypeOK
  <2>2. SupTypeOK'
    BY <1>5, <2>1 DEF Calls, SupTypeOK
  <2>. QED
    BY <1>5, <2>2 DEF Calls
<1>6. CASE ThinkDeterministic
  <2>1. NextAction \in SUP_PC
    BY DEF NextAction, SUP_PC, TOOLS, LOOP
  <2>. QED
    BY <1>5, <1>6, <2>1 DEF ThinkDeterministic
<1>7. CASE ThinkLlm
  BY <1>5, <1>7 DEF ThinkLlm, SUP_PC, LOOP
<1>8. CASE StepsExhausted
  BY <1>0, <1>8, GotoType DEF StepsExhausted
<1>9. CASE AuditTurn
  BY <1>0, <1>9, GotoType DEF AuditTurn
<1>10. CASE ReadFinal
  BY <1>0, <1>10, GotoType DEF ReadFinal
<1>11. CASE GiveUp
  BY <1>0, <1>11, GotoType, MarkedType DEF GiveUp, TERMINAL_STATUSES
<1>. QED
  BY <1>1, <1>2, <1>3, <1>4, <1>6, <1>7, <1>8, <1>9, <1>10, <1>11

\* The steps of the tools up to the test run.
LEMMA PrepareType ==
  ASSUME TypeOK,
         \/ CreateWorkerRuntime \/ CheckoutSkips \/ CheckoutClones \/ CheckoutSaves
         \/ StartRefused \/ StartRegisters \/ StartLaunches \/ StartAudits
         \/ GetStatus \/ GetDeploymentStatus \/ RunTests \/ TestsSaved \/ RecordEvidence
  PROVE  TypeOK'
<1>. USE DEF TypeOK, WorkerTypeOK, NoTree
<1>0. {"think", "audit", "checkout.save", "start.launch", "start.audit", "tests.save"}
        \subseteq SUP_PC
  BY DEF SUP_PC, LOOP, MIDTOOL
<1>u. /\ Provisioned(row) \in Row /\ Registered(row) \in Row
      /\ \A c \in Nat : [row EXCEPT !.baseline = c] \in Row
  BY RowUpdates DEF HEALTH, WORKER_STATUSES
<1>1. CASE CreateWorkerRuntime
  BY <1>0, <1>u, <1>1, GotoType DEF CreateWorkerRuntime, TestsTypeOK
<1>2. CASE CheckoutSkips
  BY <1>0, <1>2, GotoType DEF CheckoutSkips, TestsTypeOK
<1>3. CASE CheckoutClones
  BY <1>0, <1>3 DEF CheckoutClones, SupTypeOK, TestsTypeOK
<1>4. CASE CheckoutSaves
  BY <1>0, <1>u, <1>4, GotoType DEF CheckoutSaves, SupTypeOK, TestsTypeOK
<1>5. CASE StartRefused
  BY <1>0, <1>5, GotoType DEF StartRefused, TestsTypeOK
<1>6. CASE StartRegisters
  BY <1>0, <1>u, <1>6, GotoType DEF StartRegisters, RegisterWorker, TestsTypeOK
<1>7. CASE StartLaunches
  <2>1. worker' \in [Threads -> WORKER_PC]
    BY <1>7 DEF StartLaunches, Launch, LaunchBy, Moves, WORKER_PC
  <2>. QED
    BY <1>0, <1>7, <2>1, GotoType DEF StartLaunches, TestsTypeOK
<1>8. CASE StartAudits
  BY <1>0, <1>8, GotoType DEF StartAudits, TestsTypeOK
<1>9. CASE GetStatus
  BY <1>0, <1>9, GotoType DEF GetStatus, TestsTypeOK
<1>10. CASE GetDeploymentStatus
  BY <1>0, <1>10, GotoType DEF GetDeploymentStatus, TestsTypeOK
<1>11. CASE RunTests
  BY <1>0, <1>11 DEF RunTests, SupTypeOK, TestsTypeOK
<1>12. CASE TestsSaved
  <2>1. [tree |-> sup.tree, ok |-> sup.ok] \in Run
    BY DEF SupTypeOK, Run
  <2>2. TestsTypeOK'
    BY <1>12, <2>1, RecordedType DEF TestsSaved
  <2>. QED
    BY <1>0, <1>12, <2>2, GotoType DEF TestsSaved
<1>13. CASE RecordEvidence
  <2>1. \A b \in BOOLEAN : [tree |-> NoTree, ok |-> b] \in Run
    BY DEF Run
  <2>2. TestsTypeOK' /\ checked' \in BOOLEAN
    BY <1>13, <2>1, RecordedType DEF RecordEvidence, TestsTypeOK
  <2>. QED
    BY <1>0, <1>13, <2>2, GotoType DEF RecordEvidence
<1>. QED
  BY <1>1, <1>2, <1>3, <1>4, <1>5, <1>6, <1>7, <1>8, <1>9, <1>10, <1>11, <1>12, <1>13

\* The steps of the tools from the commit on, and the failing steps.
LEMMA DeliverType ==
  ASSUME TypeOK,
         \/ Commit \/ CommitSaves
         \/ DeployRefused \/ DeployRemoves \/ DeployBuilds \/ DeployRuns
         \/ DeployProbes \/ DeploySaves \/ DeployRecords
         \/ MarkTools \/ ToolFails \/ DbFails \/ ProcessExits
  PROVE  TypeOK'
<1>. USE DEF TypeOK, WorkerTypeOK, NoTree
<1>0. {"think", "audit", "top", "dead", "commit.save", "deploy.build", "deploy.run",
        "deploy.health", "deploy.save", "deploy.evidence"} \subseteq SUP_PC
  BY DEF SUP_PC, LOOP, MIDTOOL
<1>u. /\ \A c \in Nat : [row EXCEPT !.candidate = c] \in Row
      /\ \A h \in HEALTH : DeploymentRecorded(row, row.candidate, h) \in Row
      /\ \A s \in TERMINAL_STATUSES : Marked(row, s) \in Row
  <2>1. row.candidate \in Nat
    BY DEF Row
  <2>. QED
    BY <2>1, RowUpdates, MarkedType DEF HEALTH, WORKER_STATUSES
<1>1. CASE Commit
  BY <1>0, <1>1 DEF Commit, SupTypeOK, TestsTypeOK
<1>2. CASE CommitSaves
  BY <1>0, <1>u, <1>2, GotoType DEF CommitSaves, SupTypeOK, TestsTypeOK
<1>3. CASE DeployRefused
  BY <1>0, <1>3, GotoType DEF DeployRefused, TestsTypeOK
<1>4. CASE DeployRemoves
  BY <1>0, <1>4, GotoType DEF DeployRemoves, TestsTypeOK
<1>5. CASE DeployBuilds
  BY <1>0, <1>5 DEF DeployBuilds, SupTypeOK, TestsTypeOK
<1>6. CASE DeployRuns
  BY <1>0, <1>6, GotoType DEF DeployRuns, SupTypeOK, TestsTypeOK
<1>7. CASE DeployProbes
  BY <1>0, <1>7 DEF DeployProbes, SupTypeOK, TestsTypeOK
<1>8. CASE DeploySaves
  BY <1>0, <1>u, <1>8, GotoType DEF DeploySaves, HEALTH, TestsTypeOK
<1>9. CASE DeployRecords
  BY <1>0, <1>9, GotoType DEF DeployRecords, TestsTypeOK
<1>10. CASE MarkTools
  BY <1>0, <1>u, <1>10, GotoType
     DEF MarkTools, Mark, MarkRaises, TERMINAL_STATUSES, TestsTypeOK
<1>11. CASE ToolFails
  BY <1>0, <1>11, GotoType DEF ToolFails, TestsTypeOK
<1>12. CASE DbFails
  BY <1>0, <1>12, GotoType, WorkerAssumption DEF DbFails, Raises, Fault, TestsTypeOK
<1>13. CASE ProcessExits
  <2>1. worker' \in [Threads -> WORKER_PC]
    BY <1>13 DEF ProcessExits, WORKER_PC
  <2>. QED
    BY <1>0, <1>13, <2>1, GotoType, WorkerAssumption
       DEF ProcessExits, Fault, TestsTypeOK
<1>. QED
  BY <1>1, <1>2, <1>3, <1>4, <1>5, <1>6, <1>7, <1>8, <1>9, <1>10, <1>11, <1>12, <1>13

\* Every step keeps the state well typed.
LEMMA NextType == TypeOK /\ [Next]_vars => TypeOK'
<1>. SUFFICES ASSUME TypeOK, [Next]_vars PROVE TypeOK'
  OBVIOUS
<1>1. CASE SupStep
  BY <1>1, LoopType, PrepareType, DeliverType DEF SupStep
<1>2. CASE WorkerMoves
  BY <1>2, WorkerStepType DEF WorkerMoves, supVars, TypeOK, SupTypeOK, TestsTypeOK
<1>3. CASE DbFails \/ ProcessExits
  BY <1>3, DeliverType
<1>4. CASE UNCHANGED vars
  BY <1>4 DEF vars, TypeOK, WorkerTypeOK, SupTypeOK, TestsTypeOK
<1>. QED
  BY <1>1, <1>2, <1>3, <1>4 DEF Next

\* Every reachable state of a supervised delivery is well typed: in particular
\* the loop never runs more turns than its budget, and the deterministic
\* backend never takes more model steps than its own.
THEOREM TypeCorrect == Spec => []TypeOK
BY InitType, NextType, PTL DEF Spec

-----------------------------------------------------------------------------
(* The verdict: either backend, any faults.                                *)

\* What the verdict invariants rest on: they hold together with the facts that
\* the row is still absent when the delivery is submitted, and that the loop
\* returns only after it has seen or forced a verdict.
VerdictInv ==
  /\ OneVerdict
  /\ At("new") => row.overall = "absent"
  /\ ReturnsWithVerdict

SameVerdict == row'.overall = row.overall /\ row'.artifacts = row.artifacts

\* The steps that touch neither the row nor the ends of the Supervisor thread.
LEMMA QuietSteps ==
  ASSUME TypeOK,
         \/ LaunchSupervisor \/ BeginTurn \/ LeaveLoop
         \/ ThinkDeterministic \/ ThinkLlm \/ StepsExhausted \/ AuditTurn
         \/ CheckoutSkips \/ CheckoutClones \/ StartRefused \/ StartLaunches
         \/ StartAudits \/ GetStatus \/ GetDeploymentStatus \/ RunTests
         \/ TestsSaved \/ RecordEvidence \/ Commit \/ DeployRefused \/ DeployRemoves
         \/ DeployBuilds \/ DeployRuns \/ DeployProbes \/ DeployRecords
         \/ MarkRaises("mark_complete", "complete") \/ MarkRaises("mark_failed", "failed")
         \/ ToolFails \/ DbFails \/ ProcessExits
  PROVE  row' = row /\ sup'.pc \notin {"new", "done"}
<1>1. CASE ThinkDeterministic \/ ThinkLlm
  <2>1. NextAction \in TOOLS \cup {"audit"}
    BY DEF NextAction, TOOLS
  <2>2. PICK action \in TOOLS \cup {"audit"} : Calls(action)
    BY <1>1, <2>1 DEF ThinkDeterministic, ThinkLlm
  <2>. QED
    BY <2>2 DEF Calls, TOOLS, TypeOK, SupTypeOK
<1>2. CASE \/ LaunchSupervisor \/ BeginTurn \/ LeaveLoop \/ StepsExhausted \/ AuditTurn
           \/ CheckoutSkips \/ CheckoutClones \/ StartRefused \/ StartLaunches
           \/ StartAudits \/ GetStatus \/ GetDeploymentStatus \/ RunTests
           \/ TestsSaved \/ RecordEvidence
  BY <1>2
     DEF LaunchSupervisor, BeginTurn, LeaveLoop, StepsExhausted, AuditTurn,
         CheckoutSkips, CheckoutClones, StartRefused, StartLaunches, StartAudits,
         GetStatus, GetDeploymentStatus, RunTests, TestsSaved, RecordEvidence,
         Goto, TypeOK, SupTypeOK
<1>3. CASE \/ Commit \/ DeployRefused \/ DeployRemoves \/ DeployBuilds \/ DeployRuns
           \/ DeployProbes \/ DeployRecords
           \/ MarkRaises("mark_complete", "complete") \/ MarkRaises("mark_failed", "failed")
           \/ ToolFails \/ DbFails \/ ProcessExits
  BY <1>3
     DEF Commit, DeployRefused, DeployRemoves, DeployBuilds, DeployRuns, DeployProbes,
         DeployRecords, MarkRaises, ToolFails, DbFails, Raises, ProcessExits,
         Goto, TypeOK, SupTypeOK
<1>. QED
  BY <1>1, <1>2, <1>3

\* The steps that update other fields of the row than its verdict.
LEMMA FieldSteps ==
  ASSUME TypeOK,
         \/ CreateWorkerRuntime \/ CheckoutSaves \/ StartRegisters
         \/ CommitSaves \/ DeploySaves
  PROVE  SameVerdict /\ sup'.pc \notin {"new", "done"}
<1>1. row \in Row /\ \A l : Goto(l) => sup'.pc = l
  BY DEF Goto, TypeOK, SupTypeOK, WorkerTypeOK
<1>2. CASE CreateWorkerRuntime
  BY <1>1, <1>2 DEF CreateWorkerRuntime, Provisioned, Row, SameVerdict
<1>3. CASE CheckoutSaves
  BY <1>1, <1>3 DEF CheckoutSaves, Row, SameVerdict
<1>4. CASE StartRegisters
  BY <1>1, <1>4 DEF StartRegisters, RegisterWorker, Registered, Row, SameVerdict
<1>5. CASE CommitSaves
  BY <1>1, <1>5 DEF CommitSaves, Row, SameVerdict
<1>6. CASE DeploySaves
  BY <1>1, <1>6 DEF DeploySaves, DeploymentRecorded, Row, SameVerdict
<1>. QED
  BY <1>2, <1>3, <1>4, <1>5, <1>6

\* No worker thread touches the verdict or the Supervisor.
LEMMA WorkerKeepsVerdict ==
  ASSUME TypeOK, WorkerMoves
  PROVE  SameVerdict /\ sup' = sup
<1>1. PICK t \in Threads : WorkerStep(t) /\ UNCHANGED supVars
  BY DEF WorkerMoves
<1>2. row' = row \/ \E s \in WORKER_STATUSES : row' = WithWorkerStatus(row, s)
  BY <1>1 DEF WorkerStep, WorkerBegin, WorkerEdit, WorkerReport, WorkerFinish,
              WorkerReturns, WorkerCrash, WorkerGuard, SetStatus, WORKER_STATUSES
<1>3. row \in Row /\ sup' = sup
  BY <1>1 DEF supVars, TypeOK, WorkerTypeOK
<1>4. CASE row' = row
  BY <1>3, <1>4 DEF SameVerdict
<1>5. ASSUME NEW s \in WORKER_STATUSES, row' = WithWorkerStatus(row, s)
      PROVE  SameVerdict
  BY <1>3, <1>5 DEF SameVerdict, WithWorkerStatus, Row
<1>. QED
  BY <1>2, <1>3, <1>4, <1>5

\* Marking an open row gives it its one verdict, marking a terminal row nothing.
LEMMA MarkedVerdict ==
  ASSUME row \in Row, OneVerdict, NEW status \in TERMINAL_STATUSES,
         row' = Marked(row, status)
  PROVE  /\ OneVerdict' /\ IsTerminal(row')
         /\ IsTerminal(row) => SameVerdict
<1>1. CASE IsTerminal(row)
  BY <1>1 DEF Marked, OneVerdict, SameVerdict, IsTerminal
<1>2. CASE ~IsTerminal(row)
  <2>1. row.artifacts = <<>>
    BY <1>2 DEF OneVerdict
  <2>2. row'.overall = status /\ row'.artifacts = <<ArtifactOf(status)>>
    BY <1>2, <2>1 DEF Marked, Row
  <2>. QED
    BY <1>2, <2>2 DEF OneVerdict, IsTerminal
<1>. QED
  BY <1>1, <1>2

\* Every step keeps the verdict invariant, and leaves a terminal verdict alone.
LEMMA VerdictStep ==
  ASSUME TypeOK, VerdictInv, [Next]_vars
  PROVE  VerdictInv' /\ (IsTerminal(row) => SameVerdict)
<1>. USE DEF TypeOK, WorkerTypeOK
<1>1. ASSUME SameVerdict, sup'.pc \notin {"new", "done"} \/ sup' = sup
      PROVE  VerdictInv' /\ (IsTerminal(row) => SameVerdict)
  BY <1>1 DEF VerdictInv, OneVerdict, ReturnsWithVerdict, SameVerdict, IsTerminal, At
<1>2. ASSUME NEW s \in TERMINAL_STATUSES, row' = Marked(row, s), sup'.pc # "new"
      PROVE  VerdictInv' /\ (IsTerminal(row) => SameVerdict)
  BY <1>2, MarkedVerdict DEF VerdictInv, ReturnsWithVerdict, At
<1>3. CASE SubmitDelivery
  <2>1. row.overall = "absent" /\ row.artifacts = <<>>
    BY <1>3 DEF SubmitDelivery, VerdictInv, OneVerdict, IsTerminal, TERMINAL_STATUSES
  <2>2. row'.overall = "in_progress" /\ row'.artifacts = <<>> /\ sup'.pc = "launch"
    BY <1>3, <2>1 DEF SubmitDelivery, Created, Goto, Row, SupTypeOK
  <2>. QED
    BY <2>1, <2>2 DEF VerdictInv, OneVerdict, ReturnsWithVerdict, IsTerminal,
                      TERMINAL_STATUSES, At
<1>4. CASE ReadFinal
  BY <1>4 DEF ReadFinal, Goto, At, SupTypeOK, VerdictInv, OneVerdict,
              ReturnsWithVerdict, SameVerdict, IsTerminal
<1>5. CASE GiveUp
  <2>1. row' = Marked(row, "failed") /\ sup'.pc # "new"
    BY <1>5 DEF GiveUp, Goto, SupTypeOK
  <2>. QED
    BY <1>2, <2>1 DEF TERMINAL_STATUSES
<1>6. CASE Mark("mark_complete", "complete") \/ Mark("mark_failed", "failed")
  <2>1. /\ row' = Marked(row, "complete") \/ row' = Marked(row, "failed")
        /\ sup'.pc # "new"
    BY <1>6 DEF Mark, Goto, SupTypeOK
  <2>. QED
    BY <1>2, <2>1 DEF TERMINAL_STATUSES
<1>7. CASE WorkerMoves
  BY <1>1, <1>7, WorkerKeepsVerdict
<1>8. CASE UNCHANGED vars
  BY <1>1, <1>8 DEF vars, SameVerdict
<1>9. CASE \/ CreateWorkerRuntime \/ CheckoutSaves \/ StartRegisters
           \/ CommitSaves \/ DeploySaves
  BY <1>1, <1>9, FieldSteps
<1>10. ASSUME row' = row, sup'.pc \notin {"new", "done"}
       PROVE  VerdictInv' /\ (IsTerminal(row) => SameVerdict)
  BY <1>1, <1>10 DEF SameVerdict
<1>. QED
  BY <1>3, <1>4, <1>5, <1>6, <1>7, <1>8, <1>9, <1>10, QuietSteps
     DEF Next, SupStep, MarkTools

\* The verdict invariant holds initially.
LEMMA VerdictInit == Init => VerdictInv
BY DEF Init, WorkerInit, NoRow, VerdictInv, OneVerdict, ReturnsWithVerdict, At,
       IsTerminal, TERMINAL_STATUSES

\* A delivery ends with exactly one recorded outcome, of the kind its status
\* says, whichever tools the model calls and whatever raises.
THEOREM OneVerdictHolds == Spec => []OneVerdict
<1>1. TypeOK /\ VerdictInv /\ [Next]_vars => VerdictInv'
  BY VerdictStep
<1>2. VerdictInv => OneVerdict
  BY DEF VerdictInv
<1>. QED
  BY <1>1, <1>2, VerdictInit, TypeCorrect, PTL DEF Spec

\* supervise returns only with a verdict in the database.
THEOREM ReturnsWithVerdictHolds == Spec => []ReturnsWithVerdict
<1>1. TypeOK /\ VerdictInv /\ [Next]_vars => VerdictInv'
  BY VerdictStep
<1>2. VerdictInv => ReturnsWithVerdict
  BY DEF VerdictInv
<1>. QED
  BY <1>1, <1>2, VerdictInit, TypeCorrect, PTL DEF Spec

\* A terminal status is never taken back or overwritten.
THEOREM VerdictStandsHolds == Spec => VerdictStands
<1>1. TypeOK /\ VerdictInv /\ [Next]_vars => VerdictInv'
  BY VerdictStep
<1>2. TypeOK /\ VerdictInv /\ [Next]_vars
        => [IsTerminal(row) =>
              row'.overall = row.overall /\ row'.artifacts = row.artifacts]_vars
  BY VerdictStep DEF SameVerdict
<1>. QED
  BY <1>1, <1>2, VerdictInit, TypeCorrect, PTL DEF Spec, VerdictStands

-----------------------------------------------------------------------------
(* The deterministic backend: any faults, any worker.                      *)

\* Where the Supervisor thread may be once the row is terminal.
RESTING == {"top", "think", "audit", "final", "done", "dead"}

TESTING == {"run_acceptance_tests", "tests.save"}

DEPLOYING == {"deploy_candidate", "deploy.build", "deploy.run", "deploy.health",
              "deploy.save", "deploy.evidence"}

\* The tools that need nothing but an open delivery.
NEUTRAL == {"new", "launch", "giveup", "create_worker_runtime", "checkout_baseline",
            "checkout.save", "start_worker_turn", "start.launch", "start.audit",
            "get_worker_status", "mark_failed"}

\* What is on record at any time: at most one test run, the one the rules read;
\* a container, a deployment and a completion only after it passed.
RecordInv ==
  /\ tests.top = Len(tests.runs)
  /\ OneTestRun
  /\ NeverServesRed
  /\ row.deployed => Passed /\ row.candidate # NoTree
  /\ CompletedIsVerified

\* What the rule that chose the tool in progress has found, which still holds
\* because only the Supervisor thread could have changed it.
StageInv ==
  /\ sup.pc \in RESTING \cup NEUTRAL \cup TESTING \cup DEPLOYING
               \cup {"commit_candidate", "commit.save", "mark_complete"}
  /\ IsTerminal(row) => sup.pc \in RESTING
  /\ sup.pc \in TESTING => ~HasEvidence
  /\ sup.pc \in DEPLOYING \cup {"commit_candidate", "commit.save"} => Passed
  /\ sup.pc \in DEPLOYING => row.candidate # NoTree
  /\ At("commit.save") => sup.tree # NoTree
  /\ At("mark_complete") => Verified

DetInv == RecordInv /\ StageInv

\* The fields of the row that the invariant reads.
SameFields ==
  /\ row'.overall = row.overall
  /\ row'.candidate = row.candidate
  /\ row'.deployed = row.deployed
  /\ row'.health = row.health

\* The records stay right while tests and fields stand still and the container
\* is at most removed.
LEMMA RecordFrame ==
  ASSUME RecordInv, SameFields, tests' = tests, served' = served \/ served' = NoTree
  PROVE  RecordInv'
BY DEF RecordInv, SameFields, OneTestRun, NeverServesRed, CompletedIsVerified,
       Verified, Passed, HasEvidence

\* If moreover the thread comes to rest, or moves within an open delivery to a
\* step that needs no more than that, the whole invariant is kept.
LEMMA DetFrame ==
  ASSUME DetInv, SameFields, tests' = tests, served' = served \/ served' = NoTree,
         \/ sup'.pc \in RESTING
         \/ sup'.pc \in NEUTRAL /\ ~IsTerminal(row)
  PROVE  DetInv'
<1>1. RecordInv'
  BY RecordFrame DEF DetInv
<1>2. StageInv'
  BY DEF DetInv, StageInv, SameFields, IsTerminal, RESTING, NEUTRAL, TESTING, DEPLOYING, At
<1>. QED
  BY <1>1, <1>2 DEF DetInv

\* The rules choose a tool only when what it needs is on record.
LEMMA DetThinks ==
  ASSUME TypeOK, DetInv, ThinkDeterministic
  PROVE  DetInv'
<1>1. /\ sup'.pc = NextAction
      /\ UNCHANGED <<row, tests, served>>
  BY DEF ThinkDeterministic, Calls, TypeOK, SupTypeOK
<1>2. RecordInv'
  BY <1>1, RecordFrame DEF DetInv, SameFields
<1>3. CASE IsTerminal(row)
  <2>1. NextAction = "audit"
    BY <1>3 DEF NextAction
  <2>. QED
    BY <1>1, <2>1, DetFrame DEF SameFields, RESTING
<1>4. CASE ~IsTerminal(row) /\ NextAction \in NEUTRAL
  BY <1>1, <1>4, DetFrame DEF SameFields
<1>5. CASE ~IsTerminal(row) /\ NextAction \notin NEUTRAL
  <2>1. \/ NextAction = "run_acceptance_tests" /\ ~HasEvidence
        \/ NextAction = "commit_candidate" /\ Passed
        \/ NextAction = "deploy_candidate" /\ Passed /\ row.candidate # NoTree
        \/ NextAction = "mark_complete" /\ Verified
    BY <1>5 DEF NextAction, NEUTRAL, Passed, Verified, DetInv, RecordInv
  <2>2. StageInv'
    BY <1>1, <1>5, <2>1
       DEF StageInv, RESTING, NEUTRAL, TESTING, DEPLOYING, At, Passed, HasEvidence,
           Verified, IsTerminal
  <2>. QED
    BY <1>2, <2>2 DEF DetInv
<1>. QED
  BY <1>3, <1>4, <1>5

\* The steps the frame covers: nothing on record changes.
LEMMA DetFramed ==
  ASSUME TypeOK, DetInv,
         \/ LaunchSupervisor \/ BeginTurn \/ LeaveLoop \/ StepsExhausted
         \/ AuditTurn \/ ReadFinal
         \/ CreateWorkerRuntime \/ CheckoutSkips \/ CheckoutClones \/ CheckoutSaves
         \/ StartRefused \/ StartRegisters \/ StartLaunches \/ StartAudits
         \/ GetStatus \/ GetDeploymentStatus \/ DeployRefused \/ DeployRecords
         \/ MarkRaises("mark_complete", "complete") \/ MarkRaises("mark_failed", "failed")
         \/ ToolFails \/ DbFails \/ ProcessExits
  PROVE  DetInv'
<1>. USE DEF SameFields
<1>1. row \in Row /\ (\A l : Goto(l) => sup'.pc = l) /\ (~IsTerminal(row) \/ sup.pc \in RESTING)
  BY DEF Goto, TypeOK, SupTypeOK, WorkerTypeOK, DetInv, StageInv
<1>2. CASE LaunchSupervisor \/ BeginTurn \/ LeaveLoop \/ StepsExhausted \/ AuditTurn
  <2>1. UNCHANGED <<row, tests, served>> /\ sup'.pc \in RESTING
    BY <1>1, <1>2 DEF LaunchSupervisor, BeginTurn, LeaveLoop, StepsExhausted, AuditTurn,
                      RESTING, TypeOK, SupTypeOK
  <2>. QED
    BY <2>1, DetFrame
<1>3. CASE ReadFinal
  <2>1. UNCHANGED <<row, tests, served>> /\ sup'.pc = IF IsTerminal(row) THEN "done" ELSE "giveup"
    BY <1>1, <1>3 DEF ReadFinal
  <2>. QED
    BY <2>1, DetFrame DEF RESTING, NEUTRAL
<1>4. CASE CreateWorkerRuntime \/ CheckoutSaves \/ StartRegisters
  <2>1. SameFields
    BY <1>1, <1>4 DEF CreateWorkerRuntime, CheckoutSaves, StartRegisters,
                      Provisioned, RegisterWorker, Registered, Row
  <2>2. /\ UNCHANGED <<tests, served>> /\ sup'.pc \in {"think", "start.launch"}
        /\ sup.pc \notin RESTING
    BY <1>1, <1>4 DEF CreateWorkerRuntime, CheckoutSaves, StartRegisters, At, RESTING
  <2>. QED
    BY <1>1, <2>1, <2>2, DetFrame DEF RESTING, NEUTRAL
<1>5. CASE CheckoutSkips \/ CheckoutClones \/ StartRefused \/ StartLaunches \/ StartAudits
  <2>1. /\ UNCHANGED <<row, tests, served>>
        /\ sup'.pc \in {"think", "checkout.save", "start.audit"}
        /\ sup.pc \notin RESTING
    BY <1>1, <1>5 DEF CheckoutSkips, CheckoutClones, StartRefused, StartLaunches,
                      StartAudits, At, RESTING, TypeOK, SupTypeOK
  <2>. QED
    BY <1>1, <2>1, DetFrame DEF RESTING, NEUTRAL
<1>6. CASE GetStatus \/ GetDeploymentStatus \/ DeployRefused \/ DeployRecords
  <2>1. UNCHANGED <<row, tests, served>> /\ sup'.pc \in {"think", "audit"}
    BY <1>1, <1>6 DEF GetStatus, GetDeploymentStatus, DeployRefused, DeployRecords
  <2>. QED
    BY <2>1, DetFrame DEF RESTING
<1>7. CASE MarkRaises("mark_complete", "complete") \/ MarkRaises("mark_failed", "failed")
  <2>1. UNCHANGED <<row, tests, served>> /\ sup'.pc = "audit"
    BY <1>1, <1>7 DEF MarkRaises
  <2>. QED
    BY <2>1, DetFrame DEF RESTING
<1>8. CASE ToolFails \/ DbFails \/ ProcessExits
  <2>1. UNCHANGED <<row, tests, served>> /\ sup'.pc \in {"think", "audit", "dead"}
    BY <1>1, <1>8 DEF ToolFails, DbFails, Raises, ProcessExits
  <2>. QED
    BY <2>1, DetFrame DEF RESTING
<1>. QED
  BY <1>2, <1>3, <1>4, <1>5, <1>6, <1>7, <1>8

\* The steps that put something on record.
LEMMA DetRecords ==
  ASSUME TypeOK, DetInv,
         \/ SubmitDelivery \/ RunTests \/ TestsSaved \/ RecordEvidence
         \/ Commit \/ CommitSaves
         \/ DeployRemoves \/ DeployBuilds \/ DeployRuns \/ DeployProbes \/ DeploySaves
         \/ Mark("mark_complete", "complete") \/ Mark("mark_failed", "failed") \/ GiveUp
  PROVE  DetInv'
<1>. USE DEF DetInv
<1>1. row \in Row /\ (\A l : Goto(l) => sup'.pc = l) /\ (~IsTerminal(row) \/ sup.pc \in RESTING)
  BY DEF Goto, TypeOK, SupTypeOK, WorkerTypeOK, StageInv
<1>2. CASE SubmitDelivery
  <2>1. /\ row' = [row EXCEPT !.overall = "in_progress"]
        /\ UNCHANGED <<tests, served>> /\ sup'.pc = "launch"
    BY <1>1, <1>2 DEF SubmitDelivery, Created
  <2>2. RecordInv' /\ ~IsTerminal(row')
    BY <1>1, <2>1 DEF RecordInv, OneTestRun, NeverServesRed, CompletedIsVerified, Passed,
                      HasEvidence, IsTerminal, TERMINAL_STATUSES, Row
  <2>. QED
    BY <2>1, <2>2 DEF StageInv, NEUTRAL, TESTING, DEPLOYING, At
<1>3. CASE RunTests \/ Commit \/ DeployBuilds \/ DeployProbes
  <2>1. UNCHANGED <<row, tests, served>>
    BY <1>3 DEF RunTests, Commit, DeployBuilds, DeployProbes
  <2>2. \/ At("run_acceptance_tests") /\ sup'.pc = "tests.save"
        \/ At("commit_candidate") /\ sup'.pc = "commit.save" /\ sup'.tree # NoTree
        \/ At("deploy.build") /\ sup'.pc = "deploy.run"
        \/ At("deploy.health") /\ sup'.pc = "deploy.save"
    BY <1>3 DEF RunTests, Commit, DeployBuilds, DeployProbes, TypeOK, SupTypeOK
  <2>3. RecordInv'
    BY <2>1, RecordFrame DEF SameFields
  <2>4. StageInv'
    BY <1>1, <2>1, <2>2 DEF StageInv, At, TESTING, DEPLOYING, RESTING, NEUTRAL,
                            Passed, HasEvidence, IsTerminal
  <2>. QED
    BY <2>3, <2>4
<1>4. CASE TestsSaved
  <2>1. tests.runs = <<>> /\ tests.top = 0
    BY <1>4 DEF TestsSaved, At, StageInv, TESTING, HasEvidence, TypeOK, TestsTypeOK
  <2>2. tests'.runs = <<[tree |-> sup.tree, ok |-> sup.ok]>> /\ tests'.top = 1
    BY <1>4, <2>1 DEF TestsSaved, Recorded
  <2>3. served = NoTree /\ ~row.deployed /\ row.overall # "complete"
    BY <2>1 DEF RecordInv, NeverServesRed, CompletedIsVerified, Verified, Passed, HasEvidence
  <2>4. UNCHANGED <<row, served>> /\ sup'.pc = "think"
    BY <1>1, <1>4 DEF TestsSaved
  <2>5. RecordInv'
    BY <2>2, <2>3, <2>4 DEF RecordInv, OneTestRun, NeverServesRed, CompletedIsVerified
  <2>. QED
    BY <2>4, <2>5 DEF StageInv, RESTING, TESTING, DEPLOYING, At
<1>5. CASE RecordEvidence
  BY <1>5 DEF RecordEvidence, At, StageInv, RESTING, NEUTRAL, TESTING, DEPLOYING
<1>6. CASE CommitSaves
  <2>1. /\ row' = [row EXCEPT !.candidate = sup.tree] /\ sup.tree # NoTree
        /\ UNCHANGED <<tests, served>> /\ sup'.pc = "think" /\ ~IsTerminal(row)
    BY <1>1, <1>6 DEF CommitSaves, StageInv, At, RESTING
  <2>2. RecordInv'
    BY <1>1, <2>1 DEF RecordInv, OneTestRun, NeverServesRed, CompletedIsVerified, Passed,
                      HasEvidence, IsTerminal, TERMINAL_STATUSES, Row
  <2>. QED
    BY <2>1, <2>2 DEF StageInv, RESTING, TESTING, DEPLOYING, At
<1>7. CASE DeployRemoves \/ DeployRuns
  <2>1. /\ Passed /\ row.candidate # NoTree /\ ~IsTerminal(row) /\ UNCHANGED <<row, tests>>
        /\ sup'.pc \in {"deploy.build", "deploy.health"}
    BY <1>1, <1>7 DEF DeployRemoves, DeployRuns, StageInv, At, DEPLOYING, RESTING
  <2>2. RecordInv'
    BY <2>1 DEF RecordInv, OneTestRun, NeverServesRed, CompletedIsVerified, Verified,
                Passed, HasEvidence
  <2>. QED
    BY <2>1, <2>2 DEF StageInv, RESTING, TESTING, DEPLOYING, At, Passed, HasEvidence,
                      IsTerminal
<1>8. CASE DeploySaves
  <2>1. /\ Passed /\ row.candidate # NoTree /\ ~IsTerminal(row) /\ UNCHANGED <<tests, served>>
        /\ sup'.pc \in {"deploy.evidence", "think"}
    BY <1>1, <1>8 DEF DeploySaves, StageInv, At, DEPLOYING, RESTING
  <2>2. row'.overall = row.overall /\ row'.candidate = row.candidate
    BY <1>1, <1>8 DEF DeploySaves, DeploymentRecorded, Row
  <2>3. RecordInv' /\ ~IsTerminal(row')
    BY <2>1, <2>2 DEF RecordInv, OneTestRun, NeverServesRed, CompletedIsVerified, Passed,
                      HasEvidence, IsTerminal, TERMINAL_STATUSES
  <2>. QED
    BY <2>1, <2>2, <2>3 DEF StageInv, RESTING, TESTING, DEPLOYING, At, Passed, HasEvidence
<1>9. CASE Mark("mark_complete", "complete")
  <2>1. Verified /\ ~IsTerminal(row) /\ UNCHANGED <<tests, served>> /\ sup'.pc = "think"
    BY <1>1, <1>9 DEF Mark, StageInv, At, RESTING
  <2>2. /\ row'.candidate = row.candidate /\ row'.deployed = row.deployed
        /\ row'.health = row.health
    BY <1>1, <1>9 DEF Mark, Marked, Row
  <2>3. RecordInv'
    BY <2>1, <2>2 DEF RecordInv, OneTestRun, NeverServesRed, CompletedIsVerified, Verified,
                      Passed, HasEvidence
  <2>. QED
    BY <2>1, <2>3 DEF StageInv, RESTING, TESTING, DEPLOYING, At
<1>10. CASE Mark("mark_failed", "failed") \/ GiveUp
  <2>1. /\ row' = Marked(row, "failed") /\ UNCHANGED <<tests, served>>
        /\ sup'.pc \in {"think", "done"} /\ ~IsTerminal(row)
    BY <1>1, <1>10 DEF Mark, GiveUp, At, RESTING
  <2>2. /\ row'.candidate = row.candidate /\ row'.deployed = row.deployed
        /\ row'.health = row.health /\ row'.overall = "failed"
    BY <1>1, <2>1 DEF Marked, Row
  <2>3. RecordInv'
    BY <2>1, <2>2 DEF RecordInv, OneTestRun, NeverServesRed, CompletedIsVerified, Passed,
                      HasEvidence
  <2>. QED
    BY <2>1, <2>3 DEF StageInv, RESTING, TESTING, DEPLOYING, At
<1>. QED
  BY <1>2, <1>3, <1>4, <1>5, <1>6, <1>7, <1>8, <1>9, <1>10

\* The workers read and write nothing the invariant speaks of.
LEMMA DetWorker ==
  ASSUME TypeOK, DetInv, WorkerMoves
  PROVE  DetInv'
<1>1. PICK t \in Threads : WorkerStep(t) /\ UNCHANGED supVars
  BY DEF WorkerMoves
<1>2. row' = row \/ \E s \in WORKER_STATUSES : row' = WithWorkerStatus(row, s)
  BY <1>1 DEF WorkerStep, WorkerBegin, WorkerEdit, WorkerReport, WorkerFinish,
              WorkerReturns, WorkerCrash, WorkerGuard, SetStatus, WORKER_STATUSES
<1>3. SameFields
  BY <1>2 DEF SameFields, WithWorkerStatus, TypeOK, WorkerTypeOK, Row
<1>4. RecordInv'
  BY <1>1, <1>3, RecordFrame DEF DetInv, supVars
<1>5. StageInv'
  BY <1>1, <1>3 DEF DetInv, StageInv, SameFields, supVars, IsTerminal, Verified, Passed,
                    HasEvidence, At
<1>. QED
  BY <1>4, <1>5 DEF DetInv

\* Every step of the deterministic backend keeps its invariant.
LEMMA DetStep ==
  ASSUME Backend = "deterministic", TypeOK, DetInv, [Next]_vars
  PROVE  DetInv'
<1>1. CASE UNCHANGED vars
  BY <1>1 DEF vars, DetInv, RecordInv, StageInv, OneTestRun, NeverServesRed,
              CompletedIsVerified, Verified, Passed, HasEvidence, IsTerminal, At
<1>2. ~ThinkLlm
  BY DEF ThinkLlm
<1>. QED
  BY <1>1, <1>2, DetThinks, DetFramed, DetRecords, DetWorker DEF Next, SupStep, MarkTools

\* The invariant of the deterministic backend holds initially.
LEMMA DetInit == Init => DetInv
BY DEF Init, WorkerInit, NoRow, DetInv, RecordInv, StageInv, OneTestRun, NeverServesRed,
       CompletedIsVerified, IsTerminal, TERMINAL_STATUSES, RESTING, NEUTRAL, TESTING,
       DEPLOYING, At

\* The invariant of the deterministic backend holds throughout.
LEMMA DetHolds ==
  ASSUME Backend = "deterministic"
  PROVE  Spec => []DetInv
<1>1. TypeOK /\ DetInv /\ [Next]_vars => DetInv'
  BY DetStep
<1>. QED
  BY <1>1, DetInit, TypeCorrect, PTL DEF Spec

\* Under the deterministic backend, whatever transactions raise, whatever the
\* workers do and wherever the process exits, a delivery is completed only with
\* a green run, a candidate and a healthy deployment on record.
THEOREM CompletedIsVerifiedHolds ==
  ASSUME Backend = "deterministic"
  PROVE  Spec => []CompletedIsVerified
<1>1. DetInv => CompletedIsVerified
  BY DEF DetInv, RecordInv
<1>. QED
  BY <1>1, DetHolds, PTL

\* Whatever goes wrong, nothing is ever served that the tests did not pass.
THEOREM NeverServesRedHolds ==
  ASSUME Backend = "deterministic"
  PROVE  Spec => []NeverServesRed
<1>1. DetInv => NeverServesRed
  BY DEF DetInv, RecordInv
<1>. QED
  BY <1>1, DetHolds, PTL

\* Whatever goes wrong, one test run at most is on record, so that the random
\* id by which the "latest" one is found does no harm.
THEOREM OneTestRunHolds ==
  ASSUME Backend = "deterministic"
  PROVE  Spec => []OneTestRun
<1>1. DetInv => OneTestRun
  BY DEF DetInv, RecordInv
<1>. QED
  BY <1>1, DetHolds, PTL

\* From a thread at rest no step tests, commits or deploys.
LEMMA RestingStep ==
  ASSUME TypeOK, sup.pc \in RESTING, Next
  PROVE  /\ row'.candidate = row.candidate /\ row'.deployed = row.deployed
         /\ row'.health = row.health
         /\ UNCHANGED <<served, tests, checked>>
<1>1. row \in Row
  BY DEF TypeOK, WorkerTypeOK
<1>2. CASE WorkerMoves
  <2>1. PICK t \in Threads : WorkerStep(t) /\ UNCHANGED supVars
    BY <1>2 DEF WorkerMoves
  <2>2. row' = row \/ \E s \in WORKER_STATUSES : row' = WithWorkerStatus(row, s)
    BY <2>1 DEF WorkerStep, WorkerBegin, WorkerEdit, WorkerReport, WorkerFinish,
                WorkerReturns, WorkerCrash, WorkerGuard, SetStatus, WORKER_STATUSES
  <2>. QED
    BY <1>1, <2>1, <2>2 DEF WithWorkerStatus, Row, supVars
<1>3. CASE DbFails \/ ProcessExits
  BY <1>3 DEF DbFails, Raises, ProcessExits
<1>4. CASE SupStep
  <2>1. \/ BeginTurn \/ LeaveLoop \/ ThinkDeterministic \/ ThinkLlm \/ StepsExhausted
        \/ AuditTurn \/ ReadFinal
    BY <1>4
       DEF SupStep, RESTING, At, SubmitDelivery, LaunchSupervisor, GiveUp,
           CreateWorkerRuntime, CheckoutSkips, CheckoutClones, CheckoutSaves, StartRefused,
           StartRegisters, StartLaunches, StartAudits, GetStatus, GetDeploymentStatus,
           RunTests, TestsSaved, RecordEvidence, Commit, CommitSaves, DeployRefused,
           DeployRemoves, DeployBuilds, DeployRuns, DeployProbes, DeploySaves,
           DeployRecords, MarkTools, Mark, MarkRaises, ToolFails
  <2>. QED
    BY <2>1 DEF BeginTurn, LeaveLoop, ThinkDeterministic, ThinkLlm, Calls, StepsExhausted,
                AuditTurn, ReadFinal
<1>. QED
  BY <1>2, <1>3, <1>4 DEF Next

\* Under the deterministic backend a verdict freezes the delivery, although no
\* tool checks whether the work order is still open.
THEOREM VerdictFreezesHolds ==
  ASSUME Backend = "deterministic"
  PROVE  Spec => VerdictFreezes
<1>1. TypeOK /\ DetInv /\ [Next]_vars => DetInv'
  BY DetStep
<1>2. TypeOK /\ DetInv /\ [Next]_vars
        => [IsTerminal(row) =>
              /\ row'.candidate = row.candidate /\ row'.deployed = row.deployed
              /\ row'.health = row.health
              /\ UNCHANGED <<served, tests, checked>>]_vars
  BY RestingStep DEF DetInv, StageInv
<1>. QED
  BY <1>1, <1>2, DetInit, TypeCorrect, PTL DEF Spec, VerdictFreezes

-----------------------------------------------------------------------------
(* The deterministic backend implements DeliveryTask.                      *)

\* The row exists from the submission on.
AbsentInv == row.overall = "absent" => sup.pc \in {"new", "dead"}

\* A step that leaves verdict and status alone is a stutter of the task once it
\* is over, and progress while it is open.
LEMMA OpenStep ==
  ASSUME TypeOK, row.overall = "in_progress", row'.overall = "in_progress"
  PROVE  Task!Progress
BY DEF Task!Progress, TaskState, Verified, Passed

\* What the task reads of the evidence and of the deployment stands still.
SameDelivery ==
  /\ row'.candidate = row.candidate /\ row'.deployed = row.deployed
  /\ row'.health = row.health /\ tests' = tests

\* Before the submission, and after the thread's death, nothing moves.
LEMMA NewOrDeadStep ==
  ASSUME TypeOK, sup.pc \in {"new", "dead"}, Next
  PROVE  \/ SubmitDelivery
         \/ SameDelivery /\ SameVerdict /\ sup'.pc \in {"new", "dead"}
<1>1. CASE WorkerMoves
  <2>1. SameVerdict /\ sup' = sup
    BY <1>1, WorkerKeepsVerdict
  <2>2. PICK t \in Threads : WorkerStep(t) /\ UNCHANGED supVars
    BY <1>1 DEF WorkerMoves
  <2>3. row' = row \/ \E s \in WORKER_STATUSES : row' = WithWorkerStatus(row, s)
    BY <2>2 DEF WorkerStep, WorkerBegin, WorkerEdit, WorkerReport, WorkerFinish,
                WorkerReturns, WorkerCrash, WorkerGuard, SetStatus, WORKER_STATUSES
  <2>. QED
    BY <2>1, <2>2, <2>3 DEF SameDelivery, WithWorkerStatus, supVars, TypeOK, WorkerTypeOK, Row
<1>2. CASE DbFails \/ ProcessExits
  BY <1>2 DEF DbFails, Raises, ProcessExits, Goto, SameDelivery, SameVerdict, TypeOK, SupTypeOK
<1>3. CASE SupStep
  BY <1>3
     DEF SupStep, At, LaunchSupervisor, BeginTurn, LeaveLoop, ThinkDeterministic, ThinkLlm,
         Calls, StepsExhausted, AuditTurn, ReadFinal, GiveUp,
         CreateWorkerRuntime, CheckoutSkips, CheckoutClones, CheckoutSaves, StartRefused,
         StartRegisters, StartLaunches, StartAudits, GetStatus, GetDeploymentStatus,
         RunTests, TestsSaved, RecordEvidence, Commit, CommitSaves, DeployRefused,
         DeployRemoves, DeployBuilds, DeployRuns, DeployProbes, DeploySaves,
         DeployRecords, MarkTools, Mark, MarkRaises, ToolFails
<1>. QED
  BY <1>1, <1>2, <1>3 DEF Next

\* Only the submission and a mark change the status; nothing makes it absent.
LEMMA OverallStep ==
  ASSUME TypeOK, Next
  PROVE  \/ SubmitDelivery \/ GiveUp
         \/ Mark("mark_complete", "complete") \/ Mark("mark_failed", "failed")
         \/ row'.overall = row.overall
<1>1. CASE ReadFinal
  BY <1>1 DEF ReadFinal
<1>2. CASE WorkerMoves
  BY <1>2, WorkerKeepsVerdict DEF SameVerdict
<1>. QED
  BY <1>1, <1>2, QuietSteps, FieldSteps DEF Next, SupStep, MarkTools, SameVerdict

\* A mark puts the row in the status it names.
LEMMA MarkEffect ==
  ASSUME row \in Row, ~IsTerminal(row), NEW status \in TERMINAL_STATUSES,
         row' = Marked(row, status), tests' = tests
  PROVE  row'.overall = status /\ SameDelivery
BY DEF Marked, Row, SameDelivery

\* The row stays absent only until the submission.
LEMMA AbsentStep ==
  ASSUME TypeOK, AbsentInv, [Next]_vars
  PROVE  AbsentInv'
<1>1. CASE UNCHANGED vars
  BY <1>1 DEF vars, AbsentInv
<1>2. CASE Next /\ row.overall = "absent"
  <2>1. CASE SubmitDelivery
    BY <2>1 DEF SubmitDelivery, Created, TypeOK, WorkerTypeOK, Row, AbsentInv
  <2>2. CASE sup'.pc \in {"new", "dead"}
    BY <2>2 DEF AbsentInv
  <2>. QED
    BY <1>2, <2>1, <2>2, NewOrDeadStep DEF AbsentInv
<1>3. CASE Next /\ row.overall # "absent"
  <2>1. row \in Row /\ "complete" # "absent" /\ "failed" # "absent"
    BY DEF TypeOK, WorkerTypeOK
  <2>2. \/ row'.overall = row.overall
        \/ row'.overall \in {"in_progress", "complete", "failed"}
    BY <1>3, <2>1, OverallStep DEF SubmitDelivery, GiveUp, Mark, Created, Marked, Row
  <2>. QED
    BY <1>3, <2>2 DEF AbsentInv
<1>. QED
  BY <1>1, <1>2, <1>3

\* Every step of a deterministic delivery is a step of its task, or a stutter.
LEMMA TaskStep ==
  ASSUME Backend = "deterministic", TypeOK, VerdictInv, DetInv, AbsentInv, [Next]_vars
  PROVE  [Task!Next]_(Task!vars)
<1>0. row \in Row
  BY DEF TypeOK, WorkerTypeOK
<1>1. ASSUME SameDelivery, row'.overall = row.overall
      PROVE  UNCHANGED Task!vars
  BY <1>1 DEF SameDelivery, Task!vars, TaskState, Verified, Passed, HasEvidence
<1>2. CASE UNCHANGED vars
  BY <1>1, <1>2 DEF vars, SameDelivery
<1>3. CASE SubmitDelivery
  <2>1. /\ row.overall = "absent" /\ row'.overall = "in_progress"
        /\ SameDelivery
    BY <1>0, <1>3 DEF SubmitDelivery, Created, Row, SameDelivery, VerdictInv
  <2>2. Task!Accept
    BY <2>1 DEF Task!Accept, SameDelivery, TaskState, Verified, Passed, HasEvidence
  <2>. QED
    BY <2>2 DEF Task!Next
<1>4. CASE Mark("mark_complete", "complete") \/ Mark("mark_failed", "failed") \/ GiveUp
  <2>1. row.overall = "in_progress" /\ ~IsTerminal(row)
    BY <1>0, <1>4 DEF Mark, GiveUp, At, DetInv, StageInv, RESTING, AbsentInv,
                      IsTerminal, Row, OVERALL_STATUSES
  <2>2. CASE Mark("mark_complete", "complete")
    <3>1. /\ Verified /\ tests' = tests /\ row' = Marked(row, "complete")
      BY <2>2 DEF Mark, DetInv, StageInv, At
    <3>2. row'.overall = "complete" /\ SameDelivery
      BY <1>0, <2>1, <3>1, MarkEffect DEF TERMINAL_STATUSES
    <3>3. Task!Complete
      BY <2>1, <3>1, <3>2
         DEF Task!Complete, SameDelivery, TaskState, Verified, Passed, HasEvidence
    <3>. QED
      BY <3>3 DEF Task!Next
  <2>3. CASE Mark("mark_failed", "failed") \/ GiveUp
    <3>1. tests' = tests /\ row' = Marked(row, "failed")
      BY <2>3 DEF Mark, GiveUp
    <3>2. row'.overall = "failed" /\ SameDelivery
      BY <1>0, <2>1, <3>1, MarkEffect DEF TERMINAL_STATUSES
    <3>3. Task!Fail
      BY <2>1, <3>2 DEF Task!Fail, SameDelivery, TaskState, Verified, Passed, HasEvidence
    <3>. QED
      BY <3>3 DEF Task!Next
  <2>. QED
    BY <1>4, <2>2, <2>3
<1>5. CASE Next /\ row'.overall = row.overall /\ ~SubmitDelivery
  <2>1. CASE row.overall = "in_progress"
    BY <1>5, <2>1, OpenStep DEF Task!Next
  <2>2. CASE IsTerminal(row)
    <3>1. SameDelivery
      BY <1>5, <2>2, RestingStep DEF DetInv, StageInv, SameDelivery
    <3>. QED
      BY <1>1, <1>5, <3>1
  <2>3. CASE row.overall = "absent"
    BY <1>1, <1>5, <2>3, NewOrDeadStep DEF AbsentInv
  <2>. QED
    BY <1>0, <2>1, <2>2, <2>3 DEF Row, OVERALL_STATUSES, IsTerminal
<1>. QED
  BY <1>2, <1>3, <1>4, <1>5, OverallStep

\* A client of the deterministic backend observes what DeliveryTask promises,
\* infrastructure faults and process exits included.
THEOREM ImplementsTask ==
  ASSUME Backend = "deterministic"
  PROVE  Spec => TaskSafety
<1>1. Init => AbsentInv /\ Task!Init
  BY DEF Init, WorkerInit, NoRow, AbsentInv, Task!Init, TaskState, Verified
<1>2. TypeOK /\ VerdictInv /\ [Next]_vars => VerdictInv'
  BY VerdictStep
<1>3. TypeOK /\ DetInv /\ [Next]_vars => DetInv'
  BY DetStep
<1>4. TypeOK /\ AbsentInv /\ [Next]_vars => AbsentInv'
  BY AbsentStep
<1>5. TypeOK /\ VerdictInv /\ DetInv /\ AbsentInv /\ [Next]_vars => [Task!Next]_(Task!vars)
  BY TaskStep
<1>. QED
  BY <1>1, <1>2, <1>3, <1>4, <1>5, VerdictInit, DetInit, TypeCorrect, PTL
     DEF Spec, TaskSafety, Task!Safety

-----------------------------------------------------------------------------
(* Supervision comes to an end: what SupervisionEnds rests on.             *)

\* How far it still is to the end of a delivery: the turns left, the stage of
\* the supervise loop, and within a turn the model calls that are left of the
\* limit and the steps left of the tool in progress.
Stage(pc) ==
  CASE pc = "new" -> 7
    [] pc = "launch" -> 6
    [] pc = "audit" -> 4
    [] pc = "top" -> 3
    [] pc = "final" -> 2
    [] pc = "giveup" -> 1
    [] pc \in {"done", "dead"} -> 0
    [] OTHER -> 5

ToolSteps(pc) ==
  CASE pc = "think" -> 0
    [] pc \in {"deploy.evidence", "checkout.save", "start.audit", "tests.save", "commit.save"} -> 1
    [] pc \in {"deploy.save", "start.launch"} -> 2
    [] pc = "deploy.health" -> 3
    [] pc = "deploy.run" -> 4
    [] pc = "deploy.build" -> 5
    [] OTHER -> 6

TurnsLeft == TurnBudget - sup.turn
WorkLeft == 7 * (MaxSteps - sup.steps) + ToolSteps(sup.pc)

Nearer ==
  /\ {TurnsLeft, TurnsLeft', WorkLeft, WorkLeft'} \subseteq Nat
  /\ \/ TurnsLeft' < TurnsLeft
     \/ /\ TurnsLeft' = TurnsLeft
        /\ \/ Stage(sup'.pc) < Stage(sup.pc)
           \/ Stage(sup'.pc) = Stage(sup.pc) /\ WorkLeft' < WorkLeft

\* Whatever the model asks for, and whatever raises or exits, brings the end of
\* the delivery nearer; only the worker threads move without doing so.
SupervisionAdvances == [][WorkerMoves \/ Nearer]_vars

\* What is left is counted in natural numbers.
LEMMA LeftType ==
  ASSUME SupTypeOK, SupTypeOK'
  PROVE  {TurnsLeft, TurnsLeft', WorkLeft, WorkLeft'} \subseteq Nat
<1>1. \A pc : ToolSteps(pc) \in 0 .. 6
  BY DEF ToolSteps
<1>2. TurnBudget - sup.turn \in Nat /\ MaxSteps - sup.steps \in Nat
  BY SupervisionAssumption DEF SupTypeOK
<1>3. TurnBudget - sup'.turn \in Nat /\ MaxSteps - sup'.steps \in Nat
  BY SupervisionAssumption DEF SupTypeOK
<1>. QED
  BY <1>1, <1>2, <1>3 DEF TurnsLeft, WorkLeft

\* A step of the Supervisor thread within its turn: to a later stage, or with
\* less of the tool in progress left.
LEMMA GotoNearer ==
  ASSUME SupTypeOK, SupTypeOK', NEW l, sup'.pc = l,
         sup'.turn = sup.turn, sup'.steps = sup.steps,
         \/ Stage(l) < Stage(sup.pc)
         \/ Stage(l) = Stage(sup.pc) /\ ToolSteps(l) < ToolSteps(sup.pc)
  PROVE  Nearer
<1>1. TurnsLeft' = TurnsLeft
  BY DEF TurnsLeft
<1>2. {TurnsLeft, TurnsLeft', WorkLeft, WorkLeft'} \subseteq Nat
  BY LeftType
<1>3. CASE Stage(l) < Stage(sup.pc)
  BY <1>1, <1>2, <1>3 DEF Nearer
<1>4. CASE Stage(l) = Stage(sup.pc) /\ ToolSteps(l) < ToolSteps(sup.pc)
  <2>1. /\ 7 * (MaxSteps - sup.steps) \in Nat
        /\ ToolSteps(l) \in Nat /\ ToolSteps(sup.pc) \in Nat
    BY SupervisionAssumption DEF SupTypeOK, ToolSteps
  <2>2. WorkLeft' = 7 * (MaxSteps - sup.steps) + ToolSteps(l)
    BY DEF WorkLeft
  <2>3. WorkLeft' < WorkLeft
    BY <1>4, <2>1, <2>2 DEF WorkLeft
  <2>. QED
    BY <1>1, <1>2, <1>4, <2>3 DEF Nearer
<1>. QED
  BY <1>3, <1>4

\* The turns and the model calls are counted when they begin.
LEMMA CountedNearer ==
  ASSUME SupTypeOK, SupTypeOK', BeginTurn \/ ThinkDeterministic \/ ThinkLlm
  PROVE  Nearer
<1>1. {TurnsLeft, TurnsLeft', WorkLeft, WorkLeft'} \subseteq Nat
  BY LeftType
<1>2. CASE BeginTurn
  <2>1. sup'.turn = sup.turn + 1
    BY <1>2 DEF BeginTurn, SupTypeOK
  <2>2. TurnsLeft' < TurnsLeft
    BY <2>1, SupervisionAssumption DEF TurnsLeft, SupTypeOK
  <2>. QED
    BY <1>1, <2>2 DEF Nearer
<1>3. CASE ThinkDeterministic \/ ThinkLlm
  <2>1. NextAction \in TOOLS \cup {"audit"}
    BY DEF NextAction, TOOLS
  <2>2. PICK action \in TOOLS \cup {"audit"} : Calls(action)
    BY <1>3, <2>1 DEF ThinkDeterministic, ThinkLlm
  <2>3. /\ sup.pc = "think" /\ sup'.pc = action
        /\ sup'.turn = sup.turn /\ sup'.steps = sup.steps + 1
    BY <2>2 DEF Calls, At, SupTypeOK
  <2>4. TurnsLeft' = TurnsLeft
    BY <2>3 DEF TurnsLeft
  <2>5. CASE action = "audit"
    <3>1. Stage(sup'.pc) < Stage(sup.pc)
      BY <2>3, <2>5 DEF Stage
    <3>. QED
      BY <1>1, <2>4, <3>1 DEF Nearer
  <2>6. CASE action \in TOOLS
    <3>1. Stage(sup'.pc) = Stage(sup.pc) /\ ToolSteps(sup'.pc) = 6 /\ ToolSteps(sup.pc) = 0
      BY <2>3, <2>6 DEF Stage, ToolSteps, TOOLS
    <3>2. WorkLeft' = 7 * (MaxSteps - (sup.steps + 1)) + 6 /\ WorkLeft = 7 * (MaxSteps - sup.steps)
      BY <2>3, <3>1, SupervisionAssumption DEF WorkLeft, SupTypeOK
    <3>3. WorkLeft' < WorkLeft
      BY <3>2, SupervisionAssumption DEF SupTypeOK
    <3>. QED
      BY <1>1, <2>4, <3>1, <3>3 DEF Nearer
  <2>. QED
    BY <2>2, <2>5, <2>6
<1>. QED
  BY <1>2, <1>3

\* Every other step moves the thread only.
LEMMA OtherNearer ==
  ASSUME SupTypeOK, SupTypeOK', SupStep \/ DbFails \/ ProcessExits,
         ~(BeginTurn \/ ThinkDeterministic \/ ThinkLlm)
  PROVE  Nearer
<1>. DEFINE Later(l) == \/ Stage(l) < Stage(sup.pc)
                        \/ Stage(l) = Stage(sup.pc) /\ ToolSteps(l) < ToolSteps(sup.pc)
<1>1. ASSUME NEW l, Goto(l), Later(l) PROVE Nearer
  <2>1. sup'.pc = l /\ sup'.turn = sup.turn /\ sup'.steps = sup.steps
    BY <1>1 DEF Goto, SupTypeOK
  <2>. QED
    BY <1>1, <2>1, GotoNearer
<1>2. CASE \/ SubmitDelivery \/ LaunchSupervisor \/ LeaveLoop \/ StepsExhausted \/ AuditTurn
           \/ ReadFinal \/ GiveUp
  BY <1>1, <1>2 DEF SubmitDelivery, LaunchSupervisor, LeaveLoop, StepsExhausted, AuditTurn,
                    ReadFinal, GiveUp, At, Stage
<1>3. CASE \/ CreateWorkerRuntime \/ CheckoutSkips \/ CheckoutSaves
           \/ StartRefused \/ StartRegisters \/ StartLaunches \/ StartAudits
  BY <1>1, <1>3 DEF CreateWorkerRuntime, CheckoutSkips, CheckoutSaves, StartRefused,
                    StartRegisters, StartLaunches, StartAudits, At, Stage, ToolSteps
<1>4. CASE GetStatus \/ GetDeploymentStatus \/ TestsSaved \/ RecordEvidence \/ CommitSaves
  BY <1>1, <1>4 DEF GetStatus, GetDeploymentStatus, TestsSaved, RecordEvidence, CommitSaves,
                    At, Stage, ToolSteps
<1>5. CASE DeployRefused \/ DeployRemoves \/ DeployRuns \/ DeploySaves \/ DeployRecords
  BY <1>1, <1>5 DEF DeployRefused, DeployRemoves, DeployRuns, DeploySaves, DeployRecords,
                    At, Stage, ToolSteps
<1>6. CASE MarkTools \/ ToolFails
  BY <1>1, <1>6 DEF MarkTools, Mark, MarkRaises, ToolFails, At, Stage, ToolSteps
<1>7. CASE CheckoutClones \/ RunTests \/ Commit \/ DeployBuilds \/ DeployProbes
  <2>1. /\ sup'.turn = sup.turn /\ sup'.steps = sup.steps
        /\ \/ At("checkout_baseline") /\ sup'.pc = "checkout.save"
           \/ At("run_acceptance_tests") /\ sup'.pc = "tests.save"
           \/ At("commit_candidate") /\ sup'.pc = "commit.save"
           \/ At("deploy.build") /\ sup'.pc = "deploy.run"
           \/ At("deploy.health") /\ sup'.pc = "deploy.save"
    BY <1>7 DEF CheckoutClones, RunTests, Commit, DeployBuilds, DeployProbes, SupTypeOK
  <2>2. Later(sup'.pc)
    BY <2>1 DEF At, Stage, ToolSteps
  <2>. QED
    BY <2>1, <2>2, GotoNearer
<1>8. CASE DbFails
  BY <1>1, <1>8 DEF DbFails, Raises, Stage, ToolSteps
<1>9. CASE ProcessExits
  <2>1. Later("dead")
    <3>1. sup.pc \notin {"new", "done", "dead"}
      BY <1>9 DEF ProcessExits
    <3>. QED
      BY <3>1 DEF Stage
  <2>. QED
    BY <1>1, <1>9, <2>1 DEF ProcessExits
<1>. QED
  BY <1>2, <1>3, <1>4, <1>5, <1>6, <1>7, <1>8, <1>9 DEF SupStep

\* Supervision cannot go on for ever, whatever the model calls and however long
\* the worker hangs: every step of the Supervisor thread lowers a triple of
\* natural numbers that no worker thread can raise.
THEOREM SupervisionAdvancesHolds == Spec => SupervisionAdvances
<1>1. TypeOK /\ [Next]_vars => [WorkerMoves \/ Nearer]_vars
  <2>. SUFFICES ASSUME TypeOK, Next PROVE WorkerMoves \/ Nearer
    OBVIOUS
  <2>1. SupTypeOK /\ SupTypeOK'
    BY NextType DEF TypeOK
  <2>. QED
    BY <2>1, CountedNearer, OtherNearer DEF Next
<1>. QED
  BY <1>1, TypeCorrect, PTL DEF Spec, SupervisionAdvances
=============================================================================
