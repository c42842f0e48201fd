------------------------- MODULE DirectRunnerProofs -------------------------
(***************************************************************************)
(* Proofs about module DirectRunner, for every value of its constants.     *)
(***************************************************************************)
EXTENDS DirectRunner, WorkerProofs

-----------------------------------------------------------------------------
(* Type correctness.                                                       *)

RunRecord == [pc : RUN_PC, tree : Nat, ok : BOOLEAN, result : RESULTS]

\* The two ways a step that looks at an outcome goes on.
LEMMA GotoFields ==
  ASSUME run \in RunRecord, NEW l \in RUN_PC, Goto(l)
  PROVE  /\ run' \in RunRecord /\ run'.pc = l
         /\ run'.tree = run.tree /\ run'.ok = run.ok /\ run'.result = run.result
BY DEF RunRecord, Goto

\* What a failing step writes, field by field.
LEMMA FailFields ==
  ASSUME run \in RunRecord, NEW result \in RESULTS, FailWith(result)
  PROVE  /\ run' \in RunRecord /\ run'.pc = "fail"
         /\ run'.tree = run.tree /\ run'.ok = run.ok /\ run'.result = result
BY DEF RunRecord, FailWith, RUN_PC

\* The three steps that do, and what they leave of the rest.
LEMMA PollSeesEffect ==
  ASSUME run \in RunRecord, PollSees
  PROVE  /\ At("poll") /\ run' \in RunRecord
         /\ \/ run'.pc = "tests" /\ run'.result = run.result /\ row.worker = "done"
            \/ run'.pc = "fail" /\ run'.result = "failed"
         /\ UNCHANGED <<row, worker, tree, faults, evidence, served>>
<1>1. CASE row.worker = "failed"
  BY <1>1, FailFields DEF PollSees, RESULTS
<1>2. CASE row.worker # "failed"
  BY <1>2, GotoFields DEF PollSees, RUN_PC
<1>. QED
  BY <1>1, <1>2

\* What saving a candidate changes, and what it leaves alone.
LEMMA SavesCandidateEffect ==
  ASSUME row \in Row, run \in RunRecord, SavesCandidate
  PROVE  /\ At("candidate") /\ run' \in RunRecord
         /\ \/ run'.pc = "remove" /\ run'.result = run.result /\ run.ok
            \/ run'.pc = "fail" /\ run'.result = "failed"
         /\ row' = [row EXCEPT !.candidate = run.tree] /\ row' \in Row
         /\ row'.overall = row.overall /\ row'.candidate = run.tree
         /\ row'.worker = row.worker
         /\ UNCHANGED <<worker, tree, faults, evidence, served>>
<1>1. row' = [row EXCEPT !.candidate = run.tree] /\ run.tree \in Nat
  BY DEF SavesCandidate, RunRecord
<1>2. /\ row' \in Row /\ row'.overall = row.overall /\ row'.candidate = run.tree
      /\ row'.worker = row.worker
  BY <1>1 DEF Row
<1>3. CASE run.ok
  BY <1>1, <1>2, <1>3, GotoFields DEF SavesCandidate, RUN_PC
<1>4. CASE ~run.ok
  BY <1>1, <1>2, <1>4, FailFields DEF SavesCandidate, RESULTS
<1>. QED
  BY <1>3, <1>4

\* What saving a deployment changes, and what it leaves alone.
LEMMA SavesDeploymentEffect ==
  ASSUME row \in Row, run \in RunRecord, SavesDeployment
  PROVE  /\ At("save") /\ run' \in RunRecord
         /\ \/ run'.pc = "check" /\ run'.result = run.result /\ row'.health = "healthy"
            \/ run'.pc = "fail" /\ run'.result = "degraded"
         /\ row' \in Row
         /\ row'.overall = row.overall /\ row'.candidate = row.candidate
         /\ row'.worker = row.worker /\ row'.deployed
         /\ UNCHANGED <<worker, tree, faults, evidence, served>>
<1>1. /\ row' = DeploymentRecorded(row, row.candidate, IF run.ok THEN "healthy" ELSE "unhealthy")
      /\ row.candidate \in Nat
  BY DEF SavesDeployment, Row
<1>2. /\ row' \in Row /\ row'.overall = row.overall /\ row'.candidate = row.candidate
      /\ row'.worker = row.worker /\ row'.deployed
      /\ row'.health = IF run.ok THEN "healthy" ELSE "unhealthy"
  BY <1>1 DEF DeploymentRecorded, Row, HEALTH
<1>3. CASE run.ok
  BY <1>2, <1>3, GotoFields DEF SavesDeployment, RUN_PC
<1>4. CASE ~run.ok
  BY <1>2, <1>4, FailFields DEF SavesDeployment, RESULTS
<1>. QED
  BY <1>3, <1>4

\* The runner starts well typed.
LEMMA InitType == Init => TypeOK
BY WorkerInitType DEF Init, TypeOK, WorkerInit, NoTree, RUN_PC, RESULTS

\* The steps of run_delivery up to the poll.
LEMMA PrepareType ==
  ASSUME TypeOK,
         \/ CreatesWorkOrder \/ CreatesRuntime \/ ChecksOut \/ SavesBaseline
         \/ Registers \/ Launches \/ PollSees \/ PollTimesOut
  PROVE  TypeOK'
<1>. USE DEF TypeOK, WorkerTypeOK, Goto, FailWith, RUN_PC, RESULTS
<1>0. /\ Created(row) \in Row /\ Provisioned(row) \in Row /\ Registered(row) \in Row
      /\ [row EXCEPT !.baseline = run.tree] \in Row
  BY RowUpdates DEF HEALTH, WORKER_STATUSES
<1>1. CASE CreatesWorkOrder
  BY <1>0, <1>1 DEF CreatesWorkOrder
<1>2. CASE CreatesRuntime
  BY <1>0, <1>2 DEF CreatesRuntime
<1>3. CASE ChecksOut
  BY <1>3 DEF ChecksOut
<1>4. CASE SavesBaseline
  BY <1>0, <1>4 DEF SavesBaseline
<1>5. CASE Registers
  BY <1>0, <1>5 DEF Registers, RegisterWorker
<1>6. CASE Launches
  <2>1. worker' \in [Threads -> WORKER_PC]
    BY <1>6 DEF Launches, Launch, LaunchBy, Moves, WORKER_PC
  <2>. QED
    BY <1>6, <2>1 DEF Launches
<1>7. CASE PollSees
  BY <1>7, PollSeesEffect DEF RunRecord
<1>8. CASE PollTimesOut
  BY <1>8 DEF PollTimesOut
<1>. QED
  BY <1>1, <1>2, <1>3, <1>4, <1>5, <1>6, <1>7, <1>8

\* Its steps from the tests to the return.
LEMMA DeliverType ==
  ASSUME TypeOK,
         \/ RunsTests \/ RecordsTests \/ Commits \/ SavesCandidate
         \/ Removes \/ Builds \/ Starts \/ Probes \/ SavesDeployment
         \/ RecordsCheck \/ Completes \/ Fails
  PROVE  TypeOK'
<1>. USE DEF TypeOK, WorkerTypeOK, Goto, FailWith, RUN_PC, RESULTS
<1>1. CASE RunsTests
  BY <1>1 DEF RunsTests
<1>2. CASE RecordsTests
  BY <1>2 DEF RecordsTests
<1>3. CASE Commits
  BY <1>3 DEF Commits
<1>4. CASE SavesCandidate
  BY <1>4, SavesCandidateEffect DEF RunRecord
<1>5. CASE Removes
  BY <1>5 DEF Removes, NoTree
<1>6. CASE Builds
  BY <1>6 DEF Builds
<1>7. CASE Starts
  BY <1>7 DEF Starts
<1>8. CASE Probes
  BY <1>8 DEF Probes
<1>9. CASE SavesDeployment
  BY <1>9, SavesDeploymentEffect DEF RunRecord
<1>10. CASE RecordsCheck
  BY <1>10 DEF RecordsCheck
<1>11. CASE Completes
  <2>1. Marked(row, "complete") \in Row
    BY MarkedType DEF TERMINAL_STATUSES
  <2>. QED
    BY <1>11, <2>1 DEF Completes
<1>12. CASE Fails
  <2>1. Marked(row, "failed") \in Row
    BY MarkedType DEF TERMINAL_STATUSES
  <2>. QED
    BY <1>12, <2>1 DEF Fails
<1>. QED
  BY <1>1, <1>2, <1>3, <1>4, <1>5, <1>6, <1>7, <1>8, <1>9, <1>10, <1>11, <1>12

\* Every step of the runner and of its threads keeps the types.
LEMMA NextType == TypeOK /\ [Next]_vars => TypeOK'
<1>. SUFFICES ASSUME TypeOK, [Next]_vars PROVE TypeOK'
  OBVIOUS
<1>1. CASE RunStep
  BY <1>1, PrepareType, DeliverType DEF RunStep
<1>2. CASE WorkerMoves
  <2>1. WorkerTypeOK'
    BY <1>2, WorkerStepType DEF WorkerMoves, TypeOK
  <2>. QED
    BY <1>2, <2>1 DEF WorkerMoves, TypeOK
<1>3. CASE StepRaises
  BY <1>3 DEF StepRaises, TypeOK, WorkerTypeOK, Goto, RUN_PC
<1>4. CASE UNCHANGED vars
  BY <1>4 DEF vars, TypeOK, WorkerTypeOK
<1>. QED
  BY <1>1, <1>2, <1>3, <1>4 DEF Next

\* Every variable of run_delivery keeps its type, whatever raises.
THEOREM TypeCorrect == Spec => []TypeOK
BY InitType, NextType, PTL DEF Spec

-----------------------------------------------------------------------------
(* The result and the verdict.                                             *)

DEPLOYING == {"remove", "build", "run", "probe", "save", "check", "complete"}

\* The row is open from the creation of the work order to the return, and
\* the result is settled on the way to the mark only.
OutcomeInv ==
  /\ At("new") => row.overall = "absent"
  /\ run.pc \notin {"new", "returned"} => row.overall = "in_progress"
  /\ run.pc \notin {"fail", "returned", "raised"} => run.result = "in_progress"
  /\ At("fail") => run.result \in {"failed", "degraded"}
  /\ ResultIsDurable
  /\ At("returned") => IsTerminal(row)

\* At the start no row is recorded and nothing is returned.
LEMMA OutcomeInit == Init => OutcomeInv
BY DEF Init, WorkerInit, NoRow, OutcomeInv, ResultIsDurable, At

\* A worker thread, a step that raises and a stutter leave the outcome alone.
LEMMA WorkerMovesFrame ==
  ASSUME TypeOK, WorkerMoves
  PROVE  /\ [row' EXCEPT !.worker = row.worker] = row
         /\ tree # NoTree => tree' # NoTree
         /\ UNCHANGED <<run, evidence, served>>
BY WorkerStepFrame DEF WorkerMoves, TypeOK

\* What a row has in common with one that differs in the worker status only.
LEMMA SameButWorker ==
  ASSUME NEW r \in Row, NEW q \in Row, [q EXCEPT !.worker = r.worker] = r
  PROVE  /\ q.overall = r.overall /\ q.candidate = r.candidate
         /\ q.deployed = r.deployed /\ q.health = r.health
BY DEF Row

\* Every step keeps the result returned and the recorded verdict in agreement.
LEMMA OutcomeStep == TypeOK /\ OutcomeInv /\ [Next]_vars => OutcomeInv'
<1>. SUFFICES ASSUME TypeOK, OutcomeInv, [Next]_vars PROVE OutcomeInv'
  OBVIOUS
<1>. USE DEF OutcomeInv, ResultIsDurable, At, Goto, FailWith, IsTerminal, TERMINAL_STATUSES,
               RunRecord
<1>0. row \in Row /\ row' \in Row /\ run \in RunRecord
  BY NextType DEF TypeOK, WorkerTypeOK, RunRecord
<1>1. CASE CreatesWorkOrder
  BY <1>0, <1>1 DEF CreatesWorkOrder, Created, Row
<1>2. CASE CreatesRuntime
  BY <1>0, <1>2 DEF CreatesRuntime, Provisioned, Row
<1>3. CASE ChecksOut \/ Launches \/ PollTimesOut
  BY <1>0, <1>3 DEF ChecksOut, Launches, PollTimesOut
<1>31. CASE PollSees
  BY <1>0, <1>31, PollSeesEffect
<1>4. CASE SavesBaseline
  BY <1>0, <1>4 DEF SavesBaseline, Row
<1>41. CASE SavesCandidate
  BY <1>0, <1>41, SavesCandidateEffect
<1>5. CASE Registers
  BY <1>0, <1>5 DEF Registers, RegisterWorker, Registered, Row
<1>6. CASE RunsTests \/ RecordsTests \/ Commits \/ RecordsCheck
  BY <1>0, <1>6 DEF RunsTests, RecordsTests, Commits, RecordsCheck
<1>7. CASE Removes \/ Builds \/ Starts \/ Probes
  BY <1>0, <1>7 DEF Removes, Builds, Starts, Probes
<1>8. CASE SavesDeployment
  BY <1>0, <1>8, SavesDeploymentEffect
<1>9. CASE Completes
  BY <1>0, <1>9 DEF Completes, Marked, Row
<1>10. CASE Fails
  BY <1>0, <1>10 DEF Fails, Marked, Row
<1>11. CASE StepRaises
  BY <1>0, <1>11 DEF StepRaises
<1>12. CASE WorkerMoves
  BY <1>0, <1>12, WorkerMovesFrame, SameButWorker
<1>13. CASE UNCHANGED vars
  BY <1>13 DEF vars
<1>. QED
  BY <1>1, <1>2, <1>3, <1>31, <1>4, <1>41, <1>5, <1>6, <1>7, <1>8, <1>9, <1>10, <1>11, <1>12, <1>13
     DEF Next, RunStep

\* The DeliveryResult that run_delivery returns is the verdict in the row.
THEOREM ResultIsDurableHolds == Spec => []ResultIsDurable
<1>1. OutcomeInv => ResultIsDurable
  BY DEF OutcomeInv
<1>. QED
  BY <1>1, OutcomeInit, OutcomeStep, TypeCorrect, PTL DEF Spec

\* A worker that outlives the deadline changes nothing of the delivery but its
\* own status.
THEOREM LateWorkerHarmlessHolds == Spec => LateWorkerHarmless
<1>1. ASSUME TypeOK, OutcomeInv, [Next]_vars, IsTerminal(row)
      PROVE  /\ [row' EXCEPT !.worker = row.worker] = row
             /\ UNCHANGED <<served, evidence>>
  <2>1. At("returned")
    BY <1>1 DEF OutcomeInv, At, IsTerminal, TERMINAL_STATUSES
  <2>2. WorkerMoves \/ UNCHANGED vars
    BY <1>1, <2>1 DEF Next, RunStep, StepRaises, At, CreatesWorkOrder, CreatesRuntime, ChecksOut,
       SavesBaseline, Registers, Launches, PollSees, PollTimesOut, RunsTests, RecordsTests,
       Commits, SavesCandidate, Removes, Builds, Starts, Probes, SavesDeployment, RecordsCheck,
       Completes, Fails
  <2>3. CASE WorkerMoves
    BY <1>1, <2>3, WorkerMovesFrame
  <2>4. CASE UNCHANGED vars
    BY <1>1, <2>4 DEF vars, TypeOK, WorkerTypeOK, Row
  <2>. QED
    BY <2>2, <2>3, <2>4
<1>. QED
  BY <1>1, OutcomeInit, OutcomeStep, TypeCorrect, PTL DEF Spec, LateWorkerHarmless, vars

-----------------------------------------------------------------------------
(* What is deployed is verified.                                           *)

\* With a workspace, which is never taken away again.
PREPARED == {"baseline", "register", "launch", "poll", "tests", "record", "commit",
             "candidate"} \cup DEPLOYING

\* What each step has behind it, up to the mark that says so to the client.
EvidenceInv ==
  /\ run.pc \in PREPARED => tree # NoTree
  /\ run.pc \in {"commit", "candidate"} => evidence.ok = run.ok
  /\ At("candidate") => run.tree # NoTree
  /\ run.pc \in DEPLOYING => row.candidate # NoTree /\ evidence.ok
  /\ run.pc \in {"check", "complete"} => row.deployed /\ row.health = "healthy"
  /\ At("complete") => evidence.checked
  /\ row.overall = "complete" => Verified

\* At the start no step has anything to rely on.
LEMMA EvidenceInit == Init => EvidenceInv
BY DEF Init, WorkerInit, NoRow, EvidenceInv, At, PREPARED, DEPLOYING

\* Every step keeps the evidence that the stage reached relies on.
LEMMA EvidenceStep == TypeOK /\ OutcomeInv /\ EvidenceInv /\ [Next]_vars => EvidenceInv'
<1>. SUFFICES ASSUME TypeOK, OutcomeInv, EvidenceInv, [Next]_vars PROVE EvidenceInv'
  OBVIOUS
<1>. USE DEF EvidenceInv, At, Goto, FailWith, PREPARED, DEPLOYING, Verified, NoTree, RunRecord
<1>0. /\ row \in Row /\ row' \in Row /\ tree \in Nat
      /\ run \in RunRecord
      /\ evidence \in [tree : Nat, ok : BOOLEAN, checked : BOOLEAN]
  BY NextType DEF TypeOK, WorkerTypeOK, RunRecord
<1>00. row.overall # "complete" \/ At("returned")
  BY DEF OutcomeInv
<1>1. CASE CreatesWorkOrder
  BY <1>0, <1>00, <1>1 DEF CreatesWorkOrder, Created, Row
<1>2. CASE CreatesRuntime
  BY <1>0, <1>00, <1>2 DEF CreatesRuntime, Provisioned, Row
<1>3. CASE ChecksOut
  BY <1>0, <1>00, <1>3 DEF ChecksOut
<1>31. CASE Launches \/ PollTimesOut
  BY <1>0, <1>00, <1>31 DEF Launches, PollTimesOut
<1>32. CASE PollSees
  BY <1>0, <1>00, <1>32, PollSeesEffect
<1>4. CASE SavesBaseline
  BY <1>0, <1>00, <1>4 DEF SavesBaseline, Row
<1>41. CASE SavesCandidate
  BY <1>0, <1>00, <1>41, SavesCandidateEffect
<1>5. CASE Registers
  BY <1>0, <1>00, <1>5 DEF Registers, RegisterWorker, Registered, Row
<1>6. CASE RunsTests \/ Commits
  BY <1>0, <1>00, <1>6 DEF RunsTests, Commits
<1>61. CASE RecordsTests
  BY <1>0, <1>00, <1>61 DEF RecordsTests
<1>62. CASE RecordsCheck
  BY <1>0, <1>00, <1>62 DEF RecordsCheck
<1>7. CASE Removes \/ Builds \/ Starts \/ Probes
  BY <1>0, <1>00, <1>7 DEF Removes, Builds, Starts, Probes
<1>8. CASE SavesDeployment
  BY <1>0, <1>00, <1>8, SavesDeploymentEffect
<1>9. CASE Completes
  BY <1>0, <1>00, <1>9 DEF Completes, Marked, Row, OutcomeInv, IsTerminal, TERMINAL_STATUSES
<1>10. CASE Fails
  BY <1>0, <1>00, <1>10 DEF Fails, Marked, Row, OutcomeInv, IsTerminal, TERMINAL_STATUSES
<1>11. CASE StepRaises
  BY <1>0, <1>00, <1>11 DEF StepRaises
<1>12. CASE WorkerMoves
  BY <1>0, <1>12, WorkerMovesFrame, SameButWorker
<1>13. CASE UNCHANGED vars
  BY <1>13 DEF vars
<1>. QED
  BY <1>1, <1>2, <1>3, <1>31, <1>32, <1>4, <1>41, <1>5, <1>6, <1>61, <1>62, <1>7, <1>8, <1>9, <1>10, <1>11, <1>12, <1>13
     DEF Next, RunStep

\* Only the steps that create and mark the work order change its status.
LEMMA OverallStep ==
  ASSUME TypeOK, [Next]_vars
  PROVE  \/ row'.overall = row.overall
         \/ CreatesWorkOrder \/ Completes \/ Fails
<1>. USE DEF Row
<1>0. row \in Row /\ row' \in Row
  BY NextType DEF TypeOK, WorkerTypeOK
<1>1. CASE WorkerMoves
  BY <1>0, <1>1, WorkerMovesFrame, SameButWorker
<1>2. CASE UNCHANGED row
  BY <1>2
<1>3. CASE CreatesRuntime \/ SavesBaseline \/ Registers \/ SavesCandidate \/ SavesDeployment
  BY <1>0, <1>3 DEF CreatesRuntime, Provisioned, SavesBaseline, Registers, RegisterWorker,
     Registered, SavesCandidate, SavesDeployment, DeploymentRecorded
<1>4. \/ WorkerMoves \/ UNCHANGED row
      \/ CreatesRuntime \/ SavesBaseline \/ Registers \/ SavesCandidate \/ SavesDeployment
      \/ CreatesWorkOrder \/ Completes \/ Fails
  BY DEF Next, vars, RunStep, StepRaises, ChecksOut, Launches, PollSees, PollTimesOut, RunsTests,
     RecordsTests, Commits, Removes, Builds, Starts, Probes, RecordsCheck
<1>. QED
  BY <1>1, <1>2, <1>3, <1>4

\* Each step is a step of the task, or invisible to it.
LEMMA TaskStep ==
  ASSUME TypeOK, OutcomeInv, EvidenceInv, [Next]_vars
  PROVE  [Task!Next]_(Task!vars)
<1>0. row \in Row /\ row' \in Row
  BY NextType DEF TypeOK, WorkerTypeOK
<1>1. CASE CreatesWorkOrder
  <2>1. row.overall = "absent" /\ row'.overall = "in_progress" /\ Verified' = Verified
    BY <1>0, <1>1 DEF CreatesWorkOrder, Created, Row, OutcomeInv, Verified
  <2>2. Task!Accept
    BY <2>1 DEF Task!Accept, TaskState
  <2>. QED
    BY <2>2 DEF Task!Next
<1>2. CASE Completes
  <2>1. row.overall = "in_progress" /\ Verified
    BY <1>2 DEF Completes, At, OutcomeInv, EvidenceInv, Verified, DEPLOYING
  <2>2. row'.overall = "complete" /\ Verified' = Verified
    BY <1>0, <1>2, <2>1 DEF Completes, Marked, Row, IsTerminal, TERMINAL_STATUSES, Verified
  <2>3. Task!Complete
    BY <2>1, <2>2 DEF Task!Complete, TaskState
  <2>. QED
    BY <2>3 DEF Task!Next
<1>3. CASE Fails
  <2>1. row.overall = "in_progress"
    BY <1>3 DEF Fails, At, OutcomeInv
  <2>2. row'.overall = "failed" /\ Verified' = Verified
    BY <1>0, <1>3, <2>1 DEF Fails, Marked, Row, IsTerminal, TERMINAL_STATUSES, Verified
  <2>3. Task!Fail
    BY <2>1, <2>2 DEF Task!Fail, TaskState
  <2>. QED
    BY <2>3 DEF Task!Next
<1>4. CASE row'.overall = row.overall /\ row.overall = "in_progress"
  <2>1. Task!Progress
    BY <1>4 DEF Task!Progress, TaskState, Verified
  <2>. QED
    BY <2>1 DEF Task!Next
<1>5. CASE row'.overall = row.overall /\ row.overall # "in_progress" /\ ~CreatesWorkOrder
  <2>1. At("new") \/ At("returned")
    BY <1>5 DEF OutcomeInv, At
  <2>2. WorkerMoves \/ UNCHANGED vars
    BY <1>5, <2>1 DEF Next, RunStep, StepRaises, At, CreatesRuntime, ChecksOut,
       SavesBaseline, Registers, Launches, PollSees, PollTimesOut, RunsTests, RecordsTests,
       Commits, SavesCandidate, Removes, Builds, Starts, Probes, SavesDeployment, RecordsCheck,
       Completes, Fails
  <2>3. Verified' = Verified
    <3>1. CASE WorkerMoves
      BY <1>0, <3>1, WorkerMovesFrame, SameButWorker DEF Verified
    <3>2. CASE UNCHANGED vars
      BY <3>2 DEF vars, Verified
    <3>. QED
      BY <2>2, <3>1, <3>2
  <2>. QED
    BY <1>5, <2>3 DEF Task!vars, TaskState
<1>. QED
  BY <1>1, <1>2, <1>3, <1>4, <1>5, OverallStep

\* A client of run_delivery observes what DeliveryTask promises, whatever
\* raises on the way.
THEOREM ImplementsTask == Spec => TaskSafety
<1>1. Init => Task!Init
  BY DEF Init, WorkerInit, NoRow, Task!Init, TaskState, Verified
<1>2. TypeOK /\ OutcomeInv /\ [Next]_vars => OutcomeInv'
  BY OutcomeStep
<1>3. TypeOK /\ OutcomeInv /\ EvidenceInv /\ [Next]_vars => EvidenceInv'
  BY EvidenceStep
<1>4. TypeOK /\ OutcomeInv /\ EvidenceInv /\ [Next]_vars => [Task!Next]_(Task!vars)
  BY TaskStep
<1>. QED
  BY <1>1, <1>2, <1>3, <1>4, OutcomeInit, EvidenceInit, TypeCorrect, PTL
     DEF Spec, TaskSafety, Task!Safety

-----------------------------------------------------------------------------
(* What is served is what was tested.                                      *)

STARTING == {"new", "runtime", "checkout", "baseline", "register", "launch"}
SETTLED == {"tests", "record", "commit", "candidate"} \cup DEPLOYING

Quiet == \A t \in Threads : worker[t] \notin {"begin", "working", "failing"}

\* One thread is started, and the workspace is read only after it reported
\* "done", from when on it writes no more.
ThreadInv ==
  /\ run.pc \in STARTING =>
       row.worker \in {"none", "starting"} /\ \A t \in Threads : worker[t] = "idle"
  /\ \A t, u \in Threads : worker[t] # "idle" /\ worker[u] # "idle" => t = u
  /\ row.worker = "done" \/ run.pc \in SETTLED => Quiet

\* No worker thread runs at the start.
LEMMA ThreadInit == Init => ThreadInv
BY DEF Init, WorkerInit, NoRow, ThreadInv, STARTING, SETTLED, DEPLOYING, Quiet

\* A thread that is quiet leaves the tree as it is and does not become loud; a
\* status other than "done" is only set by a thread that may still be loud.
LEMMA WorkerStepThread ==
  ASSUME WorkerTypeOK, NEW t \in Threads, WorkerStep(t)
  PROVE  /\ worker[t] # "idle"
         /\ \E l \in WORKER_PC \ {"idle", "begin"} : Moves(t, l)
         /\ worker[t] \notin {"begin", "working", "failing"} =>
              UNCHANGED tree /\ worker'[t] \in {"guard", "dead"}
         /\ row'.worker = "done" =>
              (row.worker = "done" /\ UNCHANGED row) \/ worker'[t] = "closing"
<1>. USE DEF WorkerTypeOK, Row, SetStatus, WithWorkerStatus, Moves, WORKER_PC
<1>1. CASE WorkerBegin(t)
  BY <1>1 DEF WorkerBegin
<1>2. CASE WorkerEdit(t)
  <2>1. Moves(t, "guard") \/ Moves(t, worker[t])
    BY <1>2 DEF WorkerEdit
  <2>. QED
    BY <1>2, <2>1 DEF WorkerEdit
<1>3. CASE WorkerReport(t)
  <2>1. Moves(t, "guard") \/ Moves(t, worker[t])
    BY <1>3 DEF WorkerReport
  <2>. QED
    BY <1>3, <2>1 DEF WorkerReport
<1>4. CASE WorkerFinish(t)
  BY <1>4 DEF WorkerFinish
<1>5. CASE WorkerReturns(t)
  BY <1>5 DEF WorkerReturns
<1>6. CASE WorkerCrash(t)
  BY <1>6 DEF WorkerCrash
<1>7. CASE WorkerGuard(t)
  BY <1>7 DEF WorkerGuard
<1>. QED
  BY <1>1, <1>2, <1>3, <1>4, <1>5, <1>6, <1>7 DEF WorkerStep

\* The steps of run_delivery that leave the threads alone.
LEMMA ThreadFrame ==
  ASSUME TypeOK, ThreadInv, UNCHANGED worker, row'.worker = row.worker,
         run'.pc \in STARTING => run.pc \in STARTING,
         run'.pc \in SETTLED => run.pc \in SETTLED \/ row.worker = "done"
  PROVE  ThreadInv'
BY DEF ThreadInv, Quiet

\* Every step keeps the single thread, and its silence once it is done.
LEMMA ThreadStep == TypeOK /\ ThreadInv /\ [Next]_vars => ThreadInv'
<1>. SUFFICES ASSUME TypeOK, ThreadInv, [Next]_vars PROVE ThreadInv'
  OBVIOUS
<1>. USE DEF At, Goto, FailWith, STARTING, SETTLED, DEPLOYING
<1>0. /\ row \in Row /\ worker \in [Threads -> WORKER_PC] /\ WorkerTypeOK
      /\ run \in [pc : RUN_PC, tree : Nat, ok : BOOLEAN, result : RESULTS]
  BY DEF TypeOK, WorkerTypeOK
<1>1. CASE CreatesWorkOrder
  BY <1>0, <1>1, ThreadFrame DEF CreatesWorkOrder, Created, Row
<1>2. CASE CreatesRuntime
  BY <1>0, <1>2 DEF CreatesRuntime, Provisioned, Row, ThreadInv, Quiet
<1>3. CASE ChecksOut \/ PollTimesOut \/ RunsTests \/ RecordsTests \/ Commits
  BY <1>0, <1>3, ThreadFrame DEF ChecksOut, PollTimesOut, RunsTests, RecordsTests, Commits
<1>4. CASE PollSees
  BY <1>0, <1>4, ThreadFrame DEF PollSees
<1>5. CASE SavesBaseline
  BY <1>0, <1>5, ThreadFrame DEF SavesBaseline, Row
<1>6. CASE Registers
  BY <1>0, <1>6 DEF Registers, RegisterWorker, Registered, Row, ThreadInv, Quiet
<1>7. CASE Launches
  <2>1. worker' = [worker EXCEPT ![NextThread] = "begin"]
    BY <1>7 DEF Launches, Launch, LaunchBy, Moves
  <2>2. \A t \in Threads : t # NextThread => worker'[t] = "idle"
    BY <1>0, <1>7, <2>1 DEF Launches, ThreadInv
  <2>. QED
    BY <1>0, <1>7, <2>2 DEF Launches, ThreadInv, Quiet
<1>8. CASE SavesCandidate
  BY <1>0, <1>8, ThreadFrame DEF SavesCandidate, Row
<1>9. CASE Removes \/ Builds \/ Starts \/ Probes \/ RecordsCheck
  BY <1>0, <1>9, ThreadFrame DEF Removes, Builds, Starts, Probes, RecordsCheck
<1>10. CASE SavesDeployment
  BY <1>0, <1>10, ThreadFrame DEF SavesDeployment, DeploymentRecorded, Row
<1>11. CASE Completes
  BY <1>0, <1>11, ThreadFrame DEF Completes, Marked, Row
<1>12. CASE Fails
  BY <1>0, <1>12, ThreadFrame DEF Fails, Marked, Row
<1>13. CASE StepRaises
  BY <1>0, <1>13, ThreadFrame DEF StepRaises
<1>14. CASE WorkerMoves
  <2>1. PICK t \in Threads : WorkerStep(t)
    BY <1>14 DEF WorkerMoves
  <2>2. PICK l \in WORKER_PC \ {"idle", "begin"} : worker' = [worker EXCEPT ![t] = l]
    BY <1>0, <2>1, WorkerStepThread DEF Moves
  <2>3. worker[t] # "idle" /\ run.pc \notin STARTING /\ run' = run
    BY <1>0, <1>14, <2>1, WorkerStepThread DEF WorkerMoves, ThreadInv
  <2>4. \A u \in Threads \ {t} : worker[u] = "idle" /\ worker'[u] = "idle"
    BY <1>0, <2>2, <2>3 DEF ThreadInv
  <2>5. row'.worker = "done" \/ run.pc \in SETTLED =>
          worker'[t] \notin {"begin", "working", "failing"}
    BY <1>0, <2>1, WorkerStepThread DEF ThreadInv, Quiet
  <2>. QED
    BY <2>3, <2>4, <2>5 DEF ThreadInv, Quiet
<1>15. CASE UNCHANGED vars
  BY <1>15, ThreadFrame DEF vars
<1>. QED
  BY <1>1, <1>2, <1>3, <1>4, <1>5, <1>6, <1>7, <1>8, <1>9, <1>10, <1>11, <1>12, <1>13,
     <1>14, <1>15 DEF Next, RunStep

\* From the tests on the three reads of the workspace see the same tree.
TreeInv ==
  /\ run.pc \in {"record", "candidate", "run"} => run.tree = tree
  /\ run.pc \in {"commit", "candidate"} \cup DEPLOYING => evidence.tree = tree
  /\ run.pc \in DEPLOYING => row.candidate = tree
  /\ run.pc \in STARTING \cup {"poll", "tests", "record", "commit", "candidate",
                              "remove", "build", "run"} => served = NoTree
  /\ ServedIsTested

\* At the start nothing has been read from the workspace, and nothing is served.
LEMMA TreeInit == Init => TreeInv
BY DEF Init, WorkerInit, NoRow, TreeInv, STARTING, DEPLOYING, ServedIsTested

\* Every step keeps the tree tested, committed and served the same one.
LEMMA TreeStep ==
  TypeOK /\ ThreadInv /\ EvidenceInv /\ TreeInv /\ [Next]_vars => TreeInv'
<1>. SUFFICES ASSUME TypeOK, ThreadInv, EvidenceInv, TreeInv, [Next]_vars PROVE TreeInv'
  OBVIOUS
<1>. USE DEF TreeInv, ServedIsTested, At, Goto, FailWith, STARTING, DEPLOYING,
               RunRecord
<1>0. /\ row \in Row /\ row' \in Row
      /\ run \in RunRecord
      /\ evidence \in [tree : Nat, ok : BOOLEAN, checked : BOOLEAN]
  BY NextType DEF TypeOK, WorkerTypeOK, RunRecord
<1>00. run.pc \in DEPLOYING => evidence.ok
  BY DEF EvidenceInv
<1>1. CASE CreatesWorkOrder
  BY <1>0, <1>1 DEF CreatesWorkOrder, Created, Row
<1>2. CASE CreatesRuntime
  BY <1>0, <1>2 DEF CreatesRuntime, Provisioned, Row
<1>3. CASE ChecksOut
  BY <1>0, <1>3 DEF ChecksOut
<1>4. CASE SavesBaseline
  BY <1>0, <1>4 DEF SavesBaseline, Row
<1>5. CASE Registers
  BY <1>0, <1>5 DEF Registers, RegisterWorker, Registered, Row
<1>6. CASE Launches \/ PollTimesOut
  BY <1>0, <1>6 DEF Launches, PollTimesOut
<1>7. CASE PollSees
  BY <1>0, <1>7, PollSeesEffect
<1>8. CASE RunsTests \/ Commits
  BY <1>0, <1>8 DEF RunsTests, Commits
<1>9. CASE RecordsTests
  BY <1>0, <1>9 DEF RecordsTests
<1>10. CASE SavesCandidate
  BY <1>0, <1>10, SavesCandidateEffect
<1>11. CASE Removes \/ Builds
  BY <1>0, <1>11 DEF Removes, Builds
<1>111. CASE Probes \/ RecordsCheck
  BY <1>0, <1>111 DEF Probes, RecordsCheck
<1>12. CASE Starts
  BY <1>0, <1>00, <1>12 DEF Starts
<1>13. CASE SavesDeployment
  BY <1>0, <1>13, SavesDeploymentEffect
<1>14. CASE Completes \/ Fails
  <2>1. row'.candidate = row.candidate
    BY <1>0, <1>14 DEF Completes, Fails, Marked, Row
  <2>2. run'.pc = "returned" /\ UNCHANGED <<tree, evidence, served>>
    BY <1>0, <1>14 DEF Completes, Fails
  <2>. QED
    BY <2>1, <2>2
<1>15. CASE StepRaises
  BY <1>0, <1>15 DEF StepRaises
<1>16. CASE WorkerMoves
  <2>1. PICK t \in Threads : WorkerStep(t)
    BY <1>16 DEF WorkerMoves
  <2>2. run.pc \in SETTLED => UNCHANGED tree
    BY <2>1, WorkerStepThread DEF TypeOK, ThreadInv, Quiet
  <2>3. row'.candidate = row.candidate /\ UNCHANGED <<run, evidence, served>>
    BY <1>0, <1>16, WorkerMovesFrame, SameButWorker
  <2>. QED
    BY <1>0, <2>2, <2>3 DEF SETTLED
<1>17. CASE UNCHANGED vars
  BY <1>17 DEF vars
<1>. QED
  BY <1>1, <1>2, <1>3, <1>4, <1>5, <1>6, <1>7, <1>8, <1>9, <1>10, <1>11, <1>111, <1>12, <1>13,
     <1>14, <1>15, <1>16, <1>17 DEF Next, RunStep

\* What run_delivery serves is the recorded candidate, committed from and
\* tested on one and the same tree, although it never joins the worker thread.
THEOREM ServedIsTestedHolds == Spec => []ServedIsTested
<1>1. TypeOK /\ OutcomeInv /\ [Next]_vars => OutcomeInv'
  BY OutcomeStep
<1>2. TypeOK /\ OutcomeInv /\ EvidenceInv /\ [Next]_vars => EvidenceInv'
  BY EvidenceStep
<1>3. TypeOK /\ ThreadInv /\ [Next]_vars => ThreadInv'
  BY ThreadStep
<1>4. TypeOK /\ ThreadInv /\ EvidenceInv /\ TreeInv /\ [Next]_vars => TreeInv'
  BY TreeStep
<1>5. TreeInv => ServedIsTested
  BY DEF TreeInv
<1>. QED
  BY <1>1, <1>2, <1>3, <1>4, <1>5, OutcomeInit, EvidenceInit, ThreadInit, TreeInit,
     TypeCorrect, PTL DEF Spec
=============================================================================
