--------------------------- MODULE DependableProofs ---------------------------
(***************************************************************************)
(* Proofs about the deterministic backend that relate it to its worker:    *)
(* as long as no fault has happened, the thread, the status in the row and *)
(* the three reads of the workspace agree (runs guard_raises, second_turn  *)
(* show what a fault does to that); and however many faults there are, the *)
(* worker turns are counted by them.                                       *)
(***************************************************************************)
EXTENDS SupervisionProofs, FiniteSetTheorems

-----------------------------------------------------------------------------
(* The worker's turn.                                                      *)

\* Only one turn is started, so that no two of them edit the same workspace.
OneWorkerTurn == \A s, t \in Threads : worker[s] # "idle" /\ worker[t] # "idle" => s = t

Launched == \E t \in Threads : worker[t] # "idle"

\* The status in the row is the one the thread has reached.
Reported(t) ==
  /\ worker[t] = "begin" => row.worker = "starting"
  /\ worker[t] = "working" => row.worker \in {"running", "waiting"}
  /\ worker[t] = "closing" => row.worker = "done"
  /\ worker[t] = "failing" => row.worker = "failed"
  /\ worker[t] = "guard" => row.worker # "none"
  /\ worker[t] = "dead" => row.worker \in {"done", "failed"}

STARTING == {"start_worker_turn", "start.launch", "start.audit"}

EARLY == {"create_worker_runtime", "checkout_baseline", "checkout.save"} \cup STARTING

\* One thread is started, whose start is on record as soon as the tool that
\* started it has ended, and the rules that start it apply no more after that.
TurnInv ==
  /\ OneWorkerTurn
  /\ \A t \in Threads : Reported(t)
  /\ Launched <=> started \/ At("start.audit")
  /\ ~Launched => row.worker \in {"none", "starting"}
  /\ At("start.launch") => row.worker = "starting"
  /\ sup.pc \in EARLY => ~started
  /\ started \/ sup.pc \in STARTING => row.runtime /\ row.baseline # NoTree
  /\ At("checkout.save") => sup.tree # NoTree

\* No thread runs and nothing is on record initially.
LEMMA TurnInit == Init => TurnInv
BY DEF Init, WorkerInit, NoRow, TurnInv, OneWorkerTurn, Reported, Launched, STARTING,
       EARLY, At, NoTree

\* Without a fault a thread moves on by itself and reports where it is; once it
\* has ended its turn it leaves the workspace alone.
LEMMA ReportStep ==
  ASSUME WorkerTypeOK, NEW t \in Threads, WorkerStep(t), UNCHANGED faults, Reported(t)
  PROVE  /\ worker[t] # "idle"
         /\ \E l \in WORKER_PC \ {"idle"} : worker' = [worker EXCEPT ![t] = l]
         /\ Reported(t)'
         /\ worker[t] \notin {"begin", "working", "failing"} =>
              UNCHANGED tree /\ worker'[t] \in {"guard", "dead"}
<1>. USE DEF WorkerTypeOK, Row, SetStatus, WithWorkerStatus, Moves, WORKER_PC, Reported,
             Fault, NoFault
<1>1. CASE WorkerBegin(t)
  BY <1>1 DEF WorkerBegin
<1>2. CASE WorkerEdit(t)
  <2>1. worker[t] \in {"working", "failing"} /\ UNCHANGED <<row, worker>>
    BY <1>2 DEF WorkerEdit
  <2>2. worker' = [worker EXCEPT ![t] = worker[t]]
    BY <2>1
  <2>. QED
    BY <2>1, <2>2
<1>3. CASE WorkerReport(t)
  <2>1. worker' = [worker EXCEPT ![t] = worker[t]]
    BY <1>3 DEF WorkerReport
  <2>. QED
    BY <1>3, <2>1 DEF WorkerReport
<1>4. CASE WorkerFinish(t)
  BY <1>4 DEF WorkerFinish
<1>5. CASE WorkerReturns(t)
  BY <1>5 DEF WorkerReturns
<1>6. CASE WorkerCrash(t)
  BY <1>6 DEF WorkerCrash
<1>7. CASE WorkerGuard(t)
  <2>1. faults' # faults + 1
    BY WorkerAssumption
  <2>2. /\ worker[t] = "guard" /\ UNCHANGED tree
        /\ worker' = [worker EXCEPT ![t] = "dead"]
        /\ row' = [row EXCEPT !.worker = "failed"]
    BY <1>7, <2>1 DEF WorkerGuard
  <2>. QED
    BY <2>2
<1>. QED
  BY <1>1, <1>2, <1>3, <1>4, <1>5, <1>6, <1>7 DEF WorkerStep

\* The thread that is started is an idle one.
LEMMA NextThreadIdle ==
  ASSUME ~Launched
  PROVE  NextThread \in Threads
<1>1. 1 \in Threads /\ \A u \in Threads : 1 <= u
  BY WorkerAssumption DEF Threads
<1>2. Idle = Threads
  BY DEF Idle, Launched
<1>3. \E t \in Idle : \A u \in Idle : t <= u
  BY <1>1, <1>2
<1>. QED
  BY <1>2, <1>3 DEF NextThread

\* A step that leaves the worker's side of the row alone keeps the invariant
\* unless it goes to one of the first tools, or comes from the record of the start.
LEMMA TurnFrame ==
  ASSUME TurnInv, UNCHANGED <<worker, started>>,
         row'.worker = row.worker, row'.runtime = row.runtime, row'.baseline = row.baseline,
         ~At("start.audit"), sup'.pc \notin EARLY
  PROVE  TurnInv'
BY DEF TurnInv, OneWorkerTurn, Launched, Reported, EARLY, STARTING, At

\* The loop, and the rules: a thread is only started before there is one.
LEMMA TurnLoop ==
  ASSUME TypeOK, TurnInv,
         \/ SubmitDelivery \/ LaunchSupervisor \/ BeginTurn \/ LeaveLoop
         \/ ThinkDeterministic \/ StepsExhausted \/ AuditTurn \/ ReadFinal \/ GiveUp
  PROVE  TurnInv'
<1>0. row \in Row /\ (\A l : Goto(l) => sup'.pc = l)
  BY DEF Goto, TypeOK, SupTypeOK, WorkerTypeOK
<1>1. CASE SubmitDelivery
  BY <1>0, <1>1, TurnFrame DEF SubmitDelivery, Created, Row, EARLY, STARTING, At
<1>2. CASE \/ LaunchSupervisor \/ BeginTurn \/ LeaveLoop \/ StepsExhausted
           \/ AuditTurn \/ ReadFinal
  <2>1. /\ UNCHANGED <<row, worker, started>> /\ ~At("start.audit")
        /\ sup'.pc \in {"top", "think", "final", "audit", "done", "giveup"}
    BY <1>0, <1>2 DEF LaunchSupervisor, BeginTurn, LeaveLoop, StepsExhausted, AuditTurn,
                      ReadFinal, At, TypeOK, SupTypeOK
  <2>. QED
    BY <2>1, TurnFrame DEF EARLY, STARTING
<1>3. CASE GiveUp
  <2>1. /\ row'.worker = row.worker /\ row'.runtime = row.runtime
        /\ row'.baseline = row.baseline
    BY <1>0, <1>3 DEF GiveUp, Marked, Row
  <2>. QED
    BY <1>0, <1>3, <2>1, TurnFrame DEF GiveUp, EARLY, STARTING, At
<1>4. CASE ThinkDeterministic
  <2>1. /\ sup'.pc = NextAction /\ At("think")
        /\ UNCHANGED <<row, worker, started>>
    BY <1>4 DEF ThinkDeterministic, Calls, TypeOK, SupTypeOK
  <2>2. CASE NextAction \notin EARLY
    BY <2>1, <2>2, TurnFrame DEF At
  <2>3. CASE NextAction \in EARLY
    <3>1. /\ NextAction \in {"create_worker_runtime", "checkout_baseline", "start_worker_turn"}
          /\ ~started
          /\ NextAction = "start_worker_turn" => row.runtime /\ row.baseline # NoTree
      BY <2>3 DEF NextAction, EARLY, STARTING, TurnInv
    <3>. QED
      BY <2>1, <3>1 DEF TurnInv, OneWorkerTurn, Launched, Reported, EARLY, STARTING, At
  <2>. QED
    BY <2>2, <2>3
<1>. QED
  BY <1>1, <1>2, <1>3, <1>4

\* The tools up to the start of the worker.
LEMMA TurnStarts ==
  ASSUME TypeOK, TurnInv,
         \/ CreateWorkerRuntime \/ CheckoutSkips \/ CheckoutClones \/ CheckoutSaves
         \/ StartRefused \/ StartRegisters \/ StartLaunches \/ StartAudits
  PROVE  TurnInv'
<1>. USE DEF EARLY, STARTING, At
<1>0. row \in Row /\ (\A l : Goto(l) => sup'.pc = l)
  BY DEF Goto, TypeOK, SupTypeOK, WorkerTypeOK
<1>1. CASE CreateWorkerRuntime
  <2>1. ~Launched
    BY <1>1 DEF CreateWorkerRuntime, TurnInv
  <2>2. /\ row'.worker \in {row.worker, "starting"}
        /\ UNCHANGED <<worker, started>> /\ sup'.pc = "think"
    BY <1>0, <1>1 DEF CreateWorkerRuntime, Provisioned, Row
  <2>. QED
    BY <1>1, <2>1, <2>2 DEF CreateWorkerRuntime, TurnInv, OneWorkerTurn, Launched, Reported
<1>2. CASE CheckoutSkips \/ StartRefused
  BY <1>0, <1>2, TurnFrame DEF CheckoutSkips, StartRefused
<1>3. CASE CheckoutClones
  <2>1. /\ UNCHANGED <<row, worker, started>> /\ sup.pc = "checkout_baseline"
        /\ sup'.pc = "checkout.save" /\ sup'.tree # NoTree
    BY <1>3 DEF CheckoutClones, NoTree, TypeOK, SupTypeOK
  <2>. QED
    BY <2>1 DEF TurnInv, OneWorkerTurn, Launched, Reported
<1>4. CASE CheckoutSaves
  <2>1. /\ row'.worker = row.worker /\ ~started /\ ~Launched
        /\ UNCHANGED <<worker, started>> /\ sup'.pc = "think"
    BY <1>0, <1>4 DEF CheckoutSaves, Row, TurnInv
  <2>. QED
    BY <2>1 DEF TurnInv, OneWorkerTurn, Launched, Reported
<1>5. CASE StartRegisters
  <2>1. ~Launched /\ ~started /\ row.runtime /\ row.baseline # NoTree
    BY <1>5 DEF StartRegisters, TurnInv
  <2>2. /\ row'.worker = "starting" /\ row'.runtime = row.runtime
        /\ row'.baseline = row.baseline
    BY <1>0, <1>5, <2>1 DEF StartRegisters, RegisterWorker, Registered, Row, TurnInv
  <2>3. UNCHANGED <<worker, started>> /\ sup'.pc = "start.launch"
    BY <1>0, <1>5 DEF StartRegisters
  <2>. QED
    BY <2>1, <2>2, <2>3 DEF TurnInv, OneWorkerTurn, Launched, Reported
<1>6. CASE StartLaunches
  <2>1. /\ ~Launched /\ ~started /\ row.worker = "starting"
        /\ row.runtime /\ row.baseline # NoTree
    BY <1>6 DEF StartLaunches, TurnInv
  <2>2. /\ worker' = [worker EXCEPT ![NextThread] = "begin"] /\ NextThread \in Threads
        /\ UNCHANGED <<row, started>> /\ sup'.pc = "start.audit"
    BY <1>0, <1>6, <2>1, NextThreadIdle DEF StartLaunches, Launch, LaunchBy, Moves
  <2>3. /\ worker'[NextThread] = "begin"
        /\ \A t \in Threads : t # NextThread => worker'[t] = "idle"
    BY <2>1, <2>2 DEF Launched, TypeOK, WorkerTypeOK
  <2>. QED
    BY <2>1, <2>2, <2>3 DEF TurnInv, OneWorkerTurn, Launched, Reported
<1>7. CASE StartAudits
  <2>1. /\ UNCHANGED <<row, worker>> /\ started' = TRUE /\ sup'.pc = "think"
        /\ sup.pc = "start.audit"
    BY <1>0, <1>7 DEF StartAudits
  <2>. QED
    BY <2>1 DEF TurnInv, OneWorkerTurn, Launched, Reported
<1>. QED
  BY <1>1, <1>2, <1>3, <1>4, <1>5, <1>6, <1>7

\* The tools after it, and a tool that fails.
LEMMA TurnFollows ==
  ASSUME TypeOK, TurnInv,
         \/ GetStatus \/ GetDeploymentStatus \/ RunTests \/ TestsSaved \/ RecordEvidence
         \/ Commit \/ CommitSaves
         \/ DeployRefused \/ DeployRemoves \/ DeployBuilds \/ DeployRuns
         \/ DeployProbes \/ DeploySaves \/ DeployRecords \/ MarkTools \/ ToolFails
  PROVE  TurnInv'
<1>0. row \in Row /\ (\A l : Goto(l) => sup'.pc = l)
  BY DEF Goto, TypeOK, SupTypeOK, WorkerTypeOK
<1>1. CASE \/ GetStatus \/ GetDeploymentStatus \/ RunTests \/ TestsSaved \/ RecordEvidence
           \/ Commit \/ DeployRefused \/ DeployRemoves \/ DeployBuilds \/ DeployRuns
           \/ DeployProbes \/ DeployRecords \/ ToolFails
           \/ MarkRaises("mark_complete", "complete") \/ MarkRaises("mark_failed", "failed")
  <2>1. UNCHANGED <<row, worker, started>> /\ ~At("start.audit")
    BY <1>1 DEF GetStatus, GetDeploymentStatus, RunTests, TestsSaved, RecordEvidence, Commit,
                DeployRefused, DeployRemoves, DeployBuilds, DeployRuns, DeployProbes,
                DeployRecords, ToolFails, MarkRaises, At
  <2>2. sup'.pc \in {"think", "audit", "tests.save", "commit.save", "deploy.build",
                     "deploy.run", "deploy.health", "deploy.save"}
    BY <1>0, <1>1 DEF GetStatus, GetDeploymentStatus, RunTests, TestsSaved, RecordEvidence,
                Commit, DeployRefused, DeployRemoves, DeployBuilds, DeployRuns, DeployProbes,
                DeployRecords, ToolFails, MarkRaises, TypeOK, SupTypeOK
  <2>. QED
    BY <2>1, <2>2, TurnFrame DEF EARLY, STARTING
<1>2. CASE \/ CommitSaves \/ DeploySaves
           \/ Mark("mark_complete", "complete") \/ Mark("mark_failed", "failed")
  <2>1. /\ row'.worker = row.worker /\ row'.runtime = row.runtime
        /\ row'.baseline = row.baseline
    BY <1>0, <1>2 DEF CommitSaves, DeploySaves, DeploymentRecorded, Mark, Marked, Row
  <2>2. /\ UNCHANGED <<worker, started>> /\ ~At("start.audit")
        /\ sup'.pc \in {"think", "deploy.evidence"}
    BY <1>0, <1>2 DEF CommitSaves, DeploySaves, Mark, At
  <2>. QED
    BY <2>1, <2>2, TurnFrame DEF EARLY, STARTING
<1>. QED
  BY <1>1, <1>2 DEF MarkTools

\* The thread itself.
LEMMA TurnWorker ==
  ASSUME TypeOK, TurnInv, WorkerMoves, UNCHANGED faults
  PROVE  TurnInv'
<1>0. WorkerTypeOK /\ worker \in [Threads -> WORKER_PC] /\ row \in Row
  BY DEF TypeOK, WorkerTypeOK
<1>1. PICK t \in Threads : WorkerStep(t) /\ UNCHANGED supVars
  BY DEF WorkerMoves
<1>2. Reported(t)
  BY DEF TurnInv
<1>3. /\ worker[t] # "idle" /\ Reported(t)'
      /\ \E l \in WORKER_PC \ {"idle"} : worker' = [worker EXCEPT ![t] = l]
  BY <1>0, <1>1, <1>2, ReportStep
<1>4. \A u \in Threads \ {t} : worker[u] = "idle" /\ worker'[u] = "idle"
  BY <1>0, <1>3 DEF TurnInv, OneWorkerTurn
<1>5. worker'[t] # "idle"
  BY <1>0, <1>3
<1>6. row'.runtime = row.runtime /\ row'.baseline = row.baseline
  BY <1>0, <1>1, WorkerStepFrame DEF Row
<1>7. Launched /\ Launched'
  BY <1>3, <1>5 DEF Launched
<1>8. OneWorkerTurn' /\ \A u \in Threads : Reported(u)'
  BY <1>3, <1>4 DEF OneWorkerTurn, Reported
<1>9. ~At("start.launch")
  BY <1>7 DEF TurnInv, EARLY, STARTING, At
<1>. QED
  BY <1>1, <1>6, <1>7, <1>8, <1>9 DEF TurnInv, supVars, At
-----------------------------------------------------------------------------
(* The workspace.                                                          *)

\* The turn has ended: nobody writes to the workspace any more.
Settled ==
  started /\ \A t \in Threads : worker[t] \notin {"begin", "working", "failing"}

\* The tests, the commit and the image build read the workspace after the turn
\* has ended, each the tree that is there ever since.
TreeInv ==
  /\ HasEvidence \/ sup.pc \in TESTING => Settled
  /\ sup.pc \in {"tests.save", "commit.save", "deploy.run"} => sup.tree = tree
  /\ HasEvidence => tests.runs[tests.top].tree = tree
  /\ row.candidate # NoTree => HasEvidence /\ row.candidate = tree
  /\ served # NoTree => served = tree

\* Nothing has been read from the workspace initially.
LEMMA TreeInit == Init => TreeInv
BY DEF Init, WorkerInit, NoRow, TreeInv, HasEvidence, TESTING, NoTree

\* The steps that touch nothing of what the three reads have left behind.
LEMMA TreeFrame ==
  ASSUME TreeInv, UNCHANGED <<worker, started, tree, tests>>,
         row'.candidate = row.candidate, served' = served \/ served' = NoTree,
         sup'.pc \notin TESTING \cup {"commit.save", "deploy.run"}
  PROVE  TreeInv'
BY DEF TreeInv, Settled, HasEvidence, TESTING

\* The rules call for the tests only when the thread has ended its turn.
LEMMA ChosenSettled ==
  ASSUME TurnInv, started, row.worker \notin {"starting", "running", "waiting", "failed"}
  PROVE  Settled
<1>1. PICK t \in Threads : worker[t] # "idle"
  BY DEF TurnInv, Launched
<1>2. \A u \in Threads : u # t => worker[u] = "idle"
  BY <1>1 DEF TurnInv, OneWorkerTurn
<1>3. worker[t] \notin {"begin", "working", "failing"}
  BY DEF TurnInv, Reported
<1>. QED
  BY <1>2, <1>3 DEF Settled

\* The loop and the rules.
LEMMA TreeLoop ==
  ASSUME TypeOK, TurnInv, TreeInv,
         \/ SubmitDelivery \/ LaunchSupervisor \/ BeginTurn \/ LeaveLoop
         \/ ThinkDeterministic \/ StepsExhausted \/ AuditTurn \/ ReadFinal \/ GiveUp
  PROVE  TreeInv'
<1>0. row \in Row /\ (\A l : Goto(l) => sup'.pc = l)
  BY DEF Goto, TypeOK, SupTypeOK, WorkerTypeOK
<1>1. CASE \/ SubmitDelivery \/ LaunchSupervisor \/ BeginTurn \/ LeaveLoop
           \/ StepsExhausted \/ AuditTurn \/ ReadFinal \/ GiveUp
  <2>1. /\ UNCHANGED <<worker, started, tree, tests, served>>
        /\ sup'.pc \in {"launch", "top", "think", "final", "audit", "done", "giveup"}
    BY <1>0, <1>1 DEF SubmitDelivery, LaunchSupervisor, BeginTurn, LeaveLoop, StepsExhausted,
                      AuditTurn, ReadFinal, GiveUp, TypeOK, SupTypeOK
  <2>2. row'.candidate = row.candidate
    BY <1>0, <1>1 DEF SubmitDelivery, Created, LaunchSupervisor, BeginTurn, LeaveLoop,
                      StepsExhausted, AuditTurn, ReadFinal, GiveUp, Marked, Row
  <2>. QED
    BY <2>1, <2>2, TreeFrame DEF TESTING
<1>2. CASE ThinkDeterministic
  <2>1. /\ sup'.pc = NextAction
        /\ UNCHANGED <<row, worker, started, tree, tests, served>>
    BY <1>2 DEF ThinkDeterministic, Calls, TypeOK, SupTypeOK
  <2>2. CASE NextAction = "run_acceptance_tests"
    <3>1. started /\ row.worker \notin {"starting", "running", "waiting", "failed"}
      BY <2>2 DEF NextAction
    <3>2. Settled
      BY <3>1, ChosenSettled
    <3>. QED
      BY <2>1, <2>2, <3>2 DEF TreeInv, Settled, HasEvidence, TESTING
  <2>3. CASE NextAction # "run_acceptance_tests"
    <3>1. NextAction \notin TESTING \cup {"commit.save", "deploy.run"}
      BY <2>3 DEF NextAction, TESTING
    <3>. QED
      BY <2>1, <3>1, TreeFrame
  <2>. QED
    BY <2>2, <2>3
<1>. QED
  BY <1>1, <1>2

\* The tools up to the start of the worker come before any of the reads.
LEMMA TreeStarts ==
  ASSUME TypeOK, DetInv, TurnInv, TreeInv,
         \/ CreateWorkerRuntime \/ CheckoutSkips \/ CheckoutClones \/ CheckoutSaves
         \/ StartRefused \/ StartRegisters \/ StartLaunches \/ StartAudits
  PROVE  TreeInv'
<1>0. row \in Row /\ (\A l : Goto(l) => sup'.pc = l)
  BY DEF Goto, TypeOK, SupTypeOK, WorkerTypeOK
<1>1. ~Settled
  BY DEF CreateWorkerRuntime, CheckoutSkips, CheckoutClones, CheckoutSaves, StartRefused,
         StartRegisters, StartLaunches, StartAudits, At, TurnInv, EARLY, STARTING, Settled
<1>2. ~HasEvidence /\ row.candidate = NoTree /\ served = NoTree
  BY <1>1 DEF TreeInv, DetInv, RecordInv, NeverServesRed, Passed
<1>3. row'.candidate = row.candidate /\ UNCHANGED <<tests, served>>
  BY <1>0 DEF CreateWorkerRuntime, Provisioned, CheckoutSkips, CheckoutClones, CheckoutSaves,
         StartRefused, StartRegisters, RegisterWorker, Registered, StartLaunches, StartAudits,
         Row
<1>4. sup'.pc \in {"think", "checkout.save", "start.launch", "start.audit"}
  BY <1>0 DEF CreateWorkerRuntime, CheckoutSkips, CheckoutClones, CheckoutSaves,
         StartRefused, StartRegisters, StartLaunches, StartAudits, TypeOK, SupTypeOK
<1>. QED
  BY <1>2, <1>3, <1>4 DEF TreeInv, HasEvidence, TESTING

\* The tests and the commit read the tree, and put it on record.
LEMMA TreeReads ==
  ASSUME TypeOK, DetInv, TreeInv,
         RunTests \/ TestsSaved \/ Commit \/ CommitSaves
  PROVE  TreeInv'
<1>0. row \in Row /\ (\A l : Goto(l) => sup'.pc = l)
  BY DEF Goto, TypeOK, SupTypeOK, WorkerTypeOK
<1>1. CASE RunTests \/ Commit
  <2>1. /\ UNCHANGED <<row, worker, started, tree, tests, served>> /\ sup'.tree = tree
        /\ \/ sup.pc \in TESTING
           \/ sup'.pc = "commit.save"
    BY <1>1 DEF RunTests, Commit, At, TESTING, TypeOK, SupTypeOK
  <2>. QED
    BY <2>1 DEF TreeInv, Settled, HasEvidence, TESTING
<1>2. CASE TestsSaved
  <2>1. tests.runs = <<>> /\ tests.top = 0
    BY <1>2 DEF TestsSaved, At, DetInv, StageInv, TESTING, HasEvidence, TypeOK, TestsTypeOK
  <2>2. tests'.runs = <<[tree |-> sup.tree, ok |-> sup.ok]>> /\ tests'.top = 1
    BY <1>2, <2>1 DEF TestsSaved, Recorded
  <2>3. tests'.runs[tests'.top].tree = tree
    BY <1>2, <2>2 DEF TestsSaved, At, TreeInv
  <2>4. Settled /\ row.candidate = NoTree
    BY <1>2, <2>1 DEF TestsSaved, At, TreeInv, TESTING, HasEvidence
  <2>5. UNCHANGED <<row, worker, started, tree, served>> /\ sup'.pc = "think"
    BY <1>0, <1>2 DEF TestsSaved
  <2>. QED
    BY <2>3, <2>4, <2>5 DEF TreeInv, Settled, TESTING
<1>3. CASE CommitSaves
  <2>1. HasEvidence /\ sup.tree = tree
    BY <1>3 DEF CommitSaves, At, DetInv, StageInv, Passed, TreeInv
  <2>2. row'.candidate = sup.tree
    BY <1>0, <1>3 DEF CommitSaves, Row
  <2>3. UNCHANGED <<worker, started, tree, tests, served>> /\ sup'.pc = "think"
    BY <1>0, <1>3 DEF CommitSaves
  <2>. QED
    BY <2>1, <2>2, <2>3 DEF TreeInv, Settled, HasEvidence, TESTING
<1>. QED
  BY <1>1, <1>2, <1>3

\* The deployment builds from it, and serves what it has built.
LEMMA TreeDeploys ==
  ASSUME TypeOK, DetInv, TreeInv,
         \/ GetStatus \/ GetDeploymentStatus \/ RecordEvidence
         \/ DeployRefused \/ DeployRemoves \/ DeployBuilds \/ DeployRuns
         \/ DeployProbes \/ DeploySaves \/ DeployRecords \/ MarkTools \/ ToolFails
  PROVE  TreeInv'
<1>0. row \in Row /\ (\A l : Goto(l) => sup'.pc = l)
  BY DEF Goto, TypeOK, SupTypeOK, WorkerTypeOK
<1>1. CASE RecordEvidence
  BY <1>1 DEF RecordEvidence, At, DetInv, StageInv, RESTING, NEUTRAL, TESTING, DEPLOYING
<1>2. CASE DeployBuilds
  <2>1. /\ UNCHANGED <<row, worker, started, tree, tests, served>>
        /\ sup'.tree = tree /\ sup'.pc = "deploy.run"
    BY <1>2 DEF DeployBuilds, TypeOK, SupTypeOK
  <2>. QED
    BY <2>1 DEF TreeInv, Settled, HasEvidence, TESTING
<1>3. CASE DeployRuns
  <2>1. /\ UNCHANGED <<row, worker, started, tree, tests>>
        /\ served' = tree /\ sup'.pc = "deploy.health"
    BY <1>0, <1>3 DEF DeployRuns, At, TreeInv
  <2>. QED
    BY <2>1 DEF TreeInv, Settled, HasEvidence, TESTING
<1>4. CASE \/ GetStatus \/ GetDeploymentStatus \/ DeployRefused \/ DeployRemoves
           \/ DeployProbes \/ DeployRecords \/ ToolFails
           \/ MarkRaises("mark_complete", "complete") \/ MarkRaises("mark_failed", "failed")
  <2>1. /\ UNCHANGED <<row, worker, started, tree, tests>>
        /\ served' = served \/ served' = NoTree
        /\ sup'.pc \in {"think", "audit", "deploy.build", "deploy.save"}
    BY <1>0, <1>4 DEF GetStatus, GetDeploymentStatus, DeployRefused, DeployRemoves,
                      DeployProbes, DeployRecords, ToolFails, MarkRaises, TypeOK, SupTypeOK
  <2>. QED
    BY <2>1, TreeFrame DEF TESTING
<1>5. CASE DeploySaves \/ Mark("mark_complete", "complete") \/ Mark("mark_failed", "failed")
  <2>1. /\ UNCHANGED <<worker, started, tree, tests, served>>
        /\ sup'.pc \in {"think", "deploy.evidence"}
    BY <1>0, <1>5 DEF DeploySaves, Mark
  <2>2. row'.candidate = row.candidate
    BY <1>0, <1>5 DEF DeploySaves, DeploymentRecorded, Mark, Marked, Row
  <2>. QED
    BY <2>1, <2>2, TreeFrame DEF TESTING
<1>. QED
  BY <1>1, <1>2, <1>3, <1>4, <1>5 DEF MarkTools

\* A thread writes to the workspace only while none of the reads has happened.
LEMMA TreeWorker ==
  ASSUME TypeOK, DetInv, TurnInv, TreeInv, WorkerMoves, UNCHANGED faults
  PROVE  TreeInv'
<1>0. WorkerTypeOK /\ worker \in [Threads -> WORKER_PC] /\ row \in Row
  BY DEF TypeOK, WorkerTypeOK
<1>1. PICK t \in Threads : WorkerStep(t) /\ UNCHANGED supVars
  BY DEF WorkerMoves
<1>2. Reported(t)
  BY DEF TurnInv
<1>3. /\ worker[t] # "idle"
      /\ \E l \in WORKER_PC \ {"idle"} : worker' = [worker EXCEPT ![t] = l]
      /\ worker[t] \notin {"begin", "working", "failing"} =>
           UNCHANGED tree /\ worker'[t] \in {"guard", "dead"}
  BY <1>0, <1>1, <1>2, ReportStep
<1>4. row'.candidate = row.candidate
  BY <1>0, <1>1, WorkerStepFrame DEF Row
<1>5. Settled => UNCHANGED tree /\ Settled'
  BY <1>0, <1>1, <1>3 DEF Settled, supVars
<1>6. CASE Settled
  BY <1>1, <1>4, <1>5, <1>6 DEF TreeInv, HasEvidence, supVars
<1>7. CASE ~Settled
  <2>1. ~HasEvidence /\ row.candidate = NoTree /\ served = NoTree /\ sup.pc \notin TESTING
    BY <1>7 DEF TreeInv, DetInv, RecordInv, NeverServesRed, Passed
  <2>2. sup.pc \notin {"tests.save", "commit.save", "deploy.run"}
    BY <2>1 DEF DetInv, StageInv, Passed, TESTING, DEPLOYING
  <2>. QED
    BY <1>1, <1>4, <2>1, <2>2 DEF TreeInv, HasEvidence, supVars
<1>. QED
  BY <1>6, <1>7

-----------------------------------------------------------------------------
(* The evidence of the health check.                                       *)

\* A healthy deployment on record has its check on record, or about to be.
CheckInv ==
  /\ row.deployed /\ row.health = "healthy" => checked \/ At("deploy.evidence")
  /\ CompletedHasCheck

\* Nothing is deployed initially.
LEMMA CheckInit == Init => CheckInv
BY DEF Init, WorkerInit, NoRow, CheckInv, CompletedHasCheck

\* No step of the Supervisor separates the deployment from its evidence.
LEMMA CheckSup ==
  ASSUME TypeOK, DetInv, CheckInv, SupStep
  PROVE  CheckInv'
<1>. USE DEF CheckInv, CompletedHasCheck, At
<1>0. row \in Row /\ (\A l : Goto(l) => sup'.pc = l)
  BY DEF Goto, TypeOK, SupTypeOK, WorkerTypeOK
<1>1. CASE DeploySaves
  <2>1. /\ row'.overall = row.overall
        /\ row'.health = IF sup.ok THEN "healthy" ELSE "unhealthy"
    BY <1>0, <1>1 DEF DeploySaves, DeploymentRecorded, Row
  <2>2. UNCHANGED checked /\ (sup.ok => sup'.pc = "deploy.evidence")
    BY <1>0, <1>1 DEF DeploySaves
  <2>. QED
    BY <2>1, <2>2
<1>2. CASE DeployRecords
  BY <1>2 DEF DeployRecords
<1>3. CASE Mark("mark_complete", "complete")
  <2>1. checked
    BY <1>3 DEF Mark, DetInv, StageInv, Verified
  <2>. QED
    BY <1>3, <2>1 DEF Mark
<1>4. CASE Mark("mark_failed", "failed") \/ GiveUp
  <2>1. /\ row' = Marked(row, "failed") /\ UNCHANGED checked
        /\ sup.pc # "deploy.evidence"
    BY <1>4 DEF Mark, GiveUp
  <2>2. /\ row'.deployed = row.deployed /\ row'.health = row.health
        /\ row'.overall = "complete" => row.overall = "complete"
    BY <1>0, <2>1 DEF Marked, Row
  <2>. QED
    BY <2>1, <2>2
<1>5. CASE \/ SubmitDelivery \/ CreateWorkerRuntime \/ CheckoutSaves \/ StartRegisters
           \/ CommitSaves
  <2>1. UNCHANGED checked /\ sup.pc # "deploy.evidence"
    BY <1>5 DEF SubmitDelivery, CreateWorkerRuntime, CheckoutSaves, StartRegisters,
                CommitSaves
  <2>2. /\ row'.deployed = row.deployed /\ row'.health = row.health
        /\ row'.overall = "complete" => row.overall = "complete"
    BY <1>0, <1>5 DEF SubmitDelivery, Created, CreateWorkerRuntime, Provisioned,
                      CheckoutSaves, StartRegisters, RegisterWorker, Registered,
                      CommitSaves, Row
  <2>. QED
    BY <2>1, <2>2
<1>6. CASE RecordEvidence
  BY <1>6 DEF RecordEvidence, DetInv, StageInv, RESTING, NEUTRAL, TESTING, DEPLOYING
<1>7. CASE \/ LaunchSupervisor \/ BeginTurn \/ LeaveLoop \/ ThinkDeterministic \/ ThinkLlm
           \/ StepsExhausted \/ AuditTurn \/ ReadFinal \/ CheckoutSkips \/ CheckoutClones
           \/ StartRefused \/ StartLaunches \/ StartAudits \/ GetStatus
           \/ GetDeploymentStatus \/ RunTests \/ TestsSaved \/ Commit \/ DeployRefused
           \/ DeployRemoves \/ DeployBuilds \/ DeployRuns \/ DeployProbes
           \/ MarkRaises("mark_complete", "complete") \/ MarkRaises("mark_failed", "failed")
           \/ ToolFails
  <2>1. UNCHANGED <<row, checked>> /\ sup.pc # "deploy.evidence"
    BY <1>7 DEF LaunchSupervisor, BeginTurn, LeaveLoop, ThinkDeterministic, ThinkLlm, Calls,
                StepsExhausted, AuditTurn, ReadFinal, CheckoutSkips, CheckoutClones,
                StartRefused, StartLaunches, StartAudits, GetStatus, GetDeploymentStatus,
                RunTests, TestsSaved, Commit, DeployRefused, DeployRemoves, DeployBuilds,
                DeployRuns, DeployProbes, MarkRaises, ToolFails
  <2>. QED
    BY <2>1
<1>. QED
  BY <1>1, <1>2, <1>3, <1>4, <1>5, <1>6, <1>7 DEF SupStep, MarkTools

\* Nor does a worker thread.
LEMMA CheckWorker ==
  ASSUME TypeOK, CheckInv, WorkerMoves
  PROVE  CheckInv'
<1>1. PICK t \in Threads : WorkerStep(t) /\ UNCHANGED supVars
  BY DEF WorkerMoves
<1>2. /\ row'.deployed = row.deployed /\ row'.health = row.health
      /\ row'.overall = row.overall
  BY <1>1, WorkerStepFrame DEF TypeOK, WorkerTypeOK, Row
<1>. QED
  BY <1>1, <1>2 DEF CheckInv, CompletedHasCheck, At, supVars

-----------------------------------------------------------------------------
(* Until the first fault.                                                  *)

DependableInv == TurnInv /\ TreeInv /\ CheckInv

\* A step after which there has been no fault came after none, and is no fault.
LEMMA NoFaultYet ==
  ASSUME TypeOK, TypeOK', [Next]_vars, faults' = 0
  PROVE  /\ faults = 0 /\ UNCHANGED faults
         /\ SupStep \/ WorkerMoves \/ UNCHANGED vars
<1>1. faults \in Nat
  BY WorkerAssumption DEF TypeOK, WorkerTypeOK
<1>2. ~Fault
  BY <1>1 DEF Fault
<1>3. SupStep \/ WorkerMoves \/ UNCHANGED vars
  BY <1>2 DEF Next, DbFails, Raises, ProcessExits
<1>4. UNCHANGED faults
  <2>1. CASE SupStep
    BY <2>1 DEF SupStep, SubmitDelivery, LaunchSupervisor, BeginTurn, LeaveLoop,
         ThinkDeterministic, ThinkLlm, Calls, StepsExhausted, AuditTurn, ReadFinal, GiveUp,
         CreateWorkerRuntime, CheckoutSkips, CheckoutClones, CheckoutSaves, StartRefused,
         StartRegisters, StartLaunches, StartAudits, GetStatus, GetDeploymentStatus,
         RunTests, TestsSaved, RecordEvidence, Commit, CommitSaves, DeployRefused,
         DeployRemoves, DeployBuilds, DeployRuns, DeployProbes, DeploySaves, DeployRecords,
         MarkTools, Mark, MarkRaises, ToolFails
  <2>2. CASE WorkerMoves
    BY <1>2, <2>2 DEF WorkerMoves, WorkerStep, WorkerBegin, WorkerEdit, WorkerReport,
         WorkerFinish, WorkerReturns, WorkerCrash, WorkerGuard, NoFault
  <2>3. CASE UNCHANGED vars
    BY <2>3 DEF vars
  <2>. QED
    BY <1>3, <2>1, <2>2, <2>3
<1>. QED
  BY <1>3, <1>4

\* Until the first fault every step keeps the invariant.
LEMMA DependableStep ==
  ASSUME Backend = "deterministic", TypeOK, TypeOK', DetInv, faults = 0 => DependableInv,
         [Next]_vars
  PROVE  (faults = 0 => DependableInv)'
<1>. SUFFICES ASSUME faults' = 0 PROVE DependableInv'
  OBVIOUS
<1>. USE DEF DependableInv
<1>1. /\ DependableInv /\ UNCHANGED faults
      /\ SupStep \/ WorkerMoves \/ UNCHANGED vars
  BY NoFaultYet
<1>2. CASE SupStep
  <2>1. ~ThinkLlm
    BY DEF ThinkLlm
  <2>2. TurnInv'
    BY <1>1, <1>2, <2>1, TurnLoop, TurnStarts, TurnFollows DEF SupStep
  <2>3. TreeInv'
    BY <1>1, <1>2, <2>1, TreeLoop, TreeStarts, TreeReads, TreeDeploys DEF SupStep
  <2>4. CheckInv'
    BY <1>1, <1>2, CheckSup
  <2>. QED
    BY <2>2, <2>3, <2>4
<1>3. CASE WorkerMoves
  BY <1>1, <1>3, TurnWorker, TreeWorker, CheckWorker
<1>4. CASE UNCHANGED vars
  BY <1>1, <1>4 DEF vars, TurnInv, OneWorkerTurn, Reported, Launched, At, TreeInv, Settled,
                    HasEvidence, CheckInv, CompletedHasCheck
<1>. QED
  BY <1>1, <1>2, <1>3, <1>4

\* The invariant of the deterministic backend before any fault.
LEMMA DependableHolds ==
  ASSUME Backend = "deterministic"
  PROVE  Spec => [](TypeOK /\ DetInv /\ (faults = 0 => DependableInv))
<1>. DEFINE I == faults = 0 => DependableInv
<1>1. Init => I
  BY TurnInit, TreeInit, CheckInit DEF DependableInv
<1>2. TypeOK /\ TypeOK' /\ DetInv /\ I /\ [Next]_vars => I'
  BY DependableStep
<1>. QED
  BY <1>1, <1>2, DetHolds, TypeCorrect, PTL DEF Spec

\* Until the first fault what is served is the recorded candidate and the tree that was
\* tested, although three tools read the workspace in turn and no lock keeps
\* the worker out of it.
THEOREM ServedIsCandidateHolds ==
  ASSUME Backend = "deterministic"
  PROVE  Spec => [](faults = 0 => ServedIsCandidate)
<1>1. TypeOK /\ DetInv /\ (faults = 0 => DependableInv) => (faults = 0 => ServedIsCandidate)
  BY DEF DependableInv, TreeInv, DetInv, RecordInv, Passed, ServedIsCandidate
<1>. QED
  BY <1>1, DependableHolds, PTL

\* Until then a thread that has ended, by a crash that its guard caught or
\* otherwise, has left a final status in the row.
THEOREM WorkerDeathReportedHolds ==
  ASSUME Backend = "deterministic"
  PROVE  Spec => [](faults = 0 => WorkerDeathReported)
<1>1. (faults = 0 => DependableInv) => (faults = 0 => WorkerDeathReported)
  BY DEF DependableInv, TurnInv, Reported, WorkerDeathReported
<1>. QED
  BY <1>1, DependableHolds, PTL

\* Until then no delivery is completed without its health check on record,
\* although deployment and evidence are two transactions.
THEOREM CompletedHasCheckHolds ==
  ASSUME Backend = "deterministic"
  PROVE  Spec => [](faults = 0 => CompletedHasCheck)
<1>1. (faults = 0 => DependableInv) => (faults = 0 => CompletedHasCheck)
  BY DEF DependableInv, CheckInv
<1>. QED
  BY <1>1, DependableHolds, PTL

-----------------------------------------------------------------------------
(* However many faults there are: the worker turns are counted.            *)

\* Those threads were started that come first.  There is one more than there
\* were faults only if a start is on record or about to be, and the tool that
\* starts one is only under way while none is.
LaunchInv ==
  /\ \E k \in Nat : /\ k <= faults + 1
                    /\ started \/ At("start.audit") \/ k <= faults
                    /\ \A t \in Threads : worker[t] # "idle" <=> t <= k
  /\ sup.pc \in STARTING => ~started

\* A step that starts no thread and records no start keeps the invariant unless
\* it comes from the tool that does or goes to it.
LEMMA LaunchFrame ==
  ASSUME LaunchInv, faults \in Nat, UNCHANGED started,
         faults' = faults \/ faults' = faults + 1,
         ~At("start.audit") \/ faults' = faults + 1,
         sup'.pc \notin STARTING \/ UNCHANGED sup,
         \A t \in Threads : worker'[t] # "idle" <=> worker[t] # "idle"
  PROVE  LaunchInv'
<1>1. PICK k \in Nat :
        /\ k <= faults + 1
        /\ started \/ At("start.audit") \/ k <= faults
        /\ \A t \in Threads : worker[t] # "idle" <=> t <= k
  BY DEF LaunchInv
<1>2. k <= faults' + 1 /\ (started' \/ k <= faults')
  <2>1. CASE faults' = faults
    BY <1>1, <2>1
  <2>2. CASE faults' = faults + 1
    BY <1>1, <2>2
  <2>. QED
    BY <2>1, <2>2
<1>3. sup'.pc \in STARTING => ~started'
  BY DEF LaunchInv
<1>. QED
  BY <1>1, <1>2, <1>3 DEF LaunchInv

\* A step of the Supervisor thread.
LEMMA LaunchSup ==
  ASSUME Backend = "deterministic", TypeOK, LaunchInv, SupStep
  PROVE  LaunchInv'
<1>0. /\ faults \in Nat /\ faults <= MaxFaults /\ MaxFaults < MaxLaunches
      /\ MaxLaunches \in Nat /\ MaxFaults \in Nat /\ (\A l : Goto(l) => sup'.pc = l)
      /\ worker \in [Threads -> WORKER_PC] /\ Threads = 1 .. MaxLaunches
  <2>1. /\ faults \in Nat /\ faults <= MaxFaults /\ MaxFaults < MaxLaunches
        /\ MaxLaunches \in Nat /\ MaxFaults \in Nat /\ Threads = 1 .. MaxLaunches
    BY WorkerAssumption, EnoughThreads DEF TypeOK, WorkerTypeOK, Threads
  <2>. QED
    BY <2>1 DEF Goto, TypeOK, SupTypeOK, WorkerTypeOK
<1>1. CASE ThinkDeterministic
  <2>1. sup'.pc = NextAction /\ At("think") /\ UNCHANGED <<worker, faults, started>>
    BY <1>1 DEF ThinkDeterministic, Calls, TypeOK, SupTypeOK
  <2>2. NextAction \in STARTING => ~started
    BY DEF NextAction, STARTING
  <2>. QED
    BY <2>1, <2>2 DEF LaunchInv, At
<1>2. CASE StartRegisters
  <2>1. /\ At("start_worker_turn") /\ sup'.pc = "start.launch"
        /\ UNCHANGED <<worker, faults, started>>
    BY <1>0, <1>2 DEF StartRegisters
  <2>. QED
    BY <2>1 DEF LaunchInv, At, STARTING
<1>3. CASE StartLaunches
  <2>1. /\ At("start.launch") /\ sup'.pc = "start.audit" /\ Idle # {}
        /\ worker' = [worker EXCEPT ![NextThread] = "begin"]
        /\ UNCHANGED <<faults, started>> /\ ~started
    BY <1>0, <1>3 DEF StartLaunches, Launch, LaunchBy, Moves, LaunchInv, STARTING, At
  <2>2. PICK k \in Nat : k <= faults /\ \A t \in Threads : worker[t] # "idle" <=> t <= k
    BY <1>0, <2>1 DEF LaunchInv, At
  <2>3. k + 1 \in Threads
    BY <1>0, <2>2
  <2>4. k + 1 \in Idle /\ \A u \in Idle : u \in Nat /\ k + 1 <= u
    BY <1>0, <2>2, <2>3 DEF Idle
  <2>5. NextThread = k + 1
    <3>1. NextThread \in Idle /\ NextThread <= k + 1
      BY <2>4 DEF NextThread
    <3>. QED
      BY <2>4, <3>1
  <2>6. \A t \in Threads : worker'[t] # "idle" <=> t <= k + 1
    BY <1>0, <2>1, <2>2, <2>3, <2>5
  <2>7. k + 1 \in Nat /\ k + 1 <= faults' + 1
    BY <1>0, <2>1, <2>2
  <2>. QED
    BY <2>1, <2>6, <2>7 DEF LaunchInv, At
<1>4. CASE StartAudits
  <2>1. At("start.audit") /\ sup'.pc = "think" /\ started' /\ UNCHANGED <<worker, faults>>
    BY <1>0, <1>4 DEF StartAudits
  <2>. QED
    BY <2>1 DEF LaunchInv, At, STARTING
<1>5. CASE ~(ThinkDeterministic \/ StartRegisters \/ StartLaunches \/ StartAudits)
  <2>1. UNCHANGED <<worker, faults, started>> /\ ~At("start.audit")
    BY <1>5 DEF SupStep, SubmitDelivery, LaunchSupervisor, BeginTurn, LeaveLoop, ThinkLlm,
         StepsExhausted, AuditTurn, ReadFinal, GiveUp, CreateWorkerRuntime, CheckoutSkips,
         CheckoutClones, CheckoutSaves, StartRefused, GetStatus, GetDeploymentStatus, RunTests,
         TestsSaved, RecordEvidence, Commit, CommitSaves, DeployRefused, DeployRemoves,
         DeployBuilds, DeployRuns, DeployProbes, DeploySaves, DeployRecords, MarkTools, Mark,
         MarkRaises, ToolFails, At
  <2>2. sup'.pc \notin STARTING
    BY <1>0, <1>5 DEF SupStep, SubmitDelivery, LaunchSupervisor, BeginTurn, LeaveLoop, ThinkLlm,
         StepsExhausted, AuditTurn, ReadFinal, GiveUp, CreateWorkerRuntime, CheckoutSkips,
         CheckoutClones, CheckoutSaves, StartRefused, GetStatus, GetDeploymentStatus, RunTests,
         TestsSaved, RecordEvidence, Commit, CommitSaves, DeployRefused, DeployRemoves,
         DeployBuilds, DeployRuns, DeployProbes, DeploySaves, DeployRecords, MarkTools, Mark,
         MarkRaises, ToolFails, STARTING, TypeOK, SupTypeOK
  <2>. QED
    BY <1>0, <2>1, <2>2, LaunchFrame
<1>. QED
  BY <1>1, <1>2, <1>3, <1>4, <1>5

\* A worker thread that moves was started before, and a fault is one more.
LEMMA LaunchOther ==
  ASSUME TypeOK, LaunchInv, WorkerMoves \/ DbFails \/ ProcessExits
  PROVE  LaunchInv'
<1>0. faults \in Nat
  BY WorkerAssumption DEF TypeOK, WorkerTypeOK
<1>1. CASE WorkerMoves
  <2>1. PICK t \in Threads : WorkerStep(t) /\ UNCHANGED supVars
    BY <1>1 DEF WorkerMoves
  <2>2. \A u \in Threads : worker'[u] # "idle" <=> worker[u] # "idle"
    BY <2>1 DEF TypeOK, WorkerTypeOK, WorkerStep, WorkerBegin, WorkerEdit, WorkerReport,
         WorkerFinish, WorkerReturns, WorkerCrash, WorkerGuard, Moves
  <2>3. faults' = faults \/ faults' = faults + 1
    BY <2>1 DEF WorkerStep, WorkerBegin, WorkerEdit, WorkerReport, WorkerFinish,
         WorkerReturns, WorkerCrash, WorkerGuard, Fault, NoFault
  <2>4. PICK k \in Nat :
          /\ k <= faults + 1
          /\ started \/ At("start.audit") \/ k <= faults
          /\ \A u \in Threads : worker[u] # "idle" <=> u <= k
    BY DEF LaunchInv
  <2>5. k <= faults' + 1 /\ (started' \/ At("start.audit")' \/ k <= faults')
    <3>1. started' = started /\ (At("start.audit")' <=> At("start.audit"))
      BY <2>1 DEF supVars, At
    <3>2. CASE faults' = faults
      BY <2>4, <3>1, <3>2
    <3>3. CASE faults' = faults + 1
      BY <1>0, <2>4, <3>3
    <3>. QED
      BY <2>3, <3>2, <3>3
  <2>. QED
    BY <2>1, <2>2, <2>4, <2>5 DEF LaunchInv, supVars
<1>2. CASE DbFails \/ ProcessExits
  <2>1. /\ faults' = faults + 1 /\ UNCHANGED started
        /\ sup'.pc \in {"think", "audit", "dead"}
    BY <1>2 DEF DbFails, Raises, ProcessExits, Fault, Goto, TypeOK, SupTypeOK
  <2>2. \A u \in Threads : worker'[u] # "idle" <=> worker[u] # "idle"
    BY <1>2 DEF DbFails, Raises, ProcessExits, Live
  <2>. QED
    BY <1>0, <2>1, <2>2, LaunchFrame DEF STARTING
<1>. QED
  BY <1>1, <1>2

\* The threads are counted in every reachable state.
LEMMA LaunchHolds ==
  ASSUME Backend = "deterministic"
  PROVE  Spec => [](TypeOK /\ LaunchInv)
<1>1. Init => LaunchInv
  <2>. SUFFICES ASSUME Init PROVE LaunchInv
    OBVIOUS
  <2>1. /\ faults = 0 /\ started = FALSE /\ sup.pc = "new"
        /\ \A t \in Threads : worker[t] = "idle"
    BY DEF Init, WorkerInit
  <2>2. \A t \in Threads : ~(t <= 0)
    BY WorkerAssumption DEF Threads
  <2>3. 0 \in Nat /\ 0 <= faults + 1 /\ 0 <= faults
    BY <2>1
  <2>. QED
    BY <2>1, <2>2, <2>3 DEF LaunchInv, STARTING
<1>2. TypeOK /\ LaunchInv /\ [Next]_vars => LaunchInv'
  <2>1. CASE UNCHANGED vars
    BY <2>1 DEF vars, LaunchInv, At
  <2>. QED
    BY <2>1, LaunchSup, LaunchOther DEF Next
<1>. QED
  BY <1>1, <1>2, TypeCorrect, PTL DEF Spec

\* Whatever fails, the deterministic backend starts at most one worker turn more
\* than there were faults: only a lost record of a start lets the rules start
\* another one in the same workspace (start_worker_turn, run_worker_task).
THEOREM TurnsPaidHolds ==
  ASSUME Backend = "deterministic"
  PROVE  Spec => []TurnsPaid
<1>1. TypeOK /\ LaunchInv => TurnsPaid
  <2>. SUFFICES ASSUME TypeOK, LaunchInv PROVE TurnsPaid
    OBVIOUS
  <2>. DEFINE S == {t \in Threads : worker[t] # "idle"}
  <2>1. faults \in Nat
    BY WorkerAssumption DEF TypeOK, WorkerTypeOK
  <2>2. S \subseteq 1 .. faults + 1
    BY <2>1, WorkerAssumption DEF LaunchInv, Threads
  <2>3. IsFiniteSet(1 .. faults + 1) /\ Cardinality(1 .. faults + 1) = faults + 1
    BY <2>1, FS_Interval
  <2>4. Cardinality(S) <= faults + 1
    <3>. HIDE DEF S
    <3>. QED
      BY <2>2, <2>3, FS_Subset
  <2>. QED
    BY <2>4 DEF TurnsPaid
<1>. QED
  BY <1>1, LaunchHolds, PTL

\* MaxLaunches bounds the model and not the code: when the tool comes to start
\* a thread, one is left.
THEOREM ThreadsSuffice ==
  ASSUME Backend = "deterministic"
  PROVE  Spec => [](At("start.launch") => Idle # {})
<1>1. TypeOK /\ LaunchInv => (At("start.launch") => Idle # {})
  <2>. SUFFICES ASSUME TypeOK, LaunchInv, At("start.launch") PROVE Idle # {}
    OBVIOUS
  <2>1. /\ faults \in Nat /\ faults <= MaxFaults /\ MaxFaults < MaxLaunches
        /\ MaxLaunches \in Nat /\ MaxFaults \in Nat /\ Threads = 1 .. MaxLaunches
    BY WorkerAssumption, EnoughThreads DEF TypeOK, WorkerTypeOK, Threads
  <2>2. PICK k \in Nat : k <= faults /\ \A t \in Threads : worker[t] # "idle" <=> t <= k
    BY <2>1 DEF LaunchInv, At, STARTING
  <2>3. k + 1 \in Threads /\ ~(k + 1 <= k)
    BY <2>1, <2>2
  <2>. QED
    BY <2>2, <2>3 DEF Idle
<1>. QED
  BY <1>1, LaunchHolds, PTL
=============================================================================
