------------------------------ MODULE HostProofs ------------------------------
(***************************************************************************)
(* Proofs about module Host, for any number of deliveries, ports, retries  *)
(* and edits.                                                              *)
(***************************************************************************)
EXTENDS Host, TLAPS

-----------------------------------------------------------------------------
(* The inductive invariant: what the place a delivery has reached says of  *)
(* its workspace, its container and its row.                               *)

\* A workspace with a commit was cloned at the template's one commit, and
\* nothing in it can become empty again.
WorkspaceInv(d) ==
  /\ work[d].base # NoCommit => work[d].base = template.main
  /\ HasHead(d) =>
       /\ work[d].cloned /\ work[d].base # NoCommit
       /\ work[d].index # NoTree /\ work[d].tree # NoTree

\* The recorded baseline is what the workspace was cloned at, and the delivery
\* gets to its candidate only with one.
BaselineInv(d) ==
  /\ order[d].baseline # NoCommit => order[d].baseline = work[d].base /\ HasHead(d)
  /\ At(d, "baseline") => HasHead(d)
  /\ call[d].pc \in COMMITTING \cup DEPLOYING => order[d].baseline # NoCommit

\* Nothing is committed once a candidate is on record; what rev-parse printed
\* is still the HEAD of the branch when it is recorded.
CandidateInv(d) ==
  /\ order[d].candidate # NoTree => work[d].branch /\ work[d].head = order[d].candidate
  /\ order[d].candidate # NoTree => HasHead(d) /\ call[d].pc \notin COMMITTING
  /\ call[d].pc \in COMMITTING \ {"branch"} => work[d].branch
  /\ At(d, "candidate") => call[d].commit = work[d].head

\* The container that was started last is there, on the port of the attempt,
\* when its port is recorded, and nothing is deployed after that.
DeployedInv(d) ==
  /\ call[d].pc \in {"probe", "deployed"} =>
       container[d].port = call[d].port /\ container[d].state # "none"
  /\ order[d].deployed =>
       /\ container[d].port = order[d].port /\ container[d].state # "none"
       /\ call[d].pc \in {"choose", "gone"}

\* No two containers listen on one port.
Exclusive ==
  \A d, e \in Deliveries, p \in Ports : Listens(d, p) /\ Listens(e, p) => d = e

\* Wherever a container listens is a port.
PortInv(d) ==
  /\ container[d].state # "none" => container[d].port \in Ports
  /\ call[d].pc \in {"remove", "build", "run", "probe", "deployed"} => call[d].port \in Ports

IInv ==
  /\ TypeOK
  /\ \A d \in Deliveries : WorkspaceInv(d) /\ BaselineInv(d) /\ CandidateInv(d)
                           /\ DeployedInv(d) /\ PortInv(d)
  /\ Exclusive

-----------------------------------------------------------------------------
(* Type correctness.                                                       *)

\* The initial state is well typed.
LEMMA InitType == Init => TypeOK
BY OrdersAssumption, HostAssumption
   DEF Init, TypeOK, OrdersInit, OrdersTypeOK, Order, NoOrder, Commits, AnyPort, HEALTH, NoTree,
       RepositoryInit, RepositoryTypeOK, Workspace, NoWorkspace, DeploymentInit,
       DeploymentTypeOK, Container, NoContainer, CONTAINER_STATES, Idle, Call, CALL_PC

\* Moving a delivery to any place keeps its call well typed.
LEMMA GotoType ==
  ASSUME TypeOK, NEW d \in Deliveries, NEW l \in CALL_PC, Goto(d, l) \/ Leave(d, l)
  PROVE  call' \in [Deliveries -> Call]
<1>1. 0 \in 0 .. MaxRetries
  BY HostAssumption
<1>2. Idle(l) \in Call
  BY <1>1 DEF Idle, Call, NoTree, AnyPort
<1>3. [call[d] EXCEPT !.pc = l] \in Call
  BY DEF TypeOK, Call
<1>. QED
  BY <1>2, <1>3 DEF TypeOK, Goto, Leave

\* An attempt that failed is repeated or given up.
LEMMA RetryType ==
  ASSUME TypeOK, NEW d \in Deliveries, RetryOrRaise(d)
  PROVE  call' \in [Deliveries -> Call]
<1>1. CASE call[d].tries < MaxRetries
  <2>1. call[d].tries + 1 \in 0 .. MaxRetries
    BY <1>1, HostAssumption DEF TypeOK, Call
  <2>. QED
    BY <1>1, <2>1 DEF RetryOrRaise, TypeOK, Call, CALL_PC, DEPLOYING
<1>2. CASE ~(call[d].tries < MaxRetries)
  BY <1>2, GotoType DEF RetryOrRaise, CALL_PC
<1>. QED
  BY <1>1, <1>2

\* Every step keeps every variable well typed.
LEMMA NextType ==
  ASSUME TypeOK, [Next]_vars
  PROVE  TypeOK'
<1>. USE DEF TypeOK, OrdersTypeOK, RepositoryTypeOK, DeploymentTypeOK
<1>1. ASSUME NEW d \in Deliveries, CallStep(d) PROVE TypeOK'
  <2>0. {"new", "choose", "gone"} \cup PUBLISHING \cup CHECKOUT \cup COMMITTING \cup DEPLOYING
          \subseteq CALL_PC
    BY DEF CALL_PC
  <2>1. CASE Submit(d) \/ EnsureChecks(d) \/ EnsureRefused(d) \/ Choose(d) \/ CloneRefused(d)
             \/ Resolve(d) \/ Status(d) \/ CommitRefused(d) \/ CommandFails(d)
    BY <2>0, <2>1, GotoType
       DEF Submit, EnsureChecks, EnsureRefused, Choose, CloneRefused, Resolve, Status,
           CommitRefused, CommandFails, PUBLISHING, CHECKOUT, COMMITTING, DEPLOYING
  <2>2. CASE EnsureInits(d) \/ EnsureStages(d) \/ EnsurePushes(d)
    <3>1. call' \in [Deliveries -> Call]
      BY <2>0, <2>2, GotoType DEF EnsureInits, EnsureStages, EnsurePushes, PUBLISHING
    <3>2. staged' \in [Deliveries -> Commits]
      BY <2>2 DEF EnsureInits, EnsureStages, EnsurePushes, GitStage, Commits
    <3>3. template' \in [head : BOOLEAN, main : Commits]
      BY <2>2 DEF EnsureInits, EnsureStages, EnsurePushes, GitInitBare, GitPush
    <3>. QED
      BY <2>2, <3>1, <3>2, <3>3 DEF EnsureInits, EnsureStages, EnsurePushes
  <2>3. CASE Create(d) \/ SaveBaseline(d) \/ SaveCandidate(d) \/ SaveDeployment(d)
    <3>1. call' \in [Deliveries -> Call]
      BY <2>0, <2>3, GotoType DEF Create, SaveBaseline, SaveCandidate, SaveDeployment
    <3>2. PICK row \in Order : order' = [order EXCEPT ![d] = row]
      <4>1. CASE Create(d)
        <5>1. [order[d] EXCEPT !.created = TRUE] \in Order
          BY DEF Order
        <5>. QED
          BY <4>1, <5>1 DEF Create, OrderCreated
      <4>2. CASE SaveBaseline(d)
        <5>1. [order[d] EXCEPT !.baseline = work[d].base] \in Order
          BY DEF Order, Workspace
        <5>. QED
          BY <4>2, <5>1 DEF SaveBaseline, BaselineSaved
      <4>3. CASE SaveCandidate(d)
        <5>1. [order[d] EXCEPT !.candidate = call[d].commit] \in Order
          BY DEF Order, Call
        <5>. QED
          BY <4>3, <5>1 DEF SaveCandidate, CandidateSaved
      <4>4. CASE SaveDeployment(d)
        <5>. DEFINE health == IF call[d].ok THEN "healthy" ELSE "unhealthy"
        <5>1. health \in HEALTH
          BY DEF HEALTH
        <5>2. [DeploymentRecorded(order[d], order[d].candidate, health) EXCEPT !.port = call[d].port]
                \in Order
          BY <5>1 DEF DeploymentRecorded, Order, Call
        <5>. QED
          BY <4>4, <5>2 DEF SaveDeployment, DeploymentSaved
      <4>. QED
        BY <2>3, <4>1, <4>2, <4>3, <4>4
    <3>. QED
      BY <2>3, <3>1, <3>2 DEF Create, SaveBaseline, SaveCandidate, SaveDeployment
  <2>4. CASE Clone(d) \/ Branch(d) \/ Add(d) \/ Commit(d)
    <3>1. call' \in [Deliveries -> Call]
      BY <2>0, <2>4, GotoType DEF Clone, Branch, Add, Commit, CHECKOUT, COMMITTING
    <3>2. PICK w \in Workspace : work' = [work EXCEPT ![d] = w]
      <4>1. CASE Clone(d)
        BY <4>1 DEF Clone, GitClone, Workspace, NoWorkspace, Commits, NoTree, TemplateTree
      <4>2. CASE Branch(d)
        BY <4>2 DEF Branch, GitCheckoutBranch, Workspace
      <4>3. CASE Add(d)
        BY <4>3 DEF Add, GitAdd, Workspace
      <4>4. CASE Commit(d)
        BY <4>4 DEF Commit, GitCommit, Workspace
      <4>. QED
        BY <2>4, <4>1, <4>2, <4>3, <4>4
    <3>. QED
      BY <2>4, <3>1, <3>2 DEF Clone, Branch, Add, Commit
  <2>5. CASE RevParse(d)
    BY <2>0, <2>5 DEF RevParse, RepositoryTypeOK, Workspace, Call, COMMITTING
  <2>6. CASE ChoosePort(d)
    <3>1. PICK p \in AnyPort : call' = [call EXCEPT ![d].pc = "remove", ![d].port = p]
      BY <2>6, HostAssumption DEF ChoosePort, FreePorts, AnyPort
    <3>2. [call[d] EXCEPT !.pc = "remove", !.port = p] \in Call
      BY <2>0 DEF Call, DEPLOYING
    <3>3. call' \in [Deliveries -> Call]
      BY <3>1, <3>2
    <3>. QED
      BY <2>6, <3>3 DEF ChoosePort
  <2>7. CASE Remove(d) \/ BuildImage(d) \/ RunContainer(d)
    <3>1. call' \in [Deliveries -> Call]
      BY <2>0, <2>7, GotoType DEF Remove, BuildImage, RunContainer, DEPLOYING
    <3>2. container' \in [Deliveries -> Container]
      BY <2>7 DEF Remove, BuildImage, RunContainer, RemoveExisting, Run, Container, NoContainer,
                  CONTAINER_STATES, AnyPort, Call
    <3>. QED
      BY <2>7, <3>1, <3>2 DEF Remove, BuildImage, RunContainer
  <2>8. CASE AttemptFails(d)
    BY <2>8, RetryType DEF AttemptFails
  <2>9. CASE RunAnswerLost(d)
    <3>1. call' \in [Deliveries -> Call]
      BY <2>9, RetryType DEF RunAnswerLost
    <3>. QED
      BY <2>9, <3>1 DEF RunAnswerLost, Run, DeploymentTypeOK, Container, CONTAINER_STATES, Call
  <2>10. CASE Probe(d)
    <3>1. Answers(call[d].port) \in BOOLEAN
      BY DEF Answers, InUse
    <3>2. PICK ok \in BOOLEAN : call' = [call EXCEPT ![d].pc = "deployed", ![d].ok = ok]
      BY <2>10, <3>1, Zenon DEF Probe
    <3>3. [call[d] EXCEPT !.pc = "deployed", !.ok = ok] \in Call
      BY <2>0 DEF Call, DEPLOYING
    <3>4. call' \in [Deliveries -> Call]
      BY <3>2, <3>3
    <3>. QED
      BY <2>10, <3>4 DEF Probe
  <2>. QED
    BY <1>1, <2>1, <2>2, <2>3, <2>4, <2>5, <2>6, <2>7, <2>8, <2>9, <2>10 DEF CallStep
<1>2. ASSUME NEW d \in Deliveries, Edit(d) PROVE TypeOK'
  BY <1>2 DEF TypeOK, Edit, FilesChange, RepositoryTypeOK, Workspace
<1>3. ASSUME NEW d \in Deliveries, Exits(d) PROVE TypeOK'
  BY <1>3, GotoType DEF TypeOK, Exits, CALL_PC
<1>4. ASSUME NEW d \in Deliveries, ContainerStops(d) PROVE TypeOK'
  BY <1>4 DEF TypeOK, ContainerStops, ServiceStops, DeploymentTypeOK, Container, CONTAINER_STATES
<1>5. CASE UNCHANGED vars
  BY <1>5 DEF vars, TypeOK, OrdersTypeOK, RepositoryTypeOK, DeploymentTypeOK
<1>. QED
  BY <1>1, <1>2, <1>3, <1>4, <1>5 DEF Next

-----------------------------------------------------------------------------
(* The invariant.                                                          *)

Step(d) == CallStep(d) \/ Edit(d) \/ Exits(d) \/ ContainerStops(d)

\* The steps that touch a workspace, the template's branch, a row, a container.
WorkSteps(d) == Clone(d) \/ Branch(d) \/ Add(d) \/ Commit(d) \/ Edit(d)
OrderSteps(d) == Create(d) \/ SaveBaseline(d) \/ SaveCandidate(d) \/ SaveDeployment(d)
ContainerSteps(d) == Remove(d) \/ RunContainer(d) \/ RunAnswerLost(d) \/ ContainerStops(d)

\* All the others leave them alone.
LEMMA Frames ==
  ASSUME TypeOK, NEW d \in Deliveries, Step(d)
  PROVE  /\ WorkSteps(d) \/ UNCHANGED work
         /\ OrderSteps(d) \/ UNCHANGED order
         /\ ContainerSteps(d) \/ UNCHANGED container
         /\ EnsurePushes(d) \/ template'.main = template.main
<1>. USE DEF WorkSteps, OrderSteps, ContainerSteps
<1>0. CASE EnsureInits(d)
  BY <1>0 DEF EnsureInits, GitInitBare, TypeOK, RepositoryTypeOK
<1>1. CASE CallStep(d) /\ ~EnsureInits(d)
  BY <1>1
     DEF CallStep, Submit, EnsureChecks, EnsureStages, EnsurePushes, EnsureRefused,
         Create, Choose, CloneRefused, Clone, Resolve, SaveBaseline, Branch, Add, Status, Commit,
         CommitRefused, RevParse, SaveCandidate, ChoosePort, Remove, BuildImage, RunContainer,
         AttemptFails, RunAnswerLost, Probe, SaveDeployment, CommandFails
<1>2. CASE Edit(d) \/ Exits(d) \/ ContainerStops(d)
  BY <1>2 DEF Edit, Exits, ContainerStops
<1>. QED
  BY <1>0, <1>1, <1>2 DEF Step

\* A step of one delivery leaves the others where they are.
LEMMA OthersStay ==
  ASSUME TypeOK, NEW d \in Deliveries, Step(d), NEW e \in Deliveries, e # d
  PROVE  work'[e] = work[e] /\ order'[e] = order[e] /\ container'[e] = container[e]
         /\ call'[e] = call[e]
<1>. USE DEF TypeOK, OrdersTypeOK, RepositoryTypeOK, DeploymentTypeOK
<1>1. work'[e] = work[e]
  BY Frames DEF WorkSteps, Clone, Branch, Add, Commit, Edit, GitClone, GitCheckoutBranch, GitAdd,
                GitCommit, FilesChange
<1>2. order'[e] = order[e]
  BY Frames DEF OrderSteps, Create, SaveBaseline, SaveCandidate, SaveDeployment, OrderCreated,
                BaselineSaved, CandidateSaved, DeploymentSaved
<1>3. container'[e] = container[e]
  BY Frames DEF ContainerSteps, Remove, RunContainer, RunAnswerLost, ContainerStops,
                RemoveExisting, Run, ServiceStops
<1>4. call'[e] = call[e]
  BY DEF Step, Edit, Exits, ContainerStops, Goto, Leave, RetryOrRaise,
         CallStep, Submit, EnsureChecks, EnsureInits, EnsureStages, EnsurePushes, EnsureRefused,
         Create, Choose, CloneRefused, Clone, Resolve, SaveBaseline, Branch, Add, Status, Commit,
         CommitRefused, RevParse, SaveCandidate, ChoosePort, Remove, BuildImage, RunContainer,
         AttemptFails, RunAnswerLost, Probe, SaveDeployment, CommandFails
<1>. QED
  BY <1>1, <1>2, <1>3, <1>4

\* How a delivery comes to the places the invariant speaks of.
LEMMA Arrivals ==
  ASSUME TypeOK, NEW d \in Deliveries, Step(d)
  PROVE  /\ call'[d].pc = "baseline" => Resolve(d) \/ At(d, "baseline")
         /\ call'[d].pc \in COMMITTING => Choose(d) \/ call[d].pc \in COMMITTING
         /\ call'[d].pc \in COMMITTING \ {"branch"} =>
              Branch(d) \/ call[d].pc \in COMMITTING \ {"branch"}
         /\ call'[d].pc = "candidate" => RevParse(d) \/ call'[d] = call[d]
         /\ call'[d].pc \in DEPLOYING => Choose(d) \/ call[d].pc \in DEPLOYING
         /\ call'[d].pc \in {"remove", "build", "run", "probe", "deployed"} =>
              \/ ChoosePort(d)
              \/ /\ call'[d].port = call[d].port
                 /\ call[d].pc \in {"remove", "build", "run", "probe", "deployed"}
         /\ call'[d].pc \in {"probe", "deployed"} =>
              \/ RunContainer(d)
              \/ call'[d].port = call[d].port /\ call[d].pc \in {"probe", "deployed"}
<1>. USE DEF TypeOK, COMMITTING, DEPLOYING, Call, Goto, Leave, Idle, At
<1>1. CASE CallStep(d)
  <2>1. CASE Submit(d) \/ EnsureChecks(d) \/ EnsureInits(d) \/ EnsureStages(d) \/ EnsurePushes(d)
             \/ EnsureRefused(d) \/ Create(d)
    BY <2>1 DEF Submit, EnsureChecks, EnsureInits, EnsureStages, EnsurePushes, EnsureRefused, Create
  <2>2. CASE Choose(d) \/ CloneRefused(d) \/ Clone(d) \/ Resolve(d) \/ SaveBaseline(d)
    BY <2>2 DEF Choose, CloneRefused, Clone, Resolve, SaveBaseline
  <2>3. CASE Branch(d) \/ Add(d) \/ Status(d) \/ Commit(d) \/ CommitRefused(d) \/ RevParse(d)
             \/ SaveCandidate(d)
    BY <2>3 DEF Branch, Add, Status, Commit, CommitRefused, RevParse, SaveCandidate
  <2>4. CASE Remove(d) \/ BuildImage(d) \/ RunContainer(d) \/ SaveDeployment(d)
    <3>1. CASE Remove(d)
      BY <3>1 DEF Remove
    <3>2. CASE BuildImage(d)
      BY <3>2 DEF BuildImage
    <3>3. CASE RunContainer(d)
      <4>1. call[d].pc = "run" /\ call'[d].pc = "probe" /\ call'[d].port = call[d].port
        BY <3>3 DEF RunContainer
      <4>. QED
        BY <3>3, <4>1
    <3>4. CASE SaveDeployment(d)
      BY <3>4 DEF SaveDeployment
    <3>. QED
      BY <2>4, <3>1, <3>2, <3>3, <3>4
  <2>5. CASE ChoosePort(d)
    <3>1. PICK p : call' = [call EXCEPT ![d].pc = "remove", ![d].port = p]
      BY <2>5, Zenon DEF ChoosePort
    <3>2. call[d].pc = "port" /\ call'[d].pc = "remove"
      BY <2>5, <3>1 DEF ChoosePort
    <3>. QED
      BY <2>5, <3>2
  <2>6. CASE AttemptFails(d) \/ RunAnswerLost(d) \/ CommandFails(d)
    BY <2>6 DEF AttemptFails, RunAnswerLost, CommandFails, RetryOrRaise
  <2>7. CASE Probe(d)
    <3>1. PICK ok : call' = [call EXCEPT ![d].pc = "deployed", ![d].ok = ok]
      BY <2>7, Zenon DEF Probe
    <3>2. At(d, "probe")
      BY <2>7 DEF Probe
    <3>. QED
      BY <3>1, <3>2
  <2>. QED
    BY <1>1, <2>1, <2>2, <2>3, <2>4, <2>5, <2>6, <2>7 DEF CallStep
<1>2. CASE Edit(d) \/ Exits(d) \/ ContainerStops(d)
  BY <1>2 DEF Edit, Exits, ContainerStops
<1>. QED
  BY <1>1, <1>2 DEF Step

\* The workspaces and the template's one commit.
LEMMA WorkspaceStep ==
  ASSUME IInv, NEW d \in Deliveries, Step(d), NEW e \in Deliveries
  PROVE  WorkspaceInv(e)'
<1>. USE DEF IInv, TypeOK, RepositoryTypeOK, WorkspaceInv, HasHead
<1>1. work[e].base # NoCommit => template'.main = template.main
  BY Frames DEF EnsurePushes, PushRejected, GitPush
<1>2. CASE work'[e] = work[e]
  BY <1>1, <1>2
<1>3. CASE e = d /\ WorkSteps(d)
  <2>1. CASE Clone(d)
    BY <1>3, <2>1 DEF Clone, GitClone, NoWorkspace, NoTree, TemplateTree
  <2>2. CASE Branch(d) \/ Add(d)
    BY <1>1, <1>3, <2>2 DEF Branch, Add, GitCheckoutBranch, GitAdd, Workspace
  <2>3. CASE Commit(d)
    <3>1. HasHead(d)
      BY <2>3 DEF Commit, BaselineInv, At, COMMITTING
    <3>. QED
      BY <1>1, <1>3, <2>3, <3>1 DEF Commit, GitCommit, Workspace
  <2>4. CASE Edit(d)
    BY <1>1, <1>3, <2>4 DEF Edit, FilesChange, Workspace, NoTree
  <2>. QED
    BY <1>3, <2>1, <2>2, <2>3, <2>4 DEF WorkSteps
<1>. QED
  BY <1>2, <1>3, Frames, OthersStay

\* A workspace once cloned is not cloned again, and keeps its commit.
LEMMA WorkStays ==
  ASSUME IInv, NEW d \in Deliveries, Step(d), NEW e \in Deliveries, HasHead(e)
  PROVE  HasHead(e)' /\ work'[e].base = work[e].base /\ (work[e].branch => work'[e].branch)
<1>. USE DEF IInv, TypeOK, RepositoryTypeOK, WorkspaceInv, HasHead
<1>1. CASE work'[e] = work[e]
  BY <1>1
<1>2. CASE e = d /\ WorkSteps(d)
  BY <1>2 DEF WorkSteps, Clone, Branch, Add, Commit, Edit, Populated, GitCheckoutBranch, GitAdd,
              GitCommit, FilesChange, Workspace
<1>. QED
  BY <1>1, <1>2, Frames, OthersStay

\* The recorded baseline.
LEMMA BaselineStep ==
  ASSUME IInv, NEW d \in Deliveries, Step(d), NEW e \in Deliveries
  PROVE  BaselineInv(e)'
<1>. USE DEF IInv, TypeOK, OrdersTypeOK, BaselineInv, At
<1>1. HasHead(e) => HasHead(e)' /\ work'[e].base = work[e].base
  BY WorkStays
<1>2. CASE e # d
  BY <1>1, <1>2, OthersStay
<1>3. CASE e = d
  <2>1. order'[d].baseline = order[d].baseline \/ SaveBaseline(d)
    BY Frames DEF OrderSteps, Create, SaveCandidate, SaveDeployment, OrderCreated, CandidateSaved,
                  DeploymentSaved, DeploymentRecorded, Order
  <2>2. SaveBaseline(d) => order'[d].baseline = work[d].base /\ HasHead(d)
    BY DEF SaveBaseline, BaselineSaved, Order
  <2>3. call'[d].pc = "baseline" => HasHead(d)
    BY Arrivals DEF Resolve, Leave, Idle
  <2>4. call'[d].pc \in COMMITTING \cup DEPLOYING => order[d].baseline # NoCommit
    BY Arrivals DEF Choose, Goto, Call, COMMITTING, DEPLOYING
  <2>5. order[d].baseline # NoCommit => order'[d].baseline # NoCommit
    BY <2>1, <2>2 DEF WorkspaceInv
  <2>. QED
    BY <1>1, <1>3, <2>1, <2>2, <2>3, <2>4, <2>5
<1>. QED
  BY <1>2, <1>3

\* The recorded candidate.
LEMMA CandidateStep ==
  ASSUME IInv, NEW d \in Deliveries, Step(d), NEW e \in Deliveries
  PROVE  CandidateInv(e)'
<1>. USE DEF IInv, TypeOK, OrdersTypeOK, RepositoryTypeOK, CandidateInv, At, HasHead
<1>1. CASE e # d
  BY <1>1, OthersStay
<1>2. CASE e = d
  <2>1. HasHead(d) => work'[d].head = work[d].head \/ Commit(d)
    BY Frames DEF WorkSteps, Clone, Branch, Add, Edit, Populated, WorkspaceInv, GitCheckoutBranch,
                  GitAdd, FilesChange, Workspace
  <2>2. Commit(d) => order[d].candidate = NoTree
    BY DEF Commit, COMMITTING
  <2>3. order'[d].candidate = order[d].candidate \/ SaveCandidate(d)
    <3>1. SaveDeployment(d) => order'[d].candidate = order[d].candidate
      BY DEF SaveDeployment, DeploymentSaved, DeploymentRecorded, Order
    <3>2. Create(d) \/ SaveBaseline(d) => order'[d].candidate = order[d].candidate
      BY DEF Create, SaveBaseline, OrderCreated, BaselineSaved, Order
    <3>. QED
      BY <3>1, <3>2, Frames DEF OrderSteps
  <2>4. SaveCandidate(d) =>
          /\ order'[d].candidate = work[d].head /\ work[d].branch
          /\ work' = work /\ call'[d].pc = "choose"
    BY DEF SaveCandidate, CandidateSaved, Leave, Idle, Order, COMMITTING
  <2>5. order[d].candidate # NoTree => HasHead(d) /\ HasHead(d)' /\ work'[d].branch
    BY WorkStays
  <2>6. call'[d].pc \in COMMITTING => order[d].candidate = NoTree /\ ~SaveCandidate(d)
    BY <2>4, Arrivals DEF Choose, COMMITTING, DEPLOYING, Goto, Call
  <2>7. call'[d].pc \in COMMITTING \ {"branch"} => work'[d].branch
    <3>1. CASE Branch(d)
      BY <3>1 DEF Branch, GitCheckoutBranch, Workspace
    <3>2. CASE call[d].pc \in COMMITTING \ {"branch"}
      <4>1. HasHead(d)
        BY <3>2 DEF BaselineInv
      <4>. QED
        BY <3>2, <4>1, WorkStays
    <3>. QED
      BY <3>1, <3>2, Arrivals
  <2>8. call'[d].pc = "candidate" => call'[d].commit = work'[d].head
    <3>1. CASE RevParse(d)
      BY <3>1 DEF RevParse, Call
    <3>2. CASE call'[d] = call[d] /\ call[d].pc = "candidate"
      <4>1. ~Commit(d) /\ HasHead(d)
        BY <3>2 DEF Commit, BaselineInv, COMMITTING
      <4>. QED
        BY <2>1, <3>2, <4>1
    <3>. QED
      BY <3>1, <3>2, Arrivals
  <2>. QED
    BY <1>2, <2>1, <2>2, <2>3, <2>4, <2>5, <2>6, <2>7, <2>8
<1>. QED
  BY <1>1, <1>2

\* Where containers listen.
LEMMA PortStep ==
  ASSUME IInv, NEW d \in Deliveries, Step(d), NEW e \in Deliveries
  PROVE  PortInv(e)'
<1>. USE DEF IInv, TypeOK, DeploymentTypeOK, PortInv
<1>1. CASE e # d
  BY <1>1, OthersStay
<1>2. CASE e = d
  <2>1. ChoosePort(d) => call'[d].port \in Ports
    <3>1. SUFFICES ASSUME ChoosePort(d) PROVE call'[d].port \in Ports
      OBVIOUS
    <3>2. PICK p \in Ports : call' = [call EXCEPT ![d].pc = "remove", ![d].port = p]
      BY <3>1, HostAssumption DEF ChoosePort, FreePorts, AnyPort
    <3>. QED
      BY <3>2 DEF Call
  <2>2. container'[d].state # "none" => container'[d].port \in Ports
    BY Frames DEF ContainerSteps, Remove, RunContainer, RunAnswerLost, ContainerStops,
                  RemoveExisting, NoContainer, Run, ServiceStops, At, Container
  <2>. QED
    BY <1>2, <2>1, <2>2, Arrivals
<1>. QED
  BY <1>1, <1>2

\* The container a delivery has recorded.
LEMMA DeployedStep ==
  ASSUME IInv, NEW d \in Deliveries, Step(d), NEW e \in Deliveries
  PROVE  DeployedInv(e)'
<1>. USE DEF IInv, TypeOK, OrdersTypeOK, DeploymentTypeOK, DeployedInv, At
<1>1. CASE e # d
  BY <1>1, OthersStay
<1>2. CASE e = d
  <2>1. CASE ContainerSteps(d)
    <3>1. CASE Remove(d)
      BY <1>2, <3>1 DEF Remove, Goto, Call
    <3>2. CASE RunContainer(d)
      BY <1>2, <3>2 DEF RunContainer, Run, Goto, Call, Container
    <3>3. CASE RunAnswerLost(d)
      <4>1. call'[d].pc \notin {"probe", "deployed"}
        BY <3>3 DEF RunAnswerLost, RetryOrRaise, Leave, Idle, Call
      <4>. QED
        BY <1>2, <3>3, <4>1 DEF RunAnswerLost
    <3>4. CASE ContainerStops(d)
      BY <1>2, <3>4 DEF ContainerStops, ServiceStops, Container
    <3>. QED
      BY <2>1, <3>1, <3>2, <3>3, <3>4 DEF ContainerSteps
  <2>2. CASE ~ContainerSteps(d)
    <3>1. container' = container
      BY <2>2, Frames
    <3>2. call'[d].pc \in {"probe", "deployed"} =>
            container'[d].port = call'[d].port /\ container'[d].state # "none"
      BY <2>2, <3>1, Arrivals DEF ContainerSteps
    <3>3. CASE SaveDeployment(d)
      BY <1>2, <3>1, <3>2, <3>3
         DEF SaveDeployment, DeploymentSaved, DeploymentRecorded, Leave, Idle, Order
    <3>4. CASE ~SaveDeployment(d)
      <4>1. order'[d].deployed = order[d].deployed /\ order'[d].port = order[d].port
        BY <3>4, Frames
           DEF OrderSteps, Create, SaveBaseline, SaveCandidate, OrderCreated, BaselineSaved,
               CandidateSaved, Order
      <4>2. order[d].deployed => call'[d].pc \in {"choose", "gone"}
        BY DEF Step, Edit, Exits, ContainerStops, Goto, Leave, Idle, CHECKOUT, COMMITTING,
               CallStep, Submit, EnsureChecks, EnsureInits, EnsureStages, EnsurePushes,
               EnsureRefused, Create, Choose, CloneRefused, Clone, Resolve, SaveBaseline, Branch,
               Add, Status, Commit, CommitRefused, RevParse, SaveCandidate, ChoosePort, Remove,
               BuildImage, RunContainer, AttemptFails, RunAnswerLost, Probe, SaveDeployment,
               CommandFails
      <4>. QED
        BY <1>2, <3>1, <3>2, <4>1, <4>2
    <3>. QED
      BY <3>3, <3>4
  <2>. QED
    BY <2>1, <2>2
<1>. QED
  BY <1>1, <1>2

\* A container starts only on a port nobody listens on.
LEMMA ExclusiveStep ==
  ASSUME IInv, NEW d \in Deliveries, Step(d)
  PROVE  Exclusive'
<1>. USE DEF IInv, TypeOK, DeploymentTypeOK, Exclusive, Listens
<1>1. CASE RunContainer(d) \/ RunAnswerLost(d)
  <2>1. container' = [container EXCEPT ![d] = [state |-> "running", port |-> call[d].port]]
    BY <1>1 DEF RunContainer, RunAnswerLost, Run
  <2>2. \A e \in Deliveries : ~Listens(e, call[d].port)
    BY <1>1 DEF RunContainer, RunAnswerLost, RunRefused, InUse
  <2>. QED
    BY <2>1, <2>2
<1>2. CASE ~(RunContainer(d) \/ RunAnswerLost(d))
  <2>1. \A e \in Deliveries, p \in Ports : Listens(e, p)' => Listens(e, p)
    BY <1>2, Frames DEF ContainerSteps, Remove, ContainerStops, RemoveExisting, NoContainer,
                        ServiceStops, Container
  <2>. QED
    BY <2>1
<1>. QED
  BY <1>1, <1>2

\* The invariant holds at the start, ...
LEMMA InitInv == Init => IInv
BY InitType
   DEF Init, IInv, OrdersInit, NoOrder, RepositoryInit, NoWorkspace, DeploymentInit, NoContainer,
       Idle, WorkspaceInv, BaselineInv, CandidateInv, DeployedInv, PortInv, Exclusive, Listens,
       HasHead, At, COMMITTING, DEPLOYING

\* ... every step keeps it, ...
LEMMA NextInv == IInv /\ [Next]_vars => IInv'
<1>. SUFFICES ASSUME IInv, [Next]_vars PROVE IInv'
  OBVIOUS
<1>1. TypeOK'
  BY NextType DEF IInv
<1>2. ASSUME NEW d \in Deliveries, Step(d) PROVE IInv'
  BY <1>1, <1>2, WorkspaceStep, BaselineStep, CandidateStep, DeployedStep, PortStep, ExclusiveStep
     DEF IInv
<1>3. CASE UNCHANGED vars
  BY <1>1, <1>3
     DEF vars, IInv, WorkspaceInv, BaselineInv, CandidateInv, DeployedInv, PortInv, Exclusive,
         Listens, HasHead, At
<1>. QED
  BY <1>2, <1>3 DEF Next, Step

\* ... so that it always holds.
LEMMA Invariance == Spec => []IInv
BY InitInv, NextInv, PTL DEF Spec

-----------------------------------------------------------------------------
(* The theorems.                                                           *)

\* Every variable keeps its type, and the retries their bound.
THEOREM TypeCorrect == Spec => []TypeOK
<1>1. IInv => TypeOK
  BY DEF IInv
<1>. QED
  BY <1>1, Invariance, PTL

\* However many deliveries publish the template at the same time, fail or exit
\* on the way, all of them start from one commit, and it is not replaced.
THEOREM OneBaselineHolds == Spec => []OneBaseline
<1>1. IInv => OneBaseline
  BY DEF IInv, OneBaseline, WorkspaceInv, BaselineInv
<1>. QED
  BY <1>1, Invariance, PTL

\* The recorded candidate is the HEAD of the candidate branch.
THEOREM CandidateIsHeadHolds == Spec => []CandidateIsHead
<1>1. IInv => CandidateIsHead
  BY DEF IInv, CandidateIsHead, CandidateInv
<1>. QED
  BY <1>1, Invariance, PTL

\* The recorded URL is the delivery's own, whoever else deploys on the host.
THEOREM UrlIsOwnHolds == Spec => []UrlIsOwn
<1>1. IInv => UrlIsOwn
  <2>. SUFFICES ASSUME IInv, NEW d \in Deliveries, NEW e \in Deliveries, order[d].deployed
       PROVE  /\ container[d].port = order[d].port
              /\ Listens(e, order[d].port) => e = d \/ container[d].state = "stopped"
    BY DEF UrlIsOwn
  <2>1. container[d].port = order[d].port /\ container[d].state # "none" /\ order[d].port \in Ports
    BY DEF IInv, DeployedInv, PortInv
  <2>2. container[d].state = "running" \/ container[d].state = "stopped"
    BY <2>1 DEF IInv, TypeOK, DeploymentTypeOK, Container, CONTAINER_STATES
  <2>. QED
    BY <2>1, <2>2 DEF IInv, Exclusive, Listens
<1>. QED
  BY <1>1, Invariance, PTL

-----------------------------------------------------------------------------
(* A call comes to an end: what the liveness of a delivery's calls rests on. *)

\* The steps that are left of a call, were each attempt to go well ...
StepsLeft(pc) ==
  CASE pc \in {"create", "baseline", "candidate", "deployed"} -> 1
    [] pc \in {"push", "resolve", "head", "probe"} -> 2
    [] pc \in {"stage", "clone", "commit", "run"} -> 3
    [] pc \in {"init", "status", "build"} -> 4
    [] pc \in {"ensure", "add", "remove"} -> 5
    [] OTHER -> 6

\* ... and with the attempts that are.
CallLeft(d) == 7 * (MaxRetries - call[d].tries) + StepsLeft(call[d].pc)

Ended(d) == call[d].pc \in {"choose", "gone"}

Advances(d) ==
  Ended(d)' \/ (CallLeft(d) \in Nat /\ CallLeft(d)' \in Nat /\ CallLeft(d)' < CallLeft(d))

\* Whatever a process does of its call, and however it fails, brings the end of
\* the call nearer, and nothing that the others do puts it off.
CallsAdvance ==
  [][\A d \in Deliveries : ~Ended(d) =>
       /\ CallStep(d) => Advances(d)
       /\ ~CallStep(d) => UNCHANGED call[d] \/ Ended(d)']_vars

\* A step of a call, whether it goes well, fails or is retried, leaves less of it.
LEMMA CallStepAdvances ==
  ASSUME TypeOK, NEW d \in Deliveries, CallStep(d), ~Ended(d)
  PROVE  Advances(d)
<1>. USE DEF At, Ended
<1>1. /\ call[d] \in Call /\ MaxRetries \in Nat
      /\ call[d].tries \in Nat /\ MaxRetries - call[d].tries \in Nat
  BY HostAssumption DEF TypeOK, Call
<1>2. \A pc : StepsLeft(pc) \in 1 .. 6
  BY DEF StepsLeft
<1>3. CallLeft(d) \in Nat
  BY <1>1, <1>2 DEF CallLeft
<1>4. ASSUME NEW l, Leave(d, l), l \in {"choose", "gone"} PROVE Advances(d)
  BY <1>4 DEF Leave, Idle, Advances, TypeOK
<1>5. ASSUME call'[d].tries = call[d].tries,
             StepsLeft(call'[d].pc) < StepsLeft(call[d].pc)
      PROVE  Advances(d)
  <2>1. CallLeft(d)' = 7 * (MaxRetries - call[d].tries) + StepsLeft(call'[d].pc)
    BY <1>5 DEF CallLeft
  <2>. QED
    BY <1>1, <1>2, <1>3, <1>5, <2>1 DEF Advances, CallLeft
<1>6. ASSUME NEW l, Goto(d, l), StepsLeft(l) < StepsLeft(call[d].pc) PROVE Advances(d)
  <2>1. call'[d].tries = call[d].tries /\ call'[d].pc = l
    BY <1>1, <1>6 DEF Goto, TypeOK, Call
  <2>. QED
    BY <1>5, <1>6, <2>1
<1>7. ASSUME RetryOrRaise(d) PROVE Advances(d)
  <2>1. CASE call[d].tries < MaxRetries
    <3>1. call'[d].tries = call[d].tries + 1
      BY <1>1, <1>7, <2>1 DEF RetryOrRaise, TypeOK, Call
    <3>2. CallLeft(d)' = 7 * (MaxRetries - (call[d].tries + 1)) + StepsLeft(call'[d].pc)
      BY <3>1 DEF CallLeft
    <3>. QED
      BY <1>1, <1>2, <1>3, <2>1, <3>2 DEF Advances, CallLeft
  <2>2. CASE ~(call[d].tries < MaxRetries)
    BY <1>4, <1>7, <2>2 DEF RetryOrRaise
  <2>. QED
    BY <2>1, <2>2
<1>8. CASE Submit(d) \/ EnsureChecks(d) \/ EnsureInits(d) \/ EnsureStages(d) \/ EnsurePushes(d)
  BY <1>6, <1>8 DEF Submit, EnsureChecks, EnsureInits, EnsureStages, EnsurePushes, StepsLeft
<1>9. CASE EnsureRefused(d) \/ Create(d) \/ CloneRefused(d) \/ SaveBaseline(d) \/ CommitRefused(d)
           \/ SaveCandidate(d) \/ SaveDeployment(d) \/ CommandFails(d)
  BY <1>4, <1>9 DEF EnsureRefused, Create, CloneRefused, SaveBaseline, CommitRefused,
                    SaveCandidate, SaveDeployment, CommandFails
<1>10. CASE Clone(d) \/ Resolve(d) \/ Branch(d) \/ Add(d) \/ Status(d) \/ Commit(d)
  BY <1>4, <1>6, <1>10 DEF Clone, Resolve, Branch, Add, Status, Commit, StepsLeft
<1>11. CASE Remove(d) \/ BuildImage(d) \/ RunContainer(d)
  BY <1>6, <1>11 DEF Remove, BuildImage, RunContainer, StepsLeft
<1>12. CASE RevParse(d) \/ ChoosePort(d) \/ Probe(d)
  <2>1. call'[d].tries = call[d].tries
    BY <1>12, <1>1 DEF RevParse, ChoosePort, Probe, TypeOK, Call
  <2>2. \/ At(d, "head") /\ call'[d].pc = "candidate"
        \/ At(d, "port") /\ call'[d].pc = "remove"
        \/ At(d, "probe") /\ call'[d].pc = "deployed"
    BY <1>12, <1>1 DEF RevParse, ChoosePort, Probe, TypeOK, Call
  <2>. QED
    BY <1>5, <2>1, <2>2 DEF StepsLeft
<1>13. CASE AttemptFails(d) \/ RunAnswerLost(d)
  BY <1>7, <1>13 DEF AttemptFails, RunAnswerLost
<1>14. ~Choose(d)
  BY DEF Choose
<1>. QED
  BY <1>8, <1>9, <1>10, <1>11, <1>12, <1>13, <1>14 DEF CallStep

\* No call goes on for ever: every step of it, a failed attempt included, lowers
\* a natural number, and no other delivery can raise it.
THEOREM CallsAdvanceHolds == Spec => CallsAdvance
<1>1. TypeOK /\ [Next]_vars =>
        [\A d \in Deliveries : ~Ended(d) =>
           /\ CallStep(d) => Advances(d)
           /\ ~CallStep(d) => UNCHANGED call[d] \/ Ended(d)']_vars
  <2>. SUFFICES ASSUME TypeOK, Next, NEW d \in Deliveries, ~Ended(d), ~CallStep(d)
                PROVE  UNCHANGED call[d] \/ Ended(d)'
    BY CallStepAdvances
  <2>1. PICK e \in Deliveries : Step(e)
    BY DEF Next, Step
  <2>2. CASE e # d
    BY <2>1, <2>2, OthersStay
  <2>3. CASE e = d
    BY <2>1, <2>3 DEF Step, Edit, ContainerStops, Exits, Leave, Idle, Ended, TypeOK
  <2>. QED
    BY <2>2, <2>3
<1>. QED
  BY <1>1, TypeCorrect, PTL DEF Spec, CallsAdvance
=============================================================================
