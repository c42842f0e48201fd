--------------------------------- MODULE Host ---------------------------------
(***************************************************************************)
(* Several deliveries on one host, each driven by a process of its own     *)
(* (runner.py, agent/runner.py or the endpoint): they publish the template *)
(* into the same bare repository, clone it, commit, and deploy through the *)
(* same Docker daemon onto the same ports.  Worker, tests and verdict are  *)
(* the subject of module Supervision; here a delivery is the git and       *)
(* docker commands its tools issue, one action each, in the order in which *)
(* the tools are called until their result is on record.  Any command may  *)
(* fail, and any process may exit between two of them.                     *)
(***************************************************************************)
EXTENDS Repository, Deployment

CONSTANTS
  PortOf,       \* the --port of each delivery, or NoPort: deploy picks a free one
  MaxRetries,   \* DEFAULT_MAX_RETRIES of RetryPolicy
  MaxTree       \* bounds the edits of a workspace

ASSUME HostAssumption ==
  /\ PortOf \in [Deliveries -> AnyPort]
  /\ MaxRetries \in Nat
  /\ MaxTree \in Nat \ {0}

VARIABLE call   \* where each delivery is, and what its call has read

vars == <<order, template, staged, work, container, call>>

PUBLISHING == {"ensure", "init", "stage", "push", "create"}
CHECKOUT == {"clone", "resolve", "baseline"}
COMMITTING == {"branch", "add", "status", "commit", "head", "candidate"}
DEPLOYING == {"port", "remove", "build", "run", "probe", "deployed"}

CALL_PC == {"new", "choose", "gone"} \cup PUBLISHING \cup CHECKOUT \cup COMMITTING \cup DEPLOYING

\* port: that of the attempt; tries: the retries so far; commit: what rev-parse
\* printed; ok: what the probe saw.
Call == [pc : CALL_PC, port : AnyPort, tries : 0 .. MaxRetries, commit : Nat, ok : BOOLEAN]

Idle(l) == [pc |-> l, port |-> NoPort, tries |-> 0, commit |-> NoTree, ok |-> FALSE]

TypeOK ==
  /\ OrdersTypeOK
  /\ RepositoryTypeOK
  /\ DeploymentTypeOK
  /\ call \in [Deliveries -> Call]

Init ==
  /\ OrdersInit
  /\ RepositoryInit
  /\ DeploymentInit
  /\ call = [d \in Deliveries |-> Idle("new")]

At(d, l) == call[d].pc = l

Goto(d, l) == call' = [call EXCEPT ![d].pc = l]

\* What a call has read is forgotten when it ends.
Leave(d, l) == call' = [call EXCEPT ![d] = Idle(l)]

-----------------------------------------------------------------------------
(* Publishing the template: _resolve_repo_url, then ensure_bare_repo, and  *)
(* the creation of the row.                                                *)

Submit(d) ==
  /\ At(d, "new")
  /\ Goto(d, "ensure")
  /\ UNCHANGED <<order, template, staged, work, container>>

\* The presence of HEAD is taken for a published template.
EnsureChecks(d) ==
  /\ At(d, "ensure")
  /\ Goto(d, IF Published THEN "create" ELSE "init")
  /\ UNCHANGED <<order, template, staged, work, container>>

EnsureInits(d) ==
  /\ At(d, "init")
  /\ GitInitBare
  /\ Goto(d, "stage")
  /\ UNCHANGED <<order, staged, work, container>>

EnsureStages(d) ==
  /\ At(d, "stage")
  /\ GitStage(d)
  /\ Goto(d, "push")
  /\ UNCHANGED <<order, template, work, container>>

EnsurePushes(d) ==
  /\ At(d, "push")
  /\ ~PushRejected(d)
  /\ GitPush(d)
  /\ Goto(d, "create")
  /\ UNCHANGED <<order, staged, work, container>>

\* Two processes have found no template: the second push is rejected, and its
\* delivery refused.
EnsureRefused(d) ==
  /\ At(d, "push")
  /\ PushRejected(d)
  /\ Leave(d, "gone")
  /\ UNCHANGED <<order, template, staged, work, container>>

Create(d) ==
  /\ At(d, "create")
  /\ OrderCreated(d)
  /\ Leave(d, "choose")
  /\ UNCHANGED <<template, staged, work, container>>

-----------------------------------------------------------------------------
(* The next tool is the first one whose result is not on record.           *)

Choose(d) ==
  /\ At(d, "choose")
  /\ ~order[d].deployed
  /\ Goto(d, IF order[d].baseline = NoCommit THEN "clone"
             ELSE IF order[d].candidate = NoTree THEN "branch"
             ELSE "port")
  /\ UNCHANGED <<order, template, staged, work, container>>

\* The worker of the delivery edits its workspace, at any time.
Edit(d) ==
  /\ order[d].baseline # NoCommit
  /\ work[d].tree < MaxTree
  /\ FilesChange(d)
  /\ UNCHANGED <<order, template, staged, container, call>>

-----------------------------------------------------------------------------
(* checkout.                                                               *)

CloneRefused(d) ==
  /\ At(d, "clone")
  /\ Populated(d)
  /\ Leave(d, "choose")
  /\ UNCHANGED <<order, template, staged, work, container>>

Clone(d) ==
  /\ At(d, "clone")
  /\ ~Populated(d)
  /\ GitClone(d)
  /\ Goto(d, "resolve")
  /\ UNCHANGED <<order, template, staged, container>>

Resolve(d) ==
  /\ At(d, "resolve")
  /\ IF HasHead(d) THEN Goto(d, "baseline") ELSE Leave(d, "choose")
  /\ UNCHANGED <<order, template, staged, work, container>>

SaveBaseline(d) ==
  /\ At(d, "baseline")
  /\ BaselineSaved(d, work[d].base)
  /\ Leave(d, "choose")
  /\ UNCHANGED <<template, staged, work, container>>

-----------------------------------------------------------------------------
(* commit_candidate.                                                       *)

Branch(d) ==
  /\ At(d, "branch")
  /\ GitCheckoutBranch(d)
  /\ Goto(d, "add")
  /\ UNCHANGED <<order, template, staged, container>>

Add(d) ==
  /\ At(d, "add")
  /\ GitAdd(d)
  /\ Goto(d, "status")
  /\ UNCHANGED <<order, template, staged, container>>

Status(d) ==
  /\ At(d, "status")
  /\ Goto(d, IF Dirty(d) THEN "commit" ELSE "head")
  /\ UNCHANGED <<order, template, staged, work, container>>

Commit(d) ==
  /\ At(d, "commit")
  /\ ~NothingStaged(d)
  /\ GitCommit(d)
  /\ Goto(d, "head")
  /\ UNCHANGED <<order, template, staged, container>>

\* What git status reported came after git add: the commit fails.
CommitRefused(d) ==
  /\ At(d, "commit")
  /\ NothingStaged(d)
  /\ Leave(d, "choose")
  /\ UNCHANGED <<order, template, staged, work, container>>

\* Mutant: the commit that was there when the call began.
RevParseStale(d) ==
  /\ At(d, "head")
  /\ call' = [call EXCEPT ![d].pc = "candidate", ![d].commit = TemplateTree]
  /\ UNCHANGED <<order, template, staged, work, container>>

RevParse(d) ==
  /\ At(d, "head")
  /\ call' = [call EXCEPT ![d].pc = "candidate", ![d].commit = work[d].head]
  /\ UNCHANGED <<order, template, staged, work, container>>

SaveCandidate(d) ==
  /\ At(d, "candidate")
  /\ CandidateSaved(d, call[d].commit)
  /\ Leave(d, "choose")
  /\ UNCHANGED <<template, staged, work, container>>

-----------------------------------------------------------------------------
(* deploy_candidate: RetryPolicy around docker.deploy, probe, transaction. *)

ChoosePort(d) ==
  /\ At(d, "port")
  /\ \E p \in IF PortOf[d] = NoPort THEN FreePorts ELSE {PortOf[d]} :
       call' = [call EXCEPT ![d].pc = "remove", ![d].port = p]
  /\ UNCHANGED <<order, template, staged, work, container>>

Remove(d) ==
  /\ At(d, "remove")
  /\ RemoveExisting(d)
  /\ Goto(d, "build")
  /\ UNCHANGED <<order, template, staged, work>>

BuildImage(d) ==
  /\ At(d, "build")
  /\ Goto(d, "run")
  /\ UNCHANGED <<order, template, staged, work, container>>

RunContainer(d) ==
  /\ At(d, "run")
  /\ ~RunRefused(call[d].port)
  /\ Run(d, call[d].port)
  /\ Goto(d, "probe")
  /\ UNCHANGED <<order, template, staged, work>>

\* Mutant: every error is worth another try.
RetryAlways(d) == call' = [call EXCEPT ![d].pc = "port"]

\* Mutant: one more retry than the bound.
RetryOnceMore(d) ==
  IF call[d].tries <= MaxRetries
  THEN call' = [call EXCEPT ![d].pc = "port", ![d].tries = @ + 1]
  ELSE Leave(d, "choose")

\* should_retry(retries): another attempt, with a port of its own, or the last
\* error to the caller.
RetryOrRaise(d) ==
  IF call[d].tries < MaxRetries
  THEN call' = [call EXCEPT ![d].pc = "port", ![d].tries = @ + 1]
  ELSE Leave(d, "choose")

\* An error of the daemon (RETRYABLE_ERRORS), the refused start among them.
AttemptFails(d) ==
  /\ call[d].pc \in {"port", "remove", "build", "run"}
  /\ RetryOrRaise(d)
  /\ UNCHANGED <<order, template, staged, work, container>>

\* The container runs, but its answer does not arrive in time.
RunAnswerLost(d) ==
  /\ At(d, "run")
  /\ ~RunRefused(call[d].port)
  /\ Run(d, call[d].port)
  /\ RetryOrRaise(d)
  /\ UNCHANGED <<order, template, staged, work>>

\* health_check, until its deadline: a service may answer on the port, or not.
Probe(d) ==
  /\ At(d, "probe")
  /\ \E ok \in {FALSE, Answers(call[d].port)} :
       call' = [call EXCEPT ![d].pc = "deployed", ![d].ok = ok]
  /\ UNCHANGED <<order, template, staged, work, container>>

SaveDeployment(d) ==
  /\ At(d, "deployed")
  /\ DeploymentSaved(d, order[d].candidate, call[d].port,
                     IF call[d].ok THEN "healthy" ELSE "unhealthy")
  /\ Leave(d, "choose")
  /\ UNCHANGED <<template, staged, work, container>>

-----------------------------------------------------------------------------
(* What goes wrong.                                                        *)

\* A git command, the image build or a transaction fails: the tool returns an
\* error and is called again, or the exception ends the delivery.
CommandFails(d) ==
  /\ call[d].pc \in CHECKOUT \cup COMMITTING \cup {"build", "deployed"}
  /\ Leave(d, "choose")
  /\ UNCHANGED <<order, template, staged, work, container>>

Exits(d) ==
  /\ call[d].pc \notin {"new", "gone"}
  /\ Leave(d, "gone")
  /\ UNCHANGED <<order, template, staged, work, container>>

ContainerStops(d) ==
  /\ ServiceStops(d)
  /\ UNCHANGED <<order, template, staged, work, call>>

-----------------------------------------------------------------------------
CallStep(d) ==
  \/ Submit(d) \/ EnsureChecks(d) \/ EnsureInits(d) \/ EnsureStages(d)
  \/ EnsurePushes(d) \/ EnsureRefused(d) \/ Create(d) \/ Choose(d)
  \/ CloneRefused(d) \/ Clone(d) \/ Resolve(d) \/ SaveBaseline(d)
  \/ Branch(d) \/ Add(d) \/ Status(d) \/ Commit(d) \/ CommitRefused(d)
  \/ RevParse(d) \/ SaveCandidate(d)
  \/ ChoosePort(d) \/ Remove(d) \/ BuildImage(d) \/ RunContainer(d)
  \/ AttemptFails(d) \/ RunAnswerLost(d) \/ Probe(d) \/ SaveDeployment(d)
  \/ CommandFails(d)

Next ==
  \E d \in Deliveries : CallStep(d) \/ Edit(d) \/ Exits(d) \/ ContainerStops(d)

Spec == Init /\ [][Next]_vars

\* The commands have timeouts or end by themselves, and the process that waits
\* for one goes on.
FairSpec == Spec /\ \A d \in Deliveries : WF_vars(CallStep(d))

-----------------------------------------------------------------------------
(* Properties.                                                             *)

\* The template is published once: whoever races, fails or exits on the way,
\* no two deliveries ever start from different commits of it, and the one they
\* start from is not replaced (ensure_bare_repo: "published once ... Idempotent").
OneBaseline ==
  \A d \in Deliveries : order[d].baseline # NoCommit =>
    /\ order[d].baseline = template.main
    /\ work[d].base = template.main /\ HasHead(d)

\* The recorded candidate is the HEAD of the candidate branch, although
\* commit_candidate is several git commands, any of which may fail and be
\* repeated, and although the files change in between.
CandidateIsHead ==
  \A d \in Deliveries : order[d].candidate # NoTree =>
    /\ work[d].branch
    /\ work[d].head = order[d].candidate

\* The recorded URL is that of the delivery's own container, whatever attempts,
\* lost answers and races for the port came before; another delivery's service
\* answers there only after the own one has stopped by itself.
UrlIsOwn ==
  \A d, e \in Deliveries : order[d].deployed =>
    /\ container[d].port = order[d].port
    /\ Listens(e, order[d].port) => e = d \/ container[d].state = "stopped"

\* Every call comes to an end: the retries of a deployment are bounded.
CallsReturn ==
  \A d \in Deliveries :
    call[d].pc \notin {"new", "choose", "gone"} ~> call[d].pc \in {"choose", "gone"}

\* Said of the program, and not so: what ensure_bare_repo leaves behind when no
\* call of it is under way is the published template, or nothing.
TemplateWhole ==
  Published /\ (\A d \in Deliveries : call[d].pc \notin {"init", "stage", "push"})
    => template.main # NoCommit
=============================================================================
