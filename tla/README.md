# A TLA+ model of the engineering delivery service

The service takes a requirement from a client, has a coding agent (the
*worker*) implement it in a workspace, tests, commits and deploys the result,
and tells the client how it ended.  The code keeps everything that decides
what happens next in one database row per delivery (the *work order*) and its
evidence and events; several threads and processes read and write it.  These
modules model that control: who writes which field when, what may come in
between, and what is left behind when a step fails.

Sources are named relative to `src/`.

## 1. Inventory

| Component (source) | State | Operations | Talks to | Hard behaviour | What makes it correct |
|---|---|---|---|---|---|
| Work order (`db/models.py`, `control/state.py`, `tools/work_order.py`, `tools/evidence.py`, `tools/runtime.py`) | the row, evidence rows with random ids, events | create, update, provision, record evidence, terminal marks | everybody, through transactions | a transaction raises; evidence order; conflicting marks | one verdict, never taken back |
| Worker turn (`codex/worker_driver.py`) | `worker_status`, the workspace tree | register, start a thread, report a status, crash guard | the row, the workspace, the app server | runs beside the supervisor, hangs, crashes, is late | the end of a thread is reported |
| App-server client (`codex/app_server_client.py`) | child process, event buffer, responses | start, request, poll, pump, reply, close | app server over two pipes, worker thread | two threads and a process; timeouts; the process dies | events in order, shutdown observed, no turn left behind |
| Supervisor loop and tools (`agent/runner.py`, `agent/supervisor.py`, `tools/worker.py`) | turn number; otherwise the row | the eleven tools, the turn audit, the forced verdict | all of the above, git, pytest, Docker | tools of several transactions; stale reads; the turn budget | served = candidate = tested; verdict in the row on return |
| Deterministic backend (`agent/deterministic.py`) | step counter | the rule cascade | the row, evidence, events | decides again from what an earlier failure left | completes only what is verified |
| LLM backend (`agent/supervisor.py`, `agent/prompts/`) | none kept | any tool at any time | the tools | arbitrary order of calls | the tools hold without its cooperation |
| Direct runner (`runner.py`) | local variables, `DeliveryResult` | the fixed sequence of `run_delivery` | worker thread, git, pytest, Docker | worker deadline; an exception leaves the row open | result = verdict in the row |
| Client view (`a2a_api/server.py`) | the request being handled | `message/send`, `tasks/get` | the row, delivery threads in its own process | an answer put together from several transactions while the delivery goes on; handlers that raise half-way; the process ends and comes back | a task ends once; no answer contradicts the record or an earlier one; of the cascade's, completed means verified |
| Deployment adapter (`deployment/docker.py`, `tools/deployment.py`, `control/policy.py`) | containers, ports | remove, build, run, probe, retry | Docker | an attempt that fails half-way or whose answer is lost; two deliveries and one port | the recorded URL is that of the own container; attempts are bounded |
| Repository control (`control/repository.py`) | the published template, one workspace per delivery | publish, checkout, commit | git | a crash or another process between two git commands | one baseline for all; the candidate is the branch |
| Command line (`cli.py`) | none | submit, status, watch, open | the endpoint | timeouts, lost connections, a watch without end | the exit code is true |
| Sandbox manager, `control/env.py`, inspector stub, migrations, template service, `.agents/scripts` | directories, files | - | - | none | not modelled, see section 8 |

`PROJECT.json` lists the components with what is and is not modelled of each,
and the hazards of the code by line with the properties that guard against them.

## 2. Modules

    WorkOrder              the row, and one operator per transaction on it
      Worker               the worker threads of one work order, seen from outside
        Supervision        supervisor loop, both backends, all tools
          SupervisionProperties
            MCSupervision, SupervisionProofs -> DependableProofs
        DirectRunner       run_delivery          -> MCDirectRunner, DirectRunnerProofs
        WorkerProofs       lemmas both proof modules rest on
      CodexTurn            one worker turn in detail: worker thread, pump, app server
                               -> MCCodexTurn, CodexTurnProofs -> CodexBufferProofs
      Orders               the rows of several deliveries on one host
        Repository         git: the shared template, the workspaces
        Deployment         Docker: the containers, the shared ports
          Host             both, with one process per delivery -> MCHost, HostProofs
    DeliveryTask           what a delivery promises its client (abstract)
    Endpoint               the A2A server and the command line -> MCEndpoint, EndpointProofs

Three refinements tie them together.  `Supervision` and `DirectRunner` implement
`DeliveryTask` (`TaskSafety`, `TaskSpec`): the task state is the row's status
through `TASK_STATE_MAP`, and "verified" is a green test run, a candidate and a
healthy deployment on record.  `CodexTurn` implements one thread of `Worker`
(`IsWorkerThread`), so that what `Supervision` assumes of a worker - it may
edit while it works or has just failed, never after it reported "done" - is
what the Codex driver does.  `Endpoint` has one delivery per work order, driven
by either backend, and shows that nothing the endpoint does to an order takes
it out of the order of `DeliveryTask` (`PromisesKept`).  There "verified"
depends on the backend: of the cascade it is a deployment and a test run on
record, as `TaskSafety` has it; of an LLM nothing is promised of the evidence,
and it is TRUE.

### WorkOrder
A tool runs in a transaction of `session_scope`, so it is an operator from row
to row.  A source tree, and the commit that records it, is a number: 0 none, 1
the baseline, each worker edit the next.  Kept are the fields some decision
reads; descriptive columns are left out.  `artifacts` is kept as the sequence
of the artifact types the terminal marks append.

### Worker
`worker[t]` is the program counter of thread `t`: `begin` (the status is still
that of the registration), `working`, `closing` and `failing` (the final status
is set, `execute` has not returned), `guard` (`_crash_guarded_execute` has
caught an exception), `dead`.  `WorkerEdit` changes the workspace, and in
`failing` too: a driver that gives up does not stop the app server first.
`RegisterWorker` and `Launch` are the two steps of `run_worker_task`, taken by
the thread that calls it.

### Supervision
`sup.pc` is where the Supervisor thread is: in the loop (`LOOP`), at the start
of a tool (`TOOLS`) or between two of its transactions or external effects
(`MIDTOOL`).  Worker steps, failing transactions and the exit of the process
come in between.  `sup.tree` and `sup.ok` hold what a tool has read and not yet
written.  `NextAction` is the rule cascade; `ThinkLlm` picks any tool, or a
text that ends the turn.  `DbFails` says for every step where an exception
takes the thread: back to the model (the tools with an `_error` wrapper), to
the audit of a broken turn (raw tools), or to its death (outside the turn's
`try`).  `ToolFails` is git, pytest or Docker failing.  A deployment is one
step here; its attempts are the subject of `Host`.

### DirectRunner
`run.pc` goes through `run_delivery`.  The deadline may pass at any poll
(`PollTimesOut`), the worker thread goes on.  `StepRaises` is an exception from
any step: it leaves the function, and the row.

### CodexTurn
The worker thread (`driver`), the pump thread (`pump`), the app server
(`server`, external) and what is between them: `wire` (its stdout), `events`
and `responses` (the client's buffers), `batch` (drained, not handled).
Messages carry the number under which the server sent them.  A request to the
server waits for its own response or times out; the server may answer late,
die at any point, send events of another thread, or make a request itself.

### Orders, Repository, Deployment
`order[d]` is the row of delivery `d`, reduced to what git and Docker write into
it.  `template` is the bare repository all deliveries share, `staged[d]` the
commit a process makes before it pushes, `work[d]` a workspace: what it was
cloned from, and the trees of HEAD, index and files.  `container[d]` is the
container `eds-<work-order>`; whether a port is in use follows from the
containers.  Each operator is one git command or one call of the Docker client.
A commit of the template carries the name of the delivery that made it, because
all that matters of two such commits is whether they are the same one.

### Host
`call[d].pc` is where the process of delivery `d` is: publishing the template
and creating the row (`PUBLISHING`), between two tools (`choose`), or before
one command of `checkout`, `commit_candidate` or `deploy_candidate`; `tries` is
the counter `retries` of `RetryPolicy`.  An error of the
daemon is `AttemptFails`, a container that runs although its answer was lost is
`RunAnswerLost`, and both go through `RetryOrRaise`.  `CommandFails` is any
other error, after which the tool is called again.  `Edit` is the worker, at
any time from the baseline on - `Supervision` says when it really may; the
properties here do not depend on it.  `Exits` and `ContainerStops` are a
process and a service that end.  `Choose` calls the first tool whose result is
not on record, which is all the repository and the daemon see of either runner.

### Endpoint
`server` is the one request being handled: the handlers are coroutines that
await nothing, so that the event loop takes the next request after the answer
to the last one, while delivery threads run between any two steps.  Its `pc`
goes through the transactions of a handler: `CreateRow` and `LaunchThread`
(`start_supervised_delivery`), `Snapshot` (`get_current_state`) and
`BuildArtifacts`; the last of them sends the answer (`Respond`).  `caller[c]` is
a user with one command at a time; `told` is the end of each task as a user has
read it.  `left` holds the `message/send`
requests whose caller has gone but which the server will carry out all the same
(`GiveUp`, `TakeLeft`).  `HandlerRaises`, `ThreadDies` and `ServerStops` are
faults; `ServerStarts` brings up a server that takes up nothing again.

A delivery is four actions.  `LaunchThread` starts its thread with one of
`Backends`: an LLM, which is the default, or the cascade
(`EDS_SUPERVISOR_BACKEND=deterministic`).  `Progress` records a piece of
evidence: the cascade in its order and while the task is open, an LLM in any
order and in the rest of its turn after a mark, too.  `Finish` is the verdict.
`mark_complete` looks for no evidence, so that an LLM may complete a task with
any part of it; the cascade calls it when it has found all of it (`Justified`,
from `_next_action`; that the cascade keeps to this over any faults is
`CompletedIsVerified` of `Supervision`).  `marked` remembers what was on record
then.  `ThreadEnds` is the return of `supervise`, which comes after the verdict
and not with it.

## 3. Runs

| Run | Instance | Shows |
|---|---|---|
| `det` | deterministic, no faults, 2 threads, 4 trees | `ServedIsCandidate`, `WorkerDeathReported`, `CompletedHasCheck`; every accepted delivery gets a verdict; `DeliveryTask` with its liveness |
| `det_faults` | deterministic, any 2 transactions raise, process may exit | `CompletedIsVerified`, `NeverServesRed`, `OneTestRun`, `TurnsPaid`, `VerdictFreezes`; `DeliveryTask`'s safety |
| `llm` | any tool at any time, 2 turns of 2 calls, 1 fault | `OneVerdict`, `VerdictStands`, `ReturnsWithVerdict`; the loop ends |
| `codex` | 2 numbered events (a request among them) beside the end of the turn, 1 fault | `EventsInOrder`, `DoneIsCompleted`, `FailureStands`, `TurnReaped`, `IsWorkerThread`; the end of a turn or of the process always ends the wait |
| `direct` | any step raises, 3 trees, 2 worker faults | `ServedIsTested`, `ResultIsDurable`, `LateWorkerHarmless`; `DeliveryTask`'s safety; it returns unless a step raises |
| `host` | 2 deliveries - one asks for a port, one takes a free one - on 2 ports, 1 retry, 1 edit each; any command fails, any process exits | `OneBaseline`, `CandidateIsHead`, `UrlIsOwn`; every call ends |
| `endpoint` | 2 callers, 1 work order and the rejected one, either backend, 2 faults | `ExitHonest`, `CompletedCarries`, `AnswersStand`, `PromisesKept`; a watch ends unless the delivery lost its thread |

Five further runs end in a counterexample; section 7 says what they show.

**Bounds.**  `MaxFaults` = 2 is the least number at which a fault and the fault
of its own handling (the crash guard, a retried tool) meet.  `MaxLaunches` is
one more than the faults: the deterministic backend starts another worker only
after a fault at the record of the last one (`EnoughThreads` states this, and
`ThreadsSuffice` proves that the bound then never blocks it).  `MaxTree` = 4 in `det` is the baseline and an
edit before the tests, between tests and commit and between commit and build.  In
`det_faults` no property speaks of trees and the workspace is not edited.  `MaxSteps` = 10 lets the deterministic backend through its eight
tools with polls to spare, and run out of steps while it polls; the code's
`MAX_STEPS` of 200 and its default turn budget of 25 only allow more polling.  In `llm`, 2 turns of 2 calls reach a mark
followed by the conflicting one, a deployment after three other calls and the
exhausted budget; longer conversations are covered by the theorems, which hold
for every bound.  In
`CodexTurn`, two events and a final one are enough for a drain between any two
of them, and one foreign event for a buffer that is not emptied.  In `host`,
two deliveries are enough for every race for the template or a port, which are
races between two; the second asks for the port that the first may have been
given.  Failures and exits are unbounded there; one retry is both the last one
and not the first attempt.  In `endpoint`, a second caller is what reads while
another one's command is under way, and two faults are an abandoned request and
a crash while it is carried out.

**Fairness.**  Only threads of the program are fair: the Supervisor thread, the
thread of `run_delivery`, the Codex worker thread and the pump, in `Host` the
process of each delivery (`CallStep`), in `Endpoint` the commands (`Reads`),
the handler under way (`Handler`) and the delivery threads (`Finish`).  That a
delivery whose thread lives comes to a verdict is shown of the cascade by
`EventuallyTerminal`, and of an LLM by `SupervisionEnds` with
`ReturnsWithVerdict`, if its model calls end.  `Take` is strongly fair: the
server is free again and again, and the event loop serves its connections in
turn.  The calls they make (git, pytest, Docker, HTTP) have timeouts or end by
themselves.  Nothing is assumed of workers seen from outside - a turn may hang
for ever - nor of the app server, which may stay silent; `WaitTimesOut` is a
step of the client.  Nothing restarts the server: a watch of a server that is
down ends with the refused connection.  `CHECK_DEADLOCK FALSE` is in every
configuration but `Endpoint.cfg`, because a delivery ends: once the verdict is
recorded and the worker thread is gone no step is left.  The endpoint can
always be asked again, and there deadlock is checked.

## 4. Properties worth knowing

*Either backend.*  `OneVerdict` (the artifacts are exactly the one that belongs
to the status), `VerdictStands`, `ReturnsWithVerdict`, `SupervisionEnds`.

*Deterministic backend.*  `ServedIsCandidate`: three tools read the workspace
one after the other, without a lock, while worker threads exist; it holds
because each of them waits for a worker that reported "done" and because there
is only one: `TurnsPaid` says that every turn but the first is paid for by a fault.  `CompletedIsVerified`, `NeverServesRed` and
`OneTestRun` hold whatever fails.  `VerdictFreezes` holds although no tool
looks at the status: after a verdict the cascade only ends the turn.
`CompletedIsVerified` follows from `TaskSafety`, and `EventuallyTerminal` is the
liveness half of `TaskSpec`; they are stated beside them as the form in which
the other modules and the proofs use them.

*Direct runner.*  `ResultIsDurable` relates the returned result to the row;
`LateWorkerHarmless` says that a worker that outlives the deadline changes
nothing but its own status, and `ServedIsTested` is the counterpart of
`ServedIsCandidate`.

*Codex turn.*  `EventsInOrder`: what is drained, buffered and on the wire is
the tail of what the server sent, without gap or repetition.  `TurnReaped`: no
turn goes on editing when its thread has ended.  `ShutdownEndsTurn` and
`EndReported` are the liveness of the wait: they need the pump, and
`ShutdownObserved`, which does not say so, fails (section 7).

*Host.*  `OneBaseline`: whoever loses the race for the template is refused by
git and not served another history; what makes it true is that the push is not
forced.  `CandidateIsHead`: the commit on record is the one the branch ends in
although four git commands, repeated after failures, lie between the files and
the row.  `UrlIsOwn`: `free_port` reserves nothing, so that a port may be taken
by the other delivery between the choice and the run; what makes the recorded
URL the own one is that the start is then refused and the attempt starts over.  `CallsReturn`: the retries are bounded.

*Endpoint.*  `ExitHonest` ties the exit code of a command that ended long ago
to the row as it is now: 0 is a work order that is complete.  `CompletedCarries`:
the answer is put together in several transactions, the state first; a
completed task's leaves out nothing that was on record at the mark, and has
nothing that is not on record, although an LLM may add to it meanwhile.  Both
say of the cascade, and of the cascade only, that all the evidence is there.
`AnswersStand`: over any number of
commands and restarts, one user never reads two ends of one task.
`PromisesKept`: a row that lost its thread stays open instead of changing its
mind.  For an LLM it speaks of the states alone.  `WatchEnds` has to name the orphaned order: nothing takes it up again,
and its watcher polls until somebody stops it.

## 5. What is proved

All theorems are checked by TLAPS for every value of the constants under the
named assumptions on them (`WorkerAssumption`, `SupervisionAssumption`,
`EnoughThreads`, `CodexAssumption`, `OrdersAssumption`, `HostAssumption`,
`EndpointAssumption`): types and bounds of the constants only.
`WorkerProofs` has the lemmas about the row and the worker threads that the
proofs of both runners cite.

`SupervisionProofs`
- `TypeCorrect`: `Spec => []TypeOK`.
- `OneVerdictHolds`, `ReturnsWithVerdictHolds`: `OneVerdict` is inductive;
  `ReturnsWithVerdict` needs that the loop is left only through `ReadFinal`
  with a terminal row or through `GiveUp`, and that a terminal row stays so.
- `VerdictStandsHolds`: as an action property, from typing and the shape of
  each step's update of the row.
- `OneTestRunHolds`, `NeverServesRedHolds`, `CompletedIsVerifiedHolds`, when
  `Backend = "deterministic"`.  None of the three is inductive: that a tool is
  only under way when the cascade chose it has to be said.  `DetInv` says, for each program counter, what the durable state was
  when the tool was chosen and still is: no test run before `tests.save`, a
  passed one at every step from `commit_candidate` on, a candidate at every
  step of `deploy_candidate`, a recorded healthy deployment at
  `mark_complete`.  It survives a failing transaction because the Supervisor
  thread alone writes those fields.
- `VerdictFreezesHolds`: from `DetInv`: a tool is only under way while the row
  is open, so that a step that deploys, tests or commits has no verdict before it.
- `ImplementsTask`: the deterministic delivery implements `DeliveryTask`'s
  safety.  Initial states map to initial states and every step to `Accept`,
  `Progress`, `Complete`, `Fail` or a stutter; `Complete` needs
  `CompletedIsVerified`, stuttering after the verdict needs `VerdictFreezes`.
- `SupervisionAdvancesHolds`: for either backend, every step that is not a
  worker's lowers, lexicographically, the turns left, the stage of the loop and
  the work left in the turn (seven for each model call left, plus the steps left
  of the tool in progress).  It is what `SupervisionEnds` rests on: that a step
  is always possible before the end is the part that TLC checks.

`DependableProofs` (deterministic backend; the first three as long as nothing has
failed: `Spec => [](faults = 0 => P)`, which says more than the run with
`MaxFaults = 0`, for it holds of every behaviour up to its first fault)
- `WorkerDeathReportedHolds`: `TurnInv` relates the
  worker's counter, its status in the row and the cascade: a thread was
  launched or is about to be, never a second time, and a dead one has reported.
- `ServedIsCandidateHolds`: `TreeInv`, on top of it: from the test run on the
  worker is `Settled`, so that the trees tested, committed and built are the
  one in the workspace.
- `CompletedHasCheckHolds`: `CheckInv`: the healthy deployment on record has
  its check, or the tool that records both is still under way.
- `TurnsPaidHolds`, `ThreadsSuffice`: for any number of faults.  `LaunchInv`: the
  threads started are the first `k`, `k` is at most the number of faults, and one
  more once a start is on record or about to be; while the tool that starts one
  is under way there is no such record.  The second theorem shows that the bound
  `MaxLaunches` cuts no behaviour off.

`DirectRunnerProofs`
- `TypeCorrect`, `ResultIsDurableHolds`, `LateWorkerHarmlessHolds`: with
  `OutcomeInv`, which says that the row is open exactly between the creation of
  the work order and the return.
- `ServedIsTestedHolds`: the three reads of the workspace agree (`TreeInv`)
  because no thread writes to it from the moment the status is "done"
  (`ThreadInv`), because only one thread is ever started.  That needs both the
  order of the steps and what a worker does after it reported.
- `ImplementsTask`: the refinement of `DeliveryTask`'s safety, with `EvidenceInv`.

`CodexTurnProofs`
- `ControlTypeCorrect`: types of the three processes (`ControlTypeOK`).
- `TurnReapedHolds`, `FailureStandsHolds`: with `ControlInv`.  `TurnInv`: a
  running turn has an app server that was asked for it, hence a driver inside
  its `with` block, which leads through `Close`.  `StatusInv`: a failure is
  only reported on the way out, after which only "failed" is written.

`CodexBufferProofs`
- `TypeCorrect`: all of `TypeOK`, the messages included.
- `DoneIsCompletedHolds`: with `BufferInv`: whatever is buffered or on the wire
  is `Genuine` - it tells of a completed turn only if there is one - and a turn
  that is completed stays so.
- `EventsInOrderHolds`: `Pending`, the numbered messages from the driver's batch
  to the wire, ends with the last number given and has no gap.  Moving a message
  from one buffer to the next does not change it (`PollOrder`, `PumpOrder`), the
  app server adds at its end, the driver takes from its head.  That draining
  only a part of the buffer keeps the order rests on `BufferInv` too: the rest
  is another thread's, and the batch is empty when the driver polls.
- `IsWorkerThreadHolds`: every action is mapped to an action of `Worker`'s
  thread or to a stutter.  The refinement is not a matter of the driver alone:
  that no edit comes after "done" needs `TurnInv` (the turn is the driver's) and
  `DoneIsCompleted` (a running turn has not been reported as done).
- `WakeupNotLostHolds`: a driver that polls an empty buffer has not missed
  anything: the message of a turn that has ended is on the wire, before a pump
  that reads, and the end of the process has yet to be told by a pump that
  lives, or has died.  `WakeInv` follows the two messages from buffer to buffer
  as long as the driver listens.  `ReplyInv` follows the one request that is
  open: a pump that dies of its reply leaves a turn that cannot have ended.
  `ShutdownEndsTurn` and `EndReported` rest on it, and it shows that the dead
  pump of the run `codex_request` is the only way to miss the end of the process.
- Lemmas about `Filtered`: what it keeps (`FilteredElements`), of a
  concatenation (`FilteredConcat`), of what another filter left
  (`FilteredTwice`).  They take inductions over sequences.  The library states
  induction for an operator, which the provers cannot instantiate; here a set
  takes the place of the operator.  A set of numbers has a least element
  (`LeastNumber`, from the well-foundedness of `<`), hence a set of sequences
  that has the empty one and is closed under `Append` has all of them
  (`SequenceInduction`).  A recursive function is the `CHOOSE` of one that
  satisfies its equation; `KeptExists` shows that there is one.

`HostProofs`
- `TypeCorrect`, `OneBaselineHolds`, `CandidateIsHeadHolds`, `UrlIsOwnHolds`,
  from one invariant (`IInv`) with a part per resource: what each program
  counter has read is still so (`BaselineInv`, `CandidateInv`, `DeployedInv`,
  `PortInv`), a workspace with a HEAD was cloned from the published template
  (`WorkspaceInv`), and no two containers run on one port (`Exclusive`).
- `CallsAdvanceHolds`: every step of a call, a failed attempt included, ends it or
  lowers a number, seven for each retry left plus the steps left of the attempt,
  and no other delivery changes it.  `CallsReturn` rests on it.

`EndpointProofs`
- `TypeCorrect`, `ExitHonestHolds`, `CompletedCarriesHolds`,
  `AnswersStandHolds`: an answer under way is true and remains so, since rows
  only move forward; it is at least as new as what its caller was told before;
  and an order under creation has no row yet and no second request for it.
  `CompletedCarriesHolds` needs `TaskInv`: what was on record at the mark still
  is, whichever backend made it, and the cascade's tasks were marked with all
  the evidence.
- `PromisesKeptHolds`: the refinement of `DeliveryTask` by each work order; for
  an LLM, of the order of its states.

## 6. What is only model-checked

Liveness (`EventuallyTerminal`, `SupervisionEnds`, `TaskSpec`,
`ShutdownEndsTurn`, `EndReported`, `EventuallyReturns`, `CallsReturn`,
`WatchEnds`) is beyond the prover, ENABLED with it.  For half of them the
argument is proved up to that point: `SupervisionAdvances` and `CallsAdvance`
are the measures that decrease, `WakeupNotLost` says that a message is there to
be read.  Every other property of a passing run is stated by a theorem.

## 7. What the code does and its words do not say

| Run | Property | In short |
|---|---|---|
| `guard_raises` | `WorkerDeathReported` | the crash guard's own transaction fails: dead thread, and a status that is not final - "starting" in the shortest trace, "running" in longer ones |
| `second_turn` | `ServedIsCandidate` | thread started before its event is recorded: one fault, and a second worker edits between commit and build |
| `llm_latest` | `LatestEvidence` | "latest" test run chosen by a random id |
| `codex_request` | `ShutdownObserved` | the pump dies in a reply, and nobody hears of the shutdown |
| `template_half` | `TemplateWhole` | a process exits between `git init` and `git push`: the empty template counts as published, and every later delivery clones it and fails |

`PROJECT.json` quotes the sentence each of them stands against.  More things
met on the way have no run of their own.
- `mark_complete` itself verifies nothing, so that with an LLM
  `CompletedIsVerified` does not hold; the rule cascade is what makes it true.
  The docstring says "all criteria verified and deployment live"
  (`tools/work_order.py:190`).
- For the same reason a client of the default (LLM) backend may read a completed
  task without a deployment or a test result, of which
  `docs/designs/a2a-interface.md:44` says that a completed task carries them "at
  least": `build_artifacts` leaves out what is not on record.
- A second worker turn is registered without its status going back to
  "starting", which an LLM can bring about, or a start whose record was lost.
- The deployment and its check are saved by two transactions: when the second
  one raises, the cascade goes on from the first, and `CompletedHasCheck` is
  false after one fault.
- `docker.deploy` removes the old container first; `docs/designs/deployment.md`
  says that it goes last.  It matters only to a delivery that deploys twice,
  which the cascade never does after a recorded deployment.
- `max_retries` = 3 makes four attempts;
  `docs/designs/delivery-control.md:40-41` says "default max 3 attempts".
- An exception that no command of `cli.py` catches ends the interpreter with
  status 1, the code of a failed delivery.  The model keeps the two apart
  (`Traceback`); a script cannot.

## 8. Not modelled

The contents of requirements, prompts, evidence payloads and summaries; JSON-RPC
and HTML rendering, the agent card, `healthz` and the refusal of malformed
requests; the database's isolation level (each transaction touches one row, and
the row's writers write different fields); time, except that a deadline may
pass; the images Docker keeps; `interrupt` and `set_reply_policy` of the
client, and `destroy_runtime`, which no delivery calls; the inspector, which is
a stub.  `sandbox/manager.py` makes directories, `control/env.py` reads a file
once, `db/migrations` is generated, `template/` is the input of a delivery and
`.agents/` checks documents.  `configure_supervisor` is process-wide state that
the deliveries of one endpoint share, but each of them resolves the same
configuration.  A `message/send` whose answer is lost leaves a work order
nobody knows the id of; no call lists orders, so nothing can be said of it that
a client would see.

## 9. Plan

Done, in this order: WorkOrder, Worker, Supervision with its properties and
proofs, DeliveryTask and its refinement, DirectRunner and CodexTurn with their
proofs, Orders, Repository, Deployment and Host, Endpoint, the proofs of both,
the proofs of the dependable case, and those of the event buffer with the
refinement of Worker by CodexTurn.

Left: Host with the transactions of Supervision in place of `Choose`; and `interrupt`, once a
delivery calls it.
