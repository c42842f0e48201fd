------------------------------- MODULE Endpoint -------------------------------
(***************************************************************************)
(* The A2A endpoint (a2a_api/server.py) and its callers, the commands of   *)
(* cli.py, each a process with one connection.  The handlers run on the    *)
(* one event loop of the server and await nothing: one request is handled  *)
(* at a time, while the deliveries go on in threads of the same process    *)
(* (start_supervised_delivery), each driven by one of two backends: an LLM *)
(* unless the environment asks for the rule cascade.  Their common promise *)
(* is that of module DeliveryTask, or no verdict; that a completed task    *)
(* has its evidence, here in two parts, is the cascade's alone.            *)
(*                                                                         *)
(* Callers time out, transactions raise, threads and the server process    *)
(* end; MaxFaults bounds how often.  A request whose caller is gone may be *)
(* carried out all the same.                                               *)
(***************************************************************************)
EXTENDS Naturals

CONSTANTS
  Callers,     \* the users of the command line
  Tasks,       \* the work order ids; the server draws them at random
  Rejected,    \* the id made up for a requirement without text: no row has it
  NoOne,       \* no caller (any more)
  Backends,    \* the supervisor backends the server may be configured for
  MaxFaults    \* bounds what goes wrong

ASSUME EndpointAssumption ==
  /\ NoOne \notin Callers
  /\ Rejected \notin Tasks
  /\ Backends \subseteq {"deterministic", "llm"}
  /\ MaxFaults \in Nat

VARIABLES
  task,     \* the row of each work order, its evidence, thread and backend
  server,   \* the request being handled
  left,     \* message/send requests that wait in the server without a caller
  caller,   \* the command each caller runs, and how the last one ended
  told,     \* the state of each task each caller was last told, once it was final
  faults

vars == <<task, server, left, caller, told, faults>>

Ids == Tasks \cup {Rejected}

TASK_STATES == {"unknown", "working", "completed", "failed"}
EVIDENCE == {"deployment", "tests"}

\* evidence: a deployment with its URLs and a test run, once they are on record;
\* neither is ever taken off it.  marked: what was on record when the task was
\* marked complete (history, which no action reads).  backend: per order, though
\* one process has one; the next process may be started with another.
Task == [state : TASK_STATES, evidence : SUBSET EVIDENCE, marked : SUBSET EVIDENCE,
         thread : {"none", "running", "ended"}, backend : Backends \cup {"none"}]

NoTask ==
  [state |-> "unknown", evidence |-> {}, marked |-> {}, thread |-> "none", backend |-> "none"]

HANDLER_PC == {"create", "launch", "snapshot", "artifacts"}

\* shown: the artifacts of the answer so far.
Server == [pc : HANDLER_PC \cup {"free", "down"}, for : Callers \cup {NoOne}, id : Ids,
           shown : SUBSET EVIDENCE]

COMMANDS == {"submit", "status", "watch", "open"}

EXIT_COMPLETED == 0
EXIT_FAILED == 1
EXIT_RUNNING == 2

\* Traceback: an exception no command catches.  The interpreter ends with 1 for
\* it, too; it is kept apart from the 1 that a command returns.
EXITS == {EXIT_COMPLETED, EXIT_FAILED, EXIT_RUNNING}
Traceback == 3

\* seen and shown: the state and the artifacts in the answer; "unknown" stands for
\* JSONRPC_TASK_NOT_FOUND.
Caller == [pc : {"exited", "asking", "served", "answered", "sleeping"}, command : COMMANDS,
           id : Ids, seen : TASK_STATES, shown : SUBSET EVIDENCE,
           exit : EXITS \cup {Traceback}]

TypeOK ==
  /\ task \in [Tasks -> Task]
  /\ server \in Server
  /\ left \in SUBSET Tasks
  /\ caller \in [Callers -> Caller]
  /\ told \in [Callers -> [Tasks -> TASK_STATES]]
  /\ faults \in 0 .. MaxFaults

\* The process is over.  Its answer is forgotten, and which of submit and status
\* it was: their exit codes mean the same.
Exited(call, code) ==
  [pc |-> "exited", command |-> IF call.command = "open" THEN "open" ELSE "status",
   id |-> call.id, seen |-> "unknown", shown |-> {}, exit |-> code]

\* An exception says nothing of any task: which command it ended is forgotten.
Broken ==
  [pc |-> "exited", command |-> "open", id |-> Rejected, seen |-> "unknown", shown |-> {},
   exit |-> Traceback]

Free(pc) == [pc |-> pc, for |-> NoOne, id |-> Rejected, shown |-> {}]

\* As if the last command of every caller had found no server.
Init ==
  /\ task = [t \in Tasks |-> NoTask]
  /\ server = Free("free")
  /\ left = {}
  /\ caller = [c \in Callers |-> Broken]
  /\ told = [c \in Callers |-> [t \in Tasks |-> "unknown"]]
  /\ faults = 0

Fault == faults < MaxFaults /\ faults' = faults + 1

-----------------------------------------------------------------------------
(* The commands of cli.py.                                                 *)

\* Mutant: a delivery that failed is not final.
FinalWithoutFailed(state) == state = "completed"

\* TERMINAL_STATES; the endpoint never says "canceled".
Final(state) == state \in {"completed", "failed"}

\* Mutant: whatever is not a failure is a success.
ExitCodeLenient(state) == IF state = "failed" THEN EXIT_FAILED ELSE EXIT_COMPLETED

exit_code_for(state) ==
  IF state = "completed" THEN EXIT_COMPLETED
  ELSE IF state = "failed" THEN EXIT_FAILED ELSE EXIT_RUNNING

\* An id no row has, and no request will give to one.
Unused(t) ==
  /\ task[t].state = "unknown"
  /\ t \notin left
  /\ server.id # t
  /\ \A c \in Callers : caller[c].id = t => caller[c].pc = "exited"

Ask(c, command, id) ==
  /\ caller[c].pc = "exited"
  /\ caller' = [caller EXCEPT ![c] =
       [pc |-> "asking", command |-> command, id |-> id, seen |-> "unknown", shown |-> {},
        exit |-> Traceback]]
  /\ UNCHANGED <<task, server, left, told, faults>>

\* eds submit, of a requirement (the id it will get is named here) or of an
\* empty text.
Submit(c) ==
  \E id \in Ids : (id \in Tasks => Unused(id)) /\ Ask(c, "submit", id)

\* eds status, eds status --watch, eds open.  An id no row has ends each of
\* them alike.
Inquire(c) ==
  \E command \in COMMANDS \ {"submit"}, id \in Ids :
    /\ IF id \in Tasks THEN task[id].state # "unknown" ELSE command = "status"
    /\ Ask(c, command, id)

Exit(c, code) == caller' = [caller EXCEPT ![c] = Exited(caller[c], code)]

Breaks(c) == caller' = [caller EXCEPT ![c] = Broken]

\* What the user reads off the answer.
ReadsTask(c) ==
  told' = [told EXCEPT ![c] = [t \in Tasks |->
    IF caller[c].id = t /\ (Final(caller[c].seen) \/ Final(@[t])) THEN caller[c].seen ELSE @[t]]]

\* A2AError: the task is not found.
ReadError(c) ==
  /\ caller[c].pc = "answered"
  /\ caller[c].seen = "unknown"
  /\ Exit(c, EXIT_FAILED)
  /\ UNCHANGED <<task, server, left, told, faults>>

\* submit and status print the task; --watch prints it once it is final.
ReadState(c) ==
  /\ caller[c].pc = "answered"
  /\ caller[c].seen # "unknown"
  /\ caller[c].command # "open"
  /\ caller[c].command = "watch" => Final(caller[c].seen)
  /\ Exit(c, exit_code_for(caller[c].seen))
  /\ ReadsTask(c)
  /\ UNCHANGED <<task, server, left, faults>>

KeepWatching(c) ==
  /\ caller[c].pc = "answered"
  /\ caller[c].seen # "unknown"
  /\ caller[c].command = "watch"
  /\ ~Final(caller[c].seen)
  /\ caller' = [caller EXCEPT ![c].pc = "sleeping"]
  /\ ReadsTask(c)
  /\ UNCHANGED <<task, server, left, faults>>

PollAgain(c) ==
  /\ caller[c].pc = "sleeping"
  /\ caller' = [caller EXCEPT ![c] = [@ EXCEPT !.pc = "asking", !.seen = "unknown", !.shown = {}]]
  /\ UNCHANGED <<task, server, left, told, faults>>

\* open: there is something to open once the task carries a docs_url.
ReadDocsUrl(c) ==
  /\ caller[c].pc = "answered"
  /\ caller[c].seen # "unknown"
  /\ caller[c].command = "open"
  /\ Exit(c, IF "deployment" \in caller[c].shown THEN EXIT_COMPLETED ELSE EXIT_FAILED)
  /\ ReadsTask(c)
  /\ UNCHANGED <<task, server, left, faults>>

\* Nothing listens: httpx raises, no command catches it.
Refused(c) ==
  /\ caller[c].pc = "asking"
  /\ server.pc = "down"
  /\ Breaks(c)
  /\ UNCHANGED <<task, server, left, told, faults>>

\* The client's timeout, or a lost connection.  What the server has begun it
\* goes on with; a request that waits is dropped, or carried out later.
GiveUp(c) ==
  /\ Fault
  /\ caller[c].pc \in {"asking", "served"} /\ server.pc # "down"
  /\ Breaks(c)
  /\ server' = IF caller[c].pc = "served" THEN [server EXCEPT !.for = NoOne] ELSE server
  /\ \/ UNCHANGED left
     \/ /\ caller[c].pc = "asking" /\ caller[c].command = "submit" /\ caller[c].id \in Tasks
        /\ left' = left \cup {caller[c].id}
  /\ UNCHANGED <<task, told>>

-----------------------------------------------------------------------------
(* The handlers of a2a_api/server.py.                                      *)

Handles(pc) == server' = [server EXCEPT !.pc = pc]

\* The answer to a caller, if it is still there.
Answered(c, seen, shown) ==
  IF c = NoOne THEN caller
  ELSE [caller EXCEPT ![c] = [@ EXCEPT !.pc = "answered", !.seen = seen, !.shown = shown]]

Respond(seen, shown) ==
  /\ server' = Free("free")
  /\ caller' = Answered(server.for, seen, shown)

Serve(c, pc) ==
  /\ server' = [Free(pc) EXCEPT !.for = c, !.id = caller[c].id]
  /\ caller' = [caller EXCEPT ![c].pc = "served"]

\* message/send: without text the task is refused, and never was one.
TakeSend(c) ==
  /\ caller[c].command = "submit"
  /\ IF caller[c].id = Rejected
     THEN server' = server /\ caller' = Answered(c, "failed", {})
     ELSE Serve(c, "create")

\* tasks/get.
TakeGet(c) == caller[c].command # "submit" /\ Serve(c, "snapshot")

Take(c) ==
  /\ server.pc = "free"
  /\ caller[c].pc = "asking"
  /\ TakeSend(c) \/ TakeGet(c)
  /\ UNCHANGED <<task, left, told, faults>>

TakeLeft(t) ==
  /\ server.pc = "free"
  /\ t \in left
  /\ left' = left \ {t}
  /\ server' = [Free("create") EXCEPT !.id = t]
  /\ UNCHANGED <<task, caller, told, faults>>

\* start_supervised_delivery: the row, in_progress, is committed ...
CreateRow ==
  /\ server.pc = "create"
  /\ task' = [task EXCEPT ![server.id].state = "working"]
  /\ Handles("launch")
  /\ UNCHANGED <<left, caller, told, faults>>

\* ... before the agent is built, of the backend the environment asks for, and
\* its thread started.
LaunchThread ==
  /\ server.pc = "launch"
  /\ \E b \in Backends :
       task' = [task EXCEPT ![server.id] = [@ EXCEPT !.thread = "running", !.backend = b]]
  /\ Handles("snapshot")
  /\ UNCHANGED <<left, caller, told, faults>>

\* What get_current_state finds under an id.
Row(id) == IF id \in Tasks THEN task[id] ELSE NoTask

\* Mutant: the answer to a completed task is not looked up further.
SnapshotOnly ==
  /\ server.pc = "snapshot"
  /\ Respond(Row(server.id).state, Row(server.id).evidence \ {"tests"})
  /\ UNCHANGED <<task, left, told, faults>>

\* get_current_state, one transaction: the state and the deployment.  The
\* artifacts are built for a completed task only.
Snapshot ==
  /\ server.pc = "snapshot"
  /\ LET row == Row(server.id)
     IN  IF row.state = "completed"
         THEN /\ server' = [server EXCEPT !.pc = "artifacts", !.shown = row.evidence \ {"tests"}]
              /\ UNCHANGED caller
         ELSE Respond(row.state, {})
  /\ UNCHANGED <<task, left, told, faults>>

\* build_artifacts: the repository and the latest evidence, in later
\* transactions of their own.
BuildArtifacts ==
  /\ server.pc = "artifacts"
  /\ Respond("completed", server.shown \cup (Row(server.id).evidence \ {"deployment"}))
  /\ UNCHANGED <<task, left, told, faults>>

\* A transaction raises, or building the agent does: the caller is answered
\* with a status 500 that is not JSON, and what was committed stays.
HandlerRaises ==
  /\ Fault
  /\ server.pc \in HANDLER_PC
  /\ server' = Free("free")
  /\ caller' = IF server.for = NoOne THEN caller
               ELSE [caller EXCEPT ![server.for] = Broken]
  /\ UNCHANGED <<task, left, told>>

\* The process ends, its threads (daemons) and its connections with it.
ServerStops ==
  /\ Fault
  /\ server.pc # "down"
  /\ server' = Free("down")
  /\ left' = {}
  /\ task' = [t \in Tasks |->
       IF task[t].thread = "running" THEN [task[t] EXCEPT !.thread = "ended"] ELSE task[t]]
  /\ caller' = [c \in Callers |->
       IF caller[c].pc \in {"asking", "served"} THEN Broken ELSE caller[c]]
  /\ UNCHANGED told

\* Mutant: every order is opened again when the server comes up.
ServerReopens ==
  /\ server.pc = "down"
  /\ server' = Free("free")
  /\ task' = [t \in Tasks |->
       IF task[t].state = "unknown" THEN task[t] ELSE [task[t] EXCEPT !.state = "working"]]
  /\ UNCHANGED <<left, caller, told, faults>>

\* eds serve: nothing that was under way is taken up again.
ServerStarts ==
  /\ server.pc = "down"
  /\ server' = Free("free")
  /\ UNCHANGED <<task, left, caller, told, faults>>

-----------------------------------------------------------------------------
(* The deliveries: what module Supervision does, seen from the endpoint.   *)

\* The ground on which the task may be marked complete.  The cascade looks for
\* both pieces of evidence first; mark_complete itself asks for none, and an LLM
\* may call it at any time.
Justified(t) == task[t].backend = "llm" \/ task[t].evidence = EVIDENCE

\* Evidence is recorded.  The cascade works in its order, and on an open task;
\* an LLM calls the tools as it likes, in the rest of its turn after a mark, too.
Progress(t) ==
  /\ task[t].thread = "running"
  /\ \E e \in EVIDENCE \ task[t].evidence :
       /\ \/ task[t].backend = "llm"
          \/ task[t].state = "working" /\ (e = "deployment" => "tests" \in task[t].evidence)
       /\ task' = [task EXCEPT ![t].evidence = @ \cup {e}]
  /\ UNCHANGED <<server, left, caller, told, faults>>

\* The verdict, by the backend or by the loop whose budget is spent.
Finish(t) ==
  /\ task[t].thread = "running"
  /\ task[t].state = "working"
  /\ \E state \in {"completed", "failed"} :
       /\ state = "completed" => Justified(t)
       /\ task' = [task EXCEPT ![t] =
            [@ EXCEPT !.state = state,
                      !.marked = IF state = "completed" THEN task[t].evidence ELSE {}]]
  /\ UNCHANGED <<server, left, caller, told, faults>>

\* supervise returns once it has read a final status.
ThreadEnds(t) ==
  /\ task[t].thread = "running"
  /\ Final(task[t].state)
  /\ task' = [task EXCEPT ![t].thread = "ended"]
  /\ UNCHANGED <<server, left, caller, told, faults>>

\* A transaction outside the turn's try block raises in the thread.
ThreadDies(t) ==
  /\ Fault
  /\ task[t].thread = "running"
  /\ task' = [task EXCEPT ![t].thread = "ended"]
  /\ UNCHANGED <<server, left, caller, told>>

-----------------------------------------------------------------------------
Reads(c) ==
  ReadError(c) \/ ReadState(c) \/ KeepWatching(c) \/ PollAgain(c) \/ ReadDocsUrl(c) \/ Refused(c)

Handler == CreateRow \/ LaunchThread \/ Snapshot \/ BuildArtifacts

Next ==
  \/ \E c \in Callers : Submit(c) \/ Inquire(c) \/ Reads(c) \/ GiveUp(c) \/ Take(c)
  \/ Handler \/ HandlerRaises \/ ServerStops \/ ServerStarts
  \/ \E t \in Tasks : TakeLeft(t) \/ Progress(t) \/ Finish(t) \/ ThreadEnds(t) \/ ThreadDies(t)

Spec == Init /\ [][Next]_vars

\* The command runs on, a handler runs on, the event loop serves every
\* connection in its turn, and a delivery whose thread lives comes to a verdict
\* (of module Supervision: EventuallyTerminal for the cascade; SupervisionEnds
\* and ReturnsWithVerdict for an LLM, whose model calls end).
FairSpec ==
  /\ Spec
  /\ \A c \in Callers : WF_vars(Reads(c)) /\ SF_vars(Take(c))
  /\ WF_vars(Handler)
  /\ \A t \in Tasks : WF_vars(Finish(t))

-----------------------------------------------------------------------------
(* Properties.                                                             *)

Delivered(id) == id \in Tasks /\ task[id].state = "completed" /\ Justified(id)
HasFailed(id) == id \in Tasks => task[id].state = "failed"
Accepted(id) == id \in Tasks /\ task[id].state # "unknown"

\* A script may rely on the exit codes, whatever was lost, raised or restarted
\* on the way and however long ago the command ended: 0 is a work order that is
\* complete (of the cascade's, with all its evidence) and from open one that has
\* a docs URL, 1 from submit and status a failure for good, 2 a work order that
\* exists (exit_code_for; an exception is not among them).
ExitHonest ==
  \A c \in Callers : caller[c].pc = "exited" =>
    /\ caller[c].exit = EXIT_COMPLETED =>
         /\ Delivered(caller[c].id)
         /\ caller[c].command = "open" => "deployment" \in task[caller[c].id].evidence
    /\ caller[c].exit = EXIT_FAILED /\ caller[c].command # "open" => HasFailed(caller[c].id)
    /\ caller[c].exit = EXIT_RUNNING => Accepted(caller[c].id)

\* Although the answer is put together in several transactions, while an LLM may
\* still be recording evidence: what a completed task carries is no less than
\* was on record at the mark and no more than is on record; and no other task
\* carries anything.  Only of the cascade's tasks is that the deployment and the
\* test result "a completed task carries at least" (docs/designs/
\* a2a-interface.md, section 4): an LLM may mark a task complete without them.
CompletedCarries ==
  \A c \in Callers : caller[c].pc = "answered" =>
    IF caller[c].seen = "completed"
    THEN LET t == Row(caller[c].id)
         IN  /\ t.marked \subseteq caller[c].shown
             /\ caller[c].shown \subseteq t.evidence
             /\ t.backend = "deterministic" => caller[c].shown = EVIDENCE
    ELSE caller[c].shown = {}

\* What one caller was told of the end of a task it is never told otherwise,
\* over any number of commands and restarts of the server.
AnswersStand ==
  [][\A c \in Callers, t \in Tasks : Final(told[c][t]) => told'[c][t] = told[c][t]]_vars

\* Behind the endpoint every work order goes the way of DeliveryTask: created
\* once, ended once, and taken back by no abandoned request, raising handler or
\* restart of the process.  What stands behind a completion depends on the
\* backend: of the cascade it is the evidence (CompletedIsVerified and TaskSafety
\* of module SupervisionProperties), of an LLM nothing, and verified is TRUE.
Promise(t) == INSTANCE DeliveryTask WITH state <- task[t].state, verified <- Justified(t)

PromisesKept ==
  /\ \A t \in Tasks : Promise(t)!Init
  /\ [][\A t \in Tasks : [Promise(t)!Next]_(Promise(t)!vars)]_vars

\* A thread is gone that had not brought its task to an end.
Orphaned(id) == id \in Tasks /\ task[id].state = "working" /\ task[id].thread # "running"

\* status --watch comes to an end, unless the delivery lost its thread: nothing
\* takes the order up again, and the watcher polls for ever.
WatchEnds ==
  \A c \in Callers :
    caller[c].command = "watch" /\ caller[c].pc # "exited"
      ~> caller[c].pc = "exited" \/ Orphaned(caller[c].id)
=============================================================================
