---------------------------- MODULE EndpointProofs ----------------------------
(***************************************************************************)
(* Proofs about module Endpoint, for any number of callers, work orders    *)
(* and faults.                                                             *)
(***************************************************************************)
EXTENDS Endpoint, TLAPS

-----------------------------------------------------------------------------
(* The inductive invariant.                                                *)

\* What a task was completed with stays on record; the cascade completes it with
\* all its evidence.  A thread is only started for a row.
TaskInv(t) ==
  /\ task[t].marked \subseteq task[t].evidence
  /\ task[t].state = "completed" /\ task[t].backend # "llm" => task[t].marked = EVIDENCE
  /\ task[t].state = "unknown" => task[t].thread = "none"

\* The three places a requirement may wait for its row.
Asked(c, t) == caller[c].pc = "asking" /\ caller[c].command = "submit" /\ caller[c].id = t
Creating(t) == server.pc = "create" /\ server.id = t

\* It waits in one of them, and has no row.
PendingInv(t) ==
  /\ (\E c \in Callers : Asked(c, t)) \/ t \in left \/ Creating(t) => task[t].state = "unknown"
  /\ \A c, e \in Callers : Asked(c, t) /\ Asked(e, t) => c = e
  /\ \A c \in Callers : Asked(c, t) => t \notin left /\ ~Creating(t)
  /\ t \in left => ~Creating(t)

\* What an answer says of a task was true once, and what it says of its end
\* still is.
True(rows, id, seen) ==
  /\ seen = "completed" => id \in Tasks /\ rows[id].state = "completed"
  /\ seen = "failed" /\ id \in Tasks => rows[id].state = "failed"
  /\ seen = "working" => id \in Tasks /\ rows[id].state # "unknown"

\* No caller is answered with less than it was told before.
Newer(c, id, seen) ==
  id \in Tasks /\ Final(told[c][id]) => seen = told[c][id]

\* An answer carries what the task was completed with, and what is on record.
Carries(rows, id, seen, shown) ==
  IF seen = "completed"
  THEN rows[id].marked \subseteq shown /\ shown \subseteq rows[id].evidence
  ELSE shown = {}

ServerInv ==
  /\ server.pc \in {"create", "launch", "artifacts"} => server.id \in Tasks
  /\ server.pc = "launch" =>
       task[server.id].state = "working" /\ task[server.id].thread # "running"
  /\ server.pc = "snapshot" /\ server.id \in Tasks => task[server.id].state # "unknown"
  /\ server.pc = "artifacts" =>
       /\ task[server.id].state = "completed"
       /\ task[server.id].marked \ {"tests"} \subseteq server.shown
       /\ server.shown \subseteq task[server.id].evidence

\* The caller that is served waits for the answer that is being made.
ServedInv ==
  server.for # NoOne =>
    /\ server.pc \in HANDLER_PC
    /\ caller[server.for].pc = "served" /\ caller[server.for].id = server.id

CallerInv(c) ==
  /\ True(task, caller[c].id, caller[c].seen)
  /\ caller[c].pc = "answered" =>
       /\ Carries(task, caller[c].id, caller[c].seen, caller[c].shown)
       /\ caller[c].seen = "unknown" => caller[c].id = Rejected
       /\ Newer(c, caller[c].id, caller[c].seen)
  /\ caller[c].pc # "exited" /\ caller[c].command # "submit" /\ caller[c].id \in Tasks =>
       task[caller[c].id].state # "unknown"
  /\ caller[c].pc = "sleeping" => caller[c].command # "submit"
  /\ caller[c].pc = "exited" =>
       /\ caller[c].exit = EXIT_COMPLETED =>
            /\ Delivered(caller[c].id)
            /\ caller[c].command = "open" => "deployment" \in task[caller[c].id].evidence
       /\ caller[c].exit = EXIT_FAILED /\ caller[c].command # "open" => HasFailed(caller[c].id)
       /\ caller[c].exit = EXIT_RUNNING => Accepted(caller[c].id)

ToldInv == \A c \in Callers, t \in Tasks : True(task, t, told[c][t])

IInv ==
  /\ TypeOK
  /\ \A t \in Tasks : TaskInv(t) /\ PendingInv(t)
  /\ ServerInv /\ ServedInv /\ ToldInv
  /\ \A c \in Callers : CallerInv(c)

-----------------------------------------------------------------------------
(* Type correctness.                                                       *)

\* The initial state is well typed.
LEMMA InitType == Init => TypeOK
BY EndpointAssumption
   DEF Init, TypeOK, Task, NoTask, TASK_STATES, Server, Free, Ids, Caller, Broken, COMMANDS, EXITS,
       Traceback

\* A fault within the bound.
LEMMA FaultType == TypeOK /\ Fault => faults' \in 0 .. MaxFaults
BY EndpointAssumption DEF TypeOK, Fault

\* A command that ends, an answer, and a handler that is done leave well-typed
\* records.
LEMMA EndTypes ==
  /\ \A call \in Caller, code \in EXITS \cup {Traceback} : Exited(call, code) \in Caller
  /\ Broken \in Caller
  /\ \A pc \in {"free", "down"} \cup HANDLER_PC : Free(pc) \in Server
  /\ \A call \in Caller, seen \in TASK_STATES, shown \in SUBSET EVIDENCE :
       [call EXCEPT !.pc = "answered", !.seen = seen, !.shown = shown] \in Caller
<1>1. \A call \in Caller, code \in EXITS \cup {Traceback} : Exited(call, code) \in Caller
  BY DEF Exited, Caller, TASK_STATES, COMMANDS
<1>2. Broken \in Caller
  BY DEF Broken, Caller, TASK_STATES, COMMANDS, Ids
<1>3. \A pc \in {"free", "down"} \cup HANDLER_PC : Free(pc) \in Server
  BY DEF Free, Server, Ids
<1>4. \A call \in Caller, seen \in TASK_STATES, shown \in SUBSET EVIDENCE :
        [call EXCEPT !.pc = "answered", !.seen = seen, !.shown = shown] \in Caller
  BY DEF Caller
<1>. QED
  BY <1>1, <1>2, <1>3, <1>4

\* An answer reaches its caller, or nobody.
LEMMA AnsweredType ==
  ASSUME TypeOK, NEW c \in Callers \cup {NoOne}, NEW seen \in TASK_STATES,
         NEW shown \in SUBSET EVIDENCE
  PROVE  Answered(c, seen, shown) \in [Callers -> Caller]
BY EndTypes, EndpointAssumption DEF TypeOK, Answered

\* What a user remembers of the tasks.
LEMMA ReadsType ==
  ASSUME TypeOK, NEW c \in Callers, ReadsTask(c)
  PROVE  told' \in [Callers -> [Tasks -> TASK_STATES]]
<1>1. caller[c].seen \in TASK_STATES /\ told[c] \in [Tasks -> TASK_STATES]
  BY DEF TypeOK, Caller
<1>2. [t \in Tasks |-> IF caller[c].id = t /\ (Final(caller[c].seen) \/ Final(told[c][t]))
                       THEN caller[c].seen ELSE told[c][t]] \in [Tasks -> TASK_STATES]
  BY <1>1
<1>. QED
  BY <1>2 DEF ReadsTask, TypeOK

\* The commands.
LEMMA CommandType ==
  ASSUME TypeOK, NEW c \in Callers,
         Submit(c) \/ Inquire(c) \/ Reads(c) \/ GiveUp(c) \/ Take(c)
  PROVE  TypeOK'
<1>. USE DEF TypeOK
<1>0. exit_code_for(caller[c].seen) \in EXITS /\ EXIT_FAILED \in EXITS /\ EXIT_COMPLETED \in EXITS
  BY DEF exit_code_for, EXITS
<1>1. CASE Submit(c) \/ Inquire(c)
  <2>1. PICK command \in COMMANDS, id \in Ids : Ask(c, command, id)
    BY <1>1 DEF Submit, Inquire, COMMANDS
  <2>2. [pc |-> "asking", command |-> command, id |-> id, seen |-> "unknown", shown |-> {},
         exit |-> Traceback] \in Caller
    BY DEF Caller, TASK_STATES
  <2>. QED
    BY <2>1, <2>2 DEF Ask
<1>2. CASE /\ Breaks(c) \/ \E code \in EXITS : Exit(c, code)
           /\ UNCHANGED <<task, server, left, faults>>
           /\ UNCHANGED told \/ ReadsTask(c)
  <2>1. told' \in [Callers -> [Tasks -> TASK_STATES]]
    BY <1>2, ReadsType
  <2>2. caller' \in [Callers -> Caller]
    <3>1. caller[c] \in Caller
      OBVIOUS
    <3>2. CASE Breaks(c)
      BY <3>2, EndTypes DEF Breaks
    <3>3. ASSUME NEW code \in EXITS, Exit(c, code) PROVE caller' \in [Callers -> Caller]
      <4>1. Exited(caller[c], code) \in Caller
        BY <3>1, EndTypes
      <4>. QED
        BY <3>3, <4>1 DEF Exit
    <3>. QED
      BY <1>2, <3>2, <3>3
  <2>. QED
    BY <1>2, <2>1, <2>2
<1>3. CASE KeepWatching(c)
  <2>1. told' \in [Callers -> [Tasks -> TASK_STATES]]
    BY <1>3, ReadsType DEF KeepWatching
  <2>. QED
    BY <1>3, <2>1 DEF KeepWatching, Caller
<1>4. CASE PollAgain(c)
  <2>1. [caller[c] EXCEPT !.pc = "asking", !.seen = "unknown", !.shown = {}] \in Caller
    BY DEF Caller, TASK_STATES
  <2>. QED
    BY <1>4, <2>1 DEF PollAgain
<1>5. CASE GiveUp(c)
  <2>1. caller' \in [Callers -> Caller]
    BY <1>5, EndTypes DEF GiveUp, Breaks
  <2>2. server' \in Server /\ left' \in SUBSET Tasks
    BY <1>5 DEF GiveUp, Server
  <2>3. faults' \in 0 .. MaxFaults
    BY <1>5, FaultType DEF GiveUp
  <2>. QED
    BY <1>5, <2>1, <2>2, <2>3 DEF GiveUp
<1>6. CASE Take(c)
  <2>1. server' \in Server
    BY <1>6 DEF Take, TakeSend, TakeGet, Serve, Server, Free, HANDLER_PC, Ids, Caller
  <2>2. caller' \in [Callers -> Caller]
    <3>1. [caller EXCEPT ![c].pc = "served"] \in [Callers -> Caller]
      BY DEF Caller
    <3>2. Answered(c, "failed", {}) \in [Callers -> Caller]
      BY AnsweredType DEF TASK_STATES
    <3>. QED
      BY <1>6, <3>1, <3>2 DEF Take, TakeSend, TakeGet, Serve
  <2>. QED
    BY <1>6, <2>1, <2>2 DEF Take
<1>7. CASE Reads(c) /\ ~KeepWatching(c) /\ ~PollAgain(c)
  <2>1. CASE ReadError(c)
    BY <1>0, <1>2, <2>1 DEF ReadError
  <2>2. CASE ReadState(c)
    BY <1>0, <1>2, <2>2 DEF ReadState
  <2>3. CASE ReadDocsUrl(c)
    BY <1>0, <1>2, <2>3 DEF ReadDocsUrl
  <2>4. CASE Refused(c)
    BY <1>2, <2>4 DEF Refused
  <2>. QED
    BY <1>7, <2>1, <2>2, <2>3, <2>4 DEF Reads
<1>. QED
  BY <1>1, <1>3, <1>4, <1>5, <1>6, <1>7

\* The server and the deliveries.
LEMMA ServerType ==
  ASSUME TypeOK,
         \/ Handler \/ HandlerRaises \/ ServerStops \/ ServerStarts
         \/ \E t \in Tasks :
              TakeLeft(t) \/ Progress(t) \/ Finish(t) \/ ThreadEnds(t) \/ ThreadDies(t)
  PROVE  TypeOK'
<1>. USE DEF TypeOK
<1>1. CASE CreateRow \/ LaunchThread
  <2>1. server' \in Server
    BY <1>1 DEF CreateRow, LaunchThread, Handles, Server, HANDLER_PC
  <2>2. task' \in [Tasks -> Task]
    <3>1. CASE server.id \in Tasks
      <4>1. \A r \in Task : [r EXCEPT !.state = "working"] \in Task
        BY DEF Task, TASK_STATES
      <4>2. \A r \in Task, b \in Backends :
              [r EXCEPT !.thread = "running", !.backend = b] \in Task
        BY DEF Task
      <4>3. task[server.id] \in Task
        BY <3>1
      <4>4. CASE CreateRow
        BY <3>1, <4>1, <4>3, <4>4 DEF CreateRow
      <4>5. CASE LaunchThread
        BY <3>1, <4>2, <4>3, <4>5 DEF LaunchThread
      <4>. QED
        BY <1>1, <4>4, <4>5
    <3>2. CASE server.id \notin Tasks
      BY <1>1, <3>2 DEF CreateRow, LaunchThread
    <3>. QED
      BY <3>1, <3>2
  <2>. QED
    BY <1>1, <2>1, <2>2 DEF CreateRow, LaunchThread
<1>2. CASE Snapshot \/ BuildArtifacts
  <2>1. Row(server.id).state \in TASK_STATES /\ Row(server.id).evidence \in SUBSET EVIDENCE
    BY DEF Row, NoTask, Task, TASK_STATES
  <2>2. server.for \in Callers \cup {NoOne} /\ server.shown \in SUBSET EVIDENCE
    BY DEF Server
  <2>3. ASSUME NEW seen \in TASK_STATES, NEW shown \in SUBSET EVIDENCE, Respond(seen, shown)
        PROVE  server' \in Server /\ caller' \in [Callers -> Caller]
    BY <2>2, <2>3, EndTypes, AnsweredType DEF Respond
  <2>4. server' \in Server /\ caller' \in [Callers -> Caller]
    <3>1. CASE Snapshot /\ Row(server.id).state = "completed"
      BY <2>1, <3>1 DEF Snapshot, Server, HANDLER_PC
    <3>2. CASE Snapshot /\ Row(server.id).state # "completed"
      BY <2>1, <2>3, <3>2 DEF Snapshot
    <3>3. CASE BuildArtifacts
      <4>. "completed" \in TASK_STATES
        BY DEF TASK_STATES
      <4>. QED
        BY <2>1, <2>2, <2>3, <3>3 DEF BuildArtifacts
    <3>. QED
      BY <1>2, <3>1, <3>2, <3>3
  <2>. QED
    BY <1>2, <2>4 DEF Snapshot, BuildArtifacts
<1>4. CASE HandlerRaises
  <2>1. caller' \in [Callers -> Caller]
    BY <1>4, EndTypes DEF HandlerRaises, Server
  <2>. QED
    BY <1>4, <2>1, EndTypes, FaultType DEF HandlerRaises
<1>5. CASE ServerStops
  <2>1. caller' \in [Callers -> Caller]
    BY <1>5, EndTypes DEF ServerStops
  <2>2. task' \in [Tasks -> Task]
    BY <1>5 DEF ServerStops, Task
  <2>. QED
    BY <1>5, <2>1, <2>2, EndTypes, FaultType DEF ServerStops
<1>6. CASE ServerStarts
  BY <1>6, EndTypes DEF ServerStarts
<1>7. ASSUME NEW t \in Tasks, TakeLeft(t) PROVE TypeOK'
  BY <1>7 DEF TakeLeft, Server, Free, HANDLER_PC, Ids
<1>8. ASSUME NEW t \in Tasks, Progress(t) \/ Finish(t) \/ ThreadEnds(t) \/ ThreadDies(t)
      PROVE  TypeOK'
  <2>1. task' \in [Tasks -> Task]
    <3>0. task[t] \in Task
      OBVIOUS
    <3>1. CASE Progress(t)
      <4>1. PICK e \in EVIDENCE : task' = [task EXCEPT ![t].evidence = @ \cup {e}]
        BY <3>1 DEF Progress
      <4>2. [task[t] EXCEPT !.evidence = @ \cup {e}] \in Task
        BY <3>0 DEF Task
      <4>. QED
        BY <4>1, <4>2
    <3>2. CASE Finish(t)
      <4>1. PICK state \in {"completed", "failed"} :
              task' = [task EXCEPT ![t] =
                [@ EXCEPT !.state = state,
                          !.marked = IF state = "completed" THEN task[t].evidence ELSE {}]]
        BY <3>2 DEF Finish
      <4>2. state \in TASK_STATES /\ task[t].evidence \in SUBSET EVIDENCE
        BY <3>0 DEF Task, TASK_STATES
      <4>3. \A marked \in SUBSET EVIDENCE :
              [task[t] EXCEPT !.state = state, !.marked = marked] \in Task
        BY <3>0, <4>2 DEF Task
      <4>. QED
        BY <4>1, <4>2, <4>3
    <3>3. CASE ThreadEnds(t) \/ ThreadDies(t)
      <4>1. [task[t] EXCEPT !.thread = "ended"] \in Task
        BY <3>0 DEF Task
      <4>. QED
        BY <3>3, <4>1 DEF ThreadEnds, ThreadDies
    <3>. QED
      BY <1>8, <3>1, <3>2, <3>3
  <2>2. faults' \in 0 .. MaxFaults
    BY <1>8, FaultType DEF Progress, Finish, ThreadEnds, ThreadDies
  <2>. QED
    BY <1>8, <2>1, <2>2 DEF Progress, Finish, ThreadEnds, ThreadDies
<1>. QED
  BY <1>1, <1>2, <1>4, <1>5, <1>6, <1>7, <1>8 DEF Handler

\* Every step keeps every variable well typed.
LEMMA NextType ==
  ASSUME TypeOK, [Next]_vars
  PROVE  TypeOK'
<1>1. CASE UNCHANGED vars
  BY <1>1 DEF vars, TypeOK
<1>. QED
  BY <1>1, CommandType, ServerType DEF Next

-----------------------------------------------------------------------------
(* The rows.                                                               *)

\* A row stays, the end of its delivery stands, and evidence stays on record.
Grown(old, new) ==
  \A t \in Tasks :
    /\ old[t].state # "unknown" => new[t].state # "unknown"
    /\ Final(old[t].state) =>
         new[t].state = old[t].state /\ new[t].marked = old[t].marked
         /\ new[t].backend = old[t].backend
    /\ old[t].evidence \subseteq new[t].evidence

\* What was true of a task stays true while the rows grow.
LEMMA TrueStays ==
  ASSUME NEW old, NEW new, Grown(old, new), NEW id, NEW seen, True(old, id, seen)
  PROVE  True(new, id, seen)
BY DEF Grown, True, Final

\* So does what an answer carries.
LEMMA CarriesStays ==
  ASSUME NEW old, NEW new, Grown(old, new), NEW id, NEW seen, NEW shown,
         True(old, id, seen), Carries(old, id, seen, shown)
  PROVE  Carries(new, id, seen, shown)
<1>1. CASE seen = "completed"
  <2>1. /\ id \in Tasks
        /\ new[id].marked = old[id].marked /\ old[id].evidence \subseteq new[id].evidence
    BY <1>1 DEF True, Grown, Final
  <2>. QED
    BY <1>1, <2>1 DEF Carries
<1>. QED
  BY <1>1 DEF Carries

\* Every step lets the rows grow, and keeps them in order; a row begins with
\* CreateRow.
LEMMA RowsStep ==
  ASSUME IInv, Next
  PROVE  /\ Grown(task, task')
         /\ \A t \in Tasks : TaskInv(t)'
         /\ \A t \in Tasks : task[t].state = "unknown" =>
              task'[t].state = "unknown" \/ (CreateRow /\ server.id = t)
<1>. USE DEF IInv, TypeOK, TaskInv, Grown, Final, Task
<1>1. CASE UNCHANGED task
  BY <1>1
<1>2. CASE CreateRow
  <2>1. server.id \in Tasks /\ task[server.id].state = "unknown"
    BY <1>2 DEF CreateRow, ServerInv, PendingInv, Creating
  <2>. QED
    BY <1>2, <2>1 DEF CreateRow
<1>3. CASE LaunchThread
  <2>1. server.id \in Tasks /\ task[server.id].state = "working"
    BY <1>3 DEF LaunchThread, ServerInv
  <2>. QED
    BY <1>3, <2>1 DEF LaunchThread
<1>4. CASE ServerStops
  BY <1>4 DEF ServerStops
<1>5. ASSUME NEW t \in Tasks, Progress(t)
      PROVE  /\ Grown(task, task')
             /\ \A r \in Tasks : TaskInv(r)'
             /\ \A r \in Tasks : task[r].state = "unknown" => task'[r].state = "unknown"
  <2>1. PICK e \in EVIDENCE : task' = [task EXCEPT ![t].evidence = @ \cup {e}]
    BY <1>5 DEF Progress
  <2>2. task[t] \in Task
    OBVIOUS
  <2>. QED
    BY <2>1, <2>2
<1>6. ASSUME NEW t \in Tasks, Finish(t)
      PROVE  /\ Grown(task, task')
             /\ \A r \in Tasks : TaskInv(r)'
             /\ \A r \in Tasks : task[r].state = "unknown" => task'[r].state = "unknown"
  <2>1. task[t].state = "working" /\ task[t] \in Task
    BY <1>6 DEF Finish
  <2>2. PICK state \in {"completed", "failed"} :
          /\ state = "completed" => Justified(t)
          /\ task' = [task EXCEPT ![t] =
               [@ EXCEPT !.state = state,
                         !.marked = IF state = "completed" THEN task[t].evidence ELSE {}]]
    BY <1>6 DEF Finish
  <2>. QED
    BY <2>1, <2>2 DEF Justified
<1>7. ASSUME NEW t \in Tasks, ThreadEnds(t) \/ ThreadDies(t)
      PROVE  /\ Grown(task, task')
             /\ \A r \in Tasks : TaskInv(r)'
             /\ \A r \in Tasks : task[r].state = "unknown" => task'[r].state = "unknown"
  <2>1. task' = [task EXCEPT ![t].thread = "ended"] /\ task[t].thread = "running"
    BY <1>7 DEF ThreadEnds, ThreadDies
  <2>. QED
    BY <2>1
<1>8. UNCHANGED task \/ CreateRow \/ LaunchThread \/ ServerStops
      \/ \E t \in Tasks : Progress(t) \/ Finish(t) \/ ThreadEnds(t) \/ ThreadDies(t)
  BY DEF Next, Reads, Handler, Submit, Inquire, Ask, ReadError, ReadState, KeepWatching, PollAgain,
         ReadDocsUrl, Refused, GiveUp, Take, TakeLeft, Snapshot, BuildArtifacts,
         HandlerRaises, ServerStarts
<1>. QED
  BY <1>1, <1>2, <1>3, <1>4, <1>5, <1>6, <1>7, <1>8

\* What a user has been told was true when it was told, and the rows grow.
LEMMA ToldStep ==
  ASSUME IInv, Next
  PROVE  ToldInv'
<1>. SUFFICES ASSUME NEW c \in Callers, NEW t \in Tasks
              PROVE  True(task', t, told'[c][t])
  BY DEF ToldInv
<1>1. Grown(task, task') /\ True(task, t, told[c][t])
  BY RowsStep DEF IInv, ToldInv
<1>2. CASE told'[c][t] = told[c][t]
  BY <1>1, <1>2, TrueStays
<1>3. ASSUME NEW d \in Callers, ReadsTask(d), told'[c][t] # told[c][t]
      PROVE  True(task', t, told'[c][t])
  <2>1. c = d /\ caller[d].id = t /\ told'[c][t] = caller[d].seen
    BY <1>3 DEF ReadsTask, IInv, TypeOK
  <2>2. True(task, caller[d].id, caller[d].seen)
    BY DEF IInv, CallerInv
  <2>. QED
    BY <1>1, <2>1, <2>2, TrueStays
<1>4. UNCHANGED told \/ \E d \in Callers : ReadsTask(d)
  BY DEF Next, Reads, Handler, Submit, Inquire, Ask, ReadError, ReadState, KeepWatching, PollAgain,
         ReadDocsUrl, Refused, GiveUp, Take, TakeLeft, Snapshot, BuildArtifacts,
         HandlerRaises, ServerStarts, ServerStops, CreateRow, LaunchThread, Progress, Finish,
         ThreadEnds, ThreadDies
<1>. QED
  BY <1>2, <1>3, <1>4

-----------------------------------------------------------------------------
(* The requirements that wait.                                             *)

\* A step of tasks/get answers the caller, or leaves it waiting.
LEMMA HandlerAnswers ==
  ASSUME TypeOK, Snapshot \/ BuildArtifacts
  PROVE  \/ caller' = caller
         \/ \E seen \in TASK_STATES, shown \in SUBSET EVIDENCE : Respond(seen, shown)
<1>1. Row(server.id).state \in TASK_STATES /\ Row(server.id).evidence \in SUBSET EVIDENCE
  BY DEF TypeOK, Row, NoTask, Task, TASK_STATES
<1>2. server.shown \in SUBSET EVIDENCE /\ "completed" \in TASK_STATES
  BY DEF TypeOK, Server, TASK_STATES
<1>3. CASE Snapshot
  BY <1>1, <1>3 DEF Snapshot
<1>4. CASE BuildArtifacts
  BY <1>1, <1>2, <1>4 DEF BuildArtifacts
<1>. QED
  BY <1>3, <1>4

\* A requirement waits at one place at a time, and its row comes last.
LEMMA PendingStep ==
  ASSUME IInv, Next, NEW t \in Tasks
  PROVE  PendingInv(t)'
<1>. USE DEF IInv, TypeOK
<1>0. PendingInv(t)
  OBVIOUS
<1>1. ASSUME NEW c \in Callers, NEW command \in COMMANDS, NEW id \in Ids, Ask(c, command, id),
             command = "submit" /\ id \in Tasks => Unused(id)
      PROVE  PendingInv(t)'
  <2>1. CASE command = "submit" /\ id = t
    <3>1. /\ task[t].state = "unknown" /\ t \notin left /\ server.id # t
          /\ \A e \in Callers : caller[e].id = t => caller[e].pc = "exited"
      BY <1>1, <2>1 DEF Unused
    <3>2. \A e \in Callers : Asked(e, t)' => e = c
      BY <1>1, <3>1 DEF Ask, Asked
    <3>. QED
      BY <1>1, <3>1, <3>2 DEF Ask, PendingInv, Creating
  <2>2. CASE ~(command = "submit" /\ id = t)
    <3>1. \A e \in Callers : Asked(e, t)' => Asked(e, t)
      BY <1>1, <2>2 DEF Ask, Asked
    <3>. QED
      BY <1>0, <1>1, <3>1 DEF Ask, PendingInv, Creating
  <2>. QED
    BY <2>1, <2>2
<1>2. ASSUME NEW c \in Callers, Submit(c) \/ Inquire(c) PROVE PendingInv(t)'
  BY <1>1, <1>2 DEF Submit, Inquire, COMMANDS
<1>3. ASSUME NEW c \in Callers, Reads(c) PROVE PendingInv(t)'
  <2>1. \A e \in Callers : Asked(e, t)' => Asked(e, t)
    <3>1. CASE PollAgain(c)
      BY <3>1 DEF PollAgain, Asked, CallerInv
    <3>2. CASE KeepWatching(c)
      BY <3>2 DEF KeepWatching, Asked
    <3>3. CASE ReadError(c) \/ ReadState(c) \/ ReadDocsUrl(c) \/ Refused(c)
      <4>1. Breaks(c) \/ \E code \in EXITS : Exit(c, code)
        BY <3>3 DEF ReadError, ReadState, ReadDocsUrl, Refused, exit_code_for, EXITS
      <4>. QED
        BY <4>1 DEF Exit, Exited, Breaks, Broken, Asked
    <3>. QED
      BY <1>3, <3>1, <3>2, <3>3 DEF Reads
  <2>2. UNCHANGED <<task, server, left>>
    BY <1>3 DEF Reads, ReadError, ReadState, KeepWatching, PollAgain, ReadDocsUrl, Refused
  <2>. QED
    BY <1>0, <2>1, <2>2 DEF PendingInv, Creating
<1>4. ASSUME NEW c \in Callers, GiveUp(c) PROVE PendingInv(t)'
  <2>1. \A e \in Callers : Asked(e, t)' => Asked(e, t) /\ e # c
    BY <1>4 DEF GiveUp, Breaks, Broken, Asked
  <2>2. t \in left' => t \in left \/ Asked(c, t)
    BY <1>4 DEF GiveUp, Asked
  <2>3. server'.pc = server.pc /\ server'.id = server.id /\ task' = task
    BY <1>4 DEF GiveUp, Server
  <2>. QED
    BY <1>0, <2>1, <2>2, <2>3 DEF PendingInv, Creating
<1>5. ASSUME NEW c \in Callers, Take(c) PROVE PendingInv(t)'
  <2>1. \A e \in Callers : Asked(e, t)' => Asked(e, t) /\ e # c
    <3>1. c # NoOne /\ caller[c] \in Caller
      BY EndpointAssumption
    <3>2. PICK call : caller' = [caller EXCEPT ![c] = call] /\ call.pc # "asking"
      <4>1. CASE TakeSend(c) /\ caller[c].id = Rejected
        <5>1. [caller[c] EXCEPT !.pc = "answered", !.seen = "failed", !.shown = {}].pc # "asking"
          BY <3>1 DEF Caller
        <5>. QED
          BY <3>1, <4>1, <5>1 DEF TakeSend, Answered
      <4>2. CASE Serve(c, "create") \/ Serve(c, "snapshot")
        <5>1. [caller[c] EXCEPT !.pc = "served"].pc # "asking"
          BY <3>1 DEF Caller
        <5>. QED
          BY <3>1, <4>2, <5>1 DEF Serve
      <4>. QED
        BY <1>5, <4>1, <4>2 DEF Take, TakeSend, TakeGet
    <3>. QED
      BY <3>2 DEF Asked
  <2>2. Creating(t)' => Asked(c, t)
    BY <1>5 DEF Take, TakeSend, TakeGet, Serve, Free, Asked, Creating
  <2>3. task' = task /\ left' = left
    BY <1>5 DEF Take
  <2>. QED
    BY <1>0, <2>1, <2>2, <2>3 DEF PendingInv
<1>6. ASSUME NEW r \in Tasks, TakeLeft(r) PROVE PendingInv(t)'
  <2>1. Creating(t)' => r = t /\ t \in left /\ t \notin left'
    BY <1>6 DEF TakeLeft, Free, Creating
  <2>2. caller' = caller /\ task' = task /\ left' \subseteq left
    BY <1>6 DEF TakeLeft
  <2>. QED
    BY <1>0, <2>1, <2>2 DEF PendingInv, Asked
<1>7. CASE CreateRow
  <2>1. ~Creating(t)' /\ caller' = caller /\ left' = left
    BY <1>7 DEF CreateRow, Handles, Creating, Server
  <2>2. server.id # t => task'[t] = task[t]
    BY <1>7 DEF CreateRow
  <2>3. server.id = t => Creating(t)
    BY <1>7 DEF CreateRow, Creating
  <2>. QED
    BY <1>0, <2>1, <2>2, <2>3 DEF PendingInv, Asked
<1>8. ASSUME ~CreateRow, left' \subseteq left, Creating(t)' => Creating(t),
             \A e \in Callers : Asked(e, t)' => Asked(e, t)
      PROVE  PendingInv(t)'
  <2>1. task[t].state = "unknown" => task'[t].state = "unknown"
    BY <1>8, RowsStep
  <2>. QED
    BY <1>0, <1>8, <2>1 DEF PendingInv
<1>9. CASE LaunchThread \/ Snapshot \/ BuildArtifacts \/ HandlerRaises
  <2>0. server.for \in Callers \/ server.for = NoOne
    BY DEF Server
  <2>1. \A e \in Callers : Asked(e, t)' => Asked(e, t)
    <3>1. ASSUME NEW seen, NEW shown, Respond(seen, shown)
          PROVE  \A e \in Callers : Asked(e, t)' => Asked(e, t)
      BY <2>0, <3>1 DEF Respond, Answered, Asked, Caller
    <3>2. caller' = caller => \A e \in Callers : Asked(e, t)' => Asked(e, t)
      BY DEF Asked
    <3>3. CASE HandlerRaises
      BY <2>0, <3>3 DEF HandlerRaises, Broken, Asked
    <3>4. CASE LaunchThread \/ Snapshot \/ BuildArtifacts
      <4>1. \/ caller' = caller
            \/ \E seen \in TASK_STATES, shown \in SUBSET EVIDENCE : Respond(seen, shown)
        BY <3>4, HandlerAnswers DEF LaunchThread
      <4>. QED
        BY <3>1, <3>2, <4>1
    <3>. QED
      BY <1>9, <3>3, <3>4
  <2>2. left' = left
    BY <1>9 DEF LaunchThread, Snapshot, BuildArtifacts, HandlerRaises
  <2>3. server'.pc \in {"free", "snapshot", "artifacts"}
    <3>1. CASE LaunchThread
      BY <3>1 DEF LaunchThread, Handles, Server
    <3>2. CASE Snapshot
      <4>1. [server EXCEPT !.pc = "artifacts", !.shown = Row(server.id).evidence \ {"tests"}].pc
              = "artifacts"
        BY DEF Server
      <4>2. Free("free").pc = "free"
        BY DEF Free
      <4>. QED
        BY <3>2, <4>1, <4>2 DEF Snapshot, Respond
    <3>3. CASE BuildArtifacts
      BY <3>3 DEF BuildArtifacts, Respond, Free, Server
    <3>4. CASE HandlerRaises
      BY <3>4 DEF HandlerRaises, Free
    <3>. QED
      BY <1>9, <3>1, <3>2, <3>3, <3>4
  <2>4. ~CreateRow /\ ~Creating(t)'
    BY <2>3 DEF CreateRow, Handles, Creating, Server
  <2>. QED
    BY <1>8, <2>1, <2>2, <2>4
<1>10. CASE ServerStops \/ ServerStarts
  <2>1. \A e \in Callers : Asked(e, t)' => Asked(e, t)
    <3>1. CASE ServerStops
      <4>1. \A e \in Callers : caller'[e].pc # "asking"
        BY <3>1 DEF ServerStops, Broken
      <4>. QED
        BY <4>1 DEF Asked
    <3>2. CASE ServerStarts
      BY <3>2 DEF ServerStarts, Asked
    <3>. QED
      BY <1>10, <3>1, <3>2
  <2>2. left' \subseteq left /\ server'.pc \in {"free", "down"}
    BY <1>10 DEF ServerStops, ServerStarts, Free
  <2>3. ~CreateRow /\ ~Creating(t)'
    BY <2>2 DEF CreateRow, Handles, Creating, Server
  <2>. QED
    BY <1>8, <2>1, <2>2, <2>3
<1>11. ASSUME NEW r \in Tasks, Progress(r) \/ Finish(r) \/ ThreadEnds(r) \/ ThreadDies(r)
       PROVE  PendingInv(t)'
  <2>1. UNCHANGED <<server, left, caller>>
    BY <1>11 DEF Progress, Finish, ThreadEnds, ThreadDies
  <2>2. ~CreateRow
    BY <2>1 DEF CreateRow, Handles, Server
  <2>. QED
    BY <1>8, <2>1, <2>2 DEF Asked, Creating
<1>. QED
  BY <1>2, <1>3, <1>4, <1>5, <1>6, <1>7, <1>9, <1>10, <1>11 DEF Next, Handler

-----------------------------------------------------------------------------
(* The server.                                                             *)

\* The request that is handled goes on while the rows grow.
LEMMA ServerKeeps ==
  ASSUME IInv, Next, UNCHANGED <<server.pc, server.id, server.shown>>,
         server.pc = "launch" => task'[server.id] = task[server.id]
  PROVE  ServerInv'
<1>1. server.id \in Tasks =>
        /\ task[server.id].state # "unknown" => task'[server.id].state # "unknown"
        /\ task[server.id].state = "completed" =>
             task'[server.id].state = "completed"
             /\ task'[server.id].marked = task[server.id].marked
        /\ task[server.id].evidence \subseteq task'[server.id].evidence
  BY RowsStep DEF Grown, Final
<1>. QED
  BY <1>1 DEF IInv, ServerInv

\* Every handler follows its steps, and what it has found so far is true.
LEMMA ServerStep ==
  ASSUME IInv, Next
  PROVE  ServerInv'
<1>. USE DEF IInv, TypeOK
<1>1. CASE UNCHANGED <<server, task>>
  BY <1>1, ServerKeeps
<1>2. ASSUME NEW c \in Callers, GiveUp(c) PROVE ServerInv'
  BY <1>2, ServerKeeps DEF GiveUp, Server
<1>3. ASSUME NEW c \in Callers, Take(c) PROVE ServerInv'
  <2>1. CASE TakeSend(c)
    <3>1. CASE caller[c].id = Rejected
      BY <1>1, <1>3, <2>1, <3>1 DEF Take, TakeSend
    <3>2. CASE caller[c].id # Rejected
      BY <1>3, <2>1, <3>2 DEF Take, TakeSend, Serve, Free, ServerInv, Ids, Caller
    <3>. QED
      BY <3>1, <3>2
  <2>2. CASE TakeGet(c)
    <3>1. caller[c].id \in Tasks => task[caller[c].id].state # "unknown"
      BY <1>3, <2>2 DEF Take, TakeGet, CallerInv
    <3>. QED
      BY <1>3, <2>2, <3>1 DEF Take, TakeGet, Serve, Free, ServerInv
  <2>. QED
    BY <1>3, <2>1, <2>2 DEF Take
<1>4. ASSUME NEW t \in Tasks, TakeLeft(t) PROVE ServerInv'
  BY <1>4 DEF TakeLeft, Free, ServerInv
<1>5. CASE CreateRow \/ LaunchThread
  <2>0. server.id \in Tasks /\ task[server.id] \in Task
    BY <1>5 DEF CreateRow, LaunchThread, ServerInv
  <2>1. task'[server.id].state = "working"
    <3>1. CASE CreateRow
      BY <2>0, <3>1 DEF CreateRow, Task
    <3>2. CASE LaunchThread
      <4>1. task[server.id].state = "working"
        BY <3>2 DEF LaunchThread, ServerInv
      <4>. QED
        BY <2>0, <3>2, <4>1 DEF LaunchThread, Task
    <3>. QED
      BY <1>5, <3>1, <3>2
  <2>2. CreateRow => task'[server.id].thread # "running"
    <3>1. CreateRow => task[server.id].state = "unknown"
      BY <2>0 DEF CreateRow, PendingInv, Creating
    <3>. QED
      BY <2>0, <3>1 DEF CreateRow, TaskInv, Task
  <2>. QED
    BY <1>5, <2>0, <2>1, <2>2 DEF CreateRow, LaunchThread, Handles, ServerInv, Server
<1>6. CASE Snapshot
  <2>1. CASE Row(server.id).state = "completed"
    <3>1. server.id \in Tasks /\ Row(server.id) = task[server.id]
      BY <2>1 DEF Row, NoTask
    <3>2. task[server.id].marked \subseteq task[server.id].evidence
      BY <3>1 DEF TaskInv
    <3>3. /\ task' = task /\ server'.pc = "artifacts" /\ server'.id = server.id
          /\ server'.shown = task[server.id].evidence \ {"tests"}
      BY <1>6, <2>1, <3>1 DEF Snapshot, Server
    <3>. QED
      BY <2>1, <3>1, <3>2, <3>3 DEF ServerInv
  <2>2. CASE Row(server.id).state # "completed"
    BY <1>6, <2>2 DEF Snapshot, Respond, Free, ServerInv
  <2>. QED
    BY <2>1, <2>2
<1>7. CASE BuildArtifacts
  BY <1>7 DEF BuildArtifacts, Respond, Free, ServerInv
<1>8. CASE HandlerRaises \/ ServerStops \/ ServerStarts
  BY <1>8 DEF HandlerRaises, ServerStops, ServerStarts, Free, ServerInv
<1>9. ASSUME NEW t \in Tasks, Progress(t) \/ Finish(t) \/ ThreadEnds(t) \/ ThreadDies(t)
      PROVE  ServerInv'
  <2>1. task[t].thread = "running" /\ server' = server
    BY <1>9 DEF Progress, Finish, ThreadEnds, ThreadDies
  <2>2. \A r \in Tasks : r # t => task'[r] = task[r]
    BY <1>9 DEF Progress, Finish, ThreadEnds, ThreadDies
  <2>3. server.pc = "launch" => server.id \in Tasks /\ server.id # t
    BY <2>1 DEF ServerInv
  <2>. QED
    BY <2>1, <2>2, <2>3, ServerKeeps
<1>10. ASSUME NEW c \in Callers, Submit(c) \/ Inquire(c) \/ Reads(c)
       PROVE  UNCHANGED <<server, task>>
  BY <1>10 DEF Submit, Inquire, Ask, Reads, ReadError, ReadState, KeepWatching, PollAgain,
               ReadDocsUrl, Refused
<1>. QED
  BY <1>1, <1>2, <1>3, <1>4, <1>5, <1>6, <1>7, <1>8, <1>9, <1>10 DEF Next, Handler

-----------------------------------------------------------------------------
(* The callers.                                                            *)

\* An answer that is made now says what the user was told before, if that was
\* the end of the task.
LEMMA NewerNow ==
  ASSUME IInv, NEW c \in Callers, NEW id \in Tasks
  PROVE  Newer(c, id, task[id].state)
<1>1. True(task, id, told[c][id])
  BY DEF IInv, ToldInv
<1>. QED
  BY <1>1 DEF Newer, True, Final

\* The caller that is served goes on waiting for its own answer.
LEMMA ServedStep ==
  ASSUME IInv, Next
  PROVE  ServedInv'
<1>. USE DEF IInv, TypeOK
<1>0. server.for # NoOne => server.for \in Callers /\ server.for' = server.for'
  BY DEF Server
<1>1. ASSUME UNCHANGED server, server.for # NoOne => UNCHANGED caller[server.for]
      PROVE  ServedInv'
  BY <1>1 DEF ServedInv
<1>2. ASSUME NEW c \in Callers, Submit(c) \/ Inquire(c) PROVE ServedInv'
  <2>1. UNCHANGED server /\ caller[c].pc = "exited"
    BY <1>2 DEF Submit, Inquire, Ask
  <2>2. \A e \in Callers : e # c => caller'[e] = caller[e]
    BY <1>2 DEF Submit, Inquire, Ask
  <2>. QED
    BY <1>0, <1>1, <2>1, <2>2 DEF ServedInv
<1>3. ASSUME NEW c \in Callers, Reads(c) PROVE ServedInv'
  <2>1. UNCHANGED server /\ caller[c].pc # "served"
    BY <1>3 DEF Reads, ReadError, ReadState, KeepWatching, PollAgain, ReadDocsUrl, Refused
  <2>2. \A e \in Callers : e # c => caller'[e] = caller[e]
    BY <1>3 DEF Reads, ReadError, ReadState, KeepWatching, PollAgain, ReadDocsUrl, Refused, Exit,
                Breaks
  <2>. QED
    BY <1>0, <1>1, <2>1, <2>2 DEF ServedInv
<1>4. ASSUME NEW c \in Callers, GiveUp(c) PROVE ServedInv'
  <2>1. CASE caller[c].pc = "served"
    BY <1>4, <2>1 DEF GiveUp, ServedInv, Server
  <2>2. CASE caller[c].pc # "served"
    <3>1. UNCHANGED server
      BY <1>4, <2>2 DEF GiveUp
    <3>2. \A e \in Callers : e # c => caller'[e] = caller[e]
      BY <1>4 DEF GiveUp, Breaks
    <3>. QED
      BY <1>0, <1>1, <2>2, <3>1, <3>2 DEF ServedInv
  <2>. QED
    BY <2>1, <2>2
<1>5. ASSUME NEW c \in Callers, Take(c) PROVE ServedInv'
  <2>1. CASE TakeSend(c) /\ caller[c].id = Rejected
    <3>1. UNCHANGED server /\ caller[c].pc # "served"
      BY <1>5, <2>1 DEF Take, TakeSend
    <3>2. \A e \in Callers : e # c => caller'[e] = caller[e]
      BY <2>1 DEF TakeSend, Answered
    <3>. QED
      BY <1>0, <1>1, <3>1, <3>2 DEF ServedInv
  <2>2. CASE Serve(c, "create") \/ Serve(c, "snapshot")
    <3>1. caller'[c].pc = "served" /\ caller'[c].id = caller[c].id
      BY <2>2 DEF Serve, Caller
    <3>. QED
      BY <2>2, <3>1 DEF Serve, Free, ServedInv, HANDLER_PC
  <2>. QED
    BY <1>5, <2>1, <2>2 DEF Take, TakeSend, TakeGet
<1>6. ASSUME server'.for = NoOne PROVE ServedInv'
  BY <1>6 DEF ServedInv
<1>7. ASSUME NEW t \in Tasks, TakeLeft(t) PROVE ServedInv'
  BY <1>6, <1>7 DEF TakeLeft, Free
<1>8. CASE BuildArtifacts \/ HandlerRaises \/ ServerStops \/ ServerStarts
  BY <1>6, <1>8 DEF BuildArtifacts, Respond, HandlerRaises, ServerStops, ServerStarts, Free
<1>9. CASE CreateRow \/ LaunchThread \/ (Snapshot /\ Row(server.id).state = "completed")
  <2>1. server'.for = server.for /\ server'.id = server.id /\ UNCHANGED caller
    BY <1>9 DEF CreateRow, LaunchThread, Snapshot, Handles, Server
  <2>2. server'.pc \in HANDLER_PC
    BY <1>9 DEF CreateRow, LaunchThread, Snapshot, Handles, Server, HANDLER_PC
  <2>. QED
    BY <2>1, <2>2 DEF ServedInv
<1>10. CASE Snapshot /\ Row(server.id).state # "completed"
  BY <1>6, <1>10 DEF Snapshot, Respond, Free
<1>11. ASSUME NEW t \in Tasks, Progress(t) \/ Finish(t) \/ ThreadEnds(t) \/ ThreadDies(t)
       PROVE  ServedInv'
  BY <1>1, <1>11 DEF Progress, Finish, ThreadEnds, ThreadDies
<1>. QED
  BY <1>2, <1>3, <1>4, <1>5, <1>7, <1>8, <1>9, <1>10, <1>11 DEF Next, Handler

\* A caller that nothing happens to keeps what it has, while the rows grow.
LEMMA CallerKeeps ==
  ASSUME IInv, Next, NEW c \in Callers, UNCHANGED <<caller[c], told[c]>>
  PROVE  CallerInv(c)'
<1>. DEFINE id == caller[c].id
<1>1. True(task', id, caller[c].seen)
  BY RowsStep, TrueStays DEF IInv, CallerInv
<1>2. id \in Tasks /\ task[id].state # "unknown" => task'[id].state # "unknown"
  BY RowsStep DEF Grown
<1>3. Delivered(id) => Delivered(id)'
  <2>. SUFFICES ASSUME Delivered(id) PROVE Delivered(id)'
    OBVIOUS
  <2>1. id \in Tasks /\ task'[id].state = "completed" /\ task'[id].backend = task[id].backend
    BY RowsStep DEF Grown, Delivered, Final
  <2>2. task[id].evidence \subseteq task'[id].evidence /\ task'[id].evidence \subseteq EVIDENCE
    BY <2>1, RowsStep, NextType DEF Grown, IInv, TypeOK, Task
  <2>3. task[id].evidence = EVIDENCE => task'[id].evidence = EVIDENCE
    BY <2>2
  <2>. QED
    BY <2>1, <2>3 DEF Delivered, Justified
<1>4. HasFailed(id) => HasFailed(id)'
  BY RowsStep DEF Grown, HasFailed, Final
<1>5. Accepted(id) => Accepted(id)'
  BY <1>2 DEF Accepted
<1>6. CallerInv(c)
  BY DEF IInv
<1>7. Carries(task, id, caller[c].seen, caller[c].shown) =>
        Carries(task', id, caller[c].seen, caller[c].shown)
  BY <1>6, RowsStep, CarriesStays DEF CallerInv
<1>8. id \in Tasks => task[id].evidence \subseteq task'[id].evidence
  BY RowsStep DEF Grown
<1>9. id' = id
  OBVIOUS
<1>10. caller[c].exit = EXIT_COMPLETED /\ caller[c].pc = "exited" => id \in Tasks
  BY <1>6 DEF CallerInv, Delivered
<1>. HIDE DEF id
<1>. QED
  BY <1>1, <1>2, <1>3, <1>4, <1>5, <1>6, <1>7, <1>8, <1>9, <1>10 DEF CallerInv, Newer, id

\* A command ends with a code that is true.
LEMMA ExitKeeps ==
  ASSUME IInv, Next, NEW c \in Callers, NEW code,
         caller'[c] = Exited(caller[c], code),
         code = EXIT_COMPLETED =>
           /\ Delivered(caller[c].id)'
           /\ caller[c].command = "open" => "deployment" \in task'[caller[c].id].evidence,
         code = EXIT_FAILED /\ caller[c].command # "open" => HasFailed(caller[c].id)',
         code = EXIT_RUNNING => Accepted(caller[c].id)'
  PROVE  CallerInv(c)'
<1>1. /\ caller'[c].pc = "exited" /\ caller'[c].seen = "unknown" /\ caller'[c].exit = code
      /\ caller'[c].id = caller[c].id
      /\ caller'[c].command = "open" <=> caller[c].command = "open"
  BY DEF Exited
<1>2. True(task', caller[c].id, "unknown")
  BY DEF True
<1>. QED
  BY <1>1, <1>2 DEF CallerInv, Delivered, Justified, HasFailed, Accepted

\* An exception claims nothing.
LEMMA BrokenKeeps ==
  ASSUME NEW c \in Callers, caller'[c] = Broken
  PROVE  CallerInv(c)'
<1>1. /\ caller'[c].pc = "exited" /\ caller'[c].seen = "unknown" /\ caller'[c].exit = Traceback
  BY DEF Broken
<1>. QED
  BY <1>1 DEF CallerInv, True, Traceback, EXIT_COMPLETED, EXIT_FAILED, EXIT_RUNNING

\* A caller is answered with what is true, and new to it.
LEMMA AnswerKeeps ==
  ASSUME IInv, Next, NEW c \in Callers, NEW seen, NEW shown,
         caller'[c] = [caller[c] EXCEPT !.pc = "answered", !.seen = seen, !.shown = shown],
         caller[c].pc \in {"asking", "served"}, UNCHANGED <<task, told>>,
         True(task, caller[c].id, seen), Carries(task, caller[c].id, seen, shown),
         seen = "unknown" => caller[c].id = Rejected, Newer(c, caller[c].id, seen)
  PROVE  CallerInv(c)'
<1>1. /\ caller'[c].pc = "answered" /\ caller'[c].seen = seen
      /\ caller'[c].shown = shown /\ caller'[c].id = caller[c].id
      /\ caller'[c].command = caller[c].command
  BY DEF IInv, TypeOK, Caller
<1>2. CallerInv(c)
  BY DEF IInv
<1>. QED
  BY <1>1, <1>2 DEF CallerInv, Newer

\* A row says of a completed task on what ground it was completed.
LEMMA CompletedJustified ==
  ASSUME IInv, NEW t \in Tasks, task[t].state = "completed"
  PROVE  Justified(t)
BY DEF IInv, TypeOK, TaskInv, Task, Justified

\* What a caller reads off its answer.
LEMMA ReadsKeep ==
  ASSUME IInv, Next, NEW c \in Callers, Reads(c)
  PROVE  CallerInv(c)'
<1>. USE DEF IInv, TypeOK
<1>. DEFINE id == caller[c].id
<1>0. task' = task /\ CallerInv(c) /\ caller[c] \in Caller
  BY DEF Reads, ReadError, ReadState, KeepWatching, PollAgain, ReadDocsUrl, Refused
<1>7. ASSUME ReadError(c) \/ ReadDocsUrl(c) PROVE caller'[c].id = caller[c].id
  BY <1>7 DEF ReadError, ReadDocsUrl, Exit, Exited
<1>1. CASE ReadError(c)
  <2>1. id = Rejected
    BY <1>0, <1>1 DEF ReadError, CallerInv
  <2>2. HasFailed(id)'
    BY <1>0, <1>1, <2>1, <1>7, EndpointAssumption DEF HasFailed
  <2>3. caller'[c] = Exited(caller[c], EXIT_FAILED)
    BY <1>1 DEF ReadError, Exit
  <2>. QED
    BY <2>1, <2>2, <2>3, ExitKeeps, EndpointAssumption
       DEF HasFailed, EXIT_FAILED, EXIT_COMPLETED, EXIT_RUNNING
<1>2. CASE ReadState(c)
  <2>1. True(task, id, caller[c].seen)
    BY <1>0 DEF CallerInv
  <2>2. caller[c].seen \in TASK_STATES \ {"unknown"}
    BY <1>0, <1>2 DEF ReadState, Caller
  <2>3. caller[c].seen = "completed" => Delivered(caller[c].id)'
    <3>. SUFFICES ASSUME caller[c].seen = "completed" PROVE Delivered(caller[c].id)'
      OBVIOUS
    <3>1. id \in Tasks /\ task[id].state = "completed"
      BY <2>1 DEF True
    <3>2. Justified(id)
      BY <3>1, CompletedJustified
    <3>3. caller'[c].id = id
      BY <1>2 DEF ReadState, Exit, Exited
    <3>. QED
      BY <1>0, <3>1, <3>2, <3>3 DEF Delivered, Justified
  <2>4. caller[c].seen = "failed" => HasFailed(caller[c].id)'
    BY <1>0, <1>2, <2>1 DEF True, HasFailed, ReadState, Exit, Exited
  <2>5. caller[c].seen = "working" => Accepted(caller[c].id)'
    BY <1>0, <1>2, <2>1 DEF True, Accepted, ReadState, Exit, Exited
  <2>6. caller'[c] = Exited(caller[c], exit_code_for(caller[c].seen))
    BY <1>2 DEF ReadState, Exit
  <2>7. caller[c].command # "open"
    BY <1>2 DEF ReadState
  <2>8. caller'[c].id = caller[c].id
    BY <2>6 DEF Exited
  <2>. HIDE DEF id
  <2>. QED
    BY <2>2, <2>3, <2>4, <2>5, <2>6, <2>7, <2>8, ExitKeeps
       DEF exit_code_for, EXIT_FAILED, EXIT_COMPLETED, EXIT_RUNNING, TASK_STATES
<1>3. CASE KeepWatching(c)
  <2>1. caller'[c] = [caller[c] EXCEPT !.pc = "sleeping"]
    BY <1>3 DEF KeepWatching
  <2>2. /\ caller'[c].pc = "sleeping" /\ caller'[c].command = caller[c].command
        /\ caller'[c].id = id /\ caller'[c].seen = caller[c].seen
    BY <1>0, <2>1 DEF Caller
  <2>3. caller[c].command = "watch" /\ caller[c].pc = "answered"
    BY <1>3 DEF KeepWatching
  <2>. QED
    BY <1>0, <2>2, <2>3 DEF CallerInv
<1>4. CASE PollAgain(c)
  <2>1. caller'[c] = [caller[c] EXCEPT !.pc = "asking", !.seen = "unknown", !.shown = {}]
    BY <1>4 DEF PollAgain
  <2>2. /\ caller'[c].pc = "asking" /\ caller'[c].command = caller[c].command
        /\ caller'[c].id = id /\ caller'[c].seen = "unknown"
    BY <1>0, <2>1 DEF Caller
  <2>3. True(task', id, "unknown")
    BY DEF True
  <2>4. caller[c].pc = "sleeping"
    BY <1>4 DEF PollAgain
  <2>. QED
    BY <1>0, <2>2, <2>3, <2>4 DEF CallerInv
<1>5. CASE ReadDocsUrl(c)
  <2>1. Carries(task, id, caller[c].seen, caller[c].shown) /\ True(task, id, caller[c].seen)
    BY <1>0, <1>5 DEF ReadDocsUrl, CallerInv
  <2>2. ASSUME "deployment" \in caller[c].shown
        PROVE  Delivered(caller[c].id)' /\ "deployment" \in task'[id].evidence
    <3>1. caller[c].seen = "completed"
      BY <2>1, <2>2 DEF Carries
    <3>2. id \in Tasks /\ task[id].state = "completed" /\ "deployment" \in task[id].evidence
      BY <2>1, <2>2, <3>1 DEF Carries, True
    <3>3. Justified(id)
      BY <3>2, CompletedJustified
    <3>. QED
      BY <1>0, <1>5, <1>7, <3>2, <3>3 DEF Delivered, Justified
  <2>3. PICK code \in {EXIT_COMPLETED, EXIT_FAILED} :
          /\ caller'[c] = Exited(caller[c], code)
          /\ code = EXIT_COMPLETED => "deployment" \in caller[c].shown
    BY <1>5 DEF ReadDocsUrl, Exit, EXIT_COMPLETED, EXIT_FAILED
  <2>4. caller[c].command = "open" /\ caller'[c].id = caller[c].id
    BY <1>5, <1>7 DEF ReadDocsUrl
  <2>. QED
    BY <2>2, <2>3, <2>4, ExitKeeps DEF EXIT_COMPLETED, EXIT_FAILED, EXIT_RUNNING
<1>6. CASE Refused(c)
  BY <1>6, BrokenKeeps DEF Refused, Breaks
<1>. QED
  BY <1>1, <1>2, <1>3, <1>4, <1>5, <1>6 DEF Reads

\* What each caller knows is true at every step, and what it is answered too.
LEMMA CallerStep ==
  ASSUME IInv, Next, NEW c \in Callers
  PROVE  CallerInv(c)'
<1>. USE DEF IInv, TypeOK
<1>1. CASE UNCHANGED <<caller[c], told[c]>>
  BY <1>1, CallerKeeps
<1>3. ASSUME NEW d \in Callers, NEW command \in COMMANDS, NEW id \in Ids, Ask(d, command, id),
             command # "submit" /\ id \in Tasks => task[id].state # "unknown"
      PROVE  CallerInv(c)'
  <2>1. CASE d = c
    <3>1. caller'[c] = [pc |-> "asking", command |-> command, id |-> id, seen |-> "unknown",
                        shown |-> {}, exit |-> Traceback]
      BY <1>3, <2>1 DEF Ask
    <3>2. command # "submit" /\ id \in Tasks => task'[id].state # "unknown"
      BY <1>3 DEF Ask
    <3>. QED
      BY <3>1, <3>2 DEF CallerInv, True
  <2>2. CASE d # c
    BY <1>1, <1>3, <2>2 DEF Ask
  <2>. QED
    BY <2>1, <2>2
<1>4. ASSUME NEW d \in Callers, Submit(d) \/ Inquire(d) PROVE CallerInv(c)'
  <2>1. CASE Submit(d)
    BY <1>3, <2>1 DEF Submit, COMMANDS
  <2>2. CASE Inquire(d)
    BY <1>3, <2>2 DEF Inquire
  <2>. QED
    BY <1>4, <2>1, <2>2
<1>5. ASSUME NEW d \in Callers, Reads(d) PROVE CallerInv(c)'
  <2>1. d # c => UNCHANGED <<caller[c], told[c]>>
    BY <1>5 DEF Reads, ReadError, ReadState, KeepWatching, PollAgain, ReadDocsUrl, Refused, Exit,
                Breaks, ReadsTask
  <2>. QED
    BY <1>1, <1>5, <2>1, ReadsKeep
<1>6. ASSUME NEW d \in Callers, GiveUp(d) PROVE CallerInv(c)'
  <2>1. d # c => UNCHANGED <<caller[c], told[c]>>
    BY <1>6 DEF GiveUp, Breaks
  <2>2. d = c => caller'[c] = Broken
    BY <1>6 DEF GiveUp, Breaks
  <2>. QED
    BY <1>1, <2>1, <2>2, BrokenKeeps
<1>7. ASSUME NEW d \in Callers, Take(d) PROVE CallerInv(c)'
  <2>1. CASE d = c /\ (Serve(c, "create") \/ Serve(c, "snapshot"))
    <3>1. caller'[c] = [caller[c] EXCEPT !.pc = "served"] /\ task' = task
      BY <1>7, <2>1 DEF Take, Serve
    <3>2. /\ caller'[c].pc = "served" /\ caller'[c].id = caller[c].id
          /\ caller'[c].command = caller[c].command /\ caller'[c].seen = caller[c].seen
      BY <3>1 DEF Caller
    <3>3. CallerInv(c) /\ caller[c].pc = "asking"
      BY <1>7, <2>1 DEF Take
    <3>. QED
      BY <3>1, <3>2, <3>3 DEF CallerInv
  <2>2. CASE d = c /\ TakeSend(c) /\ caller[c].id = Rejected
    <3>1. /\ caller'[c] = [caller[c] EXCEPT !.pc = "answered", !.seen = "failed", !.shown = {}]
          /\ caller[c].pc = "asking" /\ UNCHANGED <<task, told>>
      BY <1>7, <2>2, EndpointAssumption DEF Take, TakeSend, Answered
    <3>2. /\ True(task, caller[c].id, "failed") /\ Carries(task, caller[c].id, "failed", {})
          /\ Newer(c, caller[c].id, "failed")
      BY <2>2, EndpointAssumption DEF True, Carries, Newer
    <3>. QED
      BY <2>2, <3>1, <3>2, AnswerKeeps
  <2>3. CASE d # c
    BY <1>1, <1>7, <2>3, EndpointAssumption DEF Take, TakeSend, TakeGet, Serve, Answered
  <2>. QED
    BY <1>7, <2>1, <2>2, <2>3 DEF Take, TakeSend, TakeGet
<1>8. ASSUME Snapshot \/ BuildArtifacts, NEW seen, NEW shown, Respond(seen, shown),
             UNCHANGED <<task, told>>,
             True(task, server.id, seen), Carries(task, server.id, seen, shown),
             seen = "unknown" => server.id = Rejected,
             server.id \in Tasks => seen = task[server.id].state
      PROVE  CallerInv(c)'
  <2>1. CASE server.for = c
    <3>1. /\ caller'[c] = [caller[c] EXCEPT !.pc = "answered", !.seen = seen, !.shown = shown]
          /\ caller[c].id = server.id /\ caller[c].pc = "served"
      BY <1>8, <2>1, EndpointAssumption DEF Respond, Answered, ServedInv
    <3>2. Newer(c, server.id, seen)
      BY <1>8, NewerNow DEF Newer
    <3>. QED
      BY <1>8, <3>1, <3>2, AnswerKeeps
  <2>2. CASE server.for # c
    <3>1. server.for = NoOne \/ server.for \in Callers
      BY DEF Server
    <3>2. UNCHANGED <<caller[c], told[c]>>
      BY <1>8, <2>2, <3>1 DEF Respond, Answered
    <3>. QED
      BY <1>1, <3>2
  <2>. QED
    BY <2>1, <2>2
<1>9. CASE Snapshot
  <2>1. CASE Row(server.id).state = "completed"
    BY <1>1, <1>9, <2>1 DEF Snapshot
  <2>2. CASE Row(server.id).state # "completed"
    <3>1. Respond(Row(server.id).state, {}) /\ UNCHANGED <<task, told>> /\ server.pc = "snapshot"
      BY <1>9, <2>2 DEF Snapshot
    <3>2. CASE server.id \in Tasks
      <4>1. /\ Row(server.id).state = task[server.id].state
            /\ task[server.id].state # "unknown"
        BY <3>1, <3>2 DEF Row, ServerInv
      <4>2. /\ True(task, server.id, Row(server.id).state)
            /\ Carries(task, server.id, Row(server.id).state, {})
        BY <2>2, <3>2, <4>1 DEF True, Carries
      <4>. QED
        BY <1>8, <1>9, <3>1, <4>1, <4>2
    <3>3. CASE server.id \notin Tasks
      <4>1. server.id = Rejected /\ Row(server.id).state = "unknown"
        BY <3>3 DEF Server, Ids, Row, NoTask
      <4>2. /\ True(task, server.id, Row(server.id).state)
            /\ Carries(task, server.id, Row(server.id).state, {})
        BY <4>1 DEF True, Carries
      <4>. QED
        BY <1>8, <1>9, <3>1, <3>3, <4>1, <4>2
    <3>. QED
      BY <3>2, <3>3
  <2>. QED
    BY <2>1, <2>2
<1>10. CASE BuildArtifacts
  <2>. DEFINE shown == server.shown \cup (Row(server.id).evidence \ {"deployment"})
  <2>1. Respond("completed", shown) /\ UNCHANGED <<task, told>> /\ server.pc = "artifacts"
    BY <1>10 DEF BuildArtifacts
  <2>2. /\ server.id \in Tasks /\ Row(server.id) = task[server.id]
        /\ task[server.id].state = "completed"
        /\ task[server.id].marked \ {"tests"} \subseteq server.shown
        /\ server.shown \subseteq task[server.id].evidence
    BY <2>1 DEF ServerInv, Row
  <2>3. task[server.id].marked \subseteq task[server.id].evidence
    BY <2>2 DEF TaskInv
  <2>4. True(task, server.id, "completed") /\ Carries(task, server.id, "completed", shown)
    BY <2>2, <2>3 DEF True, Carries
  <2>. HIDE DEF shown
  <2>. QED
    BY <1>8, <1>10, <2>1, <2>2, <2>4
<1>11. CASE HandlerRaises \/ ServerStops
  <2>1. server.for = NoOne \/ server.for \in Callers
    BY DEF Server
  <2>2. told' = told /\ (caller'[c] = caller[c] \/ caller'[c] = Broken)
    BY <1>11, <2>1 DEF HandlerRaises, ServerStops
  <2>. QED
    BY <1>1, <2>2, BrokenKeeps
<1>12. CASE CreateRow \/ LaunchThread \/ ServerStarts
  BY <1>1, <1>12 DEF CreateRow, LaunchThread, ServerStarts
<1>13. ASSUME NEW t \in Tasks,
              TakeLeft(t) \/ Progress(t) \/ Finish(t) \/ ThreadEnds(t) \/ ThreadDies(t)
       PROVE  CallerInv(c)'
  BY <1>1, <1>13 DEF TakeLeft, Progress, Finish, ThreadEnds, ThreadDies
<1>. QED
  BY <1>4, <1>5, <1>6, <1>7, <1>9, <1>10, <1>11, <1>12, <1>13 DEF Next, Handler

-----------------------------------------------------------------------------
(* The invariant, and what follows from it.                                *)

\* The invariant holds at the start: no row, no request, nothing told.
LEMMA InitInv == Init => IInv
<1>. SUFFICES ASSUME Init PROVE IInv
  OBVIOUS
<1>1. TypeOK
  BY InitType
<1>2. \A t \in Tasks : TaskInv(t) /\ PendingInv(t)
  BY EndpointAssumption DEF Init, Free, NoTask, Broken, TaskInv, PendingInv, Asked, Creating
<1>3. ServerInv /\ ServedInv /\ ToldInv
  BY DEF Init, Free, ServerInv, ServedInv, ToldInv, True
<1>4. \A c \in Callers : CallerInv(c)
  <2>. SUFFICES ASSUME NEW c \in Callers PROVE CallerInv(c)
    OBVIOUS
  <2>1. /\ caller[c].pc = "exited" /\ caller[c].seen = "unknown"
        /\ caller[c].exit = Traceback /\ caller[c].id = Rejected
    BY DEF Init, Broken
  <2>. QED
    BY <2>1 DEF CallerInv, True, Traceback, EXIT_COMPLETED, EXIT_FAILED, EXIT_RUNNING
<1>. QED
  BY <1>1, <1>2, <1>3, <1>4 DEF IInv

\* Every step preserves it.
LEMMA NextInv == IInv /\ [Next]_vars => IInv'
<1>1. IInv /\ UNCHANGED vars => IInv'
  BY DEF vars, IInv, TypeOK, TaskInv, PendingInv, Asked, Creating, ServerInv, ServedInv, ToldInv,
         CallerInv, True, Carries, Newer, Delivered, Justified, HasFailed, Accepted
<1>2. ASSUME IInv, Next PROVE IInv'
  BY <1>2, NextType, RowsStep, PendingStep, ServerStep, ServedStep, ToldStep, CallerStep DEF IInv
<1>. QED
  BY <1>1, <1>2

\* So it holds for ever.
LEMMA Invariance == Spec => []IInv
BY InitInv, NextInv, PTL DEF Spec

\* Every variable keeps its type (the rows of db/models.py, the answers of
\* a2a_api/server.py, the exit codes of cli.py).
THEOREM TypeCorrect == Spec => []TypeOK
<1>1. IInv => TypeOK
  BY DEF IInv
<1>. QED
  BY <1>1, Invariance, PTL

\* The exit codes of cli.py mean what they say, for any number of users and
\* work orders, whatever times out, raises or restarts: 0 is a work order that is
\* complete, which of the rule cascade's means with all its evidence.
THEOREM ExitHonestHolds == Spec => []ExitHonest
<1>1. IInv => ExitHonest
  BY DEF IInv, CallerInv, ExitHonest
<1>. QED
  BY <1>1, Invariance, PTL

\* The answer of get_current_state and build_artifacts, put together in several
\* transactions: of a completed task it leaves out nothing that was on record
\* when the task was marked, and invents nothing, although an LLM may go on
\* recording evidence meanwhile; only the cascade makes that all the evidence.
THEOREM CompletedCarriesHolds == Spec => []CompletedCarries
<1>1. ASSUME IInv, NEW c \in Callers, caller[c].pc = "answered"
      PROVE  LET t == Row(caller[c].id)
             IN  IF caller[c].seen = "completed"
                 THEN /\ t.marked \subseteq caller[c].shown /\ caller[c].shown \subseteq t.evidence
                      /\ t.backend = "deterministic" => caller[c].shown = EVIDENCE
                 ELSE caller[c].shown = {}
  <2>1. /\ Carries(task, caller[c].id, caller[c].seen, caller[c].shown)
        /\ True(task, caller[c].id, caller[c].seen)
    BY <1>1 DEF IInv, CallerInv
  <2>2. CASE caller[c].seen = "completed"
    <3>1. /\ caller[c].id \in Tasks /\ Row(caller[c].id) = task[caller[c].id]
          /\ task[caller[c].id].state = "completed"
      BY <2>1, <2>2 DEF True, Row
    <3>2. /\ task[caller[c].id].marked \subseteq caller[c].shown
          /\ caller[c].shown \subseteq task[caller[c].id].evidence
      BY <2>1, <2>2 DEF Carries
    <3>3. task[caller[c].id].backend # "llm" => task[caller[c].id].marked = EVIDENCE
      BY <1>1, <3>1 DEF IInv, TaskInv
    <3>4. caller[c].shown \subseteq EVIDENCE
      BY <1>1 DEF IInv, TypeOK, Caller
    <3>. QED
      BY <2>2, <3>1, <3>2, <3>3, <3>4
  <2>3. CASE caller[c].seen # "completed"
    BY <2>1, <2>3 DEF Carries
  <2>. QED
    BY <2>2, <2>3
<1>2. IInv => CompletedCarries
  BY <1>1 DEF CompletedCarries
<1>. QED
  BY <1>2, Invariance, PTL

\* No user is told otherwise of the end of a task, however its commands and the
\* restarts of the server interleave.
THEOREM AnswersStandHolds == Spec => AnswersStand
<1>1. ASSUME IInv, Next, NEW c \in Callers, NEW t \in Tasks, Final(told[c][t])
      PROVE  told'[c][t] = told[c][t]
  <2>1. ASSUME NEW d \in Callers, ReadsTask(d), caller[d].pc = "answered"
        PROVE  told'[c][t] = told[c][t]
    <3>1. Newer(d, caller[d].id, caller[d].seen)
      BY <1>1, <2>1 DEF IInv, CallerInv
    <3>2. CASE d = c /\ caller[d].id = t
      BY <1>1, <2>1, <3>1, <3>2 DEF IInv, TypeOK, ReadsTask, Newer
    <3>3. CASE ~(d = c /\ caller[d].id = t)
      BY <1>1, <2>1, <3>3 DEF IInv, TypeOK, ReadsTask
    <3>. QED
      BY <3>2, <3>3
  <2>2. UNCHANGED told \/ \E d \in Callers : ReadsTask(d) /\ caller[d].pc = "answered"
    BY <1>1
       DEF Next, Reads, Handler, Submit, Inquire, Ask, ReadError, ReadState, KeepWatching,
           PollAgain, ReadDocsUrl, Refused, GiveUp, Take, TakeLeft, Snapshot, BuildArtifacts,
           HandlerRaises, ServerStarts, ServerStops, CreateRow, LaunchThread, Progress, Finish,
           ThreadEnds, ThreadDies
  <2>. QED
    BY <2>1, <2>2
<1>2. IInv /\ [Next]_vars =>
        [\A c \in Callers, t \in Tasks : Final(told[c][t]) => told'[c][t] = told[c][t]]_vars
  BY <1>1 DEF vars
<1>. QED
  BY <1>2, Invariance, PTL DEF Spec, AnswersStand

\* Every step is one of the task's own, or leaves the task as it is.
LEMMA PromiseStep ==
  ASSUME IInv, [Next]_vars, NEW t \in Tasks
  PROVE  [Promise(t)!Next]_(Promise(t)!vars)
<1>. USE DEF Promise!vars, Promise!Next, Promise!Accept, Promise!Progress, Promise!Complete,
             Promise!Fail
<1>1. TaskInv(t) /\ task \in [Tasks -> Task] /\ task[t] \in Task
  BY DEF IInv, TypeOK
<1>2. CASE UNCHANGED task[t]
  BY <1>2 DEF Justified
<1>3. CASE CreateRow
  <2>1. server.id \in Tasks /\ task[server.id].state = "unknown"
    BY <1>3 DEF CreateRow, IInv, ServerInv, PendingInv, Creating
  <2>. QED
    BY <1>1, <1>3, <2>1 DEF CreateRow, Task, Justified
<1>4. CASE LaunchThread
  <2>1. server.id \in Tasks /\ task[server.id].state = "working"
    BY <1>4 DEF LaunchThread, IInv, ServerInv
  <2>2. (task[t].state = "working" /\ task'[t].state = "working") \/ UNCHANGED task[t]
    BY <1>1, <1>4, <2>1 DEF LaunchThread, Task
  <2>3. Justified(t)' \in BOOLEAN
    BY DEF Justified
  <2>. QED
    BY <1>2, <2>2, <2>3
<1>5. CASE ServerStops \/ \E u \in Tasks : ThreadEnds(u) \/ ThreadDies(u)
  <2>1. /\ task'[t].state = task[t].state /\ task'[t].evidence = task[t].evidence
        /\ task'[t].backend = task[t].backend
    BY <1>1, <1>5 DEF ServerStops, ThreadEnds, ThreadDies, Task
  <2>. QED
    BY <2>1 DEF Justified
<1>6. ASSUME NEW u \in Tasks, Progress(u) PROVE [Promise(t)!Next]_(Promise(t)!vars)
  <2>1. CASE u # t
    BY <1>1, <1>2, <1>6, <2>1 DEF Progress
  <2>2. CASE u = t /\ task[t].backend = "llm"
    <3>1. task'[t].state = task[t].state /\ task'[t].backend = "llm"
      BY <1>1, <1>6, <2>2 DEF Progress, Task
    <3>. QED
      BY <2>2, <3>1 DEF Justified
  <2>3. CASE u = t /\ task[t].backend # "llm"
    <3>1. task[t].state = "working" /\ task'[t].state = "working"
      BY <1>1, <1>6, <2>3 DEF Progress, Task
    <3>2. Justified(t)' \in BOOLEAN
      BY DEF Justified
    <3>. QED
      BY <3>1, <3>2
  <2>. QED
    BY <2>1, <2>2, <2>3
<1>7. ASSUME NEW u \in Tasks, Finish(u) PROVE [Promise(t)!Next]_(Promise(t)!vars)
  <2>1. CASE u # t
    BY <1>1, <1>2, <1>7, <2>1 DEF Finish
  <2>2. CASE u = t
    <3>1. /\ task[t].state = "working" /\ task'[t].evidence = task[t].evidence
          /\ task'[t].backend = task[t].backend
          /\ \/ task'[t].state = "completed" /\ Justified(t)
             \/ task'[t].state = "failed"
      BY <1>1, <1>7, <2>2 DEF Finish, Task
    <3>2. UNCHANGED Justified(t)
      BY <3>1 DEF Justified
    <3>. QED
      BY <3>1, <3>2
  <2>. QED
    BY <2>1, <2>2
<1>8. \/ UNCHANGED task \/ CreateRow \/ LaunchThread \/ ServerStops
      \/ \E u \in Tasks : Progress(u) \/ Finish(u) \/ ThreadEnds(u) \/ ThreadDies(u)
  BY DEF Next, vars, Reads, Handler, Submit, Inquire, Ask, ReadError, ReadState, KeepWatching,
         PollAgain, ReadDocsUrl, Refused, GiveUp, Take, TakeLeft, Snapshot, BuildArtifacts,
         HandlerRaises, ServerStarts
<1>. QED
  BY <1>2, <1>3, <1>4, <1>5, <1>6, <1>7, <1>8

\* Whatever the requests, their abandonment and the restarts of the process, no
\* step of the endpoint takes a work order out of the order in which
\* DeliveryTask lets it be accepted, worked on and ended.  A completion of the
\* rule cascade's rests on the evidence; of an LLM's only the order is promised.
THEOREM PromisesKeptHolds == Spec => PromisesKept
<1>1. Init => \A t \in Tasks : Promise(t)!Init
  <2>1. SUFFICES ASSUME Init, NEW t \in Tasks PROVE Promise(t)!Init
    OBVIOUS
  <2>2. task[t].state = "unknown" /\ task[t].evidence = {} /\ task[t].backend = "none"
    BY <2>1 DEF Init, NoTask
  <2>3. Justified(t) = FALSE
    BY <2>2 DEF Justified, EVIDENCE
  <2>. QED
    BY <2>2, <2>3 DEF Promise!Init
<1>2. IInv /\ [Next]_vars =>
        [\A t \in Tasks : [Promise(t)!Next]_(Promise(t)!vars)]_vars
  BY PromiseStep
<1>. QED
  BY <1>1, <1>2, Invariance, PTL DEF Spec, PromisesKept
=============================================================================
