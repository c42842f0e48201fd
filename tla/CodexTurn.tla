------------------------------ MODULE CodexTurn ------------------------------
(***************************************************************************)
(* One Codex worker turn in detail: the thread that runs                   *)
(* CodexWorkerDriver.execute under the crash guard (codex/worker_driver.py),*)
(* the client's stdout pump thread (codex/app_server_client.py) and the    *)
(* app server process at the other end of the pipes, which is external.    *)
(* Module Worker is the abstract view of the same thread.                  *)
(*                                                                         *)
(* A line on the wire is a response, a notification or a server-to-client  *)
(* request.  Those the driver may see (its own thread's, or nobody's) are  *)
(* numbered in the order they were sent; the others have number 0.  Lines  *)
(* that are not JSON are dropped by the pump and left out.                 *)
(***************************************************************************)
EXTENDS WorkOrder

CONSTANTS
  MaxSent,      \* events the app server sends in its turn
  MaxRequests,  \* requests the app server makes of the client
  MaxTree,      \* edits of the workspace
  MaxFaults     \* transactions that raise

ASSUME CodexAssumption ==
  /\ MaxSent \in Nat \ {0}
  /\ MaxRequests \in Nat
  /\ MaxTree \in Nat \ {0}
  /\ MaxFaults \in Nat

VARIABLES
  status,     \* the worker_status column
  driver,     \* the worker thread: pc, the request in progress, and how it
              \* is leaving the client's with block
  batch,      \* events poll_events returned, not handled yet
  events,     \* the client's buffer, _events
  responses,  \* the client's _responses
  pump,       \* the stdout pump thread
  wire,       \* lines the app server wrote and the pump has not read
  server,     \* the app server: process, request being served, turn, events
              \* and requests sent, and whether it waits for a reply
  tree,       \* the workspace
  faults      \* transactions that raised so far

clientVars == <<batch, events, responses>>
vars == <<status, driver, batch, events, responses, pump, wire, server, tree, faults>>

REQUESTS == {"initialize", "thread/start", "turn/start"}

\* How the turn ended, as turn/completed says.
OUTCOMES == {"completed", "interrupted", "failed"}

\* "retry" and "error" are error notifications, with and without willRetry;
\* "foreign" belongs to another thread; "shutdown" is the pump's own event.
NOTIFICATIONS == {"item", "retry", "error", "foreign"}
EVENTS == NOTIFICATIONS \cup OUTCOMES \cup {"request", "shutdown"}

Message == [kind : EVENTS \cup {"ok", "refused"}, req : REQUESTS \cup {"none"}, n : Nat]
IsResponse(m) == m.kind \in {"ok", "refused"}
Event(kind, n) == [kind |-> kind, req |-> "none", n |-> n]

DRIVER_PC == {"begin", "spawn", "ask", "wait", "note", "poll", "handle",
              "close", "record", "return", "guard", "dead"}

\* What goes on after the with block: a return, a CodexAppServerError, another
\* exception, an exception of the database.
EXITS == {"return", "error", "raise", "dberror"}

Driver == [pc : DRIVER_PC, req : REQUESTS, exit : EXITS]

Server == [proc : {"none", "up", "down"}, asked : REQUESTS \cup {"none"},
           turn : OUTCOMES \cup {"none", "running"},
           sent : Nat, requests : 0 .. MaxRequests, waits : BOOLEAN]

\* The state of the three processes ...
ControlTypeOK ==
  /\ status \in WORKER_STATUSES
  /\ driver \in Driver
  /\ pump \in {"off", "read", "reply", "ended", "dead"}
  /\ server \in Server
  /\ tree \in Nat
  /\ faults \in 0 .. MaxFaults

\* ... and the messages between them.
BufferTypeOK ==
  /\ batch \in Seq(Message)
  /\ events \in Seq(Message)
  /\ responses \in SUBSET Message
  /\ wire \in Seq(Message)

TypeOK == ControlTypeOK /\ BufferTypeOK

Init ==
  /\ status = "starting"
  /\ driver = [pc |-> "begin", req |-> "initialize", exit |-> "return"]
  /\ batch = <<>> /\ events = <<>> /\ responses = {}
  /\ pump = "off" /\ wire = <<>>
  /\ server = [proc |-> "none", asked |-> "none", turn |-> "none",
               sent |-> 0, requests |-> 0, waits |-> FALSE]
  /\ tree = 1
  /\ faults = 0

Fault == faults < MaxFaults /\ faults' = faults + 1
At(l) == driver.pc = l
Goto(l) == driver' = [driver EXCEPT !.pc = l]

-----------------------------------------------------------------------------
(* The worker thread.                                                      *)

\* set_status("running"); an exception escapes to the crash guard.
Begin ==
  /\ At("begin")
  /\ \/ status' = "running" /\ Goto("spawn") /\ UNCHANGED faults
     \/ Fault /\ Goto("guard") /\ UNCHANGED status
  /\ UNCHANGED <<clientVars, pump, wire, server, tree>>

\* CodexAppServerClient.start: the process and its pump, then "initialize".
Spawn ==
  /\ At("spawn")
  /\ Goto("ask")
  /\ server' = [server EXCEPT !.proc = "up"]
  /\ pump' = "read"
  /\ UNCHANGED <<status, clientVars, wire, tree, faults>>

\* No such command: an OSError, which execute does not handle.
SpawnFails ==
  /\ At("spawn")
  /\ Goto("guard")
  /\ UNCHANGED <<status, clientVars, pump, wire, server, tree, faults>>

\* Leaving execute.  __enter__ runs start, so that an exception of "initialize"
\* is raised before the with block is entered and nothing closes the client.
AfterBlock(exit) ==
  CASE exit = "return" -> "dead"
    [] exit = "error"  -> "record"
    [] OTHER           -> "guard"

\* Mutant: an error ends the turn without the client being closed.
LeavesOpen(exit) ==
  driver' = [driver EXCEPT !.pc = AfterBlock(exit), !.exit = exit]

InBlock == ~(driver.pc \in {"ask", "wait"} /\ driver.req = "initialize")

Leaves(exit) ==
  driver' = [driver EXCEPT !.pc = IF InBlock THEN "close" ELSE AfterBlock(exit),
                           !.exit = exit]

\* _request writes to the app server's stdin; a broken pipe is an OSError.
Ask ==
  /\ At("ask")
  /\ IF server.proc = "up"
     THEN Goto("wait") /\ server' = [server EXCEPT !.asked = driver.req]
     ELSE Leaves("raise") /\ UNCHANGED server
  /\ UNCHANGED <<status, clientVars, pump, wire, tree, faults>>

Asked(req) == driver' = [driver EXCEPT !.pc = "ask", !.req = req]

\* The request waits for the response with its own id.
WaitAnswered ==
  /\ At("wait")
  /\ \E r \in responses :
       /\ r.req = driver.req
       /\ responses' = responses \ {r}
       /\ IF r.kind = "refused" THEN Leaves("error")
          ELSE CASE driver.req = "initialize"   -> Asked("thread/start")
                 [] driver.req = "thread/start" -> Goto("note")
                 [] driver.req = "turn/start"   -> Goto("poll")
  /\ UNCHANGED <<status, batch, events, pump, wire, server, tree, faults>>

\* No response within the timeout: the app server is slow, stuck or gone.
WaitTimesOut ==
  /\ At("wait")
  /\ \A r \in responses : r.req # driver.req
  /\ Leaves("error")
  /\ UNCHANGED <<status, clientVars, pump, wire, server, tree, faults>>

\* add_event("thread_started").
Note ==
  /\ At("note")
  /\ \/ Asked("turn/start") /\ UNCHANGED faults
     \/ Fault /\ Leaves("dberror")
  /\ UNCHANGED <<status, clientVars, pump, wire, server, tree>>

\* poll_events(thread_id): drains what is the thread's or nobody's.  While that
\* is nothing, the loop of _consume_events goes round and changes nothing.
Mine == {m \in Message : m.kind # "foreign"}

\* The messages of s that are in M, in their order (a recursive function, so
\* that it can be reasoned about).
Filtered(s, M) ==
  LET f[i \in 0 .. Len(s)] ==
        IF i = 0 THEN <<>> ELSE IF s[i] \in M THEN Append(f[i - 1], s[i]) ELSE f[i - 1]
  IN  f[Len(s)]

\* Mutant: the whole buffer is dropped once the drained events are returned.
PollAll ==
  /\ At("poll")
  /\ Filtered(events, Mine) # <<>>
  /\ batch' = <<Head(Filtered(events, Mine))>>
  /\ events' = <<>>
  /\ Goto("handle")
  /\ UNCHANGED <<status, responses, pump, wire, server, tree, faults>>

Poll ==
  /\ At("poll")
  /\ Filtered(events, Mine) # <<>>
  /\ batch' = Filtered(events, Mine)
  /\ events' = Filtered(events, Message \ Mine)
  /\ Goto("handle")
  /\ UNCHANGED <<status, responses, pump, wire, server, tree, faults>>

HandledAll ==
  /\ At("handle")
  /\ batch = <<>>
  /\ Goto("poll")
  /\ UNCHANGED <<status, clientVars, pump, wire, server, tree, faults>>

\* An item or a retried error is mirrored by add_event; a request is ignored.
HandleNoted ==
  /\ At("handle") /\ batch # <<>>
  /\ Head(batch).kind \in {"item", "retry", "request"}
  /\ batch' = Tail(batch)
  /\ \/ UNCHANGED <<driver, faults>>
     \/ Head(batch).kind # "request" /\ Fault /\ Leaves("dberror")
  /\ UNCHANGED <<status, events, responses, pump, wire, server, tree>>

\* Mutants: an interrupted turn counts as done, or as waiting for more; the
\* app server's word is passed on as it is.
VerdictLenient(m) == IF m.kind \in {"completed", "interrupted"} THEN "done" ELSE "failed"
VerdictWaits(m) ==
  IF m.kind = "interrupted" THEN "waiting" ELSE IF m.kind = "completed" THEN "done" ELSE "failed"
VerdictRaw(m) == m.kind

\* What turn/completed, or an error that will not be retried, makes of the turn.
Verdict(m) == IF m.kind = "completed" THEN "done" ELSE "failed"

\* Mutant: the loop goes on after an error.
HandleFinalLoops ==
  /\ At("handle") /\ batch # <<>>
  /\ Head(batch).kind \in OUTCOMES \cup {"error", "shutdown"}
  /\ batch' = Tail(batch)
  /\ \/ /\ status' = Verdict(Head(batch))
        /\ IF Head(batch).kind = "error" THEN UNCHANGED driver ELSE Leaves("return")
        /\ UNCHANGED faults
     \/ Fault /\ Leaves("dberror") /\ UNCHANGED status
  /\ UNCHANGED <<events, responses, pump, wire, server, tree>>

HandleFinal ==
  /\ At("handle") /\ batch # <<>>
  /\ Head(batch).kind \in OUTCOMES \cup {"error", "shutdown"}
  /\ batch' = Tail(batch)
  /\ \/ status' = Verdict(Head(batch)) /\ Leaves("return") /\ UNCHANGED faults
     \/ Fault /\ Leaves("dberror") /\ UNCHANGED status
  /\ UNCHANGED <<events, responses, pump, wire, server, tree>>

\* close: terminate, then kill.  The last wait may raise TimeoutExpired, which
\* takes the place of whatever was on its way.
Close ==
  /\ At("close")
  /\ \E next \in {AfterBlock(driver.exit), "guard"} : Goto(next)
  /\ server' = [server EXCEPT !.proc = "down"]
  /\ UNCHANGED <<status, clientVars, pump, wire, tree, faults>>

\* except CodexAppServerError: set_status("failed").
Record ==
  /\ At("record")
  /\ \/ status' = "failed" /\ Goto("return") /\ UNCHANGED faults
     \/ Fault /\ Goto("guard") /\ UNCHANGED status
  /\ UNCHANGED <<clientVars, pump, wire, server, tree>>

Return ==
  /\ At("return")
  /\ Goto("dead")
  /\ UNCHANGED <<status, clientVars, pump, wire, server, tree, faults>>

\* _crash_guarded_execute.
Guard ==
  /\ At("guard")
  /\ Goto("dead")
  /\ \/ status' = "failed" /\ UNCHANGED faults
     \/ Fault /\ UNCHANGED status
  /\ UNCHANGED <<clientVars, pump, wire, server, tree>>

DriverStep ==
  \/ Begin \/ Spawn \/ SpawnFails \/ Ask \/ WaitAnswered \/ WaitTimesOut \/ Note
  \/ Poll \/ HandledAll \/ HandleNoted \/ HandleFinal
  \/ Close \/ Record \/ Return \/ Guard

-----------------------------------------------------------------------------
(* The pump thread: _pump_stdout.                                          *)

PumpReads ==
  /\ pump = "read"
  /\ wire # <<>>
  /\ LET m == Head(wire) IN
       /\ IF IsResponse(m)
          THEN responses' = responses \cup {m} /\ UNCHANGED events
          ELSE events' = Append(events, m) /\ UNCHANGED responses
       /\ pump' = IF m.kind = "request" THEN "reply" ELSE "read"
  /\ wire' = Tail(wire)
  /\ UNCHANGED <<status, driver, batch, server, tree, faults>>

\* The reply to a request is written by the pump itself.  Nothing catches the
\* exception of a broken pipe or a closed client: the thread dies.
PumpReplies ==
  /\ pump = "reply"
  /\ IF server.proc = "up"
     THEN pump' = "read" /\ server' = [server EXCEPT !.waits = FALSE]
     ELSE pump' = "dead" /\ UNCHANGED server
  /\ UNCHANGED <<status, driver, clientVars, wire, tree, faults>>

\* Mutant: the end of stdout goes unnoticed.
PumpEndsSilently ==
  /\ pump = "read"
  /\ wire = <<>> /\ server.proc = "down"
  /\ pump' = "ended"
  /\ UNCHANGED <<status, driver, clientVars, wire, server, tree, faults>>

\* "stdout closed: record an error event so pollers observe the shutdown".
PumpEnds ==
  /\ pump = "read"
  /\ wire = <<>> /\ server.proc = "down"
  /\ events' = Append(events, Event("shutdown", 0))
  /\ pump' = "ended"
  /\ UNCHANGED <<status, driver, batch, responses, wire, server, tree, faults>>

PumpStep == PumpReads \/ PumpReplies \/ PumpEnds

-----------------------------------------------------------------------------
(* The app server (external): what it may do, as the driver uses it.       *)

Up == server.proc = "up"
Write(m) == wire' = Append(wire, m)

\* A turn is under way before or after turn/start is answered.
ServerBeginsTurn ==
  /\ Up /\ server.asked = "turn/start" /\ server.turn = "none"
  /\ server' = [server EXCEPT !.turn = "running"]
  /\ UNCHANGED <<status, driver, clientVars, pump, wire, tree, faults>>

ServerAnswers ==
  /\ Up /\ server.asked # "none"
  /\ \E kind \in {"ok", "refused"} :
       /\ server.asked = "turn/start" => (kind = "ok" <=> server.turn # "none")
       /\ Write([kind |-> kind, req |-> server.asked, n |-> 0])
  /\ server' = [server EXCEPT !.asked = "none"]
  /\ UNCHANGED <<status, driver, clientVars, pump, tree, faults>>

\* Bound: one event of another thread, which nobody ever takes from the buffer.
NoForeign == Filtered(events \o wire, Message \ Mine) = <<>>

ServerNotifies ==
  /\ Up /\ server.turn = "running"
  /\ server.sent < MaxSent
  /\ \E kind \in NOTIFICATIONS :
       LET n == IF kind = "foreign" THEN 0 ELSE server.sent + 1 IN
       /\ kind = "foreign" => NoForeign
       /\ Write(Event(kind, n))
       /\ server' = [server EXCEPT !.sent = IF n = 0 THEN @ ELSE n]
  /\ UNCHANGED <<status, driver, clientVars, pump, tree, faults>>

ServerRequests ==
  /\ Up /\ server.turn = "running"
  /\ server.requests < MaxRequests /\ ~server.waits
  /\ Write(Event("request", server.sent + 1))
  /\ server' = [server EXCEPT !.sent = @ + 1, !.requests = @ + 1, !.waits = TRUE]
  /\ UNCHANGED <<status, driver, clientVars, pump, tree, faults>>

ServerEndsTurn ==
  /\ Up /\ server.turn = "running" /\ ~server.waits
  /\ \E outcome \in OUTCOMES :
       /\ Write(Event(outcome, server.sent + 1))
       /\ server' = [server EXCEPT !.turn = outcome, !.sent = @ + 1]
  /\ UNCHANGED <<status, driver, clientVars, pump, tree, faults>>

ServerEdits ==
  /\ Up /\ server.turn = "running"
  /\ tree < MaxTree
  /\ tree' = tree + 1
  /\ UNCHANGED <<status, driver, clientVars, pump, wire, server, faults>>

ServerDies ==
  /\ Up
  /\ server' = [server EXCEPT !.proc = "down"]
  /\ UNCHANGED <<status, driver, clientVars, pump, wire, tree, faults>>

ServerStep ==
  \/ ServerBeginsTurn \/ ServerAnswers \/ ServerNotifies \/ ServerRequests
  \/ ServerEndsTurn \/ ServerEdits \/ ServerDies

-----------------------------------------------------------------------------
Next == DriverStep \/ PumpStep \/ ServerStep

Spec == Init /\ [][Next]_vars

\* Both threads are scheduled; the app server may do nothing for ever.
FairSpec == Spec /\ WF_vars(DriverStep) /\ WF_vars(PumpStep)

-----------------------------------------------------------------------------
(* Properties.                                                             *)

Numbered == {m \in Message : m.n # 0}

\* No event of the turn is lost, repeated or reordered between the app server
\* and the driver: what is drained, buffered and on the wire is, in this order,
\* the last of what was sent, however drains and appends interleave.
EventsInOrder ==
  LET pending == Filtered(batch \o events \o wire, Numbered)
  IN \A i \in DOMAIN pending : pending[i].n = server.sent - Len(pending) + i

\* "done" is only ever reported of a turn the app server completed.
DoneIsCompleted == status = "done" => server.turn = "completed"

\* A failure once reported is not turned into a success by the events that
\* are still coming in.
FailureStands == [][status = "failed" => status' = "failed"]_vars

\* When the worker thread is gone, no Codex turn goes on editing the workspace.
TurnReaped == At("dead") => ~(Up /\ server.turn = "running")

\* The end of the app server process ends the worker thread too, whatever it
\* was doing, as long as the pump is there to tell of it.
ShutdownEndsTurn == server.proc = "down" ~> At("dead") \/ pump = "dead"

\* "Record an error event so pollers observe the shutdown" (_pump_stdout).
\* Not so: a pump that dies replying to a request does not record it.
ShutdownObserved == server.proc = "down" ~> At("dead")

\* A turn that has ended, in whichever way, is brought to its report; only the
\* crash guard's own failing transaction leaves the thread dead without one.
EndReported ==
  server.turn \in OUTCOMES ~> status \in {"done", "failed"} \/ (At("dead") /\ faults > 0)

\* The turn, seen through its status, is a worker thread of module Worker.
WorkerPc ==
  CASE At("begin") -> "begin"
    [] At("guard") -> "guard"
    [] At("dead") -> "dead"
    [] At("return") -> "failing"
    [] At("close") /\ driver.exit = "return" ->
         IF status = "done" THEN "closing" ELSE "failing"
    [] OTHER -> "working"

\* An exception of the database reaches the guard once the client is closed.
Escaped == faults - (IF At("close") /\ driver.exit = "dberror" THEN 1 ELSE 0)

Thread == INSTANCE Worker WITH
  MaxLaunches <- 1, worker <- <<WorkerPc>>, faults <- Escaped,
  row <- WithWorkerStatus(Created(NoRow), status)

\* Every step of the three is a step of that thread, or invisible to it.
IsWorkerThread == [][Thread!WorkerStep(1)]_<<WorkerPc, status, tree, Escaped>>
=============================================================================
