-------------------------- MODULE CodexTurnProofs --------------------------
(***************************************************************************)
(* Theorems about CodexTurn, for any number of events, requests, edits and *)
(* faults: the control state is well typed, a failure stands, no turn      *)
(* outlives its thread.  What is in the buffers plays no part in these     *)
(* arguments; it is the subject of CodexBufferProofs.                      *)
(***************************************************************************)
EXTENDS CodexTurn, TLAPS

-----------------------------------------------------------------------------
(* Types.                                                                  *)

\* However the driver moves on, it goes to one of its steps.
LEMMA DriverMoves ==
  ASSUME ControlTypeOK
  PROVE  /\ \A l \in DRIVER_PC : Goto(l) => driver' \in Driver
         /\ \A req \in REQUESTS : Asked(req) => driver' \in Driver
         /\ \A exit \in EXITS : Leaves(exit) => driver' \in Driver
BY DEF ControlTypeOK, Driver, Goto, Asked, Leaves, AfterBlock, DRIVER_PC

\* A step of the worker thread keeps the control state well typed.
LEMMA DriverStepType ==
  ASSUME ControlTypeOK, DriverStep
  PROVE  ControlTypeOK'
<1>1. DRIVER_PC = {"begin", "spawn", "ask", "wait", "note", "poll", "handle",
                   "close", "record", "return", "guard", "dead"}
  BY DEF DRIVER_PC
<1>2. REQUESTS = {"initialize", "thread/start", "turn/start"}
  BY DEF REQUESTS
<1>3. EXITS = {"return", "error", "raise", "dberror"}
  BY DEF EXITS
<1>4. /\ \A l \in DRIVER_PC : Goto(l) => driver' \in Driver
      /\ \A req \in REQUESTS : Asked(req) => driver' \in Driver
      /\ \A exit \in EXITS : Leaves(exit) => driver' \in Driver
  BY DriverMoves
<1>5. driver' \in Driver
  <2>1. CASE Begin \/ Spawn \/ SpawnFails \/ Poll \/ HandledAll \/ Record \/ Return \/ Guard
    BY <1>1, <1>4, <2>1 DEF Begin, Spawn, SpawnFails, Poll, HandledAll, Record, Return, Guard
  <2>2. CASE Ask \/ WaitTimesOut \/ Note
    BY <1>1, <1>2, <1>3, <1>4, <2>2 DEF Ask, WaitTimesOut, Note
  <2>3. CASE WaitAnswered
    <3>1. Leaves("error") \/ Asked("thread/start") \/ Goto("note") \/ Goto("poll")
      <4>1. driver.req \in REQUESTS
        BY DEF ControlTypeOK, Driver
      <4>. QED
        BY <1>2, <2>3, <4>1 DEF WaitAnswered
    <3>. QED
      BY <1>1, <1>2, <1>3, <1>4, <3>1
  <2>4. CASE HandleNoted \/ HandleFinal
    <3>1. UNCHANGED driver => driver' \in Driver
      BY DEF ControlTypeOK
    <3>. QED
      BY <1>3, <1>4, <2>4, <3>1 DEF HandleNoted, HandleFinal
  <2>5. CASE Close
    BY <1>1, <1>4, <2>5 DEF Close, AfterBlock
  <2>. QED
    BY <2>1, <2>2, <2>3, <2>4, <2>5 DEF DriverStep
<1>6. /\ faults' \in 0 .. MaxFaults
      /\ tree' \in Nat
      /\ pump' \in {"off", "read", "reply", "ended", "dead"}
  <2>1. UNCHANGED faults \/ Fault
    BY DEF DriverStep, Begin, Spawn, SpawnFails, Ask, WaitAnswered,
         WaitTimesOut, Note, Poll, HandledAll, HandleNoted, HandleFinal, Close,
         Record, Return, Guard
  <2>2. UNCHANGED tree /\ (UNCHANGED pump \/ pump' = "read")
    BY DEF DriverStep, Begin, Spawn, SpawnFails, Ask, WaitAnswered,
         WaitTimesOut, Note, Poll, HandledAll, HandleNoted, HandleFinal, Close,
         Record, Return, Guard
  <2>. QED
    BY <2>1, <2>2, CodexAssumption DEF ControlTypeOK, Fault
<1>7. status' \in WORKER_STATUSES
  BY DEF ControlTypeOK, DriverStep, Begin, Spawn, SpawnFails, Ask, WaitAnswered,
         WaitTimesOut, Note, Poll, HandledAll, HandleNoted, HandleFinal, Close,
         Record, Return, Guard, Verdict, WORKER_STATUSES
<1>8. server' \in Server
  <2>1. CASE Spawn \/ Ask \/ Close
    BY <2>1 DEF ControlTypeOK, Driver, Server, Spawn, Ask, Close
  <2>. QED
    BY <2>1 DEF ControlTypeOK, DriverStep, Begin, SpawnFails, WaitAnswered,
         WaitTimesOut, Note, Poll, HandledAll, HandleNoted, HandleFinal,
         Record, Return, Guard
<1>. QED
  BY <1>5, <1>6, <1>7, <1>8 DEF ControlTypeOK

\* So does a step of the pump or of the app server.
LEMMA OtherStepType ==
  ASSUME ControlTypeOK, PumpStep \/ ServerStep
  PROVE  ControlTypeOK'
<1>. USE DEF ControlTypeOK, Server
<1>1. CASE PumpStep
  BY <1>1 DEF PumpStep, PumpReads, PumpReplies, PumpEnds
<1>2. CASE ServerBeginsTurn \/ ServerAnswers \/ ServerDies
  BY <1>2 DEF ServerBeginsTurn, ServerAnswers, ServerDies
<1>3. CASE ServerNotifies
  BY <1>3 DEF ServerNotifies
<1>4. CASE ServerRequests
  <2>1. server.requests + 1 \in 0 .. MaxRequests
    BY <1>4, CodexAssumption DEF ServerRequests
  <2>2. server.sent + 1 \in Nat
    OBVIOUS
  <2>. QED
    BY <1>4, <2>1, <2>2 DEF ServerRequests
<1>5. CASE ServerEndsTurn
  <2>1. PICK outcome \in OUTCOMES :
          server' = [server EXCEPT !.turn = outcome, !.sent = @ + 1]
    BY <1>5 DEF ServerEndsTurn
  <2>2. server.sent + 1 \in Nat
    OBVIOUS
  <2>3. server' \in Server
    BY <2>1, <2>2
  <2>. QED
    BY <1>5, <2>3 DEF ServerEndsTurn
<1>6. CASE ServerEdits
  BY <1>6 DEF ServerEdits
<1>. QED
  BY <1>1, <1>2, <1>3, <1>4, <1>5, <1>6 DEF ServerStep

\* The three processes stay in their states (CodexTurn's ControlTypeOK).
THEOREM ControlTypeCorrect == Spec => []ControlTypeOK
<1>1. Init => ControlTypeOK
  BY CodexAssumption
     DEF Init, ControlTypeOK, Driver, Server, WORKER_STATUSES, DRIVER_PC, REQUESTS, EXITS
<1>2. ControlTypeOK /\ [Next]_vars => ControlTypeOK'
  <2>1. CASE UNCHANGED vars
    BY <2>1 DEF vars, ControlTypeOK
  <2>. QED
    BY <2>1, DriverStepType, OtherStepType DEF Next
<1>. QED
  BY <1>1, <1>2, PTL DEF Spec

-----------------------------------------------------------------------------
(* A turn does not outlive its thread, and a failure stands.               *)

\* The app server has been asked for a turn only by a driver that is now waiting
\* for it, working on it or closing the client.
TurnInv ==
  /\ driver.pc \in {"begin", "spawn"} => driver.req = "initialize"
  /\ Up /\ (server.asked = "turn/start" \/ server.turn # "none")
       => driver.req = "turn/start" /\ driver.pc \in {"wait", "poll", "handle", "close"}
  /\ server.proc = "none" => server.asked = "none" /\ server.turn = "none"
  /\ driver.pc \in {"begin", "spawn"} => server.proc = "none"

\* Until the driver has reported the end of the turn the status is not final.
StatusInv ==
  /\ At("begin") => status = "starting"
  /\ driver.pc \in {"spawn", "ask", "wait", "note", "poll", "handle", "record"}
       => status = "running"
  /\ At("close") /\ driver.exit # "return" => status = "running"
  /\ At("return") => status = "failed"

ControlInv == ControlTypeOK /\ TurnInv /\ StatusInv

\* Every step of the driver, the pump and the app server keeps the turn invariant.
LEMMA TurnStep ==
  ASSUME ControlTypeOK, TurnInv, Next
  PROVE  TurnInv'
<1>. USE DEF TurnInv, Up, At, Goto
<1>1. CASE Begin \/ Spawn \/ SpawnFails
  BY <1>1 DEF ControlTypeOK, Driver, Server, Begin, Spawn, SpawnFails
<1>2. CASE Ask
  BY <1>2 DEF ControlTypeOK, Driver, Server, REQUESTS, Ask, Leaves, InBlock, AfterBlock
<1>3. CASE WaitAnswered
  BY <1>3 DEF ControlTypeOK, Driver, REQUESTS, WaitAnswered, Asked, Leaves, InBlock, AfterBlock
<1>4. CASE WaitTimesOut \/ Note
  BY <1>4 DEF ControlTypeOK, Driver, WaitTimesOut, Note, Asked, Leaves, InBlock, AfterBlock
<1>5. CASE Poll \/ HandledAll
  BY <1>5 DEF ControlTypeOK, Driver, Poll, HandledAll
<1>6. CASE HandleNoted \/ HandleFinal
  BY <1>6 DEF ControlTypeOK, Driver, HandleNoted, HandleFinal, Leaves, InBlock
<1>7. CASE Close \/ Record \/ Return \/ Guard
  BY <1>7 DEF ControlTypeOK, Driver, Server, Close, AfterBlock, Record, Return, Guard
<1>8. CASE PumpStep
  BY <1>8 DEF ControlTypeOK, Server, PumpStep, PumpReads, PumpReplies, PumpEnds
<1>9. CASE ServerBeginsTurn \/ ServerAnswers \/ ServerEdits \/ ServerDies
  BY <1>9 DEF ControlTypeOK, Server, ServerBeginsTurn, ServerAnswers, ServerEdits, ServerDies
<1>10. CASE ServerNotifies
  BY <1>10 DEF ControlTypeOK, Server, ServerNotifies
<1>11. CASE ServerRequests \/ ServerEndsTurn
  BY <1>11 DEF ControlTypeOK, Server, ServerRequests, ServerEndsTurn
<1>. QED
  BY <1>1, <1>2, <1>3, <1>4, <1>5, <1>6, <1>7, <1>8, <1>9, <1>10, <1>11
     DEF Next, DriverStep, ServerStep

\* Every step keeps the recorded status in agreement with the driver, and a failure stands.
LEMMA StatusStep ==
  ASSUME ControlTypeOK, StatusInv, Next
  PROVE  StatusInv' /\ (status = "failed" => status' = "failed")
<1>. USE DEF StatusInv, At, Goto
<1>1. CASE Begin \/ Spawn \/ SpawnFails
  BY <1>1 DEF ControlTypeOK, Driver, Begin, Spawn, SpawnFails
<1>2. CASE Ask
  BY <1>2 DEF ControlTypeOK, Driver, Ask, Leaves, AfterBlock
<1>3. CASE WaitAnswered
  BY <1>3 DEF ControlTypeOK, Driver, REQUESTS, WaitAnswered, Asked, Leaves, AfterBlock
<1>4. CASE WaitTimesOut \/ Note
  BY <1>4 DEF ControlTypeOK, Driver, WaitTimesOut, Note, Asked, Leaves, InBlock, AfterBlock
<1>5. CASE Poll \/ HandledAll
  BY <1>5 DEF ControlTypeOK, Driver, Poll, HandledAll
<1>6. CASE HandleNoted \/ HandleFinal
  BY <1>6 DEF ControlTypeOK, Driver, HandleNoted, HandleFinal, Leaves, InBlock
<1>7. CASE Close \/ Record \/ Return \/ Guard
  BY <1>7 DEF ControlTypeOK, Driver, EXITS, Close, AfterBlock, Record, Return, Guard
<1>8. CASE PumpStep
  BY <1>8 DEF PumpStep, PumpReads, PumpReplies, PumpEnds
<1>9. CASE ServerStep
  BY <1>9 DEF ServerStep, ServerBeginsTurn, ServerAnswers, ServerNotifies, ServerRequests,
              ServerEndsTurn, ServerEdits, ServerDies
<1>. QED
  BY <1>1, <1>2, <1>3, <1>4, <1>5, <1>6, <1>7, <1>8, <1>9 DEF Next, DriverStep

\* The control invariant holds in every reachable state.
LEMMA ControlInvariant == Spec => []ControlInv
<1>1. Init => ControlInv
  <2>1. Init => ControlTypeOK
    BY CodexAssumption
       DEF Init, ControlTypeOK, Driver, Server, WORKER_STATUSES, DRIVER_PC, REQUESTS, EXITS
  <2>. QED
    BY <2>1 DEF Init, ControlInv, TurnInv, StatusInv, At, Up
<1>2. ControlInv /\ [Next]_vars => ControlInv'
  <2>1. CASE UNCHANGED vars
    BY <2>1 DEF vars, ControlInv, ControlTypeOK, TurnInv, StatusInv, At, Up
  <2>. QED
    BY <2>1, DriverStepType, OtherStepType, TurnStep, StatusStep DEF Next, ControlInv
<1>. QED
  BY <1>1, <1>2, PTL DEF Spec

\* No Codex turn goes on in an app server once its worker thread is gone: every
\* way out of a turn passes through close (CodexWorkerDriver.execute).
THEOREM TurnReapedHolds == Spec => []TurnReaped
<1>1. ControlInv => TurnReaped
  BY DEF ControlInv, TurnInv, TurnReaped, At, Up
<1>. QED
  BY <1>1, ControlInvariant, PTL

\* A reported failure is never overwritten by events that are still coming in.
THEOREM FailureStandsHolds == Spec => FailureStands
<1>1. ControlInv /\ [Next]_vars => [status = "failed" => status' = "failed"]_vars
  BY StatusStep DEF ControlInv
<1>. QED
  BY <1>1, ControlInvariant, PTL DEF Spec, FailureStands
=============================================================================
