---------------------------- MODULE DeliveryTask ----------------------------
(***************************************************************************)
(* What one delivery promises to the client that submitted it (the A2A     *)
(* task of docs/designs/work-order-state.md, section 5): the task is       *)
(* accepted, worked on, and ends exactly once.  It is completed only while *)
(* the delivery is verified, and what was verified then stays so.          *)
(***************************************************************************)
VARIABLES state,      \* the task state a client reads
          verified    \* the delivered service is tested, deployed and healthy

vars == <<state, verified>>

TypeOK ==
  /\ state \in {"unknown", "working", "completed", "failed"}
  /\ verified \in BOOLEAN

Init == state = "unknown" /\ verified = FALSE

Accept == state = "unknown" /\ state' = "working" /\ UNCHANGED verified

\* While the task is open the evidence for it may come (and go).
Progress == state = "working" /\ verified' \in BOOLEAN /\ UNCHANGED state

Complete ==
  /\ state = "working"
  /\ verified
  /\ state' = "completed"
  /\ UNCHANGED verified

Fail == state = "working" /\ state' = "failed" /\ UNCHANGED verified

Next == Accept \/ Progress \/ Complete \/ Fail

Safety == Init /\ [][Next]_vars

\* An accepted task is brought to an end.
Spec == Safety /\ WF_vars(Complete \/ Fail)
=============================================================================
