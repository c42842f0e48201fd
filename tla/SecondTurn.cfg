\* One failing transaction after the worker thread was started.
CONSTANTS
  Backend = "deterministic"
  TurnBudget = 2
  MaxSteps = 12
  MaxLaunches = 2
  MaxTree = 4
  MaxFaults = 1
  MayExit = FALSE
SPECIFICATION Spec
INVARIANTS
  ServedIsCandidate
CHECK_DEADLOCK FALSE
