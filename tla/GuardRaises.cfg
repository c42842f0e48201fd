\* Two failing transactions in a row around a worker crash.
CONSTANTS
  Backend = "deterministic"
  TurnBudget = 2
  MaxSteps = 10
  MaxLaunches = 3
  MaxTree = 3
  MaxFaults = 2
  MayExit = FALSE
SPECIFICATION Spec
INVARIANTS
  WorkerDeathReported
CHECK_DEADLOCK FALSE
