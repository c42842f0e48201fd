\* The deterministic backend with a dependable database.
CONSTANTS
  Backend = "deterministic"
  TurnBudget = 2
  MaxSteps = 10
  MaxLaunches = 2
  MaxTree = 4
  MaxFaults = 0
  MayExit = FALSE
SPECIFICATION FairSpec
INVARIANTS
  TypeOK
  ServedIsCandidate
  WorkerDeathReported
  CompletedHasCheck
PROPERTIES
  EventuallyTerminal
  TaskSpec
CHECK_DEADLOCK FALSE
