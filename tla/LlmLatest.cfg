\* The tests are run twice.
CONSTANTS
  Backend = "llm"
  TurnBudget = 1
  MaxSteps = 4
  MaxLaunches = 1
  MaxTree = 2
  MaxFaults = 0
  MayExit = FALSE
SPECIFICATION Spec
INVARIANTS
  LatestEvidence
CHECK_DEADLOCK FALSE
