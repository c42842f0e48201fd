\* A model that calls any tool at any time; one transaction may raise.
CONSTANTS
  Backend = "llm"
  TurnBudget = 2
  MaxSteps = 2
  MaxLaunches = 1
  MaxTree = 2
  MaxFaults = 1
  MayExit = FALSE
SPECIFICATION FairSpec
INVARIANTS
  OneVerdict
  ReturnsWithVerdict
PROPERTIES
  VerdictStands
  SupervisionEnds
CHECK_DEADLOCK FALSE
