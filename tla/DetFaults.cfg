\* The deterministic backend; any two transactions may raise, the process may exit.  None of
\* these properties is about the trees, so the workspace is not edited (Det does).
CONSTANTS
  Backend = "deterministic"
  TurnBudget = 2
  MaxSteps = 10
  MaxLaunches = 3
  MaxTree = 1
  MaxFaults = 2
  MayExit = TRUE
SPECIFICATION Spec
INVARIANTS
  CompletedIsVerified
  NeverServesRed
  OneTestRun
  TurnsPaid
PROPERTIES
  VerdictFreezes
  TaskSafety
CHECK_DEADLOCK FALSE
