\* Any step of run_delivery may raise; the worker may crash, hang or be late.
CONSTANTS
  MaxLaunches = 1
  MaxTree = 3
  MaxFaults = 2
SPECIFICATION FairSpec
INVARIANTS
  TypeOK
  ServedIsTested
  ResultIsDurable
PROPERTIES
  LateWorkerHarmless
  TaskSafety
  EventuallyReturns
CHECK_DEADLOCK FALSE
