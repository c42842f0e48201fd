\* The app server may make a request of the client; one transaction may raise.
CONSTANTS
  MaxSent = 2
  MaxRequests = 1
  MaxTree = 2
  MaxFaults = 1
SPECIFICATION FairSpec
INVARIANTS
  TypeOK
  TurnReaped
  DoneIsCompleted
  EventsInOrder
PROPERTIES
  FailureStands
  IsWorkerThread
  ShutdownEndsTurn
  EndReported
CHECK_DEADLOCK FALSE
