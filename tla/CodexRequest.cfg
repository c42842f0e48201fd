\* The app server asks for something and dies before it has the reply.
CONSTANTS
  MaxSent = 2
  MaxRequests = 1
  MaxTree = 1
  MaxFaults = 0
SPECIFICATION FairSpec
PROPERTIES
  ShutdownObserved
CHECK_DEADLOCK FALSE
