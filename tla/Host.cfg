\* Two deliveries race on one host; any command fails, any process exits.
CONSTANTS
  d1 = d1
  d2 = d2
  p1 = p1
  p2 = p2
  Deliveries <- MCDeliveries
  NoCommit = NoCommit
  Ports <- MCPorts
  PortOf <- MCPortOf
  NoPort = NoPort
  MaxRetries = 1
  MaxTree = 2
SPECIFICATION FairSpec
INVARIANTS
  TypeOK
  OneBaseline
  CandidateIsHead
  UrlIsOwn
PROPERTIES
  CallsReturn
CHECK_DEADLOCK FALSE
