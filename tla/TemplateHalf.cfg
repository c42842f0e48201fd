\* What ensure_bare_repo leaves behind when a command of it fails.
CONSTANTS
  d1 = d1
  d2 = d2
  p1 = p1
  p2 = p2
  Deliveries <- MCDeliveries
  NoCommit = NoCommit
  Ports <- MCPorts
  PortOf <- MCPortOf
  NoPort = NoPort
  MaxRetries = 1
  MaxTree = 2
SPECIFICATION Spec
INVARIANTS
  TemplateWhole
CHECK_DEADLOCK FALSE
