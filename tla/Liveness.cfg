SPECIFICATION FairSpec
CONSTANTS
  a1 = a1
  a2 = a2
  g = g
  local = local
  middle = middle
  virtual = virtual
  r1 = r1
  r2 = r2
  r3 = r3
  r4 = r4
  f1 = f1
  sa1 = sa1
  sa2 = sa2
  Addresses = {a1}
  Processors = {g}
  ProcessorOf <- BehindOne
  Gateways = {}
  Testers = {local, virtual}
  AddressOf <- AddressOfTesters
  PriorityOf <- PriorityOfTesters
  Requests = {r1, r2}
  TesterOf <- TesterOfRequests
  TargetOf <- AllToOne
  SidOf <- SidOfRequests
  Suppressed = {r1}
  MaxResponsePending = 0
  Expiring = {"diagnostic_message", "receiving", "pending"}
  Functional = Functional
  None = None
INVARIANTS
  PendingKeepsAlive
PROPERTIES
  WorkingEnds
  CachedIsServed
  RoutedIsSettled
CHECK_DEADLOCK FALSE
