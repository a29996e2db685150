SPECIFICATION Spec
CONSTANTS
  a1 = a1
  a2 = a2
  g = g
  local = local
  middle = middle
  virtual = virtual
  r1 = r1
  r2 = r2
  r3 = r3
  r4 = r4
  f1 = f1
  sa1 = sa1
  sa2 = sa2
  Addresses = {a1}
  Processors = {g}
  ProcessorOf <- BehindOne
  Gateways = {}
  Testers = {local}
  AddressOf <- AddressOfTesters
  PriorityOf <- PriorityOfTesters
  Requests = {r2, r4}
  TesterOf <- TesterOfRequests
  TargetOf <- AllToOne
  SidOf <- SidOfRequests
  Suppressed = {}
  MaxResponsePending = 0
  Expiring = {"arbitration"}
  Functional = Functional
  None = None
PROPERTIES
  WorkingUntilFinished
CHECK_DEADLOCK FALSE
