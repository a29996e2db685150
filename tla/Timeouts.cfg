SPECIFICATION Spec
CONSTANTS
  a1 = a1
  a2 = a2
  g = g
  local = local
  middle = middle
  virtual = virtual
  r1 = r1
  r2 = r2
  r3 = r3
  r4 = r4
  f1 = f1
  sa1 = sa1
  sa2 = sa2
  Addresses = {a1, a2}
  Processors = {g}
  ProcessorOf <- BehindOne
  Gateways = {g}
  Testers = {local, virtual}
  AddressOf <- AddressOfTesters
  PriorityOf <- PriorityOfTesters
  Requests = {r1, r2, f1}
  TesterOf <- TesterOfRequests
  TargetOf <- AndFunctional
  SidOf <- SidOfRequests
  Suppressed = {r2}
  MaxResponsePending = 0
  Expiring = {"diagnostic_message", "receiving"}
  Functional = Functional
  None = None
INVARIANTS
  WorkingIsOwned
  AnswerGoesHome
CHECK_DEADLOCK FALSE
