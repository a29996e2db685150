SPECIFICATION Spec
CONSTANTS
  h1 = h1
  h2 = h2
  h3 = h3
  s1 = s1
  s2 = s2
  s3 = s3
  sa1 = sa1
  sa2 = sa2
  Hosts = {h1, h2, h3}
  Sockets = {s1, s2, s3}
  HostOf <- ConnectingOnce
  Addresses = {sa1, sa2}
  MaxConcurrentTcpSockets = 1
  MaxMessages = 4
  Acting = {"alive_check"}
  None = None
INVARIANTS
  OneConnectionPerAddress
  RegisteredWithinLimit
  AnswerIsComing
  PromiseIsSetOnce
SYMMETRY Alike
CHECK_DEADLOCK FALSE
