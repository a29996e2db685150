SPECIFICATION FairSpec
CONSTANTS
  h1 = h1
  h2 = h2
  h3 = h3
  s1 = s1
  s2 = s2
  s3 = s3
  sa1 = sa1
  sa2 = sa2
  Hosts = {h1}
  Sockets = {s1, s3}
  HostOf <- ConnectingTwice
  Addresses = {sa1}
  MaxConcurrentTcpSockets = 1
  MaxMessages = 2
  Acting = {"general_inactivity", "initial_inactivity", "transmit"}
  None = None
INVARIANTS
  TypeOK
  OpenSocketIsServed
PROPERTIES
  ConnectionSettles
  AcceptingEnds
CHECK_DEADLOCK FALSE
