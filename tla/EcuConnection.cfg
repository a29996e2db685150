SPECIFICATION FairSpec
CONSTANTS
  s1 = s1
  s2 = s2
  s3 = s3
  Sockets = {s1, s2, s3}
  RoutingActivation = TRUE
  None = None
INVARIANTS
  TypeOK
  DescriptorIsOwn
PROPERTIES
  SocketIsKept
  BeliefEnds
  AnswerIsRead
  NextRequestWakes
  StopEnds
CHECK_DEADLOCK FALSE
