SPECIFICATION FairSpec
CONSTANTS
  t1 = t1
  t2 = t2
  per = per
  ev = ev
  file1 = file1
  file2 = file2
  file3 = file3
  file4 = file4
  p1 = p1
  p2 = p2
  p3 = p3
  NoPath = NoPath
  NoPid = NoPid
  Paths = {t1, per, ev}
  Files = {file1, file4}
  FileOf <- SharedFiles
  TypeOf <- Types
  TaskPriority <- Priorities
  PassesUnset = {}
  Removable = {per}
  Conditional = {t1}
  Pids = {p1, p2}
  MaxTasks = 2
  MaxQueue = 2
INVARIANTS
  TypeOK
  ChildIsCurrent
  WaitingIsWoken
  PersistenceMatches
PROPERTIES
  TaskIsAnswered
  ExecutedMeansExecuted
