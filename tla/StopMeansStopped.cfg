SPECIFICATION Spec
CONSTANTS
  t1 = t1
  t2 = t2
  per = per
  ev = ev
  file1 = file1
  file2 = file2
  file3 = file3
  file4 = file4
  p1 = p1
  p2 = p2
  p3 = p3
  NoPath = NoPath
  NoPid = NoPid
  Paths = {t1, t2}
  Files = {file1, file2}
  FileOf <- OwnFiles
  TypeOf <- Types
  TaskPriority <- Priorities
  PassesUnset = {}
  Removable = {}
  Conditional = {}
  Pids = {p1, p2}
  MaxTasks = 2
  MaxQueue = 2
PROPERTIES
  StopMeansStopped
