SPECIFICATION TesterFairSpec
CONSTANTS
  t1 = t1
  per = per
  file1 = file1
  file2 = file2
  r1 = r1
  r2 = r2
  p1 = p1
  p2 = p2
  NoPath = NoPath
  NoPid = NoPid
  NoTask = NoTask
  Unconfigured = Unconfigured
  Paths = {t1, per}
  Files = {file1, file2}
  FileOf <- OwnFiles
  TypeOf <- Types
  TaskPriority <- Priorities
  PassesUnset = {}
  Removable = {}
  Conditional = {}
  Pids = {p1}
  MaxTasks = 2
  MaxQueue = 1
  Tasks = {r1, r2}
  PathOf <- Directories
  AsksUser = {r1}
  AuthCodes = {1}
  MaxInbox = 2
INVARIANTS
  TesterTypeOK
  ReportIsTrue
  FailedIsOver
PROPERTIES
  EachTaskIsReported
