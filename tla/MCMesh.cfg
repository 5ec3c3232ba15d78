SPECIFICATION MeshSpec
CONSTANTS
  Agents = {a1}
  stream1 = stream1
  stream2 = stream2
  unary = unary
  Handlers = {stream1, stream2, unary}
  Duties <- ByCall
  Cancellable = {stream1, stream2, unary}
  Sweeper = sweeper
  TaskTypes = {t}
  Capabilities <- AllCapable
  Statuses = {"IDLE"}
  Scores = {65, 90}
  Timeout = 0
  MaxTime = 0
  MaxTasks = 9
  MaxSuspicion = 9
  Arrivals = {1, 2, 3}
  Suspicious = 65
  Successes = {TRUE}
  MaxSessions = 2
  None = None
INVARIANTS
  MeshTypeOK
  SessionsMatchPool
  MetricsKept
  CountedIsAudited
  AlarmIsAnswered
PROPERTIES
  QuarantineHoldsBack
  UsesPool
CHECK_DEADLOCK FALSE
