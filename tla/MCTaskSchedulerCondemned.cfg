SPECIFICATION FairSpec
CONSTANTS
  Agents = {a1, a2}
  stream = stream
  unary = unary
  Handlers = {stream, unary}
  Duties <- ByHandler
  Cancellable = {}
  Sweeper = sweeper
  TaskTypes = {t}
  Capabilities <- AllCapable
  Statuses = {"IDLE", "UNSPECIFIED"}
  Scores = {65, 90}
  Timeout = 1
  MaxTime = 2
  MaxTasks = 1
  MaxSuspicion = 3
  None = None
PROPERTY
  CondemnedIsQuarantined
\* an automatic quarantine stops every coroutine, and the clock stops at MaxTime
CHECK_DEADLOCK FALSE
