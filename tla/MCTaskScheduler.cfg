SPECIFICATION FairSpec
CONSTANTS
  Agents = {a1}
  stream = stream
  unary = unary
  Handlers = {stream, unary}
  Duties <- ByHandler
  Cancellable = {stream, unary}
  Sweeper = sweeper
  TaskTypes = {t}
  Capabilities <- AllCapable
  Statuses = {"IDLE", "UNSPECIFIED"}
  Scores = {30, 65, 90}
  Timeout = 1
  MaxTime = 2
  MaxTasks = 1
  MaxSuspicion = 3
  None = None
INVARIANTS
  TypeOK
  NoCallLost
  HeldLockIsSelfWait
  StreakIsCounted
  ThresholdMeansConsecutive
PROPERTIES
  OfflineOnlyWhenSilent
  SilentAgentsAreSwept
  EveryCallReturns
