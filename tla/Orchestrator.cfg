SPECIFICATION OrchestratorFairSpec
CONSTANTS
  Connections = {c1, c2}
  Agents = {a1, a2}
  NoId = NoId
  None = None
  MaxFrames = 1
  Calls = {k1, k2}
  Schedules = {"weekly", "monthly"}
  Daemon = daemon
  KeyMaker = keymaker
  Absent = Absent
  Empty = Empty
  MaxPairs = 2
  FollowKeys = FALSE
INVARIANTS
  TableEntriesAreReady
  AloneMeansReachable
  AuditOutlivesCalls
  KeysAgree
PROPERTIES
  ClosedConnectionsLeave
  ShutdownCompletes
CHECK_DEADLOCK FALSE
