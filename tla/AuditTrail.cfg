SPECIFICATION Spec
CONSTANTS
  EventTypes = {"AGENT_REGISTERED", "AGENT_QUARANTINED"}
  SnapshotEvery = 2
  MaxCalls = 3
  Null = Null
INVARIANT
  EveryActionIsRecorded
CHECK_DEADLOCK FALSE
