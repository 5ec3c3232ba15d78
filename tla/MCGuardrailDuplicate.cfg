SPECIFICATION Spec
CONSTANTS
  a1 = a1
  a2 = a2
  Agents = {a1, a2}
  SeqNumbers <- FewNumbers
  NumbersOf <- NumbersOfBoth
  BodyOf <- Contents
  PruneAbove = 1
  KeepBehind = 2
  MaxWindowDrift = 4
  TTL = 1
  MaxEpoch <- EpochsOfBoth
  MaxTime = 2
  MaxMetrics = 1
  None = None
PROPERTY
  DuplicatesAreRefused
CHECK_DEADLOCK FALSE
