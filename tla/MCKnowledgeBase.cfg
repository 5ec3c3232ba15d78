SPECIFICATION Spec
CONSTANTS
  x1 = x1
  x2 = x2
  x3 = x3
  Processes = {daemon, now}
  Papers = {x1, x2, x3}
  Alerts = {v1}
  Matches <- KeywordMatches
  Excluded = {}
  MaxFetched = 2
  MaxCycles = 4
INVARIANTS
  NoDuplicateRows
  RowsAreKnown
  KnownIsWritten
CHECK_DEADLOCK FALSE
