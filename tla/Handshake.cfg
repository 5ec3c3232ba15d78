SPECIFICATION Spec
CONSTANTS
  Agents = {a1}
  MaxFresh = 10
  None = None
INVARIANT SessionKeysAgree
CHECK_DEADLOCK FALSE
