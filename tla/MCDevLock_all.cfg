SPECIFICATION DevFairSpec
CONSTANTS
  Pid = {p1, p2, p3}
  NoPid = NoPid
  Settings <- MCSettings
INVARIANTS
  Exclusive
PROPERTIES
  TakenOver
CHECK_DEADLOCK FALSE
