SPECIFICATION FairSpec
CONSTANTS
  Disc = {d1, d2}
  NoDisc = NoDisc
  MaxLoads = 2
  MaxDepth = 3
  MaxOps = 2
  Settings <- MCSettings
INVARIANTS
  OneLookup
  RightInfo
  Watched
  Reloadable
PROPERTIES
  LoadEnds
CHECK_DEADLOCK FALSE
