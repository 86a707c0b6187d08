SPECIFICATION Spec
CONSTANTS
  Toc <- MCToc
  DataTracks = {2}
  Orders <- MCOrders
  Programs <- MCPrograms
  OpSets <- MCOpSets
  Indexes = {1}
  StoppedAs = {"idle", "paused"}
  Faults = {}
  ClipFrames = 0
  MinPlayBlks = 0
  PrevThreshold = 0
  SkipBlks = 1
  SrchBlks = 2
  SampleBlks = 1
  ErrSkip = 1
  ErrClear = 2
  MaxRecover = 1
  MaxNoStat = 1
  MaxStray = 2
  MaxCalls = 4
  MaxServed = 6
INVARIANTS
  Polled
  Silent
  InList
  InSegment
PROPERTIES
  InTurn
  Proceeds
CHECK_DEADLOCK FALSE
