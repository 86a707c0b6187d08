SPECIFICATION FairSpec
CONSTANTS
  CddaMethod = "sysvipc"
  BufferChunks = 2
  Totals <- MCTotals
  MaxPlays = 2
  Faults = {"write"}
  Ops = {}
  Orderly = TRUE
PROPERTIES
  StopReturns
  PlayEnds
