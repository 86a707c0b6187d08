SPECIFICATION FairSpec
CONSTANTS
  CddaMethod = "pthreads"
  BufferChunks = 2
  Totals <- MCTotals
  MaxPlays = 2
  Faults = {}
  Ops = {"pause", "halt"}
  Orderly = TRUE
INVARIANTS
  WroteAllButOne
PROPERTIES
  StopReturns
  ImplementsStream
