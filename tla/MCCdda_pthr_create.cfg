SPECIFICATION Spec
CONSTANTS
  CddaMethod = "pthreads"
  BufferChunks = 2
  Totals <- MCTotals
  MaxPlays = 2
  Faults = {"create"}
  Ops = {}
  Orderly = TRUE
INVARIANTS
  LockAvailable
CHECK_DEADLOCK FALSE
