SPECIFICATION Spec
CONSTANTS
  CddaMethod = "pthreads"
  BufferChunks = 2
  Totals <- MCTotals
  MaxPlays = 2
  Faults <- AllButCreate
  Ops = {"halt"}
  Orderly = TRUE
INVARIANTS
  TypeOK
  MutualExclusion
  RingConsistent
  InOrder
  Quiescent
CHECK_DEADLOCK FALSE
