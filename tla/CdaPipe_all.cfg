SPECIFICATION FairSpec
CONSTANTS
  Client = {a, b}
  Visual = {a}
  MaxRetries = 3
  Capacity = 2
  MaxRequests = 2
  Faults = {"intr", "kill", "exit"}
  NoPkt = NoPkt
INVARIANTS
  TypeOK
  NoDuplicate
  Conserved
PROPERTIES
  AnswerMatches
  WaitEnds
CHECK_DEADLOCK FALSE
