SPECIFICATION FairSpec
CONSTANTS
  Sender = {s1, s2, s3}
  NoSender = NoSender
  Faults = {"kill", "quit"}
INVARIANTS
  Exclusive
  OwnStatus
  LogRight
PROPERTIES
  SendEnds
CHECK_DEADLOCK FALSE
