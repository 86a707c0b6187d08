SPECIFICATION FairSpec
CONSTANTS
  HbInt = 2
  Skip = 2
  Timeout = 5
  FillFactor = 2
  BeatTime = 1
  FillTime = 2
  DrainTime = 2
  StartTime = 0
  MaxPlays = 2
  Faults = {"hang"}
INVARIANTS
  NoFalseAlarm
PROPERTIES
  HangFound
CHECK_DEADLOCK FALSE
