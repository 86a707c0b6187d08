SPECIFICATION Spec
CONSTANTS
  Prog = {x, c}
  Xmcd = x
  Disc = {d1, d2}
  MaxHist = 2
  HIST_HYST = 1
  MaxTime = 4
  MaxFiles = 6
  Settings <- MCSettings
INVARIANTS
  FileAgrees
  Shown
  Gone
CHECK_DEADLOCK FALSE
