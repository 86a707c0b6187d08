SPECIFICATION Spec
CONSTANTS
  Pid = {p1, p2, p3}
  NoPid = NoPid
  Client = {c1}
  Overlap = FALSE
  Faults = {"crash"}
INVARIANTS
  OneDaemon
  NamesLead
CHECK_DEADLOCK FALSE
