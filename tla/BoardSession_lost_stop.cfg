SPECIFICATION Spec
CONSTANTS
  c1 = c1
  c2 = c2
  Free = Free
  Clients = {c1, c2}
  MaxSessions = 2
  Stages = 1
  MaxCalls = 1
  MaxCrashes = 1
SYMMETRY Symmetry
CHECK_DEADLOCK FALSE
PROPERTIES NoCallAfterStop
