SPECIFICATION Spec
CONSTANTS
  shop = shop
  blog = blog
  pid1 = pid1
  pid2 = pid2
  a = a
  b = b
  t1 = t1
  t2 = t2
  Projects = {shop, blog}
  Pids = {pid1, pid2}
  PortNumbers = {a, b}
  Tabs = {t1, t2}
  MaxRegistered = 2
  MaxProcesses = 2
  MaxRequests = 5
  MaxBlind = 1
SYMMETRY Symmetry
CHECK_DEADLOCK FALSE
INVARIANTS ConflictIsTwoProjects
PROPERTIES KilledAsConfirmed NoSecondServer
