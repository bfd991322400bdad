SPECIFICATION FairSpec
CONSTANTS
  p = p
  q = q
  k = k
  j = j
  s = s
  t = t
  m = m
  Nobody = Nobody
  None = None
  Procs = {p, q}
  Sources = {k}
  Sections = {s, t}
  Of <- OnePage
  About <- OneModel
  Models = {m}
  Old = {t}
  Keep = 1
  MaxPublish = 1
  MaxCrashes = 1
  MaxFaults = 1
INVARIANTS NothingUnreadIsApplied ReportedIsRecorded
PROPERTIES RecordedStays DeadLockIsFreed
