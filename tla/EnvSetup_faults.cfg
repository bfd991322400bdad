SPECIFICATION FairSpec
CONSTANTS
  f1 = f1
  f2 = f2
  a = a
  b = b
  c1 = c1
  c2 = c2
  None = None
  NoPlan = NoPlan
  ShowOnly = ShowOnly
  NoItem = NoItem
  Free = Free
  Contents = {a, b}
  Files = {f1, f2}
  Clients = {c1}
  Plans <- AllPlans
  Faults <- SafeFaults
  MaxRuns = 1
  MaxEdits = 1
  MaxCrashes = 1
INVARIANTS VerdictAgrees
PROPERTIES EngineWritesAreSafe WritersFinish
