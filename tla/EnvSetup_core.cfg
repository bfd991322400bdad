SPECIFICATION Spec
CONSTANTS
  f1 = f1
  f2 = f2
  a = a
  b = b
  c1 = c1
  c2 = c2
  None = None
  NoPlan = NoPlan
  ShowOnly = ShowOnly
  NoItem = NoItem
  Free = Free
  Contents = {a, b}
  Files = {f1}
  Clients = {c1, c2}
  Plans <- OnlyWrites
  Faults <- NoFaults
  MaxRuns = 2
  MaxEdits = 1
  MaxCrashes = 1
SYMMETRY Symmetry
INVARIANTS OneWriter NoStrandedWriter WrittenIsRevertible
PROPERTIES RevertedMeansRestored KeepsTheLedger
