SPECIFICATION Spec
CONSTANTS
  a = a
  b = b
  User = User
  Agents = {a, b}
  MaxAnswers = 5
  MaxNamed = 1
  MaxSteps = 2
  MaxSessions = 2
  MaxEvents = 1
  PerAgent = 1
SYMMETRY Symmetry
CHECK_DEADLOCK FALSE
INVARIANTS OnePostADay OneVerdict FollowUpInOneSession ScoresAreFinal
