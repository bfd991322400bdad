SPECIFICATION FairSpec
CONSTANTS
  c1 = c1
  c2 = c2
  Free = Free
  Clients = {c1, c2}
  MaxSessions = 2
  Stages = 1
  MaxCalls = 1
  MaxCrashes = 1
CHECK_DEADLOCK FALSE
INVARIANTS OneDiscussion ClosedIsQuiet ClosedHasScores
PROPERTIES DiscussionEnds
