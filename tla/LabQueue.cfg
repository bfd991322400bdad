SPECIFICATION FairQueueSpec
CONSTANTS
  w1 = w1
  w2 = w2
  x = x
  y = y
  Nobody = Nobody
  MaxNoteRequests = 3
  Topics = {x, y}
  Threads = {w1, w2}
  MaxNotes = 5
  MaxCrashes = 1
CHECK_DEADLOCK FALSE
INVARIANTS OneWorker
PROPERTIES NotesAreKept LeftoversAreAnswered
