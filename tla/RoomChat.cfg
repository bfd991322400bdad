SPECIFICATION FairSpec
CONSTANTS
  t1 = t1
  t2 = t2
  editor = editor
  resumer = resumer
  paint = paint
  Keep = Keep
  Projects = {1, 2}
  Tasks = {t1, t2}
  Resumer = resumer
  Editors = {editor}
  Titles = {paint}
  Replies <- MCReplies
  HistoryLimit = 20
  ResumeMax = 1
  MaxQuestions = 2
  Removable = {1}
  MaxEdits = 1
  MaxCards = 2
  MaxCrashes = 1

CHECK_DEADLOCK FALSE
INVARIANTS QuestionsAreRead DuplicatesNeedARace
PROPERTIES ForeignCardsUntouched WaitingIsAnswered
