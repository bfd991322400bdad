SPECIFICATION FairSpec
CONSTANTS
  shop = shop
  blog = blog
  ghost = ghost
  full = full
  part = part
  Projects = {shop, blog}
  Installed = {shop}
  Runs = {full, part}
  Chosen <- MCChosen
  Answers <- MCAnswers
  Rounds = 2
  Workers = 1
  MaxStops = 1
CHECK_DEADLOCK FALSE
INVARIANTS NobodyGoesMissing OneSectionEach
PROPERTIES OthersStand RunEnds
