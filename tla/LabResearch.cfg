SPECIFICATION Spec
CONSTANTS
  shop = shop
  k1 = k1
  models = models
  design = design
  Projects = {shop}
  Self = {}
  Clients = {k1}
  MaxRequests = 1
  MaxEdits = 0
  MaxApplies = 0
  RESEARCHERS <- MCResearchers
  Catalog = {models}
  Titles = {"t"}
  MaxResearches = 2
  MaxFaults = 1
CHECK_DEADLOCK FALSE
INVARIANTS WrittenIsInFile ProposedOnce GuardAgrees
