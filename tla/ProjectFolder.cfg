SPECIFICATION FolderSpec
CONSTANTS
  shop = shop
  ohmypm = ohmypm
  k1 = k1
  k2 = k2
  Projects = {shop, ohmypm}
  Self = {ohmypm}
  Clients = {k1, k2}
  MaxRequests = 2
  MaxEdits = 1
  MaxApplies = 1
SYMMETRY ClientSymmetry
CHECK_DEADLOCK FALSE
INVARIANTS BlockLoadedOnce
PROPERTIES UserTextStands BackupsStand
