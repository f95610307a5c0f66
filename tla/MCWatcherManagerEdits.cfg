SPECIFICATION FairSpec
CONSTANTS
  Clusters = {c1, c2}
  MaxVersion = 2
  MaxEdits = 4
  MaxFaults = 0
  MaxSick = 0
  MaxOrphans = 4
  Watchlist = {}
  MayRemove = TRUE
  MayRevert = TRUE
PROPERTIES Converges
CHECK_DEADLOCK FALSE
