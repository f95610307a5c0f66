SPECIFICATION FairSpec
CONSTANTS
  Clusters = {c1}
  MaxVersion = 3
  MaxEdits = 2
  MaxFaults = 0
  MaxSick = 1
  MaxOrphans = 4
  Watchlist = {}
  MayRemove = TRUE
  MayRevert = TRUE
PROPERTIES NewFilesAreWatched
CHECK_DEADLOCK FALSE
