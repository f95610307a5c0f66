SPECIFICATION Spec
CONSTANTS
  Clusters = {c1}
  MaxVersion = 3
  MaxEdits = 1
  MaxFaults = 1
  MaxSick = 1
  MaxOrphans = 4
  Watchlist = {}
  MayRemove = FALSE
  MayRevert = FALSE
INVARIANTS OwnsAllWatchers
CHECK_DEADLOCK FALSE
