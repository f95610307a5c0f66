SPECIFICATION FairSpec
CONSTANTS
  Clusters = {c1, c2}
  MaxVersion = 2
  MaxEdits = 1
  MaxFaults = 2
  MaxSick = 1
  MaxOrphans = 6
  Watchlist = {c1}
  MayRemove = FALSE
  MayRevert = FALSE
INVARIANTS NotForgotten NoOrphans SkipsAreRight
PROPERTIES Converges
CHECK_DEADLOCK FALSE
