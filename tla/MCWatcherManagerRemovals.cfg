SPECIFICATION Spec
CONSTANTS
  Clusters = {c1, c2}
  MaxVersion = 2
  MaxEdits = 2
  MaxFaults = 1
  MaxSick = 1
  MaxOrphans = 4
  Watchlist = {c1}
  MayRemove = TRUE
  MayRevert = TRUE
INVARIANTS TypeOK NotForgotten NoOrphans SkipsAreRight
CHECK_DEADLOCK FALSE
