SPECIFICATION Spec
CONSTANTS
  InactivityTimeout = 2
  AbsoluteTimeout = 4
  RestartWindow = 2
  ConfigErrorWindow = 2
  Counts <- MCCounts
  Zero <- MCZero
  SignalSets <- MCSignalSets
  MaxLate = 2
INVARIANTS VerdictIsEarned
CHECK_DEADLOCK FALSE
