SPECIFICATION FairSpec
CONSTANTS
  Workers = {w1, w2, w3}
  Keys = {k1}
  MaxEvents = 3
  Slots = 2
  NoEvent = NoEvent
INVARIANTS SlotsBalance NewestSurvives StopDrains
PROPERTIES PoolSpec EverythingEnds
CHECK_DEADLOCK FALSE
