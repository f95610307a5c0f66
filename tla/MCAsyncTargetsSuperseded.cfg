SPECIFICATION Spec
CONSTANTS
  Workers = {w1, w2, w3}
  Keys = {k1}
  MaxEvents = 3
  Slots = 2
  NoEvent = NoEvent
PROPERTIES SupersededIsSilent
CHECK_DEADLOCK FALSE
