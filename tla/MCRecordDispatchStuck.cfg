SPECIFICATION Spec
CONSTANTS
  Records = {r1}
  Replicas = {p1, p2}
  StuckTimeout = 1
  TTL = 1
  MaxResets = 1
  CreateKeepsStatus = TRUE
PROPERTIES ResetOnlyWhenStuck
