SPECIFICATION FairSpec
CONSTANTS
  Records = {r1}
  Replicas = {p1}
  StuckTimeout = 1
  TTL = 1
  MaxResets = 2
  CreateKeepsStatus = TRUE
PROPERTIES DetectedIsSettled
