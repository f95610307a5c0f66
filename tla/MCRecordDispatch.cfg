SPECIFICATION Spec
CONSTANTS
  Records = {r1}
  Replicas = {p1, p2}
  StuckTimeout = 1
  TTL = 2
  MaxResets = 1
  CreateKeepsStatus = TRUE
SYMMETRY Symmetry
INVARIANTS TypeOK ClaimsBounded DispatchesBounded OutcomeIsEarned DeletedWasTerminal
PROPERTIES TerminalStays LifecycleSpec
