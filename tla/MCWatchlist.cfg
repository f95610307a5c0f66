SPECIFICATION Spec
CONSTANTS
  a1 = a1
  a2 = a2
  a3 = a3
  p1 = p1
  p2 = p2
  c1 = c1
  c2 = c2
  h1 = h1
  h2 = h2
  Apps = {a1, a2, a3}
  NameOf <- MCNameOf
  Places = {p1, p2}
  ClusterOf <- MCClusterOf
  Handlers = {h1, h2}
  Absent = Absent
  MaxRequests = 3
  MaxLost = 1
  MaxRestarts = 1
SYMMETRY Symmetry
INVARIANTS IndexIsRight CrdsAgree TriggersReach
PROPERTIES OwnershipSpec
CHECK_DEADLOCK FALSE
