SPECIFICATION Spec
CONSTANTS
  p1 = p1
  p2 = p2
  p3 = p3
  Process = {p1, p2, p3}
  None = None
  host <- MCOtherHost
  MaxLocks = 4
  MaxFaults = 1
INVARIANTS Exclusive
PROPERTIES StaleOnly
SYMMETRY LocalSymmetry
CHECK_DEADLOCK FALSE
