SPECIFICATION Spec
CONSTANTS
  p1 = p1
  p2 = p2
  p3 = p3
  Process = {p1, p2, p3}
  None = None
  host <- MCSameHost
  MaxLocks = 3
  MaxFaults = 0
INVARIANTS SingleHolder
CHECK_DEADLOCK FALSE
