SPECIFICATION Spec
CONSTANTS
  p1 = p1
  p2 = p2
  p3 = p3
  Process = {p1, p2}
  None = None
  host <- MCSameHost
  MaxLocks = 2
  MaxFaults = 0
PROPERTIES NeverWedged
CHECK_DEADLOCK FALSE
