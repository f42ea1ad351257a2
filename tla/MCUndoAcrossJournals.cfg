SPECIFICATION Spec
CONSTANTS
  Timeline = {t1}
  Initial = {t1}
  Token = {x1, x2, x3}
  None = None
  Commands = {}
  MaxHistory = 1
  MaxFaults = 0
INVARIANTS JournalsDescribeTimelines
SYMMETRY Symmetry
