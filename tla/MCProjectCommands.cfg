SPECIFICATION Spec
CONSTANTS
  Timeline = {t1, t2}
  Initial = {t1}
  Token = {x1, x2}
  None = None
  Commands = {"closed"}
  MaxHistory = 2
  MaxFaults = 0
INVARIANTS TypeOK JournalsDescribeUnlessRewound
SYMMETRY Symmetry
