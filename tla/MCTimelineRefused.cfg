SPECIFICATION Spec
CONSTANTS
  Timeline = {t1, t2}
  Initial = {t1}
  Token = {x1}
  None = None
  Commands = {}
  MaxHistory = 1
  MaxFaults = 0
INVARIANTS SavesAreAccepted
