SPECIFICATION Spec
CONSTANTS
  Timeline = {t1, t2}
  Initial = {t1}
  Token = {x1, x2}
  None = None
  Commands = {"open"}
  MaxHistory = 1
  MaxFaults = 0
PROPERTIES NoOtherSaveReplaced
SYMMETRY Symmetry
