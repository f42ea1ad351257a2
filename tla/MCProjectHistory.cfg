SPECIFICATION Spec
CONSTANTS
  Timeline = {t1, t2}
  Initial = {t1, t2}
  Token = {x1, x2, x3}
  None = None
  Commands = {}
  MaxHistory = 1
  MaxFaults = 1
INVARIANTS DisplayedIsDurable JournalsDescribeUnlessRewound OfferedAutosaveIsNewer
SYMMETRY Symmetry
