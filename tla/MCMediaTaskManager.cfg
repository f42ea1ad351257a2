SPECIFICATION FairSpec
CONSTANTS
  Task = {t1, t2}
  Worker = {w1, w2}
  Client = {c1, c2}
  None = None
INVARIANTS CancelHonoured QueueConsistent
PROPERTIES EveryTaskEnds NobodyWaitsForever
CHECK_DEADLOCK FALSE
