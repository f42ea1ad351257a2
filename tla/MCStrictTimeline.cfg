SPECIFICATION Spec
CONSTANTS
    t1 = t1
    t2 = t2
    t3 = t3
    None = None
    Hosts = {"window"}
    Timelines = {t1, t2, t3}
    FirstTimelines = {t1, t2}
    Strict = TRUE
    MaxIterations = 2
    Requests <- MCRequests
    MaxTurns = 1
    MaxUserSteps = 1
    MaxFaults = 0
INVARIANTS EditsNameTheirTimeline
CHECK_DEADLOCK FALSE
