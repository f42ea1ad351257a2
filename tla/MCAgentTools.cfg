SPECIFICATION Spec
CONSTANTS
    t1 = t1
    t2 = t2
    t3 = t3
    None = None
    Hosts = {"window", "server"}
    Timelines = {t1, t2, t3}
    FirstTimelines = {t1, t2}
    Strict = FALSE
    MaxIterations = 2
    Requests <- MCRequests
    MaxTurns = 2
    MaxUserSteps = 1
    MaxFaults = 1
INVARIANTS NothingUnsaved EveryToolAnswered PanelShowsItsSession
PROPERTIES TurnEnds ServerStops
CHECK_DEADLOCK FALSE
