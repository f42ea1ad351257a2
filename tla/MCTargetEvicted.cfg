SPECIFICATION Spec
CONSTANTS
    Sources = {a}
    Weight <- MCWeight
    Budget = 4
    AheadShare <- MCShare
    FrameCount = 6
    Ticks <- MCTicks
    Files <- RegularOnly
    CatchUp = 1
    ChunkSize = 1
    Views <- MCViews
    MaxSeeks = 3
    MaxReloads = 0
    MaxFaults = 0
INVARIANTS TargetStays
