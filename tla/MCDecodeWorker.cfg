SPECIFICATION Spec
CONSTANTS
    Sources = {a}
    Weight <- MCWeight
    Budget = 4
    AheadShare <- MCShare
    FrameCount = 5
    Ticks <- MCTicks
    Files <- MCFiles
    CatchUp = 1
    ChunkSize = 2
    Views <- MCViews
    MaxSeeks = 3
    MaxReloads = 1
    MaxFaults = 1
INVARIANTS NoStaleFrame DecodesInRange WindowCached
PROPERTIES RequestServed ReloadEnds
