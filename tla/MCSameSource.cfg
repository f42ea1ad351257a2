SPECIFICATION Spec
CONSTANTS
    Sources = {a}
    Weight <- MCWeight
    Budget = 6
    AheadShare <- MCShare
    FrameCount = 6
    Ticks <- MCTicks
    Files <- RegularOnly
    CatchUp = 1
    ChunkSize = 2
    Views <- SameSource
    MaxSeeks = 3
    MaxReloads = 0
    MaxFaults = 0
PROPERTIES RequestServed
