SPECIFICATION Spec
CONSTANTS
    Sources = {a}
    Weight <- MCWeight
    Budget = 4
    AheadShare <- MCShare
    FrameCount = 5
    Ticks <- MCTicks
    Files <- VariableOnly
    CatchUp = 1
    ChunkSize = 2
    Views <- MCViews
    MaxSeeks = 3
    MaxReloads = 0
    MaxFaults = 0
PROPERTIES DecoderRests
