SPECIFICATION Spec
CONSTANTS
    Sources = {100}
    Length <- MCLength
    AudioOnly = {}
    Silent = {}
    InitialDocument <- MCDocument
    Horizon = 4
    Deltas <- MCDeltas
    MaxEdits = 1
INVARIANTS DropDoesWhatWasShown LinkedDragKeepsSync GestureFrames
CHECK_DEADLOCK FALSE
