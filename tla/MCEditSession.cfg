SPECIFICATION Spec
CONSTANTS
    Sources = {100}
    Length <- MCLength
    AudioOnly = {}
    Silent = {}
    InitialDocument <- MCDocument
    Horizon = 5
    Deltas <- MCDeltas
    Plans <- MCPlans
INVARIANTS UndoRestores RedoReproduces ReopenedAsLeft
PROPERTIES LockedTrackUntouched FramesFollowTheEdit
