SPECIFICATION Spec
CONSTANTS
    Sources = {100, 101, 102}
    Length <- MCSourceLength
    AudioOnly = {102}
    Silent = {}
    Cases <- MCCases
    FrameTicks = 3
    WindowTicks = 2
    MinimumGap = 6
    MinimumAir = 5
    KeepFrames = 1
    KeepAir = 1
    RatioPercent = 25
    RangePercent = 400
    Dbfs <- MCDbfs
    FloorDb = 6
    GapWindows = 2
    SustainWindows = 1
    Filler <- MCFiller
    Tools = {"tighten_pauses", "trim_boundary_air", "close_junction_air",
             "remove_words", "clean_disfluencies"}
INVARIANTS
    PausesKeepSpeech WholeClipAirKeepsSpeech SecondPassFindsNothing
    OtherWordsSurvive PictureAndSoundInStep SyncTracksFollow
CHECK_DEADLOCK FALSE
