SPECIFICATION FrontendSpec
CONSTANTS
    Frame = 6
    MinCost = 2
    MaxCost = 4
    Runs <- SomeRuns
    MaxTime = 60
    ArgSets <- SomeArgs
    Paths = {"x", "y"}
    Cues <- SomeCues
    Steps = 5
    Period = 3
    Chunk = 2
    Capacity = 3
    MaxWrites = 3
    MaxRuns = 2
CHECK_DEADLOCK FALSE
INVARIANTS
    FrameRate
    SavedAtTheEnd
    WavIsComplete
    CueMountsDataTrack
PROPERTIES
    NoWriteIsUndone
