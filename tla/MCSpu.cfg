SPECIFICATION Spec
CONSTANTS
    UnitHalfwords = 2
    RamHalfwords = 18
    BlockEnd = 3
    MaxStep = 2
    VoiceCount = 2
    CaptureHalfwords = 2
    FifoDepth = 2
    CyclesPerSample = 2
    Setups <- SomeSetups
    Controls <- SomeControls
    Halfwords = {0, 1}
    TransferTypes = {3}
    Units = {4, 8}
    Adsrs <- SomeAdsrs
    Pitches = {3}
    Levels <- SomeLevels
    ReverbSetups <- SomeReverbs
    Wet = 2
    TickCycles = {1, 3}
    MaxWrites = 2
INVARIANTS
    InterruptIsOwed
    EndedVoicesAreReported
PROPERTIES
    UploadLandsInPlace
    SamplesAreSafe
    ReleasedFallsSilent
