SPECIFICATION DevicesSpec
CONSTANTS
    Channels = {2, 6}
    RamWords = 3
    CountMod = 4
    NodeGuard = 4
    MaxRuns = 3
    Madrs = {1}
    Bcrs <- SomeBcrs
    Chcrs <- SomeChcrs
    Priorities <- SomePriorities
    Dicrs <- SomeDicrs
    Words <- SomeWords
    DeviceWord <- Loop
    CounterMod = 3
    DotDivisor = 2
    SlowDivisor = 3
    Modes <- SomeModes
    Targets = {0, 2}
    StepCycles = {1, 4}
    MaxCycles = 9
    ByteMod = 8
    InBytes = {0, 1, 2}
    SectorBytes = 2
    Sectors = 2
    BitXor <- XorBits
    CmdRead = 1
    CmdGetId = 2
    CmdWrite = 3
    Good = 1
    BadSum = 2
    BadSector = 3
    MaxStep = 13
    MaxWrites = 1
    Image <- BlankImage
INVARIANTS
    NothingReady
    FlagsAreOwed
    IrqIsLatched
    TableIsAList
    CountsExactly
    RequestsFit
    WriteIsAtomic
    ResultIsTruthful
    ReadIsVerifiable
    FlagsCoverChanges
