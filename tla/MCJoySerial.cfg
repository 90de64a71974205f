SPECIFICATION Spec
CONSTANTS
    ByteMod = 8
    SectorBytes = 1
    Sectors = 1
    BitXor <- AnyXor
    CmdRead = 3
    CmdGetId = 4
    CmdWrite = 5
    Good = 1
    BadSum = 2
    BadSector = 7
    SelectPad = 1
    SelectCard = 2
    CmdPoll = 6
    InBytes = {1, 2, 3, 6}
    Image <- BlankImage
    DualPorts = {0}
    AckDelay = 2
    AckPulse = 1
    ReadDelay = 1
    BitCycles = 1
    Bauds = {0, 2}
    Factors = {1}
    RxSize = 2
    LastSwitch = 0
    LastAxis = 1
    Controls <- SomeControls
    TickCycles = {1}
    MaxBytes = 3
INVARIANTS
    PendingHasTime
    SelectionIsSound
    IrqIsLatched
