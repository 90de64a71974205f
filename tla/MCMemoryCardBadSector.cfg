SPECIFICATION CardSpec
CONSTANTS
    ByteMod = 8
    InBytes = {0, 1, 2}
    SectorBytes = 2
    Sectors = 2
    BitXor <- XorBits
    CmdRead = 1
    CmdGetId = 2
    CmdWrite = 3
    Good = 1
    BadSum = 2
    BadSector = 3
    MaxStep = 13
    MaxWrites = 1
    Image <- BlankImage
INVARIANTS
    NeverPanics
CHECK_DEADLOCK FALSE
