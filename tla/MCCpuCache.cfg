SPECIFICATION PartsSpec
CONSTANTS
    AddrMod = 16
    Regs = {0, 1}
    Link = 1
    Values = {6}
    Offsets = {4}
    JumpTargets = {0}
    BadAddrs = {2}
    Unmapped = {12}
    Codes = {"Syscall"}
    Statuses <- SomeStatuses
    Ops <- AllOps
    ResetVector = 0
    BootVector = 8
    RamVector = 4
    RamPages = 2
    MirroredPages = 3
    CacheLines = {0}
    Touched <- SomeAddresses
    Segments = {"kuseg", "kseg1"}
    TagBits <- SomeTagBits
    MaxStores = 2
INVARIANTS
    FlowIsConsistent
PROPERTIES
    RestartPoint
    DelayIsKept
    RfeReturns
    MemorySpec
