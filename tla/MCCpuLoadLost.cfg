SPECIFICATION Spec
CONSTANTS
    AddrMod = 16
    Regs = {0, 1}
    Link = 1
    Values = {6}
    Offsets = {4}
    JumpTargets = {0}
    BadAddrs = {2}
    Unmapped = {}
    Codes = {"Syscall"}
    Statuses <- SomeStatuses
    Ops = {"alu", "load", "mtc0", "rfe"}
    ResetVector = 0
    BootVector = 8
    RamVector = 4
PROPERTIES
    ViewSpec
