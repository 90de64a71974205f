SPECIFICATION IrqSpec
CONSTANTS
    SectorBytes = 1
    LbaMod = 8
    Pregap = 2
    DiscSizes = {2}
    Positions = {1, 3}
    Modes = {1}
    Filters = {1}
    Commands <- AllCommands
    EnableMasks <- AllEnabled
    MaxQueued = 3
    MaxParams = 3
    MaxCommands = 3
INVARIANTS
    LineAndStatusAgree
PROPERTIES
    EverythingDelivered
CHECK_DEADLOCK FALSE
