SPECIFICATION Spec
CONSTANTS
    SectorBytes = 2
    LbaMod = 8
    Pregap = 2
    DiscSizes = {1, 2}
    Positions = {1, 3}
    Modes = {1}
    Filters = {0}
    Commands <- StreamCommands
    EnableMasks <- AllEnabled
    MaxQueued = 3
    MaxParams = 3
INVARIANTS
    NoStrandedInterrupt
    ReadNeverStalls
    DataIsTailOfLastSector
PROPERTIES
    MailboxSpec
    SectorKeptUntilTaken
    ReadsAreReported
