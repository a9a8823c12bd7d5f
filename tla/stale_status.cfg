SPECIFICATION Spec
CONSTANTS
    AddrSpace = 3
    IntLine = {0}
    EnableBit = {0, 1}
    CpNum = {0}
    CounterMod = 2
    Program = {"branch", "ldw", "mtcp", "rfi", "mtctl", "sleep"}
    WritableReg = {"status", "ienable"}
    StatusWrites <- LoudStatus
    MaskWrites = {{0}}
    AddrWrites = {1}
    CounterWrites = {0}
    MemLen = 2
    MEMIF_DELAY = 1
    Device = {0}
PROPERTY
    TrapSavesMode
CHECK_DEADLOCK FALSE
