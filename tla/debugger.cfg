SPECIFICATION DebugSpec
CONSTANTS
    AddrSpace = 2
    IntLine = {0}
    EnableBit = {0}
    CpNum = {0}
    CounterMod = 1
    Program = {"ldw", "cpop", "rfi", "mtctl", "sleep"}
    WritableReg = {"ienable"}
    StatusWrites = {}
    MaskWrites = {{0}}
    AddrWrites = {1}
    CounterWrites = {0}
    MemLen = 0
    MEMIF_DELAY = 1
    Device = {0}
    MaxSteps = 1
    Nowhere = Nowhere
INVARIANTS
    GotoLands
    BusesKept
PROPERTIES
    StallsEnd
    InterruptsTaken
    PromptReturns
CHECK_DEADLOCK FALSE
