SPECIFICATION Spec
CONSTANTS
    AddrSpace = 2
    IntLine = {0}
    EnableBit = {0, 1}
    CpNum = {0}
    CounterMod = 1
    Program = {"alu", "branch", "bal", "jlr", "ll", "ldw", "stw", "sc", "mfcp", "mtcp", "cpop", "int", "rfi", "mfctl", "mtctl", "sleep"}
    WritableReg <- Registers
    StatusWrites <- QuietStatus
    MaskWrites <- Masks
    AddrWrites = {1}
    CounterWrites = {0}
    MemLen = 1
    MEMIF_DELAY = 1
    Device = {0}
INVARIANTS
    TypeOK
    NoStrayAccess
    FetchesPc
    NoAbandonedAccess
    OneCycleOnBus
    SleepsWakeable
PROPERTIES
    UserConfined
    LinkDiscipline
    ImplementsIsa
CHECK_DEADLOCK FALSE
