SPECIFICATION Spec
CONSTANTS
    FIFO_LEN = 2
    Operations = {"SEND", "RECV", "CLEAR", "FIFOS_ON", "FIFOS_OFF"}
    CtlWrites = {}
    Resets = TRUE
    SpuriousWakeups = TRUE
    ReadErrors = TRUE
    RxChars = 3
    TxChars = 3
INVARIANTS
    BoxesBounded
    SentOnce
CHECK_DEADLOCK FALSE
