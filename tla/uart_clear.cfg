SPECIFICATION Spec
CONSTANTS
    FIFO_LEN = 2
    Operations = {"SEND", "RECV", "CLEAR"}
    CtlWrites = {}
    Resets = FALSE
    SpuriousWakeups = FALSE
    ReadErrors = FALSE
    RxChars = 2
    TxChars = 2
INVARIANTS
    NoEmptyGet
CHECK_DEADLOCK FALSE
