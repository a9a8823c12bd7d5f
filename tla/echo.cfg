SPECIFICATION EchoSpec
CONSTANTS
    FIFO_LEN = 2
    Operations = {"SEND", "RECV", "RESET_RX", "FIFOS_ON", "INT_ACK"}
    CtlWrites = {{"RX_AVAIL_INT"}}
    Resets = FALSE
    SpuriousWakeups = FALSE
    ReadErrors = FALSE
    RxChars = 5
    TxChars = 4
INVARIANTS
    EchoesInOrder
PROPERTIES
    Answered
CHECK_DEADLOCK FALSE
