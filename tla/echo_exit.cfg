SPECIFICATION EchoSpec
CONSTANTS
    FIFO_LEN = 2
    Operations = {"SEND", "RECV", "RESET_RX", "FIFOS_ON", "INT_ACK"}
    CtlWrites = {{"RX_AVAIL_INT"}}
    Resets = FALSE
    SpuriousWakeups = FALSE
    ReadErrors = FALSE
    RxChars = 1
    TxChars = 1
PROPERTIES
    ExitsOnQ
CHECK_DEADLOCK FALSE
