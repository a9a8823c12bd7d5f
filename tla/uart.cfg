SPECIFICATION Spec
CONSTANTS
    FIFO_LEN = 2
    Operations = {"SEND", "RECV", "RESET_RX", "RESET_TX", "FIFOS_ON", "FIFOS_OFF", "INT_ACK"}
    CtlWrites = {{"RX_AVAIL_INT", "TX_SPACE_INT"}, {}}
    Resets = FALSE
    SpuriousWakeups = FALSE
    ReadErrors = FALSE
    RxChars = 2
    TxChars = 2
INVARIANTS
    TypeOK
    RxConserved
    TxConserved
    StatusHonest
    NoEmptyGet
PROPERTIES
    TxDrains
    RxInterruptRaised
    Stops
CHECK_DEADLOCK FALSE
