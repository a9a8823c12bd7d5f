SPECIFICATION Spec
CONSTANTS
    TimerMod = 3
    WordMod = 2
    datalen = 2
    CP_NVRAM_DELAY_CYCLES = 3
    CtlWrites = {{"READ_INT", "WRITE_INT"}, {"READ_INT"}}
INVARIANTS
    TypeOK
    WritesApplied
    PinMeansAnswer
PROPERTIES
    TimerCountsDown
    AnswersRequest
    RequestsAnswered
    PinsAsAssumed
