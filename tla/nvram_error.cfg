SPECIFICATION Spec
CONSTANTS
    TimerMod = 2
    WordMod = 2
    datalen = 2
    CP_NVRAM_DELAY_CYCLES = 1
    CtlWrites = {{"READ_INT"}}
PROPERTIES
    BadAddressSignalled
