SPECIFICATION Spec
CONSTANTS
    FlashSize = 16
    AreaStart = 4
    AreaSize = 10
    RamSize = 9
    BufSize = 4
    Beyond = 8
    MaxCalls = 2
PROPERTIES
    ImplementsBytes
    OverrunByLongReadOnly
CHECK_DEADLOCK FALSE
