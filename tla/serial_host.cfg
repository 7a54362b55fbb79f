SPECIFICATION Spec
CONSTANTS
    FifoSize = 3
    MaxInput = 4
    ReplySizes = {1, 3}
    MaxBytes = 6
INVARIANTS
    TypeOK
    DeliveredInOrder
    StopsAtCapacity
    FullLineFlagged
    RepliesWhole
PROPERTIES
    LineIsReturned
CHECK_DEADLOCK FALSE
