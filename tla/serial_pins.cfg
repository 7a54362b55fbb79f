SPECIFICATION PinsSpec
CONSTANTS
    ReadsBack = {TRUE, FALSE}
    RxSize = 2
INVARIANTS
    PinsAreTheUarts
    NoGarbledByte
    PinDecides
CHECK_DEADLOCK FALSE
