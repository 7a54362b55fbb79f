SPECIFICATION Spec
CONSTANTS
    Payloads <- MCPayloads
    LineBytes = 3
    BufSize = 11
    MaxOut = 9
    Masks <- MCMasks
    MaxPackets = 2
INVARIANTS
    AcceptedWasSent
    IntactAccepted
    OutFits
    CrcIsRemainder
CHECK_DEADLOCK FALSE
