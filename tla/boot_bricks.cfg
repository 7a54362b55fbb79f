SPECIFICATION Spec
CONSTANTS
    old = old
    new = new
    hangsEarly = hangsEarly
    hangsLate = hangsLate
    unsigned = unsigned
    NoImage = NoImage
    Images <- MCImages
    Valid <- MCValid
    HangsEarly <- MCHangsEarly
    HangsLate <- MCHangsLate
    Factory = old
    WdtEnable = TRUE
    WdtTicks = 8
    SwapSectors = 2
    MaxPowerFails = 0
    MaxOps = 2
PROPERTIES
    BricksForGood
CHECK_DEADLOCK FALSE
