SPECIFICATION Spec
CONSTANTS
    old = old
    new = new
    hangsEarly = hangsEarly
    hangsLate = hangsLate
    unsigned = unsigned
    NoImage = NoImage
    Images <- MCImages
    Valid <- MCValid
    HangsEarly <- MCHangsEarly
    HangsLate <- MCHangsLate
    Factory = old
    WdtEnable = TRUE
    WdtTicks = 8
    SwapSectors = 9
    MaxPowerFails = 4
    MaxOps = 2
INVARIANTS
    TypeOK
    RunningImageValidated
    PriorImageKept
PROPERTIES
    TrialRunsOnce
    WatchdogResetsOnlyStuck
    RefinesConfirmedBoot
    EarlyHangRollsBack
    UpgradeNeverBricks
    PanicReachesBootPin
CHECK_DEADLOCK FALSE
