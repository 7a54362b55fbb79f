SPECIFICATION Spec
CONSTANT MaxResets = 2
INVARIANTS
    FlagsAreOfThisBoot
    AppCpuStartsPrepared
    StartupAfterAllInited
    StartupRoutesKept
PROPERTY CoresStart
CHECK_DEADLOCK FALSE
