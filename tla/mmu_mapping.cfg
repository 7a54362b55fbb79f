SPECIFICATION Spec
CONSTANTS
    PageSize <- MCPageSize
    DromPages = 3
    IromPages = 3
    SlotPage = 2
    Layouts <- MCLayouts
    BootTables <- MCBootTables
INVARIANTS
    SegmentsReadRight
    ResultMayBeIgnored
    UncountedPageInvalid
PROPERTIES
    TableChangesUncached
CHECK_DEADLOCK FALSE
