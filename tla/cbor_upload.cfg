SPECIFICATION Spec
CONSTANTS
    NStates = 4
    MinIndetLen = 64
    IndetLen = 112
    MapLengths <- MCMapLengths
INVARIANTS
    AcceptsOnlyUploads
    RejectsOnlyOthers
    BackupsNest
    AlternativesStartFresh
CHECK_DEADLOCK FALSE
