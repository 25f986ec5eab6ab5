CONSTANTS
    N = 2
    MaxEvents = 3
    MaxFaults = 2
SPECIFICATION FairSpec
CHECK_DEADLOCK FALSE
INVARIANTS
    MirrorIsExact
    AbsenceIsReal
PROPERTIES
    NothingSkippedForEver
    FullScanSettles
    ArchivedIsIndexed
