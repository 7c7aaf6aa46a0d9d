INIT WalInit
NEXT WalNext
CONSTANTS
    MaxIndex = 2
    MaxTerm = 2
    MaxBatch = 1
    MaxCrashes = 1
    SegmentRecords = 2
    TrailingKeep = 0
    CrashPoints <- AllPoints
    MaxInFlight = 2
    Offloaded = TRUE
    FlushMayFail = TRUE
INVARIANTS
    DurableEntriesSurvive
    
    OnlyLastSegmentIsDirty
CHECK_DEADLOCK FALSE
