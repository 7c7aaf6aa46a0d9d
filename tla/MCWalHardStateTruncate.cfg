SPECIFICATION Spec
CONSTANTS
    MaxIndex = 1
    MaxTerm = 2
    MaxBatch = 1
    MaxCrashes = 1
    SegmentRecords = 2
    TrailingKeep = 0
    CrashPoints <- BetweenOps
    MaxInFlight = 1
    Offloaded = FALSE
    FlushMayFail = FALSE
INVARIANT HardStateSurvives
CHECK_DEADLOCK FALSE
