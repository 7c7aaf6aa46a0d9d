SPECIFICATION Spec
CONSTANTS
    MaxIndex = 3
    MaxInFlight = 2
    MaxCrashes = 1
    Snapshots = {2, 3}
    Offloaded = TRUE
    FlushMayFail = TRUE
INVARIANTS
    AcksAreDurable
    PersistedIsDurable
    HandOutIsSound
CHECK_DEADLOCK FALSE
