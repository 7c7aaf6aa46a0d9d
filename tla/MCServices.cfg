SPECIFICATION ServicesSpec
\* Watch streams: one subscription on one of two prefixes; the channel and the
\* queue fill up.
CONSTANTS
    Keys = {"a", "b"}
    Ranges = {{"a"}, {"a", "b"}}
    Watchers = {"w"}
    APPLY_QUEUE_DEPTH = 1
    WATCH_BUFFER = 2
    SnapshotLimit = 1
    MaxIndex = 3
    MaxJump = 1
    n1 = n1
    n2 = n2
    c1 = c1
    c2 = c2
SYMMETRY Symmetry
INVARIANTS
    WatchIsComplete
    
    ExpiredMeansHappened
    LocalReadsAreExact
    NoLostWakeup
    VerdictIsExact
    ReportsAreViolations
    ServersAreKnown
CHECK_DEADLOCK FALSE
