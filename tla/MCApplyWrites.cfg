SPECIFICATION Spec
ACTION_CONSTRAINT WritesOrReads
SYMMETRY Symmetry
CONSTANTS
    Sessions = {s1, s2}
    ApplyDepth = 1
    OutcomeDepth = 1
    BacklogLimit = 2
    SnapshotEvery = 2
    MaxLog = 3
    MaxProposals = 2
    MaxConf = 1
    MaxReads = 1
    MaxInstalls = 1
    MaxLeaderships = 1
INVARIANTS
    RepliesAreOwn
    AppliesInLogOrder
CHECK_DEADLOCK FALSE
