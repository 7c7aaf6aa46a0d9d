SPECIFICATION LiveSpec
CONSTANTS
    p1 = p1
    p2 = p2
    me = me
    ghost = ghost
    Peers <- MCPeers
    Strangers <- MCStrangers
    Self = me
    Depth = 2
    MaxBatch = 2
    MaxMsgs = 5
INVARIANTS
    
    NothingLostSilently
    CommandIsReal
PROPERTIES
    QueueIsDrained
    AcksAreSent
    EveryFetchEnds
CHECK_DEADLOCK FALSE
