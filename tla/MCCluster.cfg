SPECIFICATION ClusterSpec
CONSTANTS
    n1 = n1
    n2 = n2
    n3 = n3
    SNAPSHOT_FETCH_ATTEMPTS = 2
    Chunks = 2
    MaxIndex = 2
    MaxTerm = 2
    MaxFaults = 2
SYMMETRY Symmetry
INVARIANTS
    
    StartsWithLoggedMembership
    
    FetchIsSound
PROPERTIES
    CommittedIsKept
    
CHECK_DEADLOCK FALSE
