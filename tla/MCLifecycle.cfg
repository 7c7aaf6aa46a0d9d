\* Two threads and two nodes at most, with one failing step.
CONSTANTS
    Callers = {1, 2}
    Clusters <- MCClusters
    Self = 2
    Assembling = TRUE
    ConnsOutlive = TRUE
    MaxNodes = 2
    MaxFaults = 1
SPECIFICATION LifeSpec
INVARIANTS
    NothingIsLeaked
    SlotIsExact
PROPERTIES
    EveryFacadeCallReturns
    
CHECK_DEADLOCK FALSE
