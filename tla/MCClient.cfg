SPECIFICATION LiveSpec
CONSTANTS
    N = 3
    Clients <- MCClients
    Home <- MCHome
    Peers <- MCPeers
    Wired = {"process"}
    SingleShot = {"http"}
    KindsOf <- MCEvident
    Retriers = {"embedded"}
    Leaders = {1, 3}
    Elected = {0, 1}
    MAX_REDIRECTS = 1
    Capacity = 1
    Budget = 2
    MaxOps = 2
    MaxTries = 2
    MaxFaults = 1
INVARIANTS
    HttpStatusIsHonest
PROPERTIES
    
    EveryCallReturns
CHECK_DEADLOCK FALSE
