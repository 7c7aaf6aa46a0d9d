SPECIFICATION Spec
CONSTANTS
    N = 3
    Clients <- MCClients
    Home <- MCHome
    Peers <- MCPeers
    Wired = {"process"}
    SingleShot = {"http"}
    KindsOf <- MCPlain
    Retriers = {}
    Leaders = {1, 3}
    Elected = {0, 1}
    MAX_REDIRECTS = 2
    Capacity = 1
    Budget = 2
    MaxOps = 1
    MaxTries = 1
    MaxFaults = 1
INVARIANTS
    ForwardedWriteCommitted
CHECK_DEADLOCK FALSE
