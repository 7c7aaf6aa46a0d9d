SPECIFICATION Spec
CONSTANTS
    Nodes = {1, 2, 3}
    Voters0 = {1}
    Learners0 = {2, 3}
    Leader0 = 1
    promote_lag_entries = 1
    Changes <- MCGrow
    Crashing = {}
    MaxLog = 4
    MaxWrites = 1
    MaxAsked = 2
    MaxElections = 1
    MaxRestarts = 0
INVARIANT OneChangeAtATime
CHECK_DEADLOCK FALSE
