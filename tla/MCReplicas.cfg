INIT ReplicasInit
NEXT ReplicasNext
CONSTANTS
    n1 = n1
    n2 = n2
    k1 = k1
    k2 = k2
    v1 = v1
    v2 = v2
    s1 = s1
    s2 = s2
    s3 = s3
    NoSnap = NoSnap
    Replicas <- MCReplicas
    Keys <- MCKeys
    Vals <- MCVals
    Sessions <- MCSessions
    Commands <- MCCommands
    MaxLog = 3
SYMMETRY Symmetry
INVARIANTS
    TypeOK
    ReplicasAgree
    OneOutcomePerSession
    OriginIndexSound
    ReadsAreFresh
CHECK_DEADLOCK FALSE
