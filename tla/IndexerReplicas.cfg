CONSTANTS
    w1 = w1
    w2 = w2
    Workers <- TwoReplicas
    BatchSize = 2
    Concurrency = 2
    StartInscription = 0
    InitTip = 4
    MaxTip = 4
    MaxNumber = 40
    Epoch = 10000
    MaxHours = 0
    MaxExits = 0
    Faults <- NoFaults
SPECIFICATION FairSpec
INVARIANTS
    ClaimsDisjoint
PROPERTIES
    EventuallyIndexed
