CONSTANTS
    w1 = w1
    w2 = w2
    Workers <- TwoReplicas
    BatchSize = 2
    Concurrency = 2
    StartInscription = 0
    InitTip = 2
    MaxTip = 2
    MaxNumber = 5
    Epoch = 10000
    MaxHours = 1
    MaxExits = 1
    Faults <- ExitFaults
SYMMETRY Symmetry
SPECIFICATION Spec
INVARIANTS
    CopiesBounded
    PassedIsAccounted
CHECK_DEADLOCK FALSE
