CONSTANTS
    w1 = w1
    w2 = w2
    Workers <- OneReplica
    BatchSize = 6
    Concurrency = 1
    StartInscription = 0
    InitTip = 2
    MaxTip = 3
    MaxNumber = 12
    Epoch = 10000
    MaxHours = 0
    MaxExits = 0
    Faults <- ProviderFaults
SPECIFICATION Spec
PROPERTIES
    LedgerSpec
CHECK_DEADLOCK FALSE
