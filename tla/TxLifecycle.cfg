CONSTANTS
    b1 = b1
    x1 = x1
    x2 = x2
    n1 = n1
    n2 = n2
    Ids <- OneBroadcast
    Txids <- OneTxid
    TxidOf <- BroadcastTxid
    Nodes <- TwoNodes
    Priority <- NodePriority
    MaxRetries = 1
    MaxToggles = 0
    MaxApiRetries = 2
    MaxWatches = 2
    MaxForced = 1
    MaxReorgs = 1
SPECIFICATION Spec
INVARIANTS
    WatchedIsPolled
    FinalizedOncePerWatch
    BroadcastConfirmedIsFinal
CHECK_DEADLOCK FALSE
