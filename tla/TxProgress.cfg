CONSTANTS
    b1 = b1
    x1 = x1
    x2 = x2
    n1 = n1
    n2 = n2
    Ids <- OneBroadcast
    Txids <- TwoTxids
    TxidOf <- BroadcastTxid
    Nodes <- TwoNodes
    Priority <- NodePriority
    MaxRetries = 1
    MaxToggles = 1
    MaxApiRetries = 2
    MaxWatches = 1
    MaxForced = 0
    MaxReorgs = 0
SPECIFICATION FairSpec
INVARIANTS
    BookkeepingMatches
PROPERTIES
    BroadcastSettles
CHECK_DEADLOCK FALSE
