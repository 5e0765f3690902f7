CONSTANTS
    t1 = t1
    t2 = t2
    h1 = h1
    h2 = h2
    i1 = i1
    Tasks <- TwoTasks
    Handlers <- OneHandler
    HandlerOf <- OwnHandler
    Called <- OnlyMetadata
    Ids <- OneId
    WithMetadata <- OneId
    MaxRetries = 1
    FailureThreshold = 2
    HalfOpenMax = 2
SPECIFICATION FairSpec
PROPERTIES
    BreakerCloses
