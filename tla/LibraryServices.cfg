CONSTANTS
    a1 = a1
    a2 = a2
    b1 = b1
    b2 = b2
    c1 = c1
    c2 = c2
    n1 = n1
    n2 = n2
    s1 = s1
    u1 = u1
    u2 = u2
    u3 = u3
    Keys = {a1, a2}
    Aliases = {b1, b2}
    KeyTasks = {c1, c2}
    MaxStores = 4
    MaxPasswords = 1
    NoAlias = NoAlias
    MaxEvents = 4
    MaxDays = 3
    MaxStarts = 2
    RotationSize = 2
    Retention = 1
    Numbers = {n1, n2}
    Sats = {s1}
    SatOf <- OneSat
    WithMetadata = {n1, n2}
    Holding <- Metadata
    DidNamed <- OneSat
    NoNumber = NoNumber
    SyncTasks = {a1, a2}
    MaxHeight = 3
    MaxExpiries = 1
    Coins = {u1, u2, u3}
    Worth <- Worths
    Scriptless = {u2}
    Resources = {u1}
    FeeRates = {1, 2, 10}
    Bodies = {0, 100, 600, 2000}
    MaxItems = 2
    Payments = {546, 3000, 5400}
    Vsize <- RevealVsize
    NoCoin = NoCoin
    CacheKeys = {a1, a2, n1}
    Tags = {b1, b2}
    MaxEntries = 2
    TTLs = {0, 1}
    AccessWeight = 1
    MaxClock = 3
    MaxSets = 4
    MaxGets = 3
    SigningKeys = {a1, a2}
    Queries = {b1, b2}
    MaxInscribed = 3
    MaxRetries = 1
    MaxMade = 5
    BatchSize = 3
    MaxResources = 2
    MaxFailures = 2
    MaxVersions = 4
    MaxOwnIds = 3
    MaxTimes = 2
    Builds = {c1, c2}
    MaxMoments = 3
    Letters = {n1}
    Operators = {b1, b2}
    MaxMarks = 2
    Outs = {u1, u2, u3}
    MaxOnSat = 2
    MaxSpends = 2
SPECIFICATION Spec
INVARIANTS
    QuietLogVerifies
    SyncedIsStored
    AmountsBalance
    EntriesAccounted
    RotatedKeyRefused
    CrawlIsComplete
    ReferencesLive
    EndedBuildsAreMarked
    AnswersWereTrue
PROPERTIES
    RevocationOutlives
SYMMETRY Symmetry
CHECK_DEADLOCK FALSE
