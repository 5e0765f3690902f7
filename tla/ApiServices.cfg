CONSTANTS
    k1 = k1
    k2 = k2
    i1 = i1
    i2 = i2
    u1 = u1
    u2 = u2
    v1 = v1
    v2 = v2
    id1 = id1
    e1 = e1
    e2 = e2
    d1 = d1
    d2 = d2
    CollectionIds = {g1}
    CredentialIds = {c1, c2}
    Curators = {u1, u2}
    Items = {i1, i2}
    Labels = {l1}
    Calls = {k1, k2}
    MaxCalls = 4
    MaxFiles = 2
    Inscriptions = {r1, r2}
    InscribedIds = {g1}
    Requests = {k1, k2}
    MaxPrepares = 3
    MaxUpdates = 4
    Vcs = {v1, v2}
    VcIds = {id1}
    VcId <- SameId
    SignedVcs = {v1}
    Inscribed = {x1}
    Verifiers = {k1, k2}
    TTL = 2
    MaxTime = 4
    Fetches = {k1, k2}
    Retries = 1
    FailureThreshold = 2
    SuccessThreshold = 2
    ResetTimeout = 2
    MaxTicks = 6
    Indexable = {e1, e2}
    Rids = {d1, d2}
    RidOf <- MCRidOf
    MinedAt <- MCMinedAt
    PageSize = 1
    Loads = {1, 2}
    MaxStored = 2
    MaxListFaults = 1
SPECIFICATION Spec
INVARIANTS
    IndexComplete
    RecordsTell
    ListsWhatStays
    OpenHasTimer
PROPERTIES
    DeletedStaysDeleted
    AnswersAreRecent
SYMMETRY Symmetry
CHECK_DEADLOCK FALSE
