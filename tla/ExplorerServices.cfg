CONSTANTS
    small = small
    large = large
    text = text
    broken = broken
    p1 = p1
    p2 = p2
    a = a
    a2 = a2
    b = b
    s = s
    t = t
    cs = cs
    ct = ct
    note = note
    array = array
    picture = picture
    hollow = hollow
    prose = prose
    film = film
    r1 = r1
    r2 = r2
    g1 = g1
    g2 = g2
    g3 = g3
    None = None
    Utxos <- MCUtxos
    Value <- MCValue
    Contents <- MCContents
    Malformed = {broken}
    Rates = {1, 2}
    DefaultRate = 1
    Required <- MCRequired
    MaxAttempts = 2
    MaxAwaits = 1
    MaxMined = 1
    Packages = {p1, p2}
    Pinned = {p2}
    NoPackage = NoPackage
    MaxBatches = 3
    MaxExtras = 1
    Networks = {"mainnet", "signet"}
    XverseNetwork = "mainnet"
    MaxUpdates = 1
    MaxListings = 1
    Dids = {a, a2, b}
    SatOf <- MCSatOf
    CardsOn <- MCCardsOn
    Subject <- MCSubject
    NoDid = NoDid
    NoSat = NoSat
    Browse = Browse
    Chains = {"mainnet", "signet"}
    FirstChain = "mainnet"
    MaxMoves = 2
    MaxFetches = 2
    Slots = {1, 2}
    Environments = {{1, 2}, {}}
    PreferredSlot = 1
    Names <- MCNames
    NoProvider = NoProvider
    Placeholder = Placeholder
    MaxRuns = 2
    MaxStarts = 1
    MaxVisits = 3
    Typable = {note, array}
    Files = {picture, hollow, prose, film}
    JsonItems = {note, array}
    JsonObjects = {note}
    Blank = {hollow}
    Oversize <- MCOversize
    FileType <- MCFileType
    Signature <- MCSignature
    Offerable = {"text/plain", "application/json", "image/png"}
    Metas = {"credential", "other"}
    Orders = {1}
    MaxReads = 1
    Fields = {"name"}
    Pieces = {r1, r2}
    Listable = {g1, g2, g3}
    Inscribed = {g1}
    Credentialed = {g2}
    Rank <- MCRank
    Subjects = {a}
    NoSubject = NoSubject
    PerPage = 1
    MaxMounts = 1
    MaxSent = 2
    MaxAsks = 3
    MaxPages = 2
SPECIFICATION Spec
INVARIANTS
    ConfirmingIsOnChain
    CompletedWasAccepted
    NetworkSettles
    ComparedWithOwnSat
    ExchangeIsOfItsForm
    InscribedAsPrepared
    PickedIsKept
CHECK_DEADLOCK FALSE
