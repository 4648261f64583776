SPECIFICATION MCSpec
CONSTANTS
    None = None
    Shares = {s1, s2}
    Objects = {o1, o2}
    Deleters = {d1, d2}
    Revokers = {r1}
    DefaultTTL = 1
    MaxTTL = 1
    ShareTime = 1
    ShareFaults = 1
    Uploads <- AllUploads
    Policies <- AllPolicies
    IntakeFaults = 1
    Chunks = {0, 1, 2, 3}
    ScanLimit = 1
    FanoutFaults = 2
    Archives <- AllArchives
    MaxDepth = 2
    MaxEntries = 5
    MaxSingle = 3
    MaxTotal = 5
    MaxRatio = 2
    MaxProbe = 2
    MediaFiles <- AllMedia
    MaxNesting = 3
    Files = {1, 2}
    InBody = {2}
    States <- AllStates
    Queries <- AllQueries
    PageSize = 2
    MaxOverlay = 4
    OverlayTTL = TRUE
    MaxEvents = 2
    Reads = {a1, a2, a3}
    Keys = {1, 2}
    Window = 2
    MaxSeen = 0
    AccessTime = 4
    AccessFaults = 1
    MaxKey = 3
    MaxTampers = 2
    HashOriginals = TRUE
SYMMETRY Symmetry
INVARIANTS DeletionIsExact StoredWasInspected StoredWhole ProtectedWasOpened ChecksDecide AllEnd VerdictIsRight OnlyMetadataGone ShownIsCurrent QuietExact ReadsAreRecorded VerifyIsExact
CHECK_DEADLOCK FALSE
