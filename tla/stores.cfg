CONSTANTS
    None = None
    Other = Other
    p1 = p1
    p2 = p2
    n1 = n1
    n2 = n2
    t1 = t1
    t2 = t2
    v1 = v1
    k1 = k1
    k2 = k2
    Process = {p1, p2}
    Nonce = {n1, n2}
    Text = {t1, t2}
    Value = {v1}
    PageLimit = 1
    MaxRoom = 2
    NumSources = 3
    MaxCursor = 2
    Namespace = {1}
    Key = {k1, k2}
    Fetched = {k1}
    MaxKeys = 1
    Runs = 3
    MaxSeq = 2
    MaxTime = 1
    Floor = 1
    Minimum = 1
    Overlap = FALSE
    MaxPreviews = 2
    MaxSends = 2
SYMMETRY Perms
SPECIFICATION Spec
INVARIANTS
    SentOnce
    AskedOnceOnRecord
    InspectionTellsAll
    ResumesWhereItStopped
    PublishedIsWhole
    DurableSurvives
    OneLineage
    StoppedReadsEnd
PROPERTIES
    OnlyTheReviewed
    RowsAreKept
    ReplacesOwnValue
CHECK_DEADLOCK FALSE
