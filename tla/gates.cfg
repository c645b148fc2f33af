CONSTANTS
    None = None
    Aborted = Aborted
    c1 = c1
    c2 = c2
    a1 = a1
    a2 = a2
    q1 = q1
    q2 = q2
    Client = {c1, c2}
    Action = {a1, a2}
    Request = {q1, q2}
    MaxAttempts = 2
    MaxSnapshots = 3
    LastTick = 4
    Window = 1
    MaxCaps = 2
    Bound = {1, 2}
    Sink = {"SIGNER", "HTTP_READ_ONLY", "WALLET"}
    Asked = {"INFERENCE_REQUEST", "SETTLEMENT"}
    TTL = 1
    MaxTime = 3
    MaxTokens = 3
    MaxOdd = 2
    MaxRows = 1
    MaxWritten = 4
    NonceScope <- MCNonceScope
    Responses <- MCResponses
    Exports <- MCExports
    Policy <- MCPolicy
    Proposals <- MCProposals
    Acceptances <- MCAcceptances
    Observations <- MCObservations
    RailProofs <- MCRailProofs
    Readbacks <- MCReadbacks
    Histories <- MCHistories
    Response <- MCResponse
    Payload <- MCPayload
    Pieces <- MCPieces
    Catalogs <- MCCatalogs
    Issuable <- MCIssuable
    Values <- MCValues
    Source <- MCSource
SYMMETRY Perms
SPECIFICATION Spec
INVARIANTS
    GrantedOnce
    AbsenceIsReviewed
    BundlesHangTogether
    OneActionEach
    PolicyIsKept
    AcceptedIsReady
    ExitCodeIsTrue
    CeremonyIsOneLine
    LaunchesAreOnRecord
PROPERTIES
    OpenUntilEvidence
CHECK_DEADLOCK FALSE
