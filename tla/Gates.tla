-------------------------------- MODULE Gates --------------------------------
(***************************************************************************)
(* The systems that decide what may be done or concluded, side by side:    *)
(* the replay store, the evidence transport, the evidence authority,       *)
(* the sensitive-action authority, the remote content policy, the runtime  *)
(* capability model, the monitor, the re-observation ceremony and the      *)
(* launcher.  They share no state; a behaviour is one of a single system,  *)
(* chosen by the initial state, and each property is that of its module.   *)
(***************************************************************************)
EXTENDS Integers, FiniteSets, Sequences

CONSTANTS
    None,        \* the absent value
    Aborted,     \* an answer of the network that never came
    Client,      \* processes and threads
    Action,      \* canonical actions, and bindings of capabilities
    NonceScope,  \* the actor, context, nonce and schema of an action
    Request,     \* effect class, target and request hash; specifications
    MaxAttempts, \* bound: attempts per action
    Responses,   \* acquisitions of the evidence transport
    MaxSnapshots,   \* bound: its snapshots
    Exports, Policy, Proposals, Acceptances, Observations, RailProofs,
    Readbacks, Histories,   \* the inputs of the evidence authority
    LastTick,    \* bound: the clock of the sensitive-action authority
    Window,      \* how long an approval and a capability live
    MaxCaps,     \* bound: capabilities
    Response, Bound, Payload, Sink, Pieces,   \* of the remote content policy
    Catalogs, Issuable, Values, Asked,   \* of the runtime capability model
    TTL,         \* DEFAULT_OBSERVATION_TTL, in ticks
    MaxTime,     \* bound: its clock
    MaxTokens,   \* bound: observations issued
    MaxOdd,      \* bound: answers to the monitor that are not as reviewed
    Source,      \* FIXED_SOURCES
    MaxRows,     \* MAX_LOG_BYTES, in rows
    MaxWritten   \* bound: rows of the launcher's log

\* No absent value is a client or a chain of results; sources and actions are
\* finitely many; lives and bounds are numbers.
ASSUME NoneAssumption ==
    /\ None \notin Client
    /\ None \notin Seq([source : Source, state : {"COMPLETED", "FAILED", "INTERRUPTED"}])
ASSUME SourceAssumption == IsFiniteSet(Source)
ASSUME RowsAssumption == MaxRows \in Nat
ASSUME WindowAssumption == Window \in Nat
ASSUME ActionAssumption == IsFiniteSet(Action)
ASSUME AttemptsAssumption == MaxAttempts \in Nat

\* An exit code is neither pending nor the end of a run that was cut off.
ASSUME CodeAssumption == None \notin 0..3 /\ Aborted \notin 0..3

\* Bounds and lengths are numbers; an offer has what is nested in it as its
\* evidence.
ASSUME PolicyAssumption ==
    /\ Bound \subseteq Nat
    /\ \A r \in Response : r.length \in Nat
    /\ \A p \in Payload : \A q \in p.inner :
          "evidence" \in p.fields /\ p.inner = {q}

\* A line's number is a number.
ASSUME ExportAssumption ==
    LET Lines == UNION {{raw[i] : i \in DOMAIN raw} : raw \in Exports}
    IN Exports \subseteq Seq(Lines) /\ \A line \in Lines : line.seq \in Int

\* A capability is known by its id, an observation says one of two things,
\* and times are numbers.
ASSUME ReadinessAssumption ==
    /\ TTL \in Nat
    /\ \A cat \in Catalogs : \A c, d \in cat : c.id = d.id => c = d
    /\ \A v \in Values : v.at \subseteq Nat
    /\ \A f \in Issuable : f.at \in Nat /\ f.response \in {"AVAILABLE", "UNAVAILABLE"}

VARIABLES
    machine,   \* the system of this behaviour
    rsKind, rsFile, rsCredential, rsRecord, rsConflicts, rsEffects,
    rsCall, rsProofs, rsGrants,
    etSnapshots, etTrusted, etProofs,
    eaAcquired, eaComplete, eaAgreements, eaFinality, eaReadbacks,
    eaBundle,
    auNow, auApproved, auCaps, auThread, auActs, auLog,
    rcAnswer,
    rtCatalog, rtNow, rtIssued, rtManifest, rtEdited, rtVerdict,
    moMode, moLocal, moGot, moSpecs, moCode,
    ocTokens, ocRecorded, ocActive, ocCall, ocAnswer,
    elSched, elActive, elPc, elAt, elMoved, elArmed, elHolder, elLog,
    elWritten, elReady, elDid, elResult

RS == INSTANCE ReplayStore WITH
    kind <- rsKind, file <- rsFile, credential <- rsCredential,
    record <- rsRecord, conflicts <- rsConflicts, effects <- rsEffects,
    call <- rsCall, proofs <- rsProofs, grants <- rsGrants
rsVars == <<rsKind, rsFile, rsCredential, rsRecord, rsConflicts, rsEffects,
    rsCall, rsProofs, rsGrants>>
RSOff ==
    /\ rsKind = None /\ rsFile = None /\ rsCredential = None
    /\ rsRecord = None /\ rsConflicts = None /\ rsEffects = None
    /\ rsCall = None /\ rsProofs = None /\ rsGrants = None

ET == INSTANCE EvidenceTransport WITH
    snapshots <- etSnapshots, trusted <- etTrusted, proofs <- etProofs
etVars == <<etSnapshots, etTrusted, etProofs>>
ETOff ==
    /\ etSnapshots = None /\ etTrusted = None /\ etProofs = None

EA == INSTANCE EvidenceAuthority WITH
    acquired <- eaAcquired, complete <- eaComplete,
    agreements <- eaAgreements, finality <- eaFinality,
    readbacks <- eaReadbacks, bundle <- eaBundle
eaVars == <<eaAcquired, eaComplete, eaAgreements, eaFinality, eaReadbacks,
    eaBundle>>
EAOff ==
    /\ eaAcquired = None /\ eaComplete = None /\ eaAgreements = None
    /\ eaFinality = None /\ eaReadbacks = None /\ eaBundle = None

AU == INSTANCE Authority WITH
    now <- auNow, approved <- auApproved, caps <- auCaps, thread <- auThread,
    acts <- auActs, log <- auLog, Thread <- Client, Binding <- Action,
    MaxTime <- LastTick
auVars == <<auNow, auApproved, auCaps, auThread, auActs, auLog>>
AUOff ==
    /\ auNow = None /\ auApproved = None /\ auCaps = None /\ auThread = None
    /\ auActs = None /\ auLog = None

RC == INSTANCE RemoteContent WITH
    answer <- rcAnswer, Evidence <- Pieces
rcVars == <<rcAnswer>>
RCOff ==
    /\ rcAnswer = None

RT == INSTANCE RuntimeCapability WITH
    catalog <- rtCatalog, now <- rtNow, issued <- rtIssued,
    manifest <- rtManifest, edited <- rtEdited, verdict <- rtVerdict,
    Fixtures <- Issuable
rtVars == <<rtCatalog, rtNow, rtIssued, rtManifest, rtEdited, rtVerdict>>
RTOff ==
    /\ rtCatalog = None /\ rtNow = None /\ rtIssued = None
    /\ rtManifest = None /\ rtEdited = None /\ rtVerdict = None

MO == INSTANCE Monitor WITH
    mode <- moMode, local <- moLocal, got <- moGot, specs <- moSpecs,
    code <- moCode, Specs <- Request
moVars == <<moMode, moLocal, moGot, moSpecs, moCode>>
MOOff ==
    /\ moMode = None /\ moLocal = None /\ moGot = None /\ moSpecs = None
    /\ moCode = None

OC == INSTANCE ObservationCeremony WITH
    tokens <- ocTokens, recorded <- ocRecorded, active <- ocActive,
    call <- ocCall, answer <- ocAnswer, Caller <- Client
ocVars == <<ocTokens, ocRecorded, ocActive, ocCall, ocAnswer>>
OCOff ==
    /\ ocTokens = None /\ ocRecorded = None /\ ocActive = None
    /\ ocCall = None /\ ocAnswer = None

EL == INSTANCE EngagementLauncher WITH
    sched <- elSched, active <- elActive, pc <- elPc, at <- elAt,
    moved <- elMoved, armed <- elArmed, holder <- elHolder, log <- elLog,
    written <- elWritten, ready <- elReady, did <- elDid,
    result <- elResult, Launch <- Client
elVars == <<elSched, elActive, elPc, elAt, elMoved, elArmed, elHolder,
    elLog, elWritten, elReady, elDid, elResult>>
ELOff ==
    /\ elSched = None /\ elActive = None /\ elPc = None /\ elAt = None
    /\ elMoved = None /\ elArmed = None /\ elHolder = None /\ elLog = None
    /\ elWritten = None /\ elReady = None /\ elDid = None
    /\ elResult = None

\* The systems that do not run have no state.
Init ==
    \/ /\ machine = "ReplayStore"
       /\ RS!Init
       /\ ETOff /\ EAOff /\ AUOff /\ RCOff /\ RTOff /\ MOOff /\ OCOff /\ ELOff
    \/ /\ machine = "EvidenceTransport"
       /\ ET!Init
       /\ RSOff /\ EAOff /\ AUOff /\ RCOff /\ RTOff /\ MOOff /\ OCOff /\ ELOff
    \/ /\ machine = "EvidenceAuthority"
       /\ EA!Init
       /\ RSOff /\ ETOff /\ AUOff /\ RCOff /\ RTOff /\ MOOff /\ OCOff /\ ELOff
    \/ /\ machine = "Authority"
       /\ AU!Init
       /\ RSOff /\ ETOff /\ EAOff /\ RCOff /\ RTOff /\ MOOff /\ OCOff /\ ELOff
    \/ /\ machine = "RemoteContent"
       /\ RC!Init
       /\ RSOff /\ ETOff /\ EAOff /\ AUOff /\ RTOff /\ MOOff /\ OCOff /\ ELOff
    \/ /\ machine = "RuntimeCapability"
       /\ RT!Init
       /\ RSOff /\ ETOff /\ EAOff /\ AUOff /\ RCOff /\ MOOff /\ OCOff /\ ELOff
    \/ /\ machine = "Monitor"
       /\ MO!Init
       /\ RSOff /\ ETOff /\ EAOff /\ AUOff /\ RCOff /\ RTOff /\ OCOff /\ ELOff
    \/ /\ machine = "ObservationCeremony"
       /\ OC!Init
       /\ RSOff /\ ETOff /\ EAOff /\ AUOff /\ RCOff /\ RTOff /\ MOOff /\ ELOff
    \/ /\ machine = "EngagementLauncher"
       /\ EL!Init
       /\ RSOff /\ ETOff /\ EAOff /\ AUOff /\ RCOff /\ RTOff /\ MOOff /\ OCOff

Next ==
    \/ /\ machine = "ReplayStore"
       /\ RS!Next
       /\ UNCHANGED <<machine, etVars, eaVars, auVars, rcVars, rtVars,
             moVars, ocVars, elVars>>
    \/ /\ machine = "EvidenceTransport"
       /\ ET!Next
       /\ UNCHANGED <<machine, rsVars, eaVars, auVars, rcVars, rtVars,
             moVars, ocVars, elVars>>
    \/ /\ machine = "EvidenceAuthority"
       /\ EA!Next
       /\ UNCHANGED <<machine, rsVars, etVars, auVars, rcVars, rtVars,
             moVars, ocVars, elVars>>
    \/ /\ machine = "Authority"
       /\ AU!Next
       /\ UNCHANGED <<machine, rsVars, etVars, eaVars, rcVars, rtVars,
             moVars, ocVars, elVars>>
    \/ /\ machine = "RemoteContent"
       /\ RC!Next
       /\ UNCHANGED <<machine, rsVars, etVars, eaVars, auVars, rtVars,
             moVars, ocVars, elVars>>
    \/ /\ machine = "RuntimeCapability"
       /\ RT!Next
       /\ UNCHANGED <<machine, rsVars, etVars, eaVars, auVars, rcVars,
             moVars, ocVars, elVars>>
    \/ /\ machine = "Monitor"
       /\ MO!Next
       /\ UNCHANGED <<machine, rsVars, etVars, eaVars, auVars, rcVars,
             rtVars, ocVars, elVars>>
    \/ /\ machine = "ObservationCeremony"
       /\ OC!Next
       /\ UNCHANGED <<machine, rsVars, etVars, eaVars, auVars, rcVars,
             rtVars, moVars, elVars>>
    \/ /\ machine = "EngagementLauncher"
       /\ EL!Next
       /\ UNCHANGED <<machine, rsVars, etVars, eaVars, auVars, rcVars,
             rtVars, moVars, ocVars>>

vars == <<machine, rsVars, etVars, eaVars, auVars, rcVars, rtVars, moVars, ocVars, elVars>>
Spec == Init /\ [][Next]_vars

\* One attempt of one action holds a nonce and is licensed once; another
\* licence needs sealed evidence about every one given before; and the record
\* of an action says what its latest attempt says.
GrantedOnce ==
    machine = "ReplayStore" =>
        /\ RS!GrantsNeedEvidence
        /\ RS!GrantedOnce
        /\ RS!RecordMatchesLatest

\* An attempt of unknown result stays open until sealed evidence closes it,
\* and an action in conflict starts nothing.
OpenUntilEvidence ==
    [][machine = "ReplayStore" =>
          /\ RS!OpenUntilEvidence
          /\ RS!ConflictStartsNothing]_vars

\* A record's absence and a retention loss are only confirmed from a whole export
\* reviewed for that very purpose, and no snapshot contradicts itself.
AbsenceIsReviewed ==
    machine = "EvidenceTransport" =>
        /\ ET!AbsenceIsReviewed
        /\ ET!LossIsReviewed
        /\ ET!ProjectionsAreValid

\* A bundle shows the agreement it settles and the settlement it read back;
\* complete transcripts have no gap, and the two checkers of each kind agree.
BundlesHangTogether ==
    machine = "EvidenceAuthority" =>
        /\ EA!BundlesHangTogether
        /\ EA!CompleteMeansWhole
        /\ EA!ReportsMatch

\* A capability carries out one action, whatever the threads do.
OneActionEach ==
    machine = "Authority" => AU!OneActionEach

\* What the policy lets through keeps its bounds: two independent pieces of
\* evidence, whole pages, nothing but public names.
PolicyIsKept ==
    machine = "RemoteContent" =>
        /\ RC!ConfirmedByTwo
        /\ RC!PagesAreWhole
        /\ RC!PublicAllTheWay

\* A manifest accepted as ready rests on rows and values that are, whoever
\* wrote its summary and however late it is read.
AcceptedIsReady ==
    machine = "RuntimeCapability" =>
        /\ RT!AcceptedIsReady
        /\ RT!ReadyValuesAreFresh

\* The monitor's exit code hides no change behind an outage, and says zero
\* only when all was read and verified.
ExitCodeIsTrue ==
    machine = "Monitor" =>
        /\ MO!OutageHidesNothing
        /\ MO!ZeroIsVerified

\* A re-observation is one line of records whatever tokens the threads
\* present, and a projection that says it has ended stays true.
CeremonyIsOneLine ==
    machine = "ObservationCeremony" =>
        /\ OC!OneLine
        /\ OC!ProjectionsHold

\* No launch runs the scheduler before its row is on the disk or claims a
\* success that was none, and the rotated log keeps the latest rows in order.
LaunchesAreOnRecord ==
    machine = "EngagementLauncher" =>
        /\ EL!LaunchIsOnRecord
        /\ EL!LogIsRecent

==============================================================================
