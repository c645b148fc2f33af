-------------------------------- MODULE Stores -------------------------------
(***************************************************************************)
(* The systems that keep something on this host, side by side: the         *)
(* write fence, the journal of manual observations, the checkpoint         *)
(* migration, the KV observatory, the engagement collector, the presence   *)
(* adapter and the observation lineage.  They share no state; a behaviour  *)
(* is one of a single system, chosen by the initial state, and each        *)
(* property is that of the module it is taken from.                        *)
(***************************************************************************)
EXTENDS Naturals, FiniteSets, Sequences

CONSTANTS
    None,        \* the absent value
    Process,     \* processes: writers, runners, collectors, observers
    Nonce,       \* nonces of posts
    Text,        \* texts of posts, values of keys, rows of the history
    Value,       \* values of a note
    Other,       \* any other message of the room
    PageLimit,   \* messages the read-back page shows (200)
    MaxRoom,     \* bound: messages in the room
    NumSources,  \* FIXED_SOURCES
    MaxCursor,   \* bound: the latest legacy cursor
    Namespace, Key,
    Fetched,     \* the keys the prefixes of the configuration name
    MaxKeys,     \* the key budget of a namespace
    Runs,        \* bound: runs of the KV observatory
    MaxSeq,      \* bound: the room sequence of the presence adapter
    MaxTime,     \* bound: its clock
    Floor,       \* MINIMUM_LIVE_WRITE_SECONDS in ticks
    Minimum,     \* minimum_update_seconds of the configuration, in ticks
    Overlap,     \* may an observation run while another operation does?
    MaxPreviews, \* bound: previews issued in one behaviour
    MaxSends     \* bound: write attempts in one behaviour

\* The absent value is nobody, nothing and no status of a cycle.
ASSUME NoneAssumption ==
    None \notin Process /\ None \notin Text /\ None # "COMPLETED"

ASSUME PageAssumption == PageLimit \in Nat

\* There is a source to observe.
ASSUME SourcesAssumption == NumSources \in Nat \ {0}

\* The bounds are numbers.
ASSUME BoundsAssumption == MaxSeq \in Nat /\ Runs \in Nat /\ MaxCursor \in Nat

VARIABLES
    machine,   \* the system of this behaviour
    swRows, swLinked, swProc, swSent, swFlying, swRoom,
    ojFile, ojSynced, ojCandidate, ojLock, ojProc, ojRequests, ojDamaged,
    cmNow, cmDisk, cmPending, cmUnsynced, cmProc, cmLock, cmApplied,
    kvPc, kvLeft, kvListed, kvHashes, kvResolved, kvCycle, kvPolls,
    kvNotes, kvGeneration, kvContent, kvOutput, kvAbsent,
    ecPc, ecRow, ecWorker, ecOwner, ecTxn, ecView, ecAnswer, ecHistory,
    ecKept, ecLock, ecWrote, ecSignalled,
    prNow, prRoom, prNote, prFile, prPreviews, prWatch, prExec, prSends,
    prConfirmed,
    olInterval, olChild, olProv, olMarker, olOwner, olSaved, olPc,
    olPinned, olMode, olBegan, olConn, olStopping

SW == INSTANCE SignedWrite WITH
    rows <- swRows, linked <- swLinked, proc <- swProc, sent <- swSent,
    flying <- swFlying, room <- swRoom
swVars == <<swRows, swLinked, swProc, swSent, swFlying, swRoom>>
SWOff ==
    /\ swRows = None /\ swLinked = None /\ swProc = None /\ swSent = None
    /\ swFlying = None /\ swRoom = None

OJ == INSTANCE ObservationJournal WITH
    file <- ojFile, synced <- ojSynced, candidate <- ojCandidate,
    lock <- ojLock, proc <- ojProc, requests <- ojRequests,
    damaged <- ojDamaged, Nobody <- None
ojVars == <<ojFile, ojSynced, ojCandidate, ojLock, ojProc, ojRequests,
    ojDamaged>>
OJOff ==
    /\ ojFile = None /\ ojSynced = None /\ ojCandidate = None /\ ojLock = None
    /\ ojProc = None /\ ojRequests = None /\ ojDamaged = None

CM == INSTANCE CheckpointMigration WITH
    now <- cmNow, disk <- cmDisk, pending <- cmPending,
    unsynced <- cmUnsynced, proc <- cmProc, lock <- cmLock,
    applied <- cmApplied
cmVars == <<cmNow, cmDisk, cmPending, cmUnsynced, cmProc, cmLock,
    cmApplied>>
CMOff ==
    /\ cmNow = None /\ cmDisk = None /\ cmPending = None /\ cmUnsynced = None
    /\ cmProc = None /\ cmLock = None /\ cmApplied = None

KV == INSTANCE KvObservatory WITH
    pc <- kvPc, left <- kvLeft, listed <- kvListed, hashes <- kvHashes,
    resolved <- kvResolved, cycle <- kvCycle, polls <- kvPolls,
    notes <- kvNotes, generation <- kvGeneration, content <- kvContent,
    output <- kvOutput, absent <- kvAbsent, Value <- Text
kvVars == <<kvPc, kvLeft, kvListed, kvHashes, kvResolved, kvCycle, kvPolls,
    kvNotes, kvGeneration, kvContent, kvOutput, kvAbsent>>
KVOff ==
    /\ kvPc = None /\ kvLeft = None /\ kvListed = None /\ kvHashes = None
    /\ kvResolved = None /\ kvCycle = None /\ kvPolls = None /\ kvNotes = None
    /\ kvGeneration = None /\ kvContent = None /\ kvOutput = None
    /\ kvAbsent = None

EC == INSTANCE EngagementCollector WITH
    pc <- ecPc, row <- ecRow, worker <- ecWorker, owner <- ecOwner,
    txn <- ecTxn, view <- ecView, answer <- ecAnswer, history <- ecHistory,
    kept <- ecKept, lock <- ecLock, wrote <- ecWrote,
    signalled <- ecSignalled, Collector <- Process, Row <- Text
ecVars == <<ecPc, ecRow, ecWorker, ecOwner, ecTxn, ecView, ecAnswer,
    ecHistory, ecKept, ecLock, ecWrote, ecSignalled>>
ECOff ==
    /\ ecPc = None /\ ecRow = None /\ ecWorker = None /\ ecOwner = None
    /\ ecTxn = None /\ ecView = None /\ ecAnswer = None /\ ecHistory = None
    /\ ecKept = None /\ ecLock = None /\ ecWrote = None /\ ecSignalled = None

PR == INSTANCE Presence WITH
    now <- prNow, room <- prRoom, note <- prNote, file <- prFile,
    previews <- prPreviews, watch <- prWatch, exec <- prExec,
    sends <- prSends, confirmed <- prConfirmed
prVars == <<prNow, prRoom, prNote, prFile, prPreviews, prWatch, prExec,
    prSends, prConfirmed>>
PROff ==
    /\ prNow = None /\ prRoom = None /\ prNote = None /\ prFile = None
    /\ prPreviews = None /\ prWatch = None /\ prExec = None /\ prSends = None
    /\ prConfirmed = None

OL == INSTANCE ObservationLineage WITH
    interval <- olInterval, child <- olChild, prov <- olProv,
    marker <- olMarker, owner <- olOwner, saved <- olSaved, pc <- olPc,
    pinned <- olPinned, mode <- olMode, began <- olBegan, conn <- olConn,
    stopping <- olStopping, Proc <- Process
olVars == <<olInterval, olChild, olProv, olMarker, olOwner, olSaved, olPc,
    olPinned, olMode, olBegan, olConn, olStopping>>
OLOff ==
    /\ olInterval = None /\ olChild = None /\ olProv = None /\ olMarker = None
    /\ olOwner = None /\ olSaved = None /\ olPc = None /\ olPinned = None
    /\ olMode = None /\ olBegan = None /\ olConn = None /\ olStopping = None

\* The systems that do not run have no state.
Init ==
    \/ /\ machine = "SignedWrite"
       /\ SW!Init
       /\ OJOff /\ CMOff /\ KVOff /\ ECOff /\ PROff /\ OLOff
    \/ /\ machine = "ObservationJournal"
       /\ OJ!Init
       /\ SWOff /\ CMOff /\ KVOff /\ ECOff /\ PROff /\ OLOff
    \/ /\ machine = "CheckpointMigration"
       /\ CM!Init
       /\ SWOff /\ OJOff /\ KVOff /\ ECOff /\ PROff /\ OLOff
    \/ /\ machine = "KvObservatory"
       /\ KV!Init
       /\ SWOff /\ OJOff /\ CMOff /\ ECOff /\ PROff /\ OLOff
    \/ /\ machine = "EngagementCollector"
       /\ EC!Init
       /\ SWOff /\ OJOff /\ CMOff /\ KVOff /\ PROff /\ OLOff
    \/ /\ machine = "Presence"
       /\ PR!Init
       /\ SWOff /\ OJOff /\ CMOff /\ KVOff /\ ECOff /\ OLOff
    \/ /\ machine = "ObservationLineage"
       /\ OL!Init
       /\ SWOff /\ OJOff /\ CMOff /\ KVOff /\ ECOff /\ PROff

Next ==
    \/ /\ machine = "SignedWrite"
       /\ SW!Next
       /\ UNCHANGED <<machine, ojVars, cmVars, kvVars, ecVars, prVars,
             olVars>>
    \/ /\ machine = "ObservationJournal"
       /\ OJ!Next
       /\ UNCHANGED <<machine, swVars, cmVars, kvVars, ecVars, prVars,
             olVars>>
    \/ /\ machine = "CheckpointMigration"
       /\ CM!Next
       /\ UNCHANGED <<machine, swVars, ojVars, kvVars, ecVars, prVars,
             olVars>>
    \/ /\ machine = "KvObservatory"
       /\ KV!Next
       /\ UNCHANGED <<machine, swVars, ojVars, cmVars, ecVars, prVars,
             olVars>>
    \/ /\ machine = "EngagementCollector"
       /\ EC!Next
       /\ UNCHANGED <<machine, swVars, ojVars, cmVars, kvVars, prVars,
             olVars>>
    \/ /\ machine = "Presence"
       /\ PR!Next
       /\ UNCHANGED <<machine, swVars, ojVars, cmVars, kvVars, ecVars,
             olVars>>
    \/ /\ machine = "ObservationLineage"
       /\ OL!Next
       /\ UNCHANGED <<machine, swVars, ojVars, cmVars, kvVars, ecVars,
             prVars>>

vars == <<machine, swVars, ojVars, cmVars, kvVars, ecVars, prVars, olVars>>
Spec == Init /\ [][Next]_vars

\* Two processes write one nonce or text at most once, what was sent stands
\* in the table of the fence, so in the way of every later try, and a write
\* said to be confirmed is in the room as it was signed.
SentOnce ==
    machine = "SignedWrite" =>
        /\ SW!SentOnce
        /\ SW!SentIsFenced
        /\ SW!ConfirmedIsReal

\* No source of a manual observation is asked twice, what was asked is on
\* durable record, and the journal only ever holds a history.
AskedOnceOnRecord ==
    machine = "ObservationJournal" =>
        /\ OJ!AskedOnceOnRecord
        /\ OJ!JournalIsHistory

\* An inspection of the attempt journal tells of every request that was sent.
InspectionTellsAll ==
    machine = "ObservationJournal" => OJ!InspectionTellsAll

\* A migrated child that is accepted resumes at the legacy cursor, no prefix
\* of a migration loses the legacy bytes, and a reported one is durable.
ResumesWhereItStopped ==
    machine = "CheckpointMigration" =>
        /\ CM!ResumesWhereItStopped
        /\ CM!EvidenceIsKept
        /\ CM!AppliedIsDurable

\* The legacy checkpoint gives way only to what a sealed review names.
OnlyTheReviewed ==
    [][machine = "CheckpointMigration" => CM!OnlyTheReviewed]_vars

\* What readers of the KV observatory follow is one whole, completed cycle,
\* and a note it calls disappeared was missing from a complete listing.
PublishedIsWhole ==
    machine = "KvObservatory" =>
        /\ KV!PublishedIsWhole
        /\ KV!DisappearedWasAbsent

\* No collector loses the row of another one.
RowsAreKept ==
    [][machine = "EngagementCollector" => EC!RowsAreKept]_vars

\* What a collector answers is what it did: the row it put in itself and calls
\* durable survives a power loss (a row it merely found is answered as durable
\* without a sync of its own, and exempt), a committed row is told, and only its
\* own worker is signalled.
DurableSurvives ==
    machine = "EngagementCollector" =>
        /\ EC!DurableSurvives
        /\ EC!ResultTellsCommit
        /\ EC!SignalsOwnWorker

\* The presence adapter replaces only a smaller value that a read-back had
\* confirmed as its own.
ReplacesOwnValue ==
    [][machine = "Presence" => PR!ReplacesOwnValue]_vars

\* Whoever observes the room holds the session lock, and a new observation
\* finds no lineage but its own.
OneLineage ==
    machine = "ObservationLineage" => OL!OneLineage

\* Once a session was stopped no response goes on being read.
StoppedReadsEnd ==
    machine = "ObservationLineage" => OL!StoppedReadsEnd

==============================================================================
