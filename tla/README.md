# TLA+ models of the FLOP agent

This directory holds TLA+ specifications of the parts of `flop_agent` that keep
state across processes, crashes and failures, the TLC configurations that check
them on small instances, and TLAPS proofs. Paths are relative to the repository
root; `src/flop_agent/x.py` is written `x.py`.

## 1. The system

The package is a collection of fail-closed command-line programs. Many modules
validate already fetched data; some keep private durable state, some hold
authority in opaque tokens, and those decide whether something irreversible (a
signed POST, a network read, an effect on an external service) happens once,
twice or never, and what may be believed afterwards.

| Component | State | Operations | Interacts with |
|---|---|---|---|
| Registration hand-off (`sonnet_registration_handoff.py`) | a hash-chained journal file, a lock file, a per-process set of used approvals | `execute`, `reconcile`, `inspect`; `_Journal.append` | signer, POST transport, receipt classifier; called by the attended session |
| Receipt observer (`sonnet_receipt_observer.py`) | evidence directory (`.receipt`/`.json` pairs, checkpoint, progress cursor, conflict marker, session lock), cursor in memory | `prepare`, `observe`, `reconcile_saved`, `archive`, `mark_conflict`, `save_checkpoint`, restart check; capability, session and transport | Technocore room (page and export reads) |
| Receipt supervisor (`sonnet_receipt_supervisor.py`) | retry budgets, stop event, wall-clock watchdog | start, poll, stop, wait | observer, room high-water |
| Attended registration (`sonnet_attended_registration.py`) | window guard, one-use flags, the interval's directory | `execute_approved_registration`, `wait_for_terminal`, `stop`, provisioning | supervisor thread and hand-off in one process |
| Checkpoint migration (`sonnet_checkpoint_migration.py`) | review record, transaction marker, staged files | prepare, seal, apply | the observer's directory and lock |
| Engagement scheduler (`engagement_scheduler.py`, `scripts/engagement_scheduler.py`) | `scheduler-state.json`, a lock file | provision, enable, disable, run-once, approve-reset, status, dry-run | collector process; started by the launcher |
| Engagement launcher (`scripts/engagement_scheduler_launcher.py`, `engagement_runtime_contract.py`) | a log rotated over three files, its lock | preflight, launch | the scheduler's status and its process |
| Engagement collection (`scripts/collect_engagement.py`, `engagement_history.py`) | history, its lock, preview | one collection: parent and worker process | Technocore, scheduler |
| Observation journal and manual runner (`durable_observation_journal.py`, `manual_reobservation_runner.py`) | append-only attempt journal, candidate file, lock, one-shot permit | prepare, transition, commit, finalize, inspect, project | fixed sources |
| Re-observation ceremony (`observation_retention.py`) | registries of tokens, the active attempt | migrate, plan, review, attempt, record a source, commit, project | threads of one process |
| Replay store (`replay_journal.py`, `libexec/flop_replay_store_helper`) | sqlite store of actions and effects, credential file | observe, validate, reserve, attempt, confirm, reconcile | a fresh helper process per call |
| Signed writes (`technocore.py`, `write_effect.py`) | sqlite table of reservations, the room | reserve, send, read back | Technocore |
| Evidence transport (`evidence_transport.py`) | remembered snapshots, tokens, proofs | acquire, attest, issue and apply proofs, project | wire evidence |
| Evidence authority (`evidence_authority.py`, `wire_evidence.py`) | token registries | acquire, prove complete, agree, finalize, read back, bundle | transport, rails |
| Remote content policy, action router, identity, activity log | approvals, capabilities, the log | issue, require, sign, append, read, evaluate, offer | every sensitive action |
| Runtime capability (`runtime_capability.py`) | issued observations, manifests | issue, assess, project, validate | readiness views |
| KV observatory (`kv_observatory.py`) | sqlite database, generations, the published link | poll, cycle, snapshot, promote, publish, recover | Technocore notes |
| Monitor (`monitor.py`) | one run's answers | fetch, evaluate, fold, exit code | reviewed endpoints |
| Presence (`presence.py`) | state file, previews | observe, preview, execute | one public note |
| Collaboration, workflow, TCLK boundaries, specification authority, readiness views, command line | small local records, or none | see `PROJECT.json` | - |

What is hard: several processes share a file under a nonblocking `flock`, or
under none; `os.replace` makes a content visible before the directory `fsync`
makes it durable; any call can die between two steps; a power loss can bring an
older content back; remote rooms drop messages and answers are lost; the clock,
a status or a path is read before it is used; threads race for one capability.
The hazards are listed, each at its line, in `PROJECT.json`.

What makes each component correct:

- hand-off: at most one signature and POST; the record before the effect; a
  reply that is durable; a verdict that is final.
- observer: evidence before cursor; a cursor that only advances; a marked
  conflict that ends all answers; an answer that has evidence. Its start: one
  lineage at a time under the lock, an interval started once, nothing read after
  a stop.
- scheduler: the attempt recorded before the call; spacing, rolling ceiling and
  circuit kept through crashes; silence after a rollback. Its launcher: whatever
  it reports as done is on the log, whose files stay in order. Its collector: no
  row lost, none of its own reported durable that is not.
- attended registration: one result; no POST after a conflicting record was seen;
  a stop that is honoured.
- migration, attempt journal, replay store, signed writes: no prefix of their
  writes allows a second attempt or loses the evidence of the first.
- ceremony, evidence services, capabilities, policy, readiness: a token is good
  for exactly what it was issued for, and a projection says no more than the
  records behind it.
- observatory, monitor, presence: what is published is one whole cycle; an exit
  code of zero means everything was verified; a write replaces only our own
  value.

## 2. The modules

| Module | Models |
|---|---|
| `RegistrationHandoff` | the hand-off: `execute`, `reconcile`, the lock, `append` step by step |
| `OneShotPost` | what the hand-off promises, without processes, files or failures |
| `RegistrationHandoffProofs` | proofs about `RegistrationHandoff`, and that it implements `OneShotPost` |
| `ReceiptObserver`, `ReceiptObserverProofs` | the observer, its store and the room; proofs |
| `EngagementScheduler`, `EngagementSchedulerProofs` | the scheduler's commands over the shared state file; proofs |
| `AttendedRegistration`, `AttendedRegistrationProofs` | one run of the attended script: main thread, session thread, watchdog, signals; proofs, and that it implements `OneShotPost` |
| `SignedWrite` | reservation, signed write and read-back |
| `ObservationJournal` | the durable attempt journal and its runner |
| `CheckpointMigration` | the checkpoint migration, file operation by file operation |
| `KvObservatory` | poll cycles, their database, and the published generations |
| `EngagementCollector` | the collector's parent and worker, and the history file |
| `Presence` | the presence adapter against a server and other writers |
| `ObservationLineage` | who may watch the room, from which start, with which connection |
| `ReplayStore` | the replay store behind its helper process |
| `EvidenceTransport`, `EvidenceAuthority` | what a page may be claimed to show; agreements, settlements and bundles |
| `Authority`, `RemoteContent` | one-use capabilities; what remote content may become |
| `RuntimeCapability`, `Monitor` | readiness manifests; the monitor's verdict |
| `ObservationCeremony` | the re-observation ceremony with racing threads |
| `EngagementLauncher` | overlapping launches in front of the scheduler |
| `Stores`, `Gates` | sums of the modules above, see "The sums" below |
| `StoresProofs` | proofs about four systems of `Stores`: signed write, attempt journal, presence, KV observatory |
| `ObserversProofs` | proofs about the other three: collector, lineage, checkpoint migration |
| `GatesProofs` | proofs about the nine systems of `Gates`: capabilities, replay store, ceremony, launcher, policy, readiness, monitor, evidence transport, evidence authority |
| `SequenceFacts` | lemmas on numbers, finite sets and sequences that the proofs share |

`AttendedRegistration` composes the other parts of the registration at the level
at which they meet: it sees the journal by its reported state (the states
`RegistrationHandoff` goes through) and the private store by the dispositions it
holds (what `ReceiptObserver` writes), and both it and `RegistrationHandoff`
implement `OneShotPost`. `ObservationLineage` adds what neither of the two can
see: how a start comes by its lock and its lineage. `EngagementLauncher` and
`EngagementCollector` are the two neighbours of `EngagementScheduler`: the one
sees of it the flag, the failures, the marker and the lock, the other is what it
starts. Every other `MC` module extends a module with what its `.cfg` files need.

### RegistrationHandoff

`journal` is the visible file, `durable` the content that survives a power loss;
`Publish` (os.replace) changes the first and `Sync` (directory fsync) copies it
to the second. `pc[p]` follows one call of process `p` through `execute` or
`reconcile`; `target[p]` is the state of the record being appended and `Continue`
is what the caller does after each successful append. A record is its state and
its approval: hash, timestamp, nonce and the fixed packet are the same in every
record or are checked by `_decode_records` (`Decodes`). Every failure exit
(`AppendFails`, `SyncFails`, `SignRefused`, `Trip`, `TransportEscapes`) releases
the lock through `Leave`; `Crash` drops it because the kernel does. `PowerLoss`
leaves any content between `durable` and `journal`. `signs` and `posts` are
history counters. The referee's decision is an environment action that may come
at any time, for the referee may learn of the request from elsewhere.

### ReceiptObserver

`room` is everything ever posted; `floor` and `dropped` count what the paged view
and the export no longer show. A run reads a page (`Page`, `PageWithGap`), makes
the list `todo` of writes `_read` will make in their order, and each write goes
through `CreateTemp`, `Rename` and `SyncDirectory` or ends the run with
`WriteFails`. `disk` is the directory as it is seen, `synced` what the last
directory fsync covered; after a power loss each later entry is there or not.
Starting a run is one action because the session lock is held for the whole run:
the restart check, then `prepare` up to its first read. A receipt is a position
of the room because its digest covers the sequence number; the same signed
record at two positions is kept once, as in `_receipts`. `seen`, `told` and
`blind` are history variables.

### EngagementScheduler

One process executes one command: `Begin` reads the clock, `Decide` (or
`Refused`) takes the lock, loads, validates and decides in one step - nothing
else can change the state while the lock is held - `Publish` and `Sync` write,
and `run_once` goes on to `Collect` and `Collected` and a second write under the
same lock. `Writes` and `Changes` give the state each command writes. `disk` is
the set of contents a power loss may leave. Fields that `validate_state` ties to
`circuit_state` are left out. One unit of time is 30 minutes.

### AttendedRegistration

`pc` follows the script's main thread: the bootstrap (`Highwater`, `Export`,
`Launch`), the loop (`Turn`, `SeeReady`, `AskApproval`, `Command`, the `Poll`
actions), one call of `execute_approved_registration` with the hand-off inside
it (`Gate` to `Unlock`), and the two ways out (`StopSession`, `Drain`). `sess` is
the session's thread: it waits, reads, shows the response to the window guard
(`Inspect`), fetches an export for a gap, archives, and ends with a `result`;
`dog` is the watchdog of `SupervisorHandle`. A response shows any set of kinds
of records, because anybody may post in the room; a kind is an accepting or a
rejecting receipt of the referee or any other record that makes the window
unclear. A signal is handled by the main thread between any two of its steps:
`stop()` tells the session at once, or notes the stop if the lock is held. The
steps of the hand-off are the records it appends, each of which may fail before
or after it is visible. `Dies` ends the model, because the interval's lock file
stays and refuses a later run; what survives a death is the subject of
`RegistrationHandoff` and `ReceiptObserver`. The retry counts, pacing and the
approval's expiry are nondeterministic choices of the steps they influence.
`tainted` is a history variable: an unclear record was shown to the guard
before the reservation.

### SignedWrite

A write is a post (nonce, text) or a compare-and-swap of the DID's note (old and
new value in their place). `rows` is the table of `write_effect.py`, in which
nonce and text are unique each; `linked` says that its directory entry survives
a power loss. `Reserve`, `SyncDirectory` and `Send` are the code's order;
`flying` holds what the server may still apply after its answer was lost. The
read-back sees the last `PageLimit` messages and confirms a post only by exactly
one match; a note's effect stays unknown, as in the code.

### ObservationJournal

`file` is the journal, `candidate` the rewritten copy, `synced` the content a
power loss keeps. An append is `Lock`, `Check` (integrity, the transition
`Allowed` and the whole history again), `Replace` and `Sync`; reads take no lock.
A runner makes its calls in the fixed order, a fixture caller in any order.
`Damage` is anybody else writing to the file, which leaves it torn or corrupt.
`SourceState` is what `inspect` projects, and `ProjectionValid` the validator
of such projections.

### CheckpointMigration

A name has a content that is shown (`now`), a content that is durable (`disk`)
and, until its directory is synced, both possibilities (`pending`); a file that
was not synced may be torn by a power loss. `Seal` and `Apply` go through every
creation, write, sync, rename and unlink of the code, the lock is given up
between looking and doing, and the legacy observer may advance in between
(`LegacyAdvances`). `Loaded` is the restart check of the observer: what it
accepts after any prefix is what `ResumesWhereItStopped` is about.

### KvObservatory

A run polls its namespaces in order (`List`, `Read`, `Observe`), completes its
cycle, recovers abandoned generations, snapshots the database, writes, promotes
the generation and moves the link (`Point`). Runs die anywhere; a run resolves
its output path when it starts. Values stand for their hashes.

### EngagementCollector

The parent forks a worker, hands ownership over, takes the answer, ends and reaps
the worker (`WorkerOwnership`), and appends a row: lock, read, candidate,
replace, sync. The deadline's alarm may strike at every step of the commit except
in the masked replace. Collectors overlap because nobody kills one.

### Presence

`observe`, `preview` and `execute` each load the state file, read the server and
save their whole copy. `execute` sends one conditional write, whose answer may be
lost, after it saved the stamp of its attempt. Others write or remove the note
and the room may be reset. `Overlap` says whether observations and writes overlap.

### ObservationLineage

The start of an observation: `Inspect` and `ValidateRestart` through one handle
on the child directory, `OpenChild` and `Lock` through another, the capability
`Load`ed under the lock, `Build`, `StartSession`; and the end: `Stop` closes the
transport while the session's thread may be between `Open`, `Answer` and
`Register`. The ordinary child is resumed at will, the registration interval is
made by `Look`, `Make`, `Made` (or taken back by `Unmake`) and started once.

### ReplayStore

Every call of the facade is a helper process: `OpenFile`, the three steps of the
provisioning, `Recover` (its own transaction), the operation (a second one), and
an answer that may be lost. Helpers of several clients interleave between their
transactions. `Family` is the second family of operations in the same file, for a
store of kind TEST, in which conflicts block and sealed evidence closes an
attempt. `grants` counts the licences to act.

### EvidenceTransport and EvidenceAuthority

A snapshot is its fields, of which its id is a hash; tokens say that a snapshot
was acquired under review, a proof is issued from a token. `Finding` is what the
service's search says of a record number: absence is confirmed by a snapshot found
complete unless a gap is unresolved, so also by one whose retention loss was
confirmed afterwards. `Valid` is the validator of projections. In the authority a
registry is the set of the records behind its tokens; `Public` and `Sealed` are
the two assessors of an export (the public one of `wire_evidence.py` and the one
the authority repeats); both look at the positions of the lines that have a number,
and differ in what may be a number and in whose neighbours may be a gap apart: lines
or sorted numbers. `OfferVerified` and `AcceptanceVerified` are the agreement
checkers, `Fits` what may go into one bundle.

### Authority and RemoteContent

A capability is its position in the registry; `Require` checks and spends it in
one step, under the lock; the action follows (`Sign`, `AppendLocal`) or fails.
`RemoteContent` asks one question per behaviour: a bounded read of a reviewed
page, the provenance of a contract, a sink for a remote value, or an offer to a
remote tool with its nested evidence.

### RuntimeCapability and Monitor

`Assess` judges each capability of a catalogue by the newest observation;
`Relabel` and `Annotate` are other tools changing the manifest; `Validate`
recomputes what it can, later. The monitor reads its endpoints one after the
other, each as reviewed, different or failing; `Judge` folds the statuses into
the exit code.

### ObservationCeremony

Records are named by the chain of results they continue. A call is two steps,
`Call` (the token is resolved and the lock let go) and `Issue`, `RecordSource`,
`CommitResult` or `Project`, which decide under the lock again.

### EngagementLauncher

A launch is `Hash`, `Status`, `Compare` (the files must not have changed), the
checks of the tree, a second status, `append_log` (lock, measure, the two
renames, write, sync), the scheduler with its time limit, a second `append_log`
and the result. `Dies` and `SchedulerDies` end a process anywhere, `Operator`
enables and disables. A row cut short counts as one.

### The sums

Most of these modules are checked and proved about in two sums. `Stores` and
`Gates` hold a copy of the variables of each module, `machine` is chosen by
`Init` and never changes, and only the chosen module's variables have values and
take steps: the behaviours are exactly those of the modules, one at a time. They
share no state, because the code's systems share none either, except where
section 2 says so. `MCStores` and `MCGates` add nothing but the inputs of the runs.

## 3. The runs

| Run | Bounds | Shows |
|---|---|---|
| `handoff` | 2 processes, 2 approvals | one signature and POST, each recorded first; replies durable; refinement of `OneShotPost`; a held lock is let go |
| `handoff_response` | same | violated: `EveryResponseIsRecorded` |
| `observer` | 3 messages, pages of 2, two accepting and one rejecting receipt, other messages | `EvidenceBeforeCursor`, `AnswerHasEvidence`, `CursorOnlyAdvances`, `MarkerIsFinal` |
| `observer_conflict` | same | violated: `ConflictIsFinal` |
| `scheduler` | 2 processes, times 0..4, window 3, budget 2, pause 1 | recorded before called, spaced, under the ceiling, no third failure, silent when disabled |
| `attended` | wall 4, request timeout 1, minimum remaining 2, clock to 6 | no POST after a conflict, verdicts kept, timeouts caused by the wall, refinement of `OneShotPost`, every run ends |
| `stores` | see below | the seven systems that keep state on the host |
| `gates` | see below | the nine systems that decide what may be done or believed |
| `stale_proof` | replay store alone: 1 client, 1 action, 1 attempt | violated: `AttemptsNeedReadBack` |
| `presence_floor` | times 0..3, an hour of 2, sequences 0..2 | violated: `AttemptsAnHourApart` |
| `kv_republish` | 3 runs, 1 namespace, 2 keys | violated: `PollsArePublished` |
| `interval_twice` | 2 processes | violated: `IntervalStartedOnce` |

`stores` has about one million states. Its systems have two processes (calls,
collectors, starts) each.

| Property | System and bounds | Says |
|---|---|---|
| `SentOnce` | signed write: 2 nonces, 2 texts, 1 note value, room of 2, read-back of 1 | a nonce and a text are sent once, after the durable reservation; a confirmed write is in the room as signed |
| `AskedOnceOnRecord`, `InspectionTellsAll` | journal: 3 sources | no source is asked twice, and only on durable record; the file is a history; an inspection tells every request |
| `ResumesWhereItStopped`, `OnlyTheReviewed` | migration: cursors to 2 | whatever is accepted resumes at the legacy cursor, no prefix loses the legacy bytes, a reported one is durable; only reviewed content gives way |
| `PublishedIsWhole` | KV: 1 namespace, 2 keys, one of them fetched, budget 1, 2 values, 3 runs | readers see a whole completed cycle; a disappeared note was absent from a complete listing |
| `RowsAreKept`, `DurableSurvives` | collector: 2 rows | no row of another is lost; an answer is what was done (a row merely found is exempt from being durable) |
| `ReplacesOwnValue` | presence: sequences 0..2, times 0..1, 2 previews, 2 writes, one operation at a time | a write replaces only a smaller value confirmed as our own |
| `OneLineage`, `StoppedReadsEnd` | lineage: 2 processes, both kinds of child | a watcher holds the lock and begins no second lineage; nothing is read after a stop |

`gates` has about 0.8 million states.

| Property | System and bounds | Says |
|---|---|---|
| `GrantedOnce`, `OpenUntilEvidence` | replay store: 2 clients, 2 actions that share a nonce, 2 requests, 2 attempts | one licence per nonce and one more per closed attempt; the record agrees with the latest attempt; an unknown outcome stays open until sealed evidence for that very attempt, which is a result, a read-back or a proof of no invocation issued before the attempt was marked |
| `AbsenceIsReviewed` | transport: 3 snapshots of 6 acquisitions | an absence is confirmed only by a snapshot made from a gapless reviewed export, or by one that confirms a loss beside an absence confirmed before; a loss only from an export whose loss is reviewed; no snapshot contradicts itself |
| `BundlesHangTogether` | authority: 6 exports, 6 offers, 8 acceptances, 4 settlements | the assessors and checkers agree where they must; the parts of a bundle belong together |
| `OneActionEach` | capabilities: 2 threads, 2 bindings, 2 capabilities, times 0..4, life 1 | a capability carries out at most one action, and no two threads hold it |
| `PolicyIsKept` | policy: pages to 3 bytes, bounds 1 and 2, nested offers | pages are within their bound, provenance needs two roots and artifacts, offers are public at every level |
| `AcceptedIsReady` | readiness: 4 catalogues, 3 observations, life 1, times 0..3 | an accepted manifest is ready at the time of reading |
| `ExitCodeIsTrue` | monitor: 2 specifications, 2 odd answers | no outage hides a change; zero means all was verified |
| `CeremonyIsOneLine` | ceremony: 2 threads, 3 sources | one line of records; a projected end is final; the validator accepts every projection |
| `LaunchesAreOnRecord` | launcher: 2 launches, repeated while fewer than 4 rows were written, 1 row per file | a scheduler runs only after its row; success has both rows; the log is the ordered end of what was written |

Why the bounds are enough. The hand-off has no numeric bound: its journal has at
most six records, two processes give every interference of a lock holder with
one other, and two approvals distinguish the per-process memory from the
journal. Three messages in pages of two give a page with two receipts, a second
page, a gap and a repeated receipt; two accepting and one rejecting receipt give
duplicates and contradictions. In the scheduler a window of 3 with an interval
of 1 and a budget of 2 makes the budget bind before the spacing does, an attempt
expires within the run, and a process may be suspended for a whole interval.
In the attended run the four instants that matter - the last moment for the live
gates, for a request, the supervisor's wall and the session's own wall after the
slowest bootstrap - are all different and all reached. Two writers and a read-back
of one message in a room of two let another message hide the write. Three sources
give a first, a middle and a last one, so a failure in the middle and a torn tail
in each place. Three KV runs give a published, an abandoned and a recovering one.
Four rows in three files of one row force both renames and the loss of a row. Two
actions of one nonce conflict, two attempts give one that evidence has closed and
its successor. With one client more per action the replay store only repeats
itself: helpers meet in the tables alone, where a transaction is one step. In the
evidence, policy and readiness inputs each flaw occurs alone and next to a sound
item. `ReplacesOwnValue` holds with overlapping operations as well (11 million
states); the listed run leaves them out to stay small, and `presence_floor` has
them. `MaxRoom`, `MaxTime`, `MaxPause`, `MaxSeq`, `MaxPreviews`, `MaxSends`,
`MaxCursor`, `MaxSnapshots`, `MaxCaps`, `MaxTokens`, `MaxOdd`, `MaxAttempts`,
`MaxWritten` and `Runs` are the only bounds that are not in the code.

Fairness. `FairSpec` of the hand-off is weakly fair in the steps of a running
call: the signer is local and the transport has a 20 second limit
(`TRANSPORT_TIMEOUT_SECONDS`), so a call that is not killed goes on. Starting
calls, crashes and restarts are not fair. `FairSpec` of the attended run is
weakly fair in the main thread, the session's thread, the watchdog and the
clock: every wait of theirs has a limit, every request a timeout, and no two
wait for each other's lock. Signals, deaths, records and the operator's command
need not come. The runs of systems whose work may end (attended, the sums and the
runs of their modules) do not check for deadlock. No other run assumes fairness.

The code and its documents disagree in six places, each shown by a run that ends
in a counterexample and described under "findings" in `PROJECT.json`: a malformed
HTTP status line leaves no outcome record (`handoff_response`); an orphan record
hides a durable contradiction (`observer_conflict`); an observation that overlaps
a write erases the time of the attempt (`presence_floor`); a KV service started
after the first publication resolves the published link, finds a directory where
it wants a link, and is refused, so that none of its completed cycles is published
(`kv_republish`); two starts may both be given the one-shot interval
(`interval_twice`); and a proof that an effect was not invoked, issued while it
was only reserved, closes it as safely failed after it was attempted, without a
read-back (`stale_proof`).

Smaller differences met while modelling, which the models have and no run
singles out:

- a launch of a disabled scheduler never reports OK_DISABLED, for its preflight
  accepts an enabled one alone (`scripts/engagement_runtime_contract.py:120`,
  against `docs/ENGAGEMENT_LAUNCHAGENT.md:20`);
- a snapshot whose retention loss was confirmed after it was found complete still
  answers NOT_FOUND_CONFIRMED (`evidence_transport.py:544`);
- a page re-read after a crash has new metadata and so conflicts with its own
  evidence; a gap is closed by an export that does not reach back to the cursor;
- the scheduler's hard minimum is counted from a clock reading taken before the
  lock; after a slow bootstrap the session starts requests later than the
  supervisor's wall; a signal just before the attended call takes its lock lets
  the session end between the last liveness check and the POST;
- `inspect` of the attempt journal raises after a last fsync that failed; a row
  the collector found already there is reported durable without a sync;
- a launcher that kills a scheduler reports zero collector invocations although
  one may have started; a row cut short by a death is glued to the next one;
- the ceremony's validator accepts attempts the ceremony cannot make (COMPLETED
  after one source, PARTIAL after all of them).

## 4. The proofs

`RegistrationHandoffProofs` proves, for any `Process` and `Approval`:
`Invariance`, `TypeCorrect`, `OnePost`, `WritesAreRecorded`,
`AppendsAreAccepted`, `RepliesAreDurable` and `DurablePrefix`. The only
assumption is `ConstantsAssumption` (the three "none" values are distinct from
what they stand beside).

`AtMostOnePost` is not inductive: nothing in it says why a process about to post
is the first one. `IInv` adds that

- exactly the processes inside a call hold the lock (`LockInv`), so there is at
  most one;
- that process's next record fits the journal, its temporary file is the journal
  plus that record, and after the append the record is the journal's last
  (`CallInv`); between appends the journal is durable;
- the durable journal is a prefix of the visible one, and that decodes
  (`JournalInv`);
- a call that has not signed (posted) yet finds the counter at zero, and a
  counter above zero has its record in the durable journal (`CountInv`).

A second execution would need an empty journal, which `CountInv` and
`DurableStep` (the durable journal only grows) exclude. One lemma per part
(`TypeStep`, `LockStep`, `JournalStep`, `CallStep`, `CountStep`, `ReplyStep`)
shows that a step keeps it; the lemmas on prefixes and `Decodes` come first.

The same module proves `Refinement`: under the mapping of
`ImplementsOneShotPost` the fsync of the POST attempt's record is the abstract
`Arm`, `Transport` is `Send`, the append of an outcome's record gives the
verdict, and every other step leaves the abstract state alone or spends it. The
lemma `VerdictIsLast` says that a recorded verdict is the journal's last record,
so that no later append can change it. `StaysSpent` says what the refinement means
for the journal: what was sent or given up is never armed again, and the durable
verdict stays.

`EngagementSchedulerProofs` proves the five properties of the run, type
correctness and `StateStaysValid`, for any
`Process`, interval, window and budget that satisfy `SchedulerAssumption` (the
normal interval is at most the window, as the code's constants are) and
`MissingAssumption` (an absent file is not a state). None of them is inductive:
the state file forgets attempts that left the window, a power loss brings old
contents back, and a result is written by a process that decided earlier. The
strengthening `IInv` says that

- a process between `Decide` and the last `Sync` is the one that holds the flock
  (`OneWriter`);
- whatever a power loss may leave is valid, counts the failures it should,
  permits nothing after a rollback, and `Remembers` every call: the call is one
  of its attempts, or lies a whole window before one of them (`DiskIsSound`);
- so does the state the lock holder is writing; a run that marked itself has its
  instant in that state, an interval after every call, and by the time the
  collector is called nothing else is on the disk (`WritersAreSound`).

`Remembers` is the heart of it. It is preserved when a run drops old attempts,
because the instant it adds is a window later than they are; it makes the
decision's spacing against the recorded attempts a spacing against all calls;
and it makes the calls of one window an injective image in the attempts of a
valid state, which gives `DailyCeiling` (`CollectIsSpaced`, by
`FS_Injection`). `DecisionIsSound` treats the six changes a command can make;
then there is one lemma per action.

`AttendedRegistrationProofs` proves type correctness, `NoPostAfterConflict`,
`ShownVerdictIsKept` and `TimeoutHasCause` for any constants that satisfy
`TimeAssumption` (a request timeout is below the minimum remaining time, that
below the wall, and the clock's bound lies behind both deadlines). `IInv` adds
to them

- `PlaceInv`: no session exists during the bootstrap, and a command is obeyed
  only after READY;
- `GuardInv`: an unclear inspection is the guard's last one, for its reader, the
  bootstrap or the session's thread, ends with it; so the class a check reads
  later cannot be cleared again, and `reserve_post` refuses it. This is why
  `NoPostAfterConflict` holds although pages are classified by one thread while
  the other checks, signs and posts;
- `PostInv`: an execution before its POST finds none, and its journal is started;
- `VerdictInv`: a verdict is a result only with its receipt archived, nothing is
  archived once the thread has ended, and it is printed last;
- `WallInv`: whatever will be printed as TIMEOUT was caused by the wall.

Each part has a lemma with one step per action.

The same module proves `Refinement`. The abstract registration is armed exactly
from the record of the POST attempt to the call of the transport, wherever the
session's thread and the watchdog are (`Armable` names these places), so a step of
theirs, of a signal or of the clock maps to a stutter (`StillStep`,
`WorkingStep`). `AppendMaps` shows that each record of the hand-off is a step of
the abstract machine or none, `TransportMaps` that the call of the transport is
its `Send`; every way out of a started execution (`AbandonMaps`, `DeathMaps`)
spends what was armed, and is the last that can. Two facts are needed that no
safety property of the run tells, and are parts of `PostInv`: before its first
record an execution finds the journal it was given, untouched, and no verdict is
recorded while a POST may still come. `StaysSpent` is the same consequence here.

`ReceiptObserverProofs` proves `EvidenceBeforeCursor`, `AnswerHasEvidence`,
`CursorOnlyAdvances` and `MarkerIsFinal` for any room, page size and set of
receipts that satisfy `RoomAssumption` of `ReceiptObserver`. A run writes its
evidence file by file and its checkpoint last, so what the properties say is
true of the plan long before it is true of the disk. `IInv` adds

- `SyncedInv`: what the last directory fsync covered is still in the directory,
  or was replaced by something later, so a power loss takes only newer entries;
- `PlanInv`, `OrderInv`: which writes are still to make, and that each pair
  stands before the cursor that relies on it;
- `CaughtInv`, `MarkerInv`: a receipt this run has caught is in a pair or will be,
  and a marker, written or about to be, comes from two dispositions;
- `CursorInv`, the heart of it: every receipt between the checkpoint and a cursor
  is in a durable pair, or ahead of that cursor in the writes;
- `AnswerInv`: an answer rests on receipts that are on the disk, and a run that
  goes on has given none.

The theorems about the systems of a sum have the form
`Spec => [](machine = "X" => XIInv)`, and the properties, which are stated of
the sum, follow. In most of these systems a step relies on something looked at
several steps before, and the invariant says why it still holds.

`StoresProofs`:

- signed write (`SentOnce`): a process between its reservation and its request
  has its row for itself and finds its write unsent (`SWRowIsItsOwn`), two rows
  share neither nonce nor text (`SWRowsDiffer`), the table is durable before
  anything is sent (`SentIsFenced`), and what may be confirmed is in the room or
  was sent (`SWRoomInv`);
- attempt journal (`AskedOnceOnRecord`, `InspectionTellsAll`): `OJFilesInv` says
  that a file that reads as whole is a history the validator accepts, and that,
  undamaged, the visible one continues the synced one; `OJAppendInv` follows one
  append from the lock to the fsync; `OJRequestInv` says that the request boundary
  of every request is on durable record, that one process at most is between that
  record and its request, and that nobody appends a second;
- presence (`ReplacesOwnValue`): the `published` value of every copy of the state,
  on disk or in a process, was confirmed by a read-back, and every preview and
  request replaces either nothing or a smaller confirmed value. The proof needs no
  exclusion between operations: it also covers the overlaps the run leaves out;
- KV observatory (`PublishedIsWhole`): one run goes on at a time; a note
  read or known is under a key of the configuration, and one not read was missing
  from the complete listing; the polls of a completed cycle never change; a
  generation is written and promoted only when it tells of a completed cycle.

`ObserversProofs`:

- collector (`DurableSurvives`, `RowsAreKept`): from the lock to the fsync the lock
  is the collector's own and what it read is still the history (`ECFreshView`), a
  row of durable state is in every content a power loss may leave
  (`ECDurableRows`), and the result and the alarm belong to the parent's own worker
  (`ResultTellsCommit`, `SignalsOwnWorker`);
- lineage (`OneLineage`, `StoppedReadsEnd`): from the lock on a process is the
  owner, only a process that watches has a response in hand, and a saved lineage
  bears the name of one that came that far; so nobody else saves between `Load`
  and `Read`;
- migration (`ResumesWhereItStopped`, `OnlyTheReviewed`): a name is *durable* when
  no power loss can change what it shows. While the legacy checkpoint stands, it
  and the progress file are durable, and so is every file a call has finished.
  Once it is gone, the archive is durable, and either the marker and the review
  record are durably named or the new lineage is; after success all of them are.
  That covers every prefix of `seal` and `apply`, and every power loss
  within one, which is what the restart check of the observer meets.

`GatesProofs`:

- capabilities (`OneActionEach`): whatever a thread holds or has carried out is
  marked as used in the registry, and `Require` takes only what is not
  (`AUSpentFirst`);
- replay store (`GrantedOnce`, `OpenUntilEvidence`): one action per nonce has a
  record; its state tells whether it has attempts and that the latest is not
  closed; only an attempt that has a row was licensed, and the licences given are
  at most the closed attempts and one for an open one; in production nothing
  closes, and a proof is a record of an action, an attempt and a fixture. Sums over
  attempts are cardinalities of sets of units, so that the finite set theorems apply;
- ceremony (`CeremonyIsOneLine`): every chain that was issued is a start of the
  active one, which names each source once and goes on after a success alone; so
  a chain that has failed, or has them all, is the active one;
- launcher (`LaunchesAreOnRecord`): one launch is inside `append_log`; the files
  are consecutive intervals of what was written, the last ends at `written`, and a
  renamed file is full; a launch past its ready row stays on record whatever the
  others rotate; success is said only once its scheduler is over;
- policy (`PolicyIsKept`): the code counts roots and artifacts apart, the property
  wants one pair of answers that differs in both; two of each always give such a
  pair. An offer's nested evidence is checked at each level;
- readiness (`AcceptedIsReady`): the rows of a manifest are the assessor's own,
  a verdict is about the manifest as it stands, and only one observation decides
  a row;
- monitor (`ExitCodeIsTrue`): an answer that raises an alarm makes a check that
  counts, the fold says READY only if no status is bad, and nothing is read after
  the exit code;
- evidence transport (`AbsenceIsReviewed`): a proof of completeness is of a
  snapshot that is itself a reviewed, unbroken and whole export, a proof of loss of
  one whose loss the review lists (`ETProven`), which they stay, for snapshots are
  added and never changed. So a snapshot that is complete and has no gap was made
  from the one, a snapshot with a confirmed loss from the other, with the response
  and the completeness of its source (`ETSupported`, `ETClaims`): what such a
  snapshot says of an absence its source had said. Each is valid because an
  elevation sets together what the validator wants together;
- evidence authority (`BundlesHangTogether`): the id of an agreement contains the
  id of its offer, and that contains the canonical rail and the reference; a
  settlement has the agreement's id and agrees with both (`EARecords`), so the
  agreement and the settlement of a bundle match even when their tokens were
  issued for different records with one id. An assessor that finds nothing wrong has counted
  every line, and numbers of which none is repeated or reversed ascend
  (`LinesAscend`, `StepsAscend`); without a gap they are consecutive
  (`SealedIsWhole`), and a gap between lines is one between the sorted numbers
  (`SameGaps`). Only then do the two assessors agree (`AssessorsAgree`): on lines
  out of order their gaps differ, but both have found the order first.

`SequenceFacts` has the induction these proofs use: a set of numbers has a least
element (`LeastNat`, from the well-foundedness of strict inclusion), so a claim
about every position is proved by its least counterexample.

The proofs of the sums rest on the named assumptions of `Stores` and `Gates`:

| Assumption | Why the code satisfies it |
|---|---|
| `NoneAssumption` (both) | `None` is Python's; it is no process, client, text or chain of results, nor the state COMPLETED |
| `PageAssumption`, `BoundsAssumption`, `RowsAssumption`, `AttemptsAssumption` | limits and the models' own bounds are numbers, of any size |
| `SourcesAssumption`, `SourceAssumption`, `ActionAssumption` | there is at least one fixed source; sources and actions are finitely many |
| `WindowAssumption`, `ReadinessAssumption` | lives and times are numbers; the shipped catalogue has each id once (`runtime_capability.py:252`, the policy is keyed by it, :609); an observation is AVAILABLE or UNAVAILABLE |
| `CodeAssumption` | exit codes are 0..3, and a run that has none or was cut off is told apart from them |
| `ExportAssumption` | an export is a sequence of lines (`splitlines`), and a line's number is an integer, in the model a negative one for a line without |
| `PolicyAssumption` | bounds and lengths are numbers; what is nested in an offer is its one `evidence` field (`remote_content_policy.py:763`) |

Some things in the models became visible only through the proofs. `Observe` of
`KvObservatory` had CASE arms whose guards overlapped; TLC takes the first, as the
code's `if` chain does, but a CASE leaves the choice open, and the guards are
exclusive now. And `ReadyErrors` of
`RuntimeCapability` now brackets its `UNION`, which tools group differently.
The assessors of `EvidenceAuthority` now speak of positions and
neighbours instead of filtered and sorted sequences, which says the same without
recursion.

Only model-checked: the liveness properties `LockIsReleased` and `RunEnds`
of the runs `handoff` and `attended`, because liveness and ENABLED are out of the
prover's reach. Every other property of a passing run is stated by a theorem. The
counterexample runs state what is false and have nothing to prove. The
`TypeCorrect` and `Invariance` theorems and a few more state what no run lists,
being stronger than, or a step towards, the properties that are listed.

## 5. What is not modelled

Hashing, signatures, encodings, HTTP details, file modes, symlink and inode
checks: they decide whether an input is accepted, and the models start from
accepted inputs or let the check fail at any time. Directories created in the
same boot are assumed to survive a power loss, except where a module says
otherwise. The clock of the scheduler does not run backwards (the code refuses
the state until it catches up). Not modelled, or in part only:

- the read side of the transport archive (it rereads its own files under their
  digests), the byte formats and vectors of `wire_evidence.py`;
- the faucet transitions and static catalogues of `runtime_capability.py` and the
  testnet views built on them, the mailbox text rules and saved runs of the
  monitor, the metrics of `engagement.py`: pure arithmetic and text;
- collaboration and workflow records, the TCLK pipelines, the specification
  authority, settlement maturity and referral readiness: small local machines or
  pure functions; the first two are in the plan;
- the one-shot runtime observation, the hand-off specification, provisioning and
  rendering: descriptions and offline byte checks;
- a power loss under the launcher's log, whose rows nobody reads back, and its
  file of failed preflights, whose errors are ignored.

Hazards of the code outside these models: temporary names that contain the
process number or none at all and may meet a leftover; the journal's directory
is created without a sync of its parent; an approval's expiry is not checked
again after the wait for the lock; a KV store left between database and pointer
by overlapping services; a replay store left between its database and its
credential stays refused; one approval may mint several capabilities while it is
fresh; a body cut short by the peer is read as whole; one rail proof can be
presented for two agreements with the same terms.

## 6. Plan

What is left, in this order:

1. `Collaboration`: the local task records and their transitions.
2. `OfferWinner`: the winner rule and the acquisition cursor of the TCLK modules
   as operators, checked against reference definitions over bounded inputs.
