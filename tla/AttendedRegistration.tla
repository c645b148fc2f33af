------------------------ MODULE AttendedRegistration ------------------------
(***************************************************************************)
(* One run of scripts/run_sonnet_attended_registration.py: the script's    *)
(* main thread, the observation session's thread                           *)
(* (sonnet_receipt_observer.py), the supervisor's watchdog                 *)
(* (sonnet_receipt_supervisor.py) and the operator's signals.  The main    *)
(* thread bootstraps the interval, waits for READY and the command, sends  *)
(* the registration through the hand-off and waits for the terminal.       *)
(*                                                                         *)
(* Abstractions.  A record of the room is its kind, and anybody may post   *)
(* at any time, so a response shows any kinds; ReceiptObserver has         *)
(* cursors, drops and the store.  The journal is the state it reports;     *)
(* RegistrationHandoff has files, processes and power losses.  The         *)
(* approval's expiry is one of the reasons a check may refuse.  Retry      *)
(* budgets are left out: a failed read is tried again or ends the session. *)
(* A later run is refused, because the interval's lock file stays, so a    *)
(* death ends the model.  Time counts from start(); a step may take long.  *)
(***************************************************************************)
EXTENDS Integers, FiniteSets

CONSTANTS Wall,     \* SUPERVISOR_MAX_WALL_SECONDS
          Timeout,  \* HTTP_TIMEOUT_SECONDS
          Minimum,  \* MINIMUM_EXECUTION_REMAINING_SECONDS
          MaxTime   \* bound: the clock stops here

ASSUME TimeAssumption ==
    /\ Wall \in Nat /\ Timeout \in Nat /\ Minimum \in Nat /\ MaxTime \in Nat
    /\ 0 < Timeout /\ Timeout < Minimum /\ Minimum < Wall
    /\ 2 * Wall - Timeout <= MaxTime + 1

\* The referee's verified receipts, and every other record that keeps the
\* window from being NO_CONFLICT_IN_OBSERVED_WINDOW.
Receipt == {"ACCEPTED", "REJECTED"}
Kind == Receipt \cup {"conflict"}

VARIABLES pc,        \* the main thread
          stop,      \* the script's stop event
          pending,   \* _stop_pending
          asked,     \* "no", "asked" (approval_requested), "done" (executed)
          sess,      \* the session thread
          ready,     \* its _ready event
          told,      \* its _stop event
          begun,     \* when it started
          page,      \* kinds in the response it is handling
          archive,   \* dispositions in the private store
          result,    \* _result
          dog,       \* the watchdog thread
          explicit, wall,  \* _explicit_stop, _wall_timeout
          class,     \* _classification of the window guard
          reserved,  \* _post_reserved
          journal,   \* state of the registration journal
          posts,     \* POSTs handed to the network
          shown,     \* the last terminal status printed
          now,
          tainted    \* the guard was shown a record before the reservation

main == <<asked, journal, posts, shown>>
signals == <<stop, pending>>
guarded == <<class, reserved, tainted>>
session == <<sess, ready, begun, page, archive, result>>
stopping == <<told, explicit, wall>>

vars == <<pc, main, signals, guarded, session, stopping, dog, now>>

Nothing == "nothing"

Init ==
    /\ pc = "highwater" /\ asked = "no" /\ journal = "NOT_STARTED"
    /\ posts = 0 /\ shown = Nothing
    /\ stop = FALSE /\ pending = FALSE
    /\ class = "not observed" /\ reserved = FALSE /\ tainted = FALSE
    /\ sess = "none" /\ ready = FALSE /\ begun = 0 /\ page = {}
    /\ archive = {} /\ result = Nothing
    /\ told = FALSE /\ explicit = FALSE /\ wall = FALSE
    /\ dog = "none"
    /\ now = 0

Running == sess \notin {"none", "ended"}

\* The two halves of every liveness gate; the deadline is the supervisor's.
Live == Running /\ Wall - now > Minimum

GoTo(p) == pc' = p

-----------------------------------------------------------------------------
(* The window guard: inspect_records classifies what it is shown, until    *)
(* the POST is reserved.                                                   *)
\* Mutant: an unclear page is classified but does not raise.
RefusesNothing(kinds) == FALSE

\* It raises, and so ends the reader.
Refuses(kinds) == ~reserved /\ kinds # {}

Inspect(kinds) ==
    /\ class' = IF reserved THEN class
                ELSE IF kinds = {} THEN "clear" ELSE "unclear"
    /\ tainted' = (tainted \/ (~reserved /\ kinds # {}))
    /\ UNCHANGED reserved

-----------------------------------------------------------------------------
(* start(): the bootstrap of the interval, by the main thread.  A signal   *)
(* is only noted, for no session is assigned yet.                          *)
TimeForRequest == Wall - now > Timeout

Highwater ==
    /\ pc = "highwater" /\ TimeForRequest
    /\ GoTo("export")
    /\ UNCHANGED <<main, signals, guarded, session, stopping, dog, now>>

\* The guard sees the high-water record and everything the room retains.
Export ==
    /\ pc = "export" /\ TimeForRequest
    /\ \E kinds \in SUBSET Kind :
          /\ Inspect(kinds)
          /\ GoTo(IF Refuses(kinds) THEN "refused" ELSE "launch")
    /\ UNCHANGED <<main, signals, session, stopping, dog, now>>

Launch ==
    /\ pc = "launch" /\ TimeForRequest
    /\ sess' = "reading" /\ begun' = now /\ dog' = "watching"
    /\ GoTo("loop")
    /\ UNCHANGED <<main, signals, guarded, ready, page, archive, result,
                   stopping, now>>

\* A request, the guard or the remaining time ends the run before a session.
BootstrapFails ==
    /\ pc \in {"highwater", "export", "launch", "refused"}
    /\ shown' = "FAILED"
    /\ GoTo("exited")
    /\ UNCHANGED <<asked, journal, posts, signals, guarded, session, stopping,
                   dog, now>>

-----------------------------------------------------------------------------
(* The session thread: prepare() while not ready, then the polling loop.   *)
SessionEnds(r) ==
    /\ sess' = "ended"
    /\ result' = IF ready /\ told THEN "STOPPED" ELSE r

SessionOnly == UNCHANGED <<pc, main, signals, stopping, dog, now>>

\* The stop event is looked at before each request and in every wait.
BeginRead ==
    /\ sess = "waiting" /\ ~told
    /\ begun + Wall - now > Timeout
    /\ sess' = "reading"
    /\ UNCHANGED <<guarded, ready, begun, page, archive, result>>
    /\ SessionOnly

StopSeen ==
    /\ sess = "waiting" /\ told
    /\ SessionEnds("STOPPED")
    /\ UNCHANGED <<guarded, ready, begun, page, archive>>
    /\ SessionOnly

SessionTimesOut ==
    /\ sess = "waiting" /\ now >= begun + Wall
    /\ sess' = "ended" /\ result' = "TIMEOUT"
    /\ UNCHANGED <<guarded, ready, begun, page, archive>>
    /\ SessionOnly

\* DEADLINE_REACHED of the contest, SUPERVISOR_READ_LIMIT.
SessionGivesUp ==
    /\ sess = "waiting"
    /\ sess' = "ended" /\ result' = "UNCONFIRMED"
    /\ UNCHANGED <<guarded, ready, begun, page, archive>>
    /\ SessionOnly

\* A response that cannot be used, or a read that stop() interrupted; it is
\* tried again only in the loop.
ReadFails ==
    /\ sess = "reading"
    /\ \/ ready /\ ~told /\ sess' = "waiting" /\ UNCHANGED result
       \/ \E r \in {"UNCONFIRMED", "REVIEW_REQUIRED"} : SessionEnds(r)
    /\ UNCHANGED <<guarded, ready, begun, page, archive>>
    /\ SessionOnly

\* A valid page goes to the guard; after it, records may be missing.
PageArrives ==
    /\ sess = "reading"
    /\ page' \in SUBSET Kind
    /\ Inspect(page')
    /\ \/ Refuses(page') /\ sess' = "refused"
       \/ ~Refuses(page') /\ sess' \in {"handling", "gap"}
    /\ UNCHANGED <<ready, begun, archive, result>>
    /\ SessionOnly

\* The export that stands in for the missing records.
GapExport ==
    /\ sess = "gap"
    /\ page' \in {kinds \in SUBSET Kind : page \subseteq kinds}
    /\ Inspect(page')
    /\ sess' = IF Refuses(page') THEN "refused" ELSE "exported"
    /\ UNCHANGED <<ready, begun, archive, result>>
    /\ SessionOnly

GapExportFails ==
    /\ sess = "gap"
    /\ SessionEnds("UNCONFIRMED")
    /\ page' = {}
    /\ UNCHANGED <<guarded, ready, begun, archive>>
    /\ SessionOnly

\* Mutant: the exception of the guard ends the thread without its `finally`.
SessionHangs == sess = "refused" /\ UNCHANGED vars

\* REGISTRATION_WINDOW_NOT_CLEAR is not retryable.
SessionRefused ==
    /\ sess = "refused"
    /\ SessionEnds("UNCONFIRMED")
    /\ page' = {}
    /\ UNCHANGED <<guarded, ready, begun, archive>>
    /\ SessionOnly

\* _receipts: everything verified is archived, and one disposition is the answer.
HandleReceipts ==
    /\ sess \in {"handling", "exported"} /\ page \cap Receipt # {}
    /\ archive' = archive \cup (page \cap Receipt)
    /\ \/ /\ Cardinality(page \cap Receipt) > 1
          /\ SessionEnds("REVIEW_REQUIRED")
       \/ \E r \in Receipt : page \cap Receipt = {r} /\ SessionEnds(r)
    /\ page' = {}
    /\ UNCHANGED <<guarded, ready, begun>>
    /\ SessionOnly

\* READY after prepare, the next wait in the loop.
NoReceipt ==
    /\ sess = "handling" /\ page \cap Receipt = {}
    /\ \/ ready /\ told /\ SessionEnds("STOPPED")
       \/ ~(ready /\ told) /\ sess' = "waiting" /\ UNCHANGED result
    /\ ready' = TRUE
    /\ page' = {}
    /\ UNCHANGED <<guarded, begun, archive>>
    /\ SessionOnly

\* CURSOR_GAP_UNRESOLVED.
GapUnresolved ==
    /\ sess = "exported" /\ page \cap Receipt = {}
    /\ SessionEnds("REVIEW_REQUIRED")
    /\ page' = {}
    /\ UNCHANGED <<guarded, ready, begun, archive>>
    /\ SessionOnly

\* A write to the private store fails, before or after the receipts' writes.
StoreFails ==
    /\ sess \in {"handling", "exported"}
    /\ archive' \in {archive, archive \cup (page \cap Receipt)}
    /\ \E r \in {"UNCONFIRMED", "REVIEW_REQUIRED"} : SessionEnds(r)
    /\ page' = {}
    /\ UNCHANGED <<guarded, ready, begun>>
    /\ SessionOnly

SessionStep ==
    \/ BeginRead \/ StopSeen \/ SessionTimesOut \/ SessionGivesUp \/ ReadFails
    \/ PageArrives \/ GapExport \/ GapExportFails \/ SessionRefused
    \/ HandleReceipts \/ NoReceipt \/ GapUnresolved \/ StoreFails

-----------------------------------------------------------------------------
(* SupervisorHandle: stop() and the watchdog's enforce_wall.               *)
TellStop ==
    /\ told' = TRUE
    /\ explicit' = (explicit \/ ~wall)
    /\ UNCHANGED wall

\* wait_for_result(remaining) comes back with no result.
WallReached ==
    /\ dog = "watching" /\ now >= Wall /\ sess # "ended"
    /\ dog' = "due"
    /\ UNCHANGED <<pc, main, signals, guarded, session, stopping, now>>

\* Mutant: the wall's flag is set whoever stopped the session.
WallStopsAnyway ==
    /\ dog = "due"
    /\ wall' = TRUE /\ told' = TRUE
    /\ dog' = "over"
    /\ UNCHANGED <<pc, main, signals, guarded, session, explicit, now>>

\* By now the session may have its result.
WallStops ==
    /\ dog = "due"
    /\ wall' = ~explicit /\ told' = TRUE
    /\ dog' = "over"
    /\ UNCHANGED <<pc, main, signals, guarded, session, explicit, now>>

WatchdogLeaves ==
    /\ dog = "watching" /\ sess = "ended"
    /\ dog' = "over"
    /\ UNCHANGED <<pc, main, signals, guarded, session, stopping, now>>

WatchdogStep == WallReached \/ WallStops \/ WatchdogLeaves

\* wait_for_terminal of the handle.
HandleStatus == IF wall THEN "TIMEOUT" ELSE result

-----------------------------------------------------------------------------
(* The script's loop.                                                      *)
MainOnly == UNCHANGED <<guarded, session, dog, now>>

Turn ==
    /\ pc = "loop"
    /\ GoTo(IF stop THEN "stopping" ELSE "turn")
    /\ UNCHANGED <<main, signals, stopping>> /\ MainOnly

\* wait_until_ready of the attended session.
SeeReady ==
    /\ pc = "turn" /\ asked = "no" /\ ready /\ Running
    /\ GoTo("announce")
    /\ UNCHANGED <<main, signals, stopping>> /\ MainOnly

AskApproval ==
    /\ pc = "announce"
    /\ \/ Running /\ asked' = "asked" /\ GoTo("turn")
       \/ ~Running /\ UNCHANGED asked /\ GoTo("stopping")
    /\ UNCHANGED <<journal, posts, shown, signals, stopping>> /\ MainOnly

\* The operator enters the command, or something else.
Command ==
    /\ pc = "turn" /\ asked = "asked"
    /\ pc' \in {"enter", "failing"}
    /\ UNCHANGED <<main, signals, stopping>> /\ MainOnly

PollAgain ==
    /\ pc = "turn" /\ sess # "ended"
    /\ GoTo("loop")
    /\ UNCHANGED <<main, signals, stopping>> /\ MainOnly

Show(s) ==
    /\ shown' = s
    /\ GoTo("exited")
    /\ UNCHANGED <<asked, posts, signals, stopping>>

\* Mutant: the verdict is printed without the journal.
PollUnreconciled ==
    /\ pc = "turn" /\ sess = "ended"
    /\ Show(HandleStatus)
    /\ UNCHANGED journal /\ MainOnly

PollTerminal ==
    /\ pc = "turn" /\ sess = "ended" /\ HandleStatus \notin Receipt
    /\ Show(HandleStatus)
    /\ UNCHANGED journal /\ MainOnly

-----------------------------------------------------------------------------
(* wait_for_terminal of the attended session, when the status is a verdict:*)
(* the hand-off reconciles what the private store holds.                   *)
Verdict == {"RECEIPT_ACCEPTED", "RECEIPT_REJECTED"}

Recorded(r) == IF r = "ACCEPTED" THEN "RECEIPT_ACCEPTED" ELSE "RECEIPT_REJECTED"

\* load() gives nothing once a conflict is marked.
Loaded == IF Cardinality(archive) = 1 THEN archive ELSE {}

Reconcile ==
    /\ sess = "ended" /\ HandleStatus \in Receipt
    /\ journal \notin Verdict \cup {"NOT_STARTED"}
    /\ \E r \in Loaded : journal' = Recorded(r)

\* No hand-off, no receipt, a verdict already recorded, or an append that fails
\* before or after its record is visible.
ReconcileFails ==
    /\ sess = "ended" /\ HandleStatus \in Receipt
    /\ Reconcile \/ UNCHANGED journal

PollVerdict ==
    /\ pc = "turn"
    /\ Reconcile
    /\ Show(HandleStatus)
    /\ MainOnly

PollFails ==
    /\ pc = "turn"
    /\ ReconcileFails
    /\ GoTo("failing")
    /\ UNCHANGED <<asked, posts, shown, signals, stopping>> /\ MainOnly

\* session.stop() after the loop and in the handler of exceptions.
StopSession ==
    /\ \/ pc = "stopping" /\ GoTo("draining")
       \/ pc = "failing" /\ GoTo("recovering")
    /\ TellStop
    /\ UNCHANGED <<main, signals>> /\ MainOnly

\* wait_for_terminal(21): no answer in time, no verdict, or a reconciled one.
Drain ==
    /\ pc \in {"draining", "recovering"}
    /\ \/ (sess # "ended" \/ HandleStatus \notin Receipt) /\ UNCHANGED journal
       \/ Reconcile
    /\ Show(IF pc = "draining" THEN "STOPPED" ELSE "FAILED")
    /\ MainOnly

DrainFails ==
    /\ \/ /\ pc = "draining"
          /\ GoTo("failing") /\ UNCHANGED <<asked, posts, shown, signals, stopping>>
       \/ pc = "recovering" /\ Show("FAILED")
    /\ ReconcileFails
    /\ MainOnly

-----------------------------------------------------------------------------
(* execute_approved_registration, which holds the session's lock, around   *)
(* the hand-off's execute.                                                 *)
Locked == pc \in {"check", "intent", "sign", "reserve", "attempt", "confirm",
                  "post", "posting", "leave", "unlock"}

\* The `finally` of the call.
DeferredStop ==
    \/ pending /\ TellStop
    \/ ~pending /\ UNCHANGED stopping

Abandon ==
    /\ DeferredStop
    /\ GoTo("failing")
    /\ UNCHANGED <<asked, posts, shown, signals>>

Advance(p) ==
    /\ GoTo(p)
    /\ UNCHANGED <<asked, posts, shown, signals, stopping>>

Gate ==
    /\ pc = "enter" /\ Live /\ journal = "NOT_STARTED"
    /\ Advance("check")
    /\ UNCHANGED journal /\ MainOnly

\* registration_checker, and the approval is still valid.
Check ==
    /\ pc = "check" /\ Live /\ class = "clear"
    /\ Advance("intent")
    /\ UNCHANGED journal /\ MainOnly

\* The records of the hand-off, and the step after each.
NextRecord ==
    CASE pc = "intent"  -> [state |-> "INTENT_RECORDED", then |-> "sign"]
      [] pc = "sign"    -> [state |-> "LOCAL_SIGNATURE_CREATED", then |-> "reserve"]
      [] pc = "attempt" -> [state |-> "POST_ATTEMPT_RECORDED", then |-> "confirm"]

AppendRecord ==
    /\ pc \in {"intent", "sign", "attempt"}
    /\ journal' = NextRecord.state
    /\ Advance(NextRecord.then)
    /\ MainOnly

\* The append fails before or after its record is visible.
AppendFails ==
    /\ pc \in {"intent", "sign", "attempt"}
    /\ journal' \in {journal, NextRecord.state}
    /\ Abandon
    /\ MainOnly

\* reserve_live_post.
Reserve ==
    /\ pc = "reserve" /\ Live /\ class = "clear" /\ ~reserved
    /\ reserved' = TRUE
    /\ Advance("attempt")
    /\ UNCHANGED <<journal, class, tainted, session, dog, now>>

\* confirm_recorded_post_attempt.
Confirm ==
    /\ pc = "confirm" /\ Running /\ reserved
    /\ Advance("post")
    /\ UNCHANGED journal /\ MainOnly

\* A gate is closed, the approval has expired, the signer or the body is
\* refused.
ExecuteRefused ==
    /\ \/ pc \in {"enter", "check", "sign", "reserve"}
       \/ pc = "confirm" /\ ~Running
    /\ Abandon
    /\ UNCHANGED journal /\ MainOnly

\* Mutant: a transport error is answered by sending again.
TransportRetried ==
    /\ pc = "post"
    /\ posts' = posts + 1
    /\ pc' \in {"post", "posting"}
    /\ UNCHANGED <<asked, journal, shown, signals, stopping>> /\ MainOnly

\* The transport is called; it may fail before anything was sent.
Transport ==
    /\ pc = "post"
    /\ posts' \in {posts, posts + 1}
    /\ GoTo("posting")
    /\ UNCHANGED <<asked, journal, shown, signals, stopping>> /\ MainOnly

OutcomeRecord ==
    \/ journal' = "WRITE_OUTCOME_UNKNOWN"
    \/ posts > 0 /\ journal' = "AWAITING_REFEREE_RECEIPT"

Outcome ==
    /\ pc = "posting"
    /\ OutcomeRecord
    /\ Advance("leave")
    /\ MainOnly

\* An append of the outcome fails, or an exception skips it.
OutcomeFails ==
    /\ pc = "posting"
    /\ \/ OutcomeRecord
       \/ posts > 0 /\ journal' = "POST_RESPONSE_OBSERVED"
       \/ UNCHANGED journal
    /\ Abandon
    /\ MainOnly

Leave ==
    /\ pc = "leave"
    /\ DeferredStop
    /\ GoTo("unlock")
    /\ UNCHANGED <<main, signals>> /\ MainOnly

Unlock ==
    /\ pc = "unlock"
    /\ asked' = "done"
    /\ GoTo("turn")
    /\ UNCHANGED <<journal, posts, shown, signals, stopping>> /\ MainOnly

MainStep ==
    \/ Highwater \/ Export \/ Launch \/ BootstrapFails
    \/ Turn \/ SeeReady \/ AskApproval \/ Command \/ PollAgain
    \/ PollTerminal \/ PollVerdict \/ PollFails
    \/ StopSession \/ Drain \/ DrainFails
    \/ Gate \/ Check \/ AppendRecord \/ AppendFails \/ Reserve \/ Confirm
    \/ ExecuteRefused \/ Transport \/ Outcome \/ OutcomeFails
    \/ Leave \/ Unlock

-----------------------------------------------------------------------------
(* SIGINT and SIGTERM.  The handler runs in the main thread, between two   *)
(* of its steps, and stop() of the attended session does not wait for its  *)
(* lock; wait_until_ready holds it for a moment as well.                   *)
Bootstrapping == pc \in {"highwater", "export", "launch", "refused"}

Finished == pc \in {"exited", "dead"}

Defer == pending' = TRUE /\ UNCHANGED stopping

Signal ==
    /\ ~Finished
    /\ stop' = TRUE
    /\ \/ Bootstrapping /\ UNCHANGED <<pending, stopping>>
       \/ (Locked \/ pc = "announce") /\ Defer
       \/ ~Bootstrapping /\ ~Locked /\ TellStop /\ UNCHANGED pending
    /\ UNCHANGED <<pc, main>> /\ MainOnly

\* The process is killed; the journal and the private store remain.
Dies ==
    /\ ~Finished
    /\ GoTo("dead")
    /\ sess' = "ended" /\ dog' = "over" /\ page' = {} /\ result' = Nothing
    /\ stop' = FALSE /\ pending' = FALSE
    /\ told' = FALSE /\ explicit' = FALSE /\ wall' = FALSE
    /\ UNCHANGED <<main, guarded, ready, begun, archive, now>>

Tick ==
    /\ now < MaxTime /\ ~(Finished /\ sess = "ended")
    /\ now' = now + 1
    /\ UNCHANGED <<pc, main, signals, guarded, session, stopping, dog>>

Next == MainStep \/ SessionStep \/ WatchdogStep \/ Signal \/ Dies \/ Tick

Spec == Init /\ [][Next]_vars

\* Each thread goes on: every wait of the program has a limit and every request
\* a timeout.  Signals, deaths and records need not come.
FairSpec ==
    /\ Spec
    /\ WF_vars(MainStep) /\ WF_vars(SessionStep) /\ WF_vars(WatchdogStep)
    /\ WF_vars(Tick)

-----------------------------------------------------------------------------
FlagsOK ==
    /\ stop \in BOOLEAN /\ pending \in BOOLEAN /\ ready \in BOOLEAN
    /\ told \in BOOLEAN /\ explicit \in BOOLEAN /\ wall \in BOOLEAN
    /\ reserved \in BOOLEAN /\ tainted \in BOOLEAN

MainOK ==
    /\ pc \in {"highwater", "export", "launch", "refused", "loop", "turn",
               "announce", "enter", "check", "intent", "sign", "reserve",
               "attempt", "confirm", "post", "posting", "leave", "unlock",
               "stopping", "draining", "failing", "recovering", "exited", "dead"}
    /\ asked \in {"no", "asked", "done"}
    /\ posts \in 0..1

AnswersOK ==
    /\ journal \in Verdict \cup
          {"NOT_STARTED", "INTENT_RECORDED", "LOCAL_SIGNATURE_CREATED",
           "POST_ATTEMPT_RECORDED", "POST_RESPONSE_OBSERVED",
           "AWAITING_REFEREE_RECEIPT", "WRITE_OUTCOME_UNKNOWN"}
    /\ shown \in {Nothing, "FAILED", "UNCONFIRMED", "REVIEW_REQUIRED", "STOPPED",
                  "TIMEOUT"} \cup Receipt
    /\ result \in {Nothing, "UNCONFIRMED", "REVIEW_REQUIRED", "STOPPED",
                   "TIMEOUT"} \cup Receipt

ReaderOK ==
    /\ class \in {"not observed", "clear", "unclear"}
    /\ sess \in {"none", "waiting", "reading", "gap", "refused", "handling",
                 "exported", "ended"}
    /\ begun \in 0..Wall /\ now \in 0..MaxTime
    /\ page \subseteq Kind
    /\ archive \subseteq Receipt
    /\ dog \in {"none", "watching", "due", "over"}

\* Every variable has its type.
TypeOK == MainOK /\ AnswersOK /\ ReaderOK /\ FlagsOK

\* "An identical previously observed request, another role for the participant,
\* an X collision, or a related verified receipt stops the session before
\* signing": the observer's thread classifies pages while the main thread checks,
\* signs and posts, and no POST follows a record that was shown to the guard
\* before the window was reserved.
NoPostAfterConflict == posts > 0 => reserved /\ ready /\ ~tainted

\* A verdict that is printed is in the journal, and the private store holds a
\* receipt for it and none against it, whatever failed or was stopped on the way.
ShownVerdictIsKept ==
    \A r \in Receipt : shown = r => journal = Recorded(r) /\ archive = {r}

\* TIMEOUT is printed only when the wall time is over, and the watchdog and an
\* operator's stop never both claim the end of a session.
TimeoutHasCause == (shown = "TIMEOUT" => now >= Wall) /\ ~(explicit /\ wall)

\* Every run that is started ends, and leaves no thread behind: no order of
\* signals, watchdog, refused pages and failed appends leaves the main thread, the
\* session or the watchdog waiting for another.
RunEnds == <>(Finished /\ ~Running /\ dog \in {"none", "over"})

-----------------------------------------------------------------------------
(* The run implements the one-shot registration: it is armed from the      *)
(* record of the POST attempt to the call of the transport.                *)
BeforePost == {"intent", "sign", "reserve", "attempt"}

Stage ==
    IF pc \in {"confirm", "post"} THEN "armed"
    ELSE IF posts > 0 \/ (journal # "NOT_STARTED" /\ pc \notin BeforePost)
         THEN "spent"
    ELSE "fresh"

OneShot == INSTANCE OneShotPost
               WITH Verdicts <- Verdict, NoVerdict <- Nothing,
                    stage <- Stage, sent <- posts,
                    recorded <- IF journal \in Verdict THEN journal ELSE Nothing

\* Gates that close late, deferred signals, the watchdog, deaths and receipts
\* that come at any time never make the attended run send twice, arm again or
\* change a recorded verdict.
ImplementsOneShotPost == OneShot!Spec

-----------------------------------------------------------------------------

-----------------------------------------------------------------------------
(* The inductive invariant behind the safety properties.                   *)
Executing == {"check", "intent", "sign", "reserve", "attempt", "confirm", "post",
              "posting", "leave", "unlock"}

\* The session exists once the bootstrap is over, and a command is asked for and
\* obeyed only after READY.
PlaceInv ==
    /\ Bootstrapping => sess = "none" /\ ~ready
    /\ asked # "no" \/ pc \in {"announce", "enter"} \cup Executing => ready

\* An unclear inspection is the guard's last: its reader ends.  The window is
\* reserved before the attempt is recorded.
GuardInv ==
    /\ tainted => /\ class = "unclear" /\ ~reserved
                  /\ \/ sess \in {"refused", "ended"}
                     \/ sess = "none" /\ pc \in {"refused", "exited", "dead"}
    /\ posts > 0 \/ pc \in {"attempt", "confirm", "post", "posting", "leave",
                            "unlock"} => reserved
    /\ reserved => ready

\* An execution that has not come to its POST finds none, starts a journal of its
\* own, and from its first record on the journal is started for good; the verdict
\* does not come before the call is over.
PostInv ==
    /\ pc \in BeforePost \cup {"check", "confirm", "post"} => posts = 0
    /\ posts > 0 \/ pc \in (BeforePost \ {"intent"}) \cup {"confirm", "post", "posting"}
          => journal # "NOT_STARTED"
    /\ pc \in {"check", "intent"} => journal = "NOT_STARTED"
    /\ pc \in BeforePost \cup {"confirm", "post", "posting"} => journal \notin Verdict

\* A verdict is a result only with its receipt archived, and is printed last.
VerdictInv ==
    /\ result \in Receipt => sess = "ended" /\ result \in archive
    /\ shown \in Receipt => pc = "exited" /\ sess = "ended"
    /\ ShownVerdictIsKept

\* Whatever will be printed as TIMEOUT was due to the wall.
WallInv ==
    /\ wall \/ dog = "due" \/ result = "TIMEOUT" => now >= Wall
    /\ TimeoutHasCause

IInv == TypeOK /\ PlaceInv /\ GuardInv /\ PostInv /\ VerdictInv /\ WallInv
=============================================================================
