----------------------------- MODULE ReplayStore -----------------------------
(***************************************************************************)
(* The local replay ledger, libexec/flop_replay_store_helper, and the      *)
(* client facade that starts it, replay_journal.py.                        *)
(*                                                                         *)
(* Every call of the facade spawns a helper process.  The helper opens the *)
(* store, in its first call provisions it, turns what an earlier helper    *)
(* left ATTEMPTED into OUTCOME_UNKNOWN (one transaction) and then runs the *)
(* operation (a second one).  Helpers of several clients interleave between *)
(* their transactions, die anywhere, and their answer may be lost.         *)
(*                                                                         *)
(* The same file holds a second family of operations, for a store of kind  *)
(* TEST that one process owns: there conflicts block, and sealed evidence  *)
(* ends an attempt.  Both families work on the same tables.                *)
(*                                                                         *)
(* An action stands for its canonical identity, a request for effect       *)
(* class, target and request hash; their validation, the framing of the    *)
(* channel and the checks of owners, modes and inodes are left out: they   *)
(* refuse the call before it reaches a table.                              *)
(***************************************************************************)
EXTENDS Naturals, Sequences, FiniteSets, FiniteSetsExt

CONSTANTS Client,      \* processes that use the facade
          Action,      \* canonical actions
          NonceScope,  \* their actor, context, nonce and schema
          Request,     \* effect class, target and request hash
          MaxAttempts  \* bound: attempts per action

VARIABLES kind,       \* store_kind of the store's metadata
          file,       \* the database file: "absent", "empty" or "ready"
          credential, \* store.credential: "absent", "empty" or "full"
          record,     \* replay_records: the state of each action
          conflicts,  \* replay_conflicts: <<authoritative, conflicting>>
          effects,    \* effects: the attempts of each action, oldest first
          call,       \* the helper of each client
          proofs,     \* sealed reconciliations issued and not collected
          grants      \* licences to act given for each attempt

vars == <<kind, file, credential, record, conflicts, effects, call, proofs, grants>>

tables == <<record, conflicts, effects, grants>>

Unseen == "NOT_SEEN"

Operations == {"observe", "validate", "reserve", "mark_attempted", "inspect"}

Reservation == Action \X (1..MaxAttempts)

Idle == [stage |-> "idle"]

Init ==
    /\ kind \in {"PRODUCTION", "TEST"}
    /\ file = "absent" /\ credential = "absent"
    /\ record = [a \in Action |-> Unseen] /\ conflicts = {}
    /\ effects = [a \in Action |-> <<>>]
    /\ call = [c \in Client |-> Idle]
    /\ proofs = {} /\ grants = [r \in Reservation |-> 0]

-----------------------------------------------------------------------------
(* The tables.                                                             *)
Latest(a) == effects[a][Len(effects[a])]

\* The action that holds a's nonce already, if another one does.
Holders(a) == {b \in Action \ {a} :
                  NonceScope[b] = NonceScope[a] /\ record[b] # Unseen}

Conflicted(a) == \E b \in Action : <<a, b>> \in conflicts

SetState(a, s) == record' = [record EXCEPT ![a] = s]

SetEffect(a, n, s) == effects' = [effects EXCEPT ![a][n].result = s]

\* An INSERT into effects: the next attempt number.
AddEffect(a, q) ==
    effects' = [effects EXCEPT ![a] = Append(@,
        [request |-> q, result |-> "EFFECT_RESERVED", evidence |-> "none"])]

Grant(a, n) == grants' = [grants EXCEPT ![<<a, n>>] = @ + 1]

ObserveRow(a) ==
    /\ IF Holders(a) # {}
       THEN /\ conflicts' = conflicts \cup {<<b, a>> : b \in Holders(a)}
            /\ UNCHANGED record
       ELSE /\ record' = [record EXCEPT ![a] = IF @ = Unseen THEN "OBSERVED" ELSE @]
            /\ UNCHANGED conflicts
    /\ UNCHANGED <<effects, grants>>

\* Mutant of RecoverRows: Recovery forgets the effects table.
RecoverRecords ==
    /\ record' = [a \in Action |-> IF record[a] = "EFFECT_ATTEMPTED"
                                   THEN "EFFECT_OUTCOME_UNKNOWN" ELSE record[a]]
    /\ UNCHANGED <<conflicts, effects, grants>>

\* Mutant of RecoverRows: Recovery takes an attempt that was not answered for a failed one.
RecoverAsFailed ==
    /\ record' = [a \in Action |-> IF record[a] = "EFFECT_ATTEMPTED"
                                   THEN "EFFECT_FAILED_SAFE" ELSE record[a]]
    /\ UNCHANGED <<conflicts, effects, grants>>

\* Attempts that were started and never answered: all of them, of any action.
RecoverRows ==
    LET Stuck == {a \in Action : record[a] = "EFFECT_ATTEMPTED"}
        Lost(e) == IF e.result = "EFFECT_ATTEMPTED"
                   THEN [e EXCEPT !.result = "EFFECT_OUTCOME_UNKNOWN"] ELSE e
    IN  /\ record' = [a \in Action |-> IF a \in Stuck
                                       THEN "EFFECT_OUTCOME_UNKNOWN" ELSE record[a]]
        /\ effects' = [a \in Action |-> IF a \in Stuck
                          THEN [n \in 1..Len(effects[a]) |-> Lost(effects[a][n])]
                          ELSE effects[a]]
        /\ UNCHANGED <<conflicts, grants>>

-----------------------------------------------------------------------------
(* The helper of one production call, up to its operation.                 *)
Goes(c, stage) == call' = [call EXCEPT ![c].stage = stage]

\* The answer, also an error, goes back and the process exits.  Whether it
\* arrives makes no difference to the store.
Exits(c) == call' = [call EXCEPT ![c] = Idle]

\* replay_journal.invoke: a new process per call.
Invoke(c) ==
    /\ kind = "PRODUCTION" /\ call[c] = Idle
    /\ \E op \in Operations, a \in Action, q \in Request, r \in Reservation :
          /\ op # "reserve" => q = CHOOSE x \in Request : TRUE
          /\ op # "mark_attempted" => r = <<a, 1>>
          /\ call' = [call EXCEPT ![c] = [stage |-> "open", op |-> op,
                 action |-> a, request |-> q, reservation |-> r, created |-> FALSE]]
    /\ UNCHANGED <<kind, file, credential, tables, proofs>>

OpenFile(c) ==
    /\ call[c].stage = "open"
    /\ file' = IF file = "absent" THEN "empty" ELSE file
    /\ call' = [call EXCEPT ![c].stage = "credential", ![c].created = file = "absent"]
    /\ UNCHANGED <<kind, credential, tables, proofs>>

\* Only the helper that created the database may create its credential.
OpenCredential(c) ==
    /\ call[c].stage = "credential"
    /\ \/ /\ credential = "full" /\ Goes(c, "metadata") /\ UNCHANGED credential
       \/ /\ credential = "absent" /\ call[c].created
          /\ credential' = "empty" /\ Goes(c, "seal")
       \/ /\ credential = "empty" \/ (credential = "absent" /\ ~call[c].created)
          /\ Exits(c) /\ UNCHANGED credential
    /\ UNCHANGED <<kind, file, tables, proofs>>

SealCredential(c) ==
    /\ call[c].stage = "seal"
    /\ credential' = "full" /\ Goes(c, "metadata")
    /\ UNCHANGED <<kind, file, tables, proofs>>

Metadata(c) ==
    /\ call[c].stage = "metadata"
    /\ file' = "ready"
    /\ Goes(c, IF call[c].op = "mark_attempted" THEN "operate" ELSE "recover")
    /\ UNCHANGED <<kind, credential, tables, proofs>>

Recover(c) ==
    /\ call[c].stage = "recover"
    /\ RecoverRows
    /\ Goes(c, "operate")
    /\ UNCHANGED <<kind, file, credential, proofs>>

\* A helper killed after the facade's timeout, or dead, rolls back.
Die(c) ==
    /\ call[c] # Idle
    /\ Exits(c)
    /\ UNCHANGED <<kind, file, credential, tables, proofs>>

-----------------------------------------------------------------------------
(* The production operations, one transaction each.                        *)
Runs(c, op) == call[c].stage = "operate" /\ call[c].op = op

Observe(c) ==
    /\ Runs(c, "observe")
    /\ ObserveRow(call[c].action)
    /\ Exits(c) /\ UNCHANGED <<kind, file, credential, proofs>>

Validate(c) ==
    LET a == call[c].action IN
    /\ Runs(c, "validate") /\ record[a] = "OBSERVED"
    /\ SetState(a, "VALIDATED")
    /\ Exits(c) /\ UNCHANGED <<kind, file, credential, conflicts, effects, grants, proofs>>

\* The same request again is answered with the reservation there is.
Existing(a, q) == effects[a] # <<>> /\ Latest(a).request = q

Reserve(c) ==
    LET a == call[c].action
        q == call[c].request
    IN
    /\ Runs(c, "reserve") /\ ~Existing(a, q)
    /\ record[a] \in {"VALIDATED", "EFFECT_FAILED_SAFE"}
    /\ Len(effects[a]) < MaxAttempts
    /\ SetState(a, "EFFECT_RESERVED") /\ AddEffect(a, q)
    /\ Exits(c) /\ UNCHANGED <<kind, file, credential, conflicts, grants, proofs>>

\* The reservation names the attempt; it has to be one of this action.
OwnReservation(c) ==
    LET r == call[c].reservation
    IN  r[1] = call[c].action /\ r[2] \in 1..Len(effects[r[1]])

MarkAttempted(c) ==
    LET a == call[c].action
        n == call[c].reservation[2]
    IN
    /\ Runs(c, "mark_attempted") /\ OwnReservation(c)
    /\ effects[a][n].result = "EFFECT_RESERVED" /\ record[a] = "EFFECT_RESERVED"
    /\ SetState(a, "EFFECT_ATTEMPTED") /\ SetEffect(a, n, "EFFECT_ATTEMPTED")
    /\ Grant(a, n)
    /\ Exits(c) /\ UNCHANGED <<kind, file, credential, conflicts, proofs>>

\* Mutant of MarkAgain: A repeated mark is answered like the first.
MarkAgainGranting(c) ==
    LET a == call[c].action
        n == call[c].reservation[2]
    IN
    /\ Runs(c, "mark_attempted") /\ OwnReservation(c)
    /\ effects[a][n].result = "EFFECT_ATTEMPTED"
    /\ Grant(a, n)
    /\ Exits(c) /\ UNCHANGED <<kind, file, credential, record, conflicts, effects, proofs>>

\* Marked before: nobody knows what that attempt did.
MarkAgain(c) ==
    LET a == call[c].action
        n == call[c].reservation[2]
    IN
    /\ Runs(c, "mark_attempted") /\ OwnReservation(c)
    /\ effects[a][n].result = "EFFECT_ATTEMPTED"
    /\ SetState(a, "EFFECT_OUTCOME_UNKNOWN") /\ SetEffect(a, n, "EFFECT_OUTCOME_UNKNOWN")
    /\ Exits(c) /\ UNCHANGED <<kind, file, credential, conflicts, grants, proofs>>

\* The answers that follow a change; inspect never does.
Changes(c) ==
    LET a == call[c].action
        n == call[c].reservation[2]
    IN  CASE call[c].op = "observe" -> TRUE
          [] call[c].op = "validate" -> record[a] = "OBSERVED"
          [] call[c].op = "reserve" -> /\ ~Existing(a, call[c].request)
                                       /\ record[a] \in {"VALIDATED", "EFFECT_FAILED_SAFE"}
          [] call[c].op = "mark_attempted" -> /\ OwnReservation(c)
                /\ \/ effects[a][n].result = "EFFECT_ATTEMPTED"
                   \/ /\ effects[a][n].result = "EFFECT_RESERVED"
                      /\ record[a] = "EFFECT_RESERVED"
          [] OTHER -> FALSE

\* Everything else: inspect, the reservation there is, a state that is
\* validated already, and every refusal (rollback).
AnswerOnly(c) ==
    /\ call[c].stage = "operate" /\ ~Changes(c)
    /\ Exits(c)
    /\ UNCHANGED <<kind, file, credential, tables, proofs>>

Helper(c) ==
    \/ Invoke(c) \/ OpenFile(c) \/ OpenCredential(c) \/ SealCredential(c)
    \/ Metadata(c) \/ Recover(c) \/ Die(c) \/ Observe(c) \/ Validate(c)
    \/ Reserve(c) \/ MarkAttempted(c) \/ MarkAgain(c) \/ AnswerOnly(c)

-----------------------------------------------------------------------------
(* The reviewed family of a TEST store: its workers share one process and  *)
(* one lock, so every operation is one step.                               *)
Transitions(s) ==
    CASE s = "OBSERVED" -> {"VALIDATED"}
      [] s = "VALIDATED" -> {"EFFECT_RESERVED"}
      [] s = "EFFECT_RESERVED" -> {"EFFECT_ATTEMPTED", "EFFECT_FAILED_SAFE"}
      [] s = "EFFECT_ATTEMPTED" -> {"EFFECT_CONFIRMED", "EFFECT_FAILED_SAFE",
                                    "EFFECT_OUTCOME_UNKNOWN"}
      [] s = "EFFECT_OUTCOME_UNKNOWN" -> {"EFFECT_CONFIRMED", "EFFECT_FAILED_SAFE"}
      [] s = "EFFECT_FAILED_SAFE" -> {"EFFECT_RESERVED"}
      [] OTHER -> {}

Transition(a, s) == s \in Transitions(record[a]) /\ SetState(a, s)

FamilyObserve(a) == ObserveRow(a) /\ UNCHANGED proofs

FamilyValidate(a) ==
    /\ ~Conflicted(a) /\ Transition(a, "VALIDATED")
    /\ UNCHANGED <<conflicts, effects, grants, proofs>>

FamilyReserve(a, q) ==
    /\ ~Conflicted(a) /\ Len(effects[a]) < MaxAttempts
    /\ Transition(a, "EFFECT_RESERVED") /\ AddEffect(a, q)
    /\ UNCHANGED <<conflicts, grants, proofs>>

\* Mutant of FamilyAttempted: Starting an effect does not look for conflicts.
FamilyAttemptedAnyway(a, n) ==
    /\ n \in 1..Len(effects[a])
    /\ Transition(a, "EFFECT_ATTEMPTED") /\ SetEffect(a, n, "EFFECT_ATTEMPTED")
    /\ Grant(a, n)
    /\ UNCHANGED <<conflicts, proofs>>

\* A reservation token stays valid for its own attempt.
FamilyAttempted(a, n) ==
    /\ ~Conflicted(a) /\ n \in 1..Len(effects[a])
    /\ Transition(a, "EFFECT_ATTEMPTED") /\ SetEffect(a, n, "EFFECT_ATTEMPTED")
    /\ Grant(a, n)
    /\ UNCHANGED <<conflicts, proofs>>

\* Mutant of WriteEvidence: evidence for an earlier attempt is taken too.
WriteEvidenceOfAny(a, n, s, type) ==
    /\ effects[a] # <<>> /\ n \in 1..Len(effects[a])
    /\ Transition(a, s)
    /\ effects' = [effects EXCEPT ![a][n].result = s, ![a][n].evidence = type]
    /\ UNCHANGED <<conflicts, grants>>

\* write_evidence: only the latest attempt takes evidence.
WriteEvidence(a, n, s, type) ==
    /\ effects[a] # <<>> /\ n = Len(effects[a])
    /\ Transition(a, s)
    /\ effects' = [effects EXCEPT ![a][n].result = s, ![a][n].evidence = type]
    /\ UNCHANGED <<conflicts, grants>>

FamilyConfirm(a, n) ==
    WriteEvidence(a, n, "EFFECT_CONFIRMED", "RESULT") /\ UNCHANGED proofs

\* What each reviewed fixture asks of the state, and what it proves.
Fixtures == {"RESERVED_NOT_INVOKED", "READBACK_PROVES_ABSENCE", "READBACK_PROVES_EFFECT"}

AppliesIn(f) == IF f = "RESERVED_NOT_INVOKED" THEN {"EFFECT_RESERVED"}
                ELSE {"EFFECT_ATTEMPTED", "EFFECT_OUTCOME_UNKNOWN"}

Proves(f) == IF f = "READBACK_PROVES_EFFECT" THEN "EFFECT_CONFIRMED"
             ELSE "EFFECT_FAILED_SAFE"

EvidenceType(f) == IF f = "RESERVED_NOT_INVOKED" THEN "LOCAL_NO_EFFECT_PROOF"
                   ELSE "READ_BACK_CONFIRMATION"

\* The state is looked at when the evidence is issued, not when it is used.
IssueReconciliation(a, f) ==
    /\ effects[a] # <<>> /\ record[a] \in AppliesIn(f)
    /\ proofs' = proofs \cup {[action |-> a, attempt |-> Len(effects[a]), fixture |-> f]}
    /\ UNCHANGED tables

Reconcile(p) ==
    /\ WriteEvidence(p.action, p.attempt, Proves(p.fixture), EvidenceType(p.fixture))
    /\ UNCHANGED proofs

FamilyRecover == RecoverRows /\ UNCHANGED proofs

Family ==
    /\ kind = "TEST"
    /\ \/ FamilyRecover
       \/ \E p \in proofs : Reconcile(p)
       \/ \E a \in Action :
             \/ FamilyObserve(a) \/ FamilyValidate(a)
             \/ \E q \in Request : FamilyReserve(a, q)
             \/ \E n \in 1..MaxAttempts : FamilyAttempted(a, n) \/ FamilyConfirm(a, n)
             \/ \E f \in Fixtures : IssueReconciliation(a, f)
    /\ UNCHANGED <<kind, file, credential, call>>

Next == (\E c \in Client : Helper(c)) \/ Family

Spec == Init /\ [][Next]_vars

-----------------------------------------------------------------------------
(* Properties.                                                             *)

\* Whatever dies, is lost or asked again: between them the actions of one nonce
\* are licensed once, and once more for every attempt that evidence of any kind
\* has closed (in production: once).  About the order of check, commit and answer in
\* observe, reserve and mark_attempted.
GrantsNeedEvidence ==
    \A a \in Action :
        LET Same == {b \in Action : NonceScope[b] = NonceScope[a]}
            Given == {r \in Reservation : r[1] \in Same}
            Closed == {r \in Given : /\ r[2] <= Len(effects[r[1]])
                                     /\ effects[r[1]][r[2]].evidence # "none"}
        IN  MapThenSumSet(LAMBDA r : grants[r], Given) <= 1 + Cardinality(Closed)

\* In a production store one attempt of one action holds a nonce, it is
\* licensed at most once, and only once it was reserved and marked.
GrantedOnce ==
    kind = "PRODUCTION" =>
        \A r \in Reservation : grants[r] > 0 =>
            /\ grants[r] = 1
            /\ record[r[1]] \in {"EFFECT_ATTEMPTED", "EFFECT_OUTCOME_UNKNOWN"}
            /\ \A s \in Reservation :
                  NonceScope[s[1]] = NonceScope[r[1]] /\ grants[s] > 0 => s = r

\* The record of an action says what its latest attempt says, though recovery
\* and the operation write both tables row by row.
RecordMatchesLatest ==
    kind = "PRODUCTION" =>
        \A a \in Action :
            IF effects[a] = <<>> THEN record[a] \in {Unseen, "OBSERVED", "VALIDATED"}
            ELSE record[a] = Latest(a).result

Open == {"EFFECT_ATTEMPTED", "EFFECT_OUTCOME_UNKNOWN"}

\* What shows the effect of an attempt, or its absence, after the attempt.
Observed == {"RESULT", "READ_BACK_CONFIRMATION"}

\* A proof that the latest attempt of a was not invoked, issued before it was.
NotInvoked(a) ==
    [action |-> a, attempt |-> Len(effects[a]), fixture |-> "RESERVED_NOT_INVOKED"] \in proofs

\* An attempt whose result nobody knows stays open until sealed evidence for that
\* very attempt, and not for an earlier one, is written; no helper, retry or
\* recovery closes it.  The evidence is a result or a read-back, except that a
\* proof issued while the attempt was only reserved still counts, and then calls
\* the effect safely failed (reconcile and write_evidence).
OpenUntilEvidence ==
    \A a \in Action : record[a] \in Open /\ record'[a] \notin Open
        => /\ kind = "TEST" /\ Len(effects'[a]) = Len(effects[a])
           /\ \/ Latest(a)'.evidence \in Observed
              \/ /\ Latest(a)'.evidence = "LOCAL_NO_EFFECT_PROOF"
                 /\ NotInvoked(a) /\ record'[a] = "EFFECT_FAILED_SAFE"

\* "An attempted or unknown result requires sealed read-back/reconciliation
\* evidence" (docs/LOCAL_REPLAY_SIDE_EFFECT_JOURNAL.md, lines 123-124): nothing
\* that was known before an attempt was made closes it.
AttemptsNeedReadBack ==
    [][\A a \in Action : record[a] \in Open /\ record'[a] \notin Open
           => Latest(a)'.evidence \in Observed]_vars

\* Once another action has claimed its nonce, an action of a reviewed store
\* starts nothing new; what it had started may still be closed.
ConflictStartsNothing ==
    \A a \in Action : kind = "TEST" /\ Conflicted(a) /\ record'[a] # record[a]
        => record'[a] \in {"EFFECT_OUTCOME_UNKNOWN", "EFFECT_CONFIRMED",
                           "EFFECT_FAILED_SAFE"}
=============================================================================
