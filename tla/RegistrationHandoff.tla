------------------------- MODULE RegistrationHandoff -------------------------
(***************************************************************************)
(* The durable one-shot hand-off of sonnet_registration_handoff.py.        *)
(*                                                                         *)
(* Several processes share one journal file.  `execute` turns one approval *)
(* into at most one signed POST, and `reconcile` records the referee's     *)
(* verdict; both run under a nonblocking flock and both write only through *)
(* `_Journal.append`, which replaces the whole file.  The journal is kept  *)
(* twice: `journal` is what the file system shows to running processes,    *)
(* `durable` what survives a power loss (the last content whose directory  *)
(* entry was fsynced).                                                     *)
(*                                                                         *)
(* Hashes, timestamps and the fixed binding of a record are left out: a    *)
(* record is its state and the approval it names.  http_status and         *)
(* receipt_status are functions of the state.                              *)
(***************************************************************************)
EXTENDS Naturals, Sequences, SequencesExt

CONSTANTS Process,     \* processes that may run the hand-off
          Approval,    \* configured approvals that pass validate_approval_artifact
          NoProcess, NoApproval, NoFile

ASSUME ConstantsAssumption ==
    /\ NoProcess \notin Process
    /\ NoApproval \notin Approval
    /\ NoFile \notin Seq([state : STRING, approval : Approval])

Verdict == {"RECEIPT_ACCEPTED", "RECEIPT_REJECTED"}

JournalState ==
    {"INTENT_RECORDED", "LOCAL_SIGNATURE_CREATED", "POST_ATTEMPT_RECORDED",
     "POST_RESPONSE_OBSERVED", "AWAITING_REFEREE_RECEIPT",
     "WRITE_OUTCOME_UNKNOWN"} \cup Verdict

\* _NEXT_STATES.
NextStates(s) ==
    CASE s = "NOT_STARTED"             -> {"INTENT_RECORDED"}
      [] s = "INTENT_RECORDED"         -> {"LOCAL_SIGNATURE_CREATED"} \cup Verdict
      [] s = "LOCAL_SIGNATURE_CREATED" -> {"POST_ATTEMPT_RECORDED"} \cup Verdict
      [] s = "POST_ATTEMPT_RECORDED"   ->
            {"POST_RESPONSE_OBSERVED", "WRITE_OUTCOME_UNKNOWN"} \cup Verdict
      [] s = "POST_RESPONSE_OBSERVED"  -> {"AWAITING_REFEREE_RECEIPT"} \cup Verdict
      [] s = "AWAITING_REFEREE_RECEIPT" -> Verdict
      [] s = "WRITE_OUTCOME_UNKNOWN"   -> Verdict
      [] OTHER                         -> {}

Record == [state : JournalState, approval : Approval]

\* The state `inspect` reports.
StateOf(j) == IF j = <<>> THEN "NOT_STARTED" ELSE j[Len(j)].state

Holds(j, s) == \E i \in DOMAIN j : j[i].state = s

StateBefore(j, i) == IF i = 1 THEN "NOT_STARTED" ELSE j[i-1].state

\* What _decode_records accepts.
Decodes(j) ==
    \A i \in DOMAIN j :
        /\ j[i].state \in NextStates(StateBefore(j, i))
        /\ j[i].approval = j[1].approval

-----------------------------------------------------------------------------
VARIABLES journal,  \* the visible registration-journal.jsonl
          durable,  \* the content a power loss is certain to leave behind
          lock,     \* holder of the flock on registration-journal.lock
          temp,     \* each process's .registration-journal.jsonl.<pid>.tmp
          pc,       \* where each process is
          target,   \* state of the record the process is appending
          appr,     \* approval the process works for
          used,     \* used_approvals: memory of the process only
          reply,    \* what the last call returned to its caller
          signs,    \* signatures made with the identity key
          posts,    \* POSTs handed to the network
          verdict   \* the referee's decision (outside the program)

vars == <<journal, durable, lock, temp, pc, target, appr, used, reply,
          signs, posts, verdict>>

\* A file that is left over from a process that stopped before os.replace; its
\* content is never read.
Stale == <<>>
Nothing == "nothing"

Init ==
    /\ journal = <<>> /\ durable = <<>>
    /\ lock = NoProcess
    /\ temp = [p \in Process |-> NoFile]
    /\ pc = [p \in Process |-> "idle"]
    /\ target = [p \in Process |-> Nothing]
    /\ appr = [p \in Process |-> NoApproval]
    /\ used = [p \in Process |-> {}]
    /\ reply = [p \in Process |-> Nothing]
    /\ signs = 0 /\ posts = 0
    /\ verdict = Nothing

\* Process p goes on to append a record of state s.
GoAppend(p, s) ==
    /\ pc' = [pc EXCEPT ![p] = "append"]
    /\ target' = [target EXCEPT ![p] = s]

\* Process p takes the lock for a call that works for approval a.
Enter(p, a, s) ==
    /\ pc[p] = "idle" /\ lock = NoProcess
    /\ lock' = p
    /\ GoAppend(p, s)
    /\ appr' = [appr EXCEPT ![p] = a]
    /\ reply' = [reply EXCEPT ![p] = Nothing]

\* Mutant: a call that ends without closing the lock descriptor.
LeaveLocked(p, r) ==
    /\ lock' = lock
    /\ pc' = [pc EXCEPT ![p] = "idle"]
    /\ target' = [target EXCEPT ![p] = Nothing]
    /\ appr' = [appr EXCEPT ![p] = NoApproval]
    /\ reply' = [reply EXCEPT ![p] = r]

\* The call of process p ends, normally or by an exception; leaving the `with`
\* block releases the lock.
Leave(p, r) ==
    /\ lock' = NoProcess
    /\ pc' = [pc EXCEPT ![p] = "idle"]
    /\ target' = [target EXCEPT ![p] = Nothing]
    /\ appr' = [appr EXCEPT ![p] = NoApproval]
    /\ reply' = [reply EXCEPT ![p] = r]

-----------------------------------------------------------------------------
\* execute, up to the first append.  The candidate, registration and approval
\* checks come before the lock; a refused call changes nothing.
Execute(p, a) ==
    /\ a \notin used[p]
    /\ StateOf(journal) = "NOT_STARTED"
    /\ Enter(p, a, "INTENT_RECORDED")
    /\ UNCHANGED <<journal, durable, temp, used, signs, posts, verdict>>

\* reconcile, up to its append: a verified receipt for a started registration
\* that has no verdict yet, under the approval of the first record.
Reconcile(p) ==
    /\ verdict # Nothing
    /\ StateOf(journal) \notin {"NOT_STARTED"} \cup Verdict
    /\ Enter(p, journal[1].approval, verdict)
    /\ UNCHANGED <<journal, durable, temp, used, signs, posts, verdict>>

-----------------------------------------------------------------------------
\* _Journal.append: the new content is computed from a fresh read.
OwnRecord(p) == [state |-> target[p], approval |-> appr[p]]

Candidate(p) == Append(journal, OwnRecord(p))

\* O_EXCL creation, write and fsync of the temporary file.
WriteTemp(p) ==
    /\ pc[p] = "append" /\ temp[p] = NoFile
    /\ Decodes(Candidate(p))
    /\ temp' = [temp EXCEPT ![p] = Candidate(p)]
    /\ pc' = [pc EXCEPT ![p] = "replace"]
    /\ UNCHANGED <<journal, durable, lock, target, appr, used, reply, signs,
                   posts, verdict>>

\* JOURNAL_WRITE_FAILED: an OSError before os.replace, or a temporary file of
\* the same pid that was already there.  The unlink may fail silently too.
AppendFails(p) ==
    /\ pc[p] \in {"append", "replace"}
    /\ \E left \in {NoFile, Stale} : temp' = [temp EXCEPT ![p] = left]
    /\ Leave(p, Nothing)
    /\ UNCHANGED <<journal, durable, used, signs, posts, verdict>>

\* os.replace.
Publish(p) ==
    /\ pc[p] = "replace"
    /\ journal' = temp[p]
    /\ temp' = [temp EXCEPT ![p] = NoFile]
    /\ pc' = [pc EXCEPT ![p] = "sync"]
    /\ UNCHANGED <<durable, lock, target, appr, used, reply, signs, posts, verdict>>

\* Mutant: a failed fsync is swallowed and the caller is told the new state.
SyncFailsSilently(p) ==
    /\ pc[p] = "sync"
    /\ Leave(p, target[p])
    /\ UNCHANGED <<journal, durable, temp, used, signs, posts, verdict>>

\* JOURNAL_DURABILITY_UNKNOWN: the directory fsync fails after os.replace., or the
\* stat of the published file after it.
SyncFails(p) ==
    /\ pc[p] = "sync"
    /\ durable' \in {durable, journal}
    /\ Leave(p, Nothing)
    /\ UNCHANGED <<journal, temp, used, signs, posts, verdict>>

\* What the caller does once its record of state target[p] is appended.
Continue(p) ==
    \/ /\ target[p] = "INTENT_RECORDED"
       /\ used' = [used EXCEPT ![p] = @ \cup {appr[p]}]
       /\ pc' = [pc EXCEPT ![p] = "sign"]
       /\ UNCHANGED <<lock, target, appr, reply>>
    \/ /\ target[p] = "LOCAL_SIGNATURE_CREATED"
       /\ GoAppend(p, "POST_ATTEMPT_RECORDED")
       /\ UNCHANGED <<lock, appr, used, reply>>
    \/ /\ target[p] = "POST_ATTEMPT_RECORDED"
       /\ pc' = [pc EXCEPT ![p] = "transport"]
       /\ UNCHANGED <<lock, target, appr, used, reply>>
    \/ /\ target[p] = "POST_RESPONSE_OBSERVED"
       /\ GoAppend(p, "AWAITING_REFEREE_RECEIPT")
       /\ UNCHANGED <<lock, appr, used, reply>>
    \/ /\ target[p] \in {"AWAITING_REFEREE_RECEIPT", "WRITE_OUTCOME_UNKNOWN"}
                            \cup Verdict
       /\ Leave(p, target[p])
       /\ UNCHANGED used

\* Mutant: append returns without the directory fsync.
SyncSkipped(p) ==
    /\ pc[p] = "sync"
    /\ Continue(p)
    /\ UNCHANGED <<journal, durable, temp, signs, posts, verdict>>

\* The directory fsync succeeds: append returns and its caller goes on.
Sync(p) ==
    /\ pc[p] = "sync"
    /\ durable' = journal
    /\ Continue(p)
    /\ UNCHANGED <<journal, temp, signs, posts, verdict>>

-----------------------------------------------------------------------------
\* identity_signer returns a signature of the fixed DID.
Sign(p) ==
    /\ pc[p] = "sign"
    /\ signs' = signs + 1
    /\ GoAppend(p, "LOCAL_SIGNATURE_CREATED")
    /\ UNCHANGED <<journal, durable, lock, temp, appr, used, reply, posts, verdict>>

\* The signer fails, or its DID or signature is refused.
SignRefused(p) ==
    /\ pc[p] = "sign"
    /\ signs' \in {signs, signs + 1}
    /\ Leave(p, Nothing)
    /\ UNCHANGED <<journal, durable, temp, used, posts, verdict>>

\* The request body has the wrong size, or a checkpoint callback (`trip`)
\* raises before the POST attempt is recorded or before the transport runs.
Trip(p) ==
    /\ \/ pc[p] = "append" /\ target[p] = "POST_ATTEMPT_RECORDED"
       \/ pc[p] = "transport"
    /\ Leave(p, Nothing)
    /\ UNCHANGED <<journal, durable, temp, used, signs, posts, verdict>>

\* The transport hands the request to the network.
Transport(p) ==
    /\ pc[p] = "transport"
    /\ posts' = posts + 1
    /\ pc' = [pc EXCEPT ![p] = "wait"]
    /\ UNCHANGED <<journal, durable, lock, temp, target, appr, used, reply,
                   signs, verdict>>

\* The transport raises one of transport_errors before or after the request
\* left, or the response is not a complete 2xx JSON object of the fixed URL.
OutcomeUnknown(p) ==
    /\ pc[p] \in {"transport", "wait"}
    /\ GoAppend(p, "WRITE_OUTCOME_UNKNOWN")
    /\ UNCHANGED <<journal, durable, lock, temp, appr, used, reply, signs,
                   posts, verdict>>

\* A valid response.
Response(p) ==
    /\ pc[p] = "wait"
    /\ GoAppend(p, "POST_RESPONSE_OBSERVED")
    /\ UNCHANGED <<journal, durable, lock, temp, appr, used, reply, signs,
                   posts, verdict>>

\* The transport raises an exception that is none of transport_errors
\* (http.client.HTTPException is not an OSError): it leaves execute.
TransportEscapes(p) ==
    /\ pc[p] = "wait"
    /\ Leave(p, Nothing)
    /\ UNCHANGED <<journal, durable, temp, used, signs, posts, verdict>>

-----------------------------------------------------------------------------
\* A process dies: the kernel drops its flock, its memory is gone and a
\* temporary file it had created stays.
Crash(p) ==
    /\ pc[p] # "down"
    /\ pc' = [pc EXCEPT ![p] = "down"]
    /\ target' = [target EXCEPT ![p] = Nothing]
    /\ appr' = [appr EXCEPT ![p] = NoApproval]
    /\ used' = [used EXCEPT ![p] = {}]
    /\ reply' = [reply EXCEPT ![p] = Nothing]
    /\ lock' = IF lock = p THEN NoProcess ELSE lock
    /\ \/ pc[p] # "replace" /\ temp' = temp
       \/ pc[p] \in {"append", "replace"} /\ temp' = [temp EXCEPT ![p] = Stale]
    /\ UNCHANGED <<journal, durable, signs, posts, verdict>>

Restart(p) ==
    /\ pc[p] = "down"
    /\ pc' = [pc EXCEPT ![p] = "idle"]
    /\ UNCHANGED <<journal, durable, lock, temp, target, appr, used, reply,
                   signs, posts, verdict>>

\* Power is lost: every process dies and the journal is some content between
\* what was fsynced and what was visible.  A temporary file may remain.
PowerLoss ==
    /\ pc' = [p \in Process |-> "down"]
    /\ target' = [p \in Process |-> Nothing]
    /\ appr' = [p \in Process |-> NoApproval]
    /\ used' = [p \in Process |-> {}]
    /\ reply' = [p \in Process |-> Nothing]
    /\ lock' = NoProcess
    /\ \E n \in Len(durable)..Len(journal) :
          /\ journal' = SubSeq(journal, 1, n)
          /\ durable' = SubSeq(journal, 1, n)
    /\ \E kept \in SUBSET {p \in Process : temp[p] # NoFile} :
          temp' = [p \in Process |-> IF p \in kept THEN Stale ELSE NoFile]
    /\ UNCHANGED <<signs, posts, verdict>>

\* The referee decides once on the fixed request; it may know the request from
\* another path than this journal's POST.
RefereeDecides ==
    /\ verdict = Nothing
    /\ verdict' \in Verdict
    /\ UNCHANGED <<journal, durable, lock, temp, pc, target, appr, used, reply,
                   signs, posts>>

-----------------------------------------------------------------------------
Step(p) ==
    \/ WriteTemp(p) \/ AppendFails(p) \/ Publish(p) \/ SyncFails(p) \/ Sync(p)
    \/ Sign(p) \/ SignRefused(p) \/ Trip(p) \/ Transport(p)
    \/ OutcomeUnknown(p) \/ Response(p) \/ TransportEscapes(p)

Next ==
    \/ \E p \in Process : \/ \E a \in Approval : Execute(p, a)
                          \/ Reconcile(p) \/ Step(p)
                          \/ Crash(p) \/ Restart(p)
    \/ PowerLoss
    \/ RefereeDecides

Spec == Init /\ [][Next]_vars

\* A running call goes on: the signer is local and the transport is bounded by
\* TRANSPORT_TIMEOUT_SECONDS, so no step waits for ever.
FairSpec == Spec /\ \A p \in Process : WF_vars(Step(p))

-----------------------------------------------------------------------------
\* Every variable has its type.
TypeOK ==
    /\ journal \in Seq(Record) /\ durable \in Seq(Record)
    /\ lock \in Process \cup {NoProcess}
    /\ temp \in [Process -> Seq(Record) \cup {NoFile}]
    /\ pc \in [Process -> {"idle", "append", "replace", "sync", "sign",
                           "transport", "wait", "down"}]
    /\ target \in [Process -> JournalState \cup {Nothing}]
    /\ appr \in [Process -> Approval \cup {NoApproval}]
    /\ used \in [Process -> SUBSET Approval]
    /\ reply \in [Process -> JournalState \cup {Nothing}]
    /\ signs \in Nat /\ posts \in Nat
    /\ verdict \in Verdict \cup {Nothing}

\* "Every non-NOT_STARTED state permanently blocks another signature or POST
\* after a crash or process restart": across processes, crashes, failed writes
\* and power losses there is at most one signature and at most one POST.
AtMostOnePost == signs <= 1 /\ posts <= 1

\* "Intent is durable before key loading, and a POST-attempt record is durable
\* before the sole transport invocation": a signature or a POST that happened
\* has left a record no power loss can remove.
WriteIsRecorded ==
    /\ signs > 0 => Holds(durable, "INTENT_RECORDED")
    /\ posts > 0 => Holds(durable, "POST_ATTEMPT_RECORDED")

\* The append of a running call is never refused by the transition table or by
\* the decoder: no interleaving moves the journal under the lock holder.
AppendNeverRefused ==
    \A p \in Process :
        pc[p] \in {"append", "replace"} => lock = p /\ Decodes(Candidate(p))

\* What execute or reconcile returned to its caller is in the durable journal,
\* so a caller never acts on a state that a power loss takes back.
ReplyIsDurable ==
    \A p \in Process : reply[p] # Nothing => Holds(durable, reply[p])

\* The durable journal only grows: no record is lost, rewritten or forked.
DurableGrows == [][IsPrefix(durable, durable')]_vars

\* Every way a call can end releases the lock: a held lock is let go.
LockIsReleased == \A p \in Process : lock = p ~> lock # p

-----------------------------------------------------------------------------
(* The hand-off implements OneShotPost.  It is armed while a process is    *)
(* about to call the transport, and spent once something durable was       *)
(* written that no running execution is still building on.                 *)
\* The targets of an execution that has not come to its POST yet.
BeforePost == {"INTENT_RECORDED", "LOCAL_SIGNATURE_CREATED", "POST_ATTEMPT_RECORDED"}

ExecutionUnderWay ==
    \E p \in Process : target[p] \in BeforePost

Stage ==
    IF \E p \in Process : pc[p] = "transport" THEN "armed"
    ELSE IF posts > 0 \/ (durable # <<>> /\ ~ExecutionUnderWay) THEN "spent"
    ELSE "fresh"

Recorded == IF StateOf(durable) \in Verdict THEN StateOf(durable) ELSE Nothing

OneShot == INSTANCE OneShotPost
               WITH Verdicts <- Verdict, NoVerdict <- Nothing,
                    stage <- Stage, sent <- posts, recorded <- Recorded

\* A crash, a failed fsync, a lost response or a second process never makes the
\* journalled hand-off do what the one-shot registration may not: arm twice,
\* send twice, or change a recorded verdict.
ImplementsOneShotPost == OneShot!Spec

\* "Timeout, disconnect, OS transport failure, or malformed response yields
\* WRITE_OUTCOME_UNKNOWN": a process that leaves the transport without dying goes
\* on to record what it saw.  The code breaks it: an http.client.HTTPException (a
\* malformed status line) is none of transport_errors and leaves execute with the
\* journal at POST_ATTEMPT_RECORDED.
EveryResponseIsRecorded ==
    [][\A p \in Process :
          pc[p] = "wait" => pc'[p] \in {"wait", "append", "down"}]_vars

-----------------------------------------------------------------------------
(* The inductive invariant behind the safety properties.                   *)
Busy == {"append", "replace", "sync", "sign", "transport", "wait"}

LastIsOwn(p) == journal # <<>> /\ journal[Len(journal)] = OwnRecord(p)

LockInv == \A p \in Process : pc[p] \in Busy <=> lock = p

CallOK(p) ==
    /\ pc[p] \in Busy => target[p] \in JournalState /\ appr[p] \in Approval
    /\ pc[p] \notin Busy => target[p] = Nothing
    /\ pc[p] = "sign" => target[p] = "INTENT_RECORDED"
    /\ pc[p] \in {"transport", "wait"} => target[p] = "POST_ATTEMPT_RECORDED"
    /\ pc[p] \in {"append", "replace"} => Decodes(Candidate(p))
    /\ pc[p] = "replace" => temp[p] = Candidate(p)
    /\ pc[p] \in {"sync", "sign", "transport", "wait"} => LastIsOwn(p)
    /\ pc[p] \in {"sign", "transport", "wait"} => durable = journal

CallInv == \A p \in Process : CallOK(p)

JournalInv == IsPrefix(durable, journal) /\ Decodes(journal)

CountInv ==
    /\ \A p \in Process : target[p] = "INTENT_RECORDED" => signs = 0
    /\ \A p \in Process : target[p] \in BeforePost /\ pc[p] # "wait" => posts = 0
    /\ WriteIsRecorded
    /\ AtMostOnePost

\* A signature or a POST needs the lock, a record of its own at the end of a
\* durable journal, and counters that are still zero.
IInv == TypeOK /\ LockInv /\ CallInv /\ JournalInv /\ CountInv /\ ReplyIsDurable
=============================================================================
