------------------------- MODULE EngagementCollector -------------------------
(***************************************************************************)
(* The engagement collector, scripts/collect_engagement.py, and the        *)
(* history it appends to, engagement_history.py.                           *)
(*                                                                         *)
(* A collector forks a worker that makes the one request, takes its answer *)
(* from a pipe, ends it, and appends one row to the history under a file   *)
(* lock: a candidate file with the whole new content is synced and renamed *)
(* over the history, then the directory is synced.  An alarm set for the   *)
(* deadline raises an exception anywhere in the commit except while the    *)
(* rename is published.  Previews are written last.                        *)
(*                                                                         *)
(* The scheduler kills nothing it started, and the launcher only the       *)
(* scheduler, so collectors overlap.  A row stands for its key (time and   *)
(* hash of the response); the request's errors are one, "failed".          *)
(***************************************************************************)
EXTENDS Naturals, FiniteSets

CONSTANTS Collector,
          Row,
          None

VARIABLES pc,       \* where each collector is
          row,      \* the row it collected
          worker,   \* its worker: none, alive, zombie, reaped
          owner,    \* WorkerOwnership.state
          txn,      \* transaction: state, preview, error, warning
          view,     \* the history it read under the lock
          answer,   \* what it printed, or None
          history,  \* the history file: rows, its unterminated end
          kept,     \* the contents a power loss may leave
          lock,     \* the holder of the history lock
          wrote,    \* history: collectors whose row was renamed into place
          signalled \* history: a signal was sent to a worker already reaped

vars == <<pc, row, worker, owner, txn, view, answer, history, kept, lock, wrote, signalled>>
file == <<history, kept, lock, wrote>>

PreCommit == [state |-> "PRE_COMMIT", preview |-> "NOT_ATTEMPTED", error |-> None, warning |-> FALSE]

Init ==
    /\ pc = [c \in Collector |-> "idle"] /\ row = [c \in Collector |-> None]
    /\ worker = [c \in Collector |-> "none"] /\ owner = [c \in Collector |-> "STARTING"]
    /\ txn = [c \in Collector |-> PreCommit] /\ view = [c \in Collector |-> {}]
    /\ answer = [c \in Collector |-> None]
    /\ \E end \in {"none", "torn", "corrupt"} : history = [rows |-> {}, end |-> end]
    /\ kept = {history} /\ lock = None /\ wrote = {} /\ signalled = FALSE

Goes(c, where) == pc' = [pc EXCEPT ![c] = where]

\* What is printed: the commit state, whether all the rest went well, and
\* whether the row was found instead of appended.
Answers(c, state, well) ==
    answer' = [answer EXCEPT ![c] =
        [state |-> state, well |-> well, found |-> txn[c].state = "DEDUPED"]]

-----------------------------------------------------------------------------
(* The worker.                                                             *)

\* run_with_total_deadline up to the fork; the deadline may have passed.
Start(c) ==
    /\ pc[c] = "idle"
    /\ \/ Goes(c, "startup") /\ worker' = [worker EXCEPT ![c] = "alive"] /\ UNCHANGED answer
       \/ Goes(c, "done") /\ Answers(c, "PRE_COMMIT", FALSE) /\ UNCHANGED worker
    /\ UNCHANGED <<row, owner, txn, view, file, signalled>>

WorkerExits(c) ==
    /\ worker[c] = "alive"
    /\ worker' = [worker EXCEPT ![c] = "zombie"]
    /\ UNCHANGED <<pc, row, owner, txn, view, answer, file, signalled>>

\* READY and its acknowledgment.  A worker that did not prove its session is
\* never owned.
Ready(c) ==
    /\ pc[c] = "startup"
    /\ \/ Goes(c, "result") /\ owner' = [owner EXCEPT ![c] = "OWNED"]
       \/ Goes(c, "failing") /\ UNCHANGED owner
    /\ UNCHANGED <<row, worker, txn, view, answer, file, signalled>>

\* The answer of the worker comes, or the deadline, or the end of the pipe.
Result(c) ==
    /\ pc[c] = "result"
    /\ Goes(c, "join") \/ Goes(c, "failing")
    /\ UNCHANGED <<row, worker, owner, txn, view, answer, file, signalled>>

Reaps(c) ==
    /\ worker' = [worker EXCEPT ![c] = "reaped"]
    /\ owner' = [owner EXCEPT ![c] = "RELEASED"]

\* join with a bound, and is_alive: both reap a worker that has exited.
Join(c) ==
    /\ pc[c] = "join"
    /\ \/ worker[c] = "zombie" /\ Reaps(c) /\ Goes(c, "decode")
       \/ worker[c] = "alive" /\ Goes(c, "failing") /\ UNCHANGED <<worker, owner>>
    /\ UNCHANGED <<row, txn, view, answer, file, signalled>>

\* The worker's one request gave a valid sample or an error; too little of the
\* deadline may be left to commit.
Decode(c) ==
    /\ pc[c] = "decode"
    /\ \/ \E r \in Row : row' = [row EXCEPT ![c] = r] /\ Goes(c, "before")
       \/ Goes(c, "failing") /\ UNCHANGED row
    /\ UNCHANGED <<worker, owner, txn, view, answer, file, signalled>>

\* Mutant of Released: what was reaped is still owned.
ReleasedNever(c) == FALSE

Released(c) == owner[c] = "RELEASED"

\* The deadline's handler and the last block of run_with_total_deadline: the
\* worker's group is signalled while its leader is not reaped, then reaped.
Fail(c) ==
    /\ pc[c] = "failing"
    /\ signalled' = (signalled \/ (~Released(c) /\ worker[c] = "reaped"))
    /\ IF Released(c) THEN UNCHANGED <<worker, owner>> ELSE Reaps(c)
    /\ Goes(c, "done") /\ Answers(c, "PRE_COMMIT", FALSE)
    /\ UNCHANGED <<row, txn, view, file>>

-----------------------------------------------------------------------------
(* The commit.                                                             *)

\* An exception before the rename: the deadline, the lock's five seconds, a
\* file operation, a damaged history.  No result tells of a commit.
Raises(c) ==
    /\ pc[c] \in {"before", "lock", "read", "write", "replace"}
    /\ Goes(c, "failing")
    /\ lock' = IF lock = c THEN None ELSE lock
    /\ UNCHANGED <<row, worker, owner, txn, view, answer, history, kept, wrote, signalled>>

\* The rows before the commit, for the difference preview: not under the lock.
Before(c) ==
    /\ pc[c] = "before" /\ history.end # "corrupt"
    /\ Goes(c, "lock")
    /\ UNCHANGED <<row, worker, owner, txn, view, answer, file, signalled>>

\* Mutant of Lock: the lock is not waited for.
LockAnyway(c) ==
    /\ pc[c] = "lock"
    /\ lock' = c /\ Goes(c, "read")
    /\ UNCHANGED <<row, worker, owner, txn, view, answer, history, kept, wrote, signalled>>

Lock(c) ==
    /\ pc[c] = "lock" /\ lock = None
    /\ lock' = c /\ Goes(c, "read")
    /\ UNCHANGED <<row, worker, owner, txn, view, answer, history, kept, wrote, signalled>>

\* A torn end is copied to the recovery file and left out of the content; a
\* row that is already there is not appended again.
Read(c) ==
    /\ pc[c] = "read" /\ history.end # "corrupt"
    /\ view' = [view EXCEPT ![c] = history.rows]
    /\ IF row[c] \in history.rows
       THEN /\ txn' = [txn EXCEPT ![c].state = "DEDUPED"]
            /\ lock' = None /\ Goes(c, "preview")
       ELSE Goes(c, "write") /\ UNCHANGED <<txn, lock>>
    /\ UNCHANGED <<row, worker, owner, answer, history, kept, wrote, signalled>>

\* The candidate is written, synced and closed.
Write(c) ==
    /\ pc[c] = "write" /\ Goes(c, "replace")
    /\ UNCHANGED <<row, worker, owner, txn, view, answer, file, signalled>>

\* Mutant of Replace: the commit state is not set with the rename.
ReplaceUnpublished(c) ==
    /\ pc[c] = "replace"
    /\ history' = [rows |-> view[c] \cup {row[c]}, end |-> "none"]
    /\ kept' = kept \cup {history'} /\ wrote' = wrote \cup {c}
    /\ Goes(c, "sync")
    /\ UNCHANGED <<row, worker, owner, txn, view, answer, lock, signalled>>

\* _replace_and_publish_committed: the alarm is masked.
Replace(c) ==
    /\ pc[c] = "replace"
    /\ history' = [rows |-> view[c] \cup {row[c]}, end |-> "none"]
    /\ kept' = kept \cup {history'} /\ wrote' = wrote \cup {c}
    /\ txn' = [txn EXCEPT ![c].state = "COMMITTED"]
    /\ Goes(c, "sync")
    /\ UNCHANGED <<row, worker, owner, view, answer, lock, signalled>>

\* Mutant of Sync: a failed sync is not told.
SyncUntold(c) ==
    /\ pc[c] = "sync"
    /\ txn' = [txn EXCEPT ![c].state = "DURABLE"] /\ UNCHANGED kept
    /\ lock' = None /\ Goes(c, "preview")
    /\ UNCHANGED <<row, worker, owner, view, answer, history, wrote, signalled>>

\* The directory is synced; an error, or the alarm (an OSError too), becomes a
\* warning, and no preview is written then.
Sync(c) ==
    /\ pc[c] = "sync"
    /\ \/ /\ kept' = {history} /\ Goes(c, "preview")
          /\ txn' = [txn EXCEPT ![c].state = "DURABLE"]
       \/ /\ UNCHANGED kept /\ Goes(c, "report")
          /\ txn' = [txn EXCEPT ![c].warning = TRUE]
    /\ lock' = None
    /\ UNCHANGED <<row, worker, owner, view, answer, history, wrote, signalled>>

\* The rows are read again and the three previews written; an error or the
\* deadline on the way.
Preview(c) ==
    /\ pc[c] = "preview"
    /\ \E p \in {"UPDATED", "FAILED", "NOT_ATTEMPTED"}, e \in {None, "TOTAL_DEADLINE_EXCEEDED"} :
          /\ p = "NOT_ATTEMPTED" => e # None
          /\ txn' = [txn EXCEPT ![c].preview = p, ![c].error = e]
    /\ Goes(c, "report")
    /\ UNCHANGED <<row, worker, owner, view, answer, file, signalled>>

\* The commit state of the result: a row found counts as durable.
Counted(t) == IF t.state = "DEDUPED" THEN "DURABLE" ELSE t.state

\* _structured_result, and what the scheduler makes of it: only a durable row
\* with its previews, in time and with nothing left open, is a success.
Report(c) ==
    /\ pc[c] = "report" /\ Goes(c, "done")
    /\ \E closed \in BOOLEAN :
          Answers(c, Counted(txn[c]), closed /\ txn[c].error = None /\ txn[c].preview = "UPDATED"
                                      /\ ~txn[c].warning /\ Counted(txn[c]) = "DURABLE")
    /\ UNCHANGED <<row, worker, owner, txn, view, file, signalled>>

\* The collector dies: its lock goes with it.
Dies(c) ==
    /\ pc[c] \notin {"idle", "done", "dead"}
    /\ Goes(c, "dead")
    /\ lock' = IF lock = c THEN None ELSE lock
    /\ UNCHANGED <<row, worker, owner, txn, view, answer, history, kept, wrote, signalled>>

\* A power loss leaves one of the contents since the last sync.
PowerLoss ==
    /\ pc' = [c \in Collector |-> IF pc[c] \in {"idle", "done"} THEN pc[c] ELSE "dead"]
    /\ history' \in kept /\ kept' = {history'} /\ lock' = None
    /\ UNCHANGED <<row, worker, owner, txn, view, answer, wrote, signalled>>

Next ==
    \/ PowerLoss
    \/ \E c \in Collector :
          \/ Start(c) \/ WorkerExits(c) \/ Ready(c) \/ Result(c) \/ Join(c) \/ Decode(c) \/ Fail(c)
          \/ Raises(c) \/ Before(c) \/ Lock(c) \/ Read(c) \/ Write(c) \/ Replace(c) \/ Sync(c)
          \/ Preview(c) \/ Report(c) \/ Dies(c)

Spec == Init /\ [][Next]_vars

-----------------------------------------------------------------------------
(* What the collector promises.                                            *)

\* No collector loses another's row: short of a power loss a row that was
\* committed stays, also when the launcher gave up on a scheduler whose
\* collector went on beside the next one (append, under the lock).
RowsAreKept == PowerLoss \/ history.rows \subseteq history'.rows

\* A row this run put in, which the result calls durable or the scheduler a
\* success, is not undone by a power loss.  A row that was only found is another
\* run's: append reports it durable too, without a sync, and it is exempt.
DurableSurvives ==
    \A c \in Collector : answer[c] # None /\ ~answer[c].found
                         /\ (answer[c].well \/ answer[c].state = "DURABLE")
        => \A h \in kept : row[c] \in h.rows

\* A result says committed exactly when this run put its row in, or found it
\* there: wherever the deadline's alarm strikes (commit state, masked rename).
ResultTellsCommit ==
    \A c \in Collector : answer[c] # None =>
        (answer[c].state = "PRE_COMMIT") = (c \notin wrote /\ ~answer[c].found)

\* Only a worker that was not yet reaped is signalled: its number cannot be
\* another process's (_cleanup_owned, and every path that leads to it).
SignalsOwnWorker == ~signalled
=============================================================================
