---------------------------- MODULE KvObservatory ----------------------------
(***************************************************************************)
(* The observatory of Technocore's public notes, kv_observatory.py, run by *)
(* scripts/observe_kv.py.                                                  *)
(*                                                                         *)
(* A run polls the configured namespaces, one after the other, into a      *)
(* SQLite database, then publishes a snapshot of the database: four files  *)
(* in a directory of their own, the generation, and a symbolic link, the   *)
(* output, that is moved to it.  A run may die anywhere; one run at a time *)
(* is modelled, for nothing in the code orders two.                        *)
(*                                                                         *)
(* A run stands for its cycle and for its generation, which have fresh     *)
(* names.  Times, counts and hashes are left out, the value stands for its *)
(* hash.                                                                   *)
(***************************************************************************)
EXTENDS Naturals, FiniteSets, FiniteSetsExt

CONSTANTS Namespace,
          Key,
          Value,
          Fetched,  \* the keys the prefixes of the configuration name
          MaxKeys,  \* the key budget of a namespace
          Runs,     \* bound: runs, numbered in the order they start
          None

Run == 1 .. Runs

VARIABLES pc,        \* where each run is
          left,      \* namespaces the run has still to poll
          listed,    \* the listing it is reading: keys, or None
          hashes,    \* the values read of that listing
          resolved,  \* its output path is the link, or the link's target
          cycle,     \* poll_cycles
          polls,     \* the polls of each cycle
          notes,     \* the notes table
          generation, \* the directory of each run's snapshot
          content,   \* the coverage its snapshot tells, with its cycle
          output,    \* what the published link names
          absent     \* history: keys the last applied listing lacked

db == <<cycle, polls, notes, absent>>
files == <<generation, content, output>>
run == <<left, listed, hashes, resolved>>
vars == <<pc, run, db, files>>

NoNote == [state |-> "NONE", value |-> None]

Init ==
    /\ pc = [r \in Run |-> "idle"]
    /\ left = {} /\ listed = None /\ hashes = <<>> /\ resolved = "link"
    /\ cycle = [r \in Run |-> None]
    /\ polls = [r \in Run |-> [n \in Namespace |-> None]]
    /\ notes = [n \in Namespace |-> [k \in Key |-> NoNote]]
    /\ generation = [r \in Run |-> "none"]
    /\ content = [r \in Run |-> None]
    /\ output = None
    /\ absent = [n \in Namespace |-> {}]

Goes(r, where) == pc' = [pc EXCEPT ![r] = where]

\* Path.resolve() of the captured output path, when the module is imported.
Resolves == IF output = None THEN "link" ELSE "target"

\* The database is opened, the read limit fetched and the cycle begun.
Start(r) ==
    /\ \A s \in Run : IF s < r THEN pc[s] \in {"done", "refused", "failed", "dead"}
                               ELSE pc[s] = "idle"
    /\ Goes(r, "poll")
    /\ left' = Namespace /\ listed' = None /\ hashes' = <<>>
    /\ resolved' = Resolves
    /\ cycle' = [cycle EXCEPT ![r] = "IN_PROGRESS"]
    /\ UNCHANGED <<polls, notes, absent, files>>

-----------------------------------------------------------------------------
(* One poll.                                                               *)

\* store.failed_poll: the poll of n is recorded, its notes are not touched.
FailedPoll(r, n, status) ==
    /\ polls' = [polls EXCEPT ![r][n] = status]
    /\ left' = left \ {n} /\ listed' = None /\ hashes' = <<>>
    /\ Goes(r, "poll")
    /\ UNCHANGED <<resolved, cycle, notes, absent, files>>

\* The listing of a namespace: an answer that is no listing, or its keys.
List(r, n) ==
    /\ pc[r] = "poll" /\ n \in left
    /\ \/ \E status \in {"RATE_LIMITED", "FAILED", "CONTRACT_CHANGED"} : FailedPoll(r, n, status)
       \/ \E keys \in SUBSET Key :
             IF Cardinality(keys) > MaxKeys THEN FailedPoll(r, n, "CONTRACT_CHANGED")
             ELSE /\ listed' = [namespace |-> n, keys |-> keys]
                  /\ Goes(r, "read")
                  /\ UNCHANGED <<left, hashes, resolved, db, files>>

Unread == (listed.keys \cap Fetched) \ DOMAIN hashes

\* Mutant of ReadFails: what was read so far is applied.
ReadFailsApplied(r) ==
    /\ pc[r] = "read" /\ Unread # {}
    /\ Goes(r, "observe")
    /\ UNCHANGED <<run, db, files>>

\* The value of one listed key.
Read(r) ==
    /\ pc[r] = "read"
    /\ \E k \in Unread, v \in Value :
          hashes' = [x \in DOMAIN hashes \cup {k} |-> IF x = k THEN v ELSE hashes[x]]
    /\ UNCHANGED <<pc, left, listed, resolved, db, files>>

\* A rate limit, a key listed but gone, a banner that changed.
ReadFails(r) ==
    /\ pc[r] = "read" /\ Unread # {}
    /\ \E status \in {"RATE_LIMITED", "CONTRACT_CHANGED"} : FailedPoll(r, listed.namespace, status)

ReadDone(r) ==
    /\ pc[r] = "read" /\ Unread = {}
    /\ Goes(r, "observe")
    /\ UNCHANGED <<run, db, files>>

\* The state of a note whose key was read as v.
Reads(old, v) ==
    [value |-> v, state |->
        CASE old.state = "NONE" -> "OBSERVED"
          [] old.state = "DISAPPEARED" -> "REAPPEARED"
          [] OTHER -> IF old.value = v THEN "UNCHANGED" ELSE "CHANGED"]

\* store.observe, one transaction: the notes read, the notes no longer seen,
\* and the successful poll.
Observe(r) ==
    LET n == listed.namespace
        Now(k) == LET old == notes[n][k] IN
                  IF k \in DOMAIN hashes THEN Reads(old, hashes[k])
                  ELSE IF old.state = "NONE" THEN old
                  ELSE [old EXCEPT !.state = "DISAPPEARED"]
    IN
    /\ pc[r] = "observe"
    /\ notes' = [notes EXCEPT ![n] = [k \in Key |-> Now(k)]]
    /\ polls' = [polls EXCEPT ![r][n] = "SUCCESS"]
    /\ absent' = [absent EXCEPT ![n] = Key \ listed.keys]
    /\ left' = left \ {n} /\ listed' = None /\ hashes' = <<>>
    /\ Goes(r, "poll")
    /\ UNCHANGED <<resolved, cycle, files>>

CompleteCycle(r) ==
    /\ pc[r] = "poll" /\ left = {}
    /\ cycle' = [cycle EXCEPT ![r] = "COMPLETED"]
    /\ Goes(r, "recover")
    /\ UNCHANGED <<run, polls, notes, absent, files>>

-----------------------------------------------------------------------------
(* The snapshot and its publication.                                       *)

Promoted == {r \in Run : generation[r] = "promoted"}

\* _recover_snapshot_output: what a dead run left is removed, and a missing
\* link is set to the newest complete generation.  A path that is a real
\* directory has nothing to recover and cannot be published to.
Recover(r) ==
    /\ pc[r] = "recover"
    /\ \/ resolved = "target" /\ Goes(r, "refused") /\ UNCHANGED <<generation, output>>
       \/ /\ resolved = "link" /\ Goes(r, "snapshot")
          /\ generation' = [s \in Run |-> IF s \in Promoted THEN generation[s] ELSE "none"]
          /\ output' = IF output = None /\ Promoted # {} THEN Max(Promoted) ELSE output
    /\ UNCHANGED <<run, db, content>>

Completed == {r \in Run : cycle[r] = "COMPLETED"}

\* store.snapshot: current coverage is that of the latest completed cycle.
Snapshot(r) ==
    LET latest == Max(Completed) IN
    /\ pc[r] = "snapshot"
    /\ content' = [content EXCEPT ![r] =
           [cycle |-> latest, covered |-> {n \in Namespace : polls[latest][n] = "SUCCESS"}]]
    /\ generation' = [generation EXCEPT ![r] = "partial"]
    /\ Goes(r, "write")
    /\ UNCHANGED <<run, db, output>>

\* Mutant of Write: the link is moved before the directory is renamed.
WritePointing(r) ==
    /\ pc[r] = "write"
    /\ generation' = [generation EXCEPT ![r] = "whole"]
    /\ output' = r
    /\ Goes(r, "promote")
    /\ UNCHANGED <<run, db, content>>

\* The four files, which are then read back and compared.
Write(r) ==
    /\ pc[r] = "write"
    /\ generation' = [generation EXCEPT ![r] = "whole"]
    /\ Goes(r, "promote")
    /\ UNCHANGED <<run, db, content, output>>

\* The temporary directory is renamed.
Promote(r) ==
    /\ pc[r] = "promote"
    /\ generation' = [generation EXCEPT ![r] = "promoted"]
    /\ Goes(r, "point")
    /\ UNCHANGED <<run, db, content, output>>

\* The link is replaced.
Point(r) ==
    /\ pc[r] = "point"
    /\ output' = r
    /\ Goes(r, "done")
    /\ UNCHANGED <<run, db, generation, content>>

\* A file operation fails: the temporary directory is removed.
PublishFails(r) ==
    /\ pc[r] \in {"snapshot", "write", "promote", "point"}
    /\ generation' = [generation EXCEPT ![r] = IF @ = "promoted" THEN @ ELSE "none"]
    /\ Goes(r, "failed")
    /\ UNCHANGED <<run, db, content, output>>

\* An error no handler expects, or the process dies: nothing is undone.
Dies(r) ==
    /\ pc[r] \notin {"idle", "done", "refused", "failed", "dead"}
    /\ Goes(r, "dead")
    /\ UNCHANGED <<run, db, files>>

\* The published link is lost.
LoseLink ==
    /\ output # None /\ output' = None
    /\ UNCHANGED <<pc, run, db, generation, content>>

Next ==
    \/ LoseLink
    \/ \E r \in Run :
          \/ Start(r) \/ \E n \in Namespace : List(r, n)
          \/ Read(r) \/ ReadFails(r) \/ ReadDone(r) \/ Observe(r) \/ CompleteCycle(r)
          \/ Recover(r) \/ Snapshot(r) \/ Write(r) \/ Promote(r) \/ Point(r)
          \/ PublishFails(r) \/ Dies(r)

Spec == Init /\ [][Next]_vars

-----------------------------------------------------------------------------
(* What the observatory promises.                                          *)

\* A note said to have disappeared was missing from the last complete listing
\* that was applied, also after rate limits, keys that vanished between the
\* listing and their reading, and runs that died in between (observe, poll).
DisappearedWasAbsent ==
    \A n \in Namespace, k \in Key :
        notes[n][k].state = "DISAPPEARED" => k \in absent[n]

\* What readers follow is a whole generation that is still there, and the
\* coverage it tells is that of one cycle that ran to its end, each covered
\* namespace polled with success in it: an interrupted cycle is never shown
\* (_write_snapshots, snapshot).
PublishedIsWhole ==
    output # None =>
        /\ generation[output] = "promoted"
        /\ cycle[content[output].cycle] = "COMPLETED"
        /\ content[output].covered =
               {n \in Namespace : polls[content[output].cycle][n] = "SUCCESS"}

\* A run never ends refused by its own published output: each completed poll
\* can be published by the atomically replaced link
\* (docs/KV_OBSERVATORY.md:49-53).
PollsArePublished == \A r \in Run : pc[r] # "refused"
=============================================================================
