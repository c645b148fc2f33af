--------------------------- MODULE ReceiptObserver ---------------------------
(***************************************************************************)
(* The receipt observer and its private store, sonnet_receipt_observer.py. *)
(*                                                                         *)
(* One observer at a time (the session lock is held from the restart check *)
(* to the end of the run) pages through a room behind a cursor, archives   *)
(* every verified referee receipt as a .receipt/.json pair and then moves  *)
(* the durable cursor.  A run may die at any point; the next one starts    *)
(* from what the directory holds.  `disk` is the directory as running      *)
(* processes see it, `synced` what the last directory fsync covered.       *)
(*                                                                         *)
(* A receipt is a position of the room: its digest covers the sequence     *)
(* number.  Verification is left out: every receipt of `room` is one the   *)
(* pinned referee signed for the fixed request, everything else is Other.  *)
(* The `.json` half holds the time of the archiving call, so writing it    *)
(* again never produces the same bytes.  Malformed pages, a generation     *)
(* change and spent budgets all end the run (EndRun); retries are part of  *)
(* ObservationSession.                                                     *)
(***************************************************************************)
EXTENDS Integers, Sequences, FiniteSets

CONSTANTS Accepting,  \* signed receipts that accept the registration
          Rejecting,  \* signed receipts that reject it
          Other,      \* any other message
          MaxRoom,    \* bound: messages in the room
          PageLimit   \* MAX_PAGE_RECORDS

ASSUME RoomAssumption ==
    /\ Other \notin Accepting \cup Rejecting
    /\ Accepting \cap Rejecting = {}
    /\ MaxRoom \in Nat /\ PageLimit \in Nat \ {0}

Signed == Accepting \cup Rejecting

VARIABLES room,     \* every message ever posted
          floor,    \* messages the paged view has dropped
          dropped,  \* messages the export has dropped
          disk, synced,  \* the evidence directory
          tmp,      \* a .tmp-* file is in it
          pc,       \* the observer
          cursor,   \* _cursor: memory of the run
          todo,     \* writes the run still has to make
          caught,   \* verified receipts of the page being handled
          result,   \* what the last run answered
          told,     \* every terminal disposition ever answered
          seen,     \* receipts some page or export has shown
          blind     \* the cursor has moved past a message no export showed

vars == <<room, floor, dropped, disk, synced, tmp, pc, cursor, todo, caught,
          result, told, seen, blind>>

server == <<room, floor, dropped>>

None == -1
Nothing == "nothing"

\* checkpoint and progress cursor, the two halves of the receipt pairs and the
\* receipts a conflict marker names ({}: no marker).
Directory == [anchor : {None} \cup 0..MaxRoom, progress : {None} \cup 0..MaxRoom,
              blob : SUBSET (1..MaxRoom), meta : SUBSET (1..MaxRoom),
              conflict : SUBSET (1..MaxRoom)]

Init ==
    /\ room = <<>> /\ floor = 0 /\ dropped = 0
    /\ disk = [anchor |-> None, progress |-> None, blob |-> {}, meta |-> {},
               conflict |-> {}]
    /\ synced = disk /\ tmp = FALSE
    /\ pc = "off" /\ cursor = 0 /\ todo = <<>> /\ caught = {}
    /\ result = Nothing /\ told = {} /\ seen = {} /\ blind = FALSE

-----------------------------------------------------------------------------
(* What a directory says.                                                  *)
Disposition(i) == IF room[i] \in Accepting THEN "ACCEPTED" ELSE "REJECTED"

Dispositions(S) == {Disposition(i) : i \in S}

\* The cursor of _validate_restart_payloads: progress, when there is one.
SavedCursor(d) == IF d.progress # None THEN d.progress ELSE d.anchor

\* load(): nothing while a pair is incomplete or a conflict is.
Loaded(d) == IF d.conflict # {} \/ d.blob # d.meta THEN {} ELSE d.meta

\* Mutant: a marker does not keep a new run from starting.
RefusedUnmarked(d) ==
    \/ tmp
    \/ d.anchor = None /\ (d.progress # None \/ d.blob # {} \/ d.meta # {})

\* load_restart_checkpoint refuses the directory before any network use.
Refused(d) ==
    \/ tmp
    \/ d.conflict # {}
    \/ d.anchor = None /\ (d.progress # None \/ d.blob # {} \/ d.meta # {})

\* reconcile_saved: one disposition is an answer, two are not.
Answer(S) == IF Cardinality(Dispositions(S)) = 1
             THEN CHOOSE x \in Dispositions(S) : TRUE
             ELSE "CONFLICTING_VALID_RECEIPTS"

-----------------------------------------------------------------------------

\* The run ends and its descriptor, lock and memory go away.
End(r) ==
    /\ pc' = "off" /\ cursor' = 0 /\ todo' = <<>> /\ caught' = {}
    /\ result' = r
    /\ told' = IF r \in {"ACCEPTED", "REJECTED"} THEN told \cup {r} ELSE told

\* _prepare_restart_core, the bootstrap high-water read of a new observation
\* and prepare() up to its read.
StartRefused ==
    /\ pc = "off" /\ Refused(disk)
    /\ End("REFUSED")
    /\ UNCHANGED <<server, disk, synced, tmp, seen, blind>>

StartSaved ==
    /\ pc = "off" /\ ~Refused(disk) /\ Loaded(disk) # {}
    /\ End(Answer(Loaded(disk)))
    /\ UNCHANGED <<server, disk, synced, tmp, seen, blind>>

Start ==
    /\ pc = "off" /\ ~Refused(disk) /\ Loaded(disk) = {}
    /\ pc' = "read"
    /\ cursor' = IF disk.anchor = None THEN Len(room) ELSE SavedCursor(disk)
    /\ result' = Nothing
    /\ UNCHANGED <<server, disk, synced, tmp, todo, caught, told, seen, blind>>

-----------------------------------------------------------------------------
(* _read: the writes one response leads to.                                *)
Receipts(S) == {i \in S : room[i] # Other}

\* The same signed record at several positions is kept once, at the last.
Verified(S) ==
    {i \in Receipts(S) : \A j \in S : room[j] = room[i] => j <= i}

FirstShown(S, i) == CHOOSE j \in S : /\ room[j] = room[i]
                                     /\ \A k \in S : room[k] = room[i] => j <= k

Save(c) == <<[file |-> "cursor", at |-> c]>>

\* V in the order in which S first shows each of its records.
InOrder(S, V) ==
    CHOOSE s \in [1..Cardinality(V) -> V] :
        \A m, n \in DOMAIN s : m < n => FirstShown(S, s[m]) < FirstShown(S, s[n])

\* Mutant: the answer is given with the records alone.
ArchiveRecords(S, V) == [n \in 1..Cardinality(V) |-> [file |-> "blob", at |-> InOrder(S, V)[n]]]

\* A conflict marker comes before the receipts it names; each receipt is
\* archived as its record and then its metadata.
ArchiveAll(S, V) ==
    (IF Cardinality(Dispositions(V)) > 1
     THEN <<[file |-> "conflict", at |-> 0]>> ELSE <<>>)
    \o [n \in 1..2 * Cardinality(V) |->
          [file |-> IF n % 2 = 1 THEN "blob" ELSE "meta",
           at |-> InOrder(S, V)[(n + 1) \div 2]]]

\* The last message of a page: the server fills it.
PageEnd(c) == IF Len(room) <= c + PageLimit THEN Len(room) ELSE c + PageLimit

\* Mutant: the new cursor is saved before the receipts it covers.
PageCursorFirst ==
    /\ pc = "read" /\ floor <= cursor
    /\ LET shown == (cursor + 1)..PageEnd(cursor)
       IN /\ caught' = Verified(shown)
          /\ seen' = seen \cup Receipts(shown)
          /\ todo' = Save(cursor) \o Save(PageEnd(cursor))
                       \o ArchiveAll(shown, Verified(shown))
    /\ cursor' = PageEnd(cursor)
    /\ pc' = "write"
    /\ UNCHANGED <<server, disk, synced, tmp, result, told, blind>>

\* A page of the expected generation without a gap: the lineage is saved at the
\* old cursor, the receipts are archived, the new cursor is saved.
Page ==
    /\ pc = "read" /\ floor <= cursor
    /\ LET shown == (cursor + 1)..PageEnd(cursor)
       IN /\ caught' = Verified(shown)
          /\ seen' = seen \cup Receipts(shown)
          /\ todo' = Save(cursor) \o ArchiveAll(shown, Verified(shown))
                       \o Save(PageEnd(cursor))
    /\ cursor' = PageEnd(cursor)
    /\ pc' = "write"
    /\ UNCHANGED <<server, disk, synced, tmp, result, told, blind>>

\* The page starts after cursor + 1: only the export may say what was missed.
PageWithGap ==
    /\ pc = "read" /\ cursor < floor /\ floor < Len(room)
    /\ todo' = Save(cursor) \o <<[file |-> "export", at |-> PageEnd(floor)]>>
    /\ pc' = "write"
    /\ UNCHANGED <<server, disk, synced, tmp, cursor, caught, result, told, seen, blind>>

\* The export shows every message it retains; without a receipt in it the gap
\* stays unresolved.
Export ==
    /\ pc = "write" /\ todo # <<>> /\ Head(todo).file = "export"
    /\ LET shown == (dropped + 1)..Len(room)
           last  == Head(todo).at
       IN /\ seen' = seen \cup Receipts(shown)
          /\ \/ /\ Receipts(shown) = {}
                /\ End("CURSOR_GAP_UNRESOLVED")
                /\ UNCHANGED blind
             \/ /\ Receipts(shown) # {}
                /\ caught' = Verified(shown)
                /\ todo' = ArchiveAll(shown, Verified(shown)) \o Save(last)
                /\ cursor' = last
                /\ blind' = (blind \/ cursor < dropped)
                /\ UNCHANGED <<pc, result, told>>
    /\ UNCHANGED <<server, disk, synced, tmp>>

-----------------------------------------------------------------------------
(* _atomic_write and _atomic_replace.                                      *)
Put(d, e) ==
    CASE e.file = "blob"     -> [d EXCEPT !.blob = @ \cup {e.at}]
      [] e.file = "meta"     -> [d EXCEPT !.meta = @ \cup {e.at}]
      [] e.file = "conflict" -> [d EXCEPT !.conflict = caught]
      [] e.file = "cursor" /\ d.anchor = None -> [d EXCEPT !.anchor = e.at]
      [] OTHER               -> [d EXCEPT !.progress = e.at]

Writing == pc = "write" /\ todo # <<>> /\ Head(todo).file # "export"

\* DEDUPLICATED, or a cursor that has not moved: no write.
AlreadyThere(e) ==
    \/ e.file = "blob" /\ e.at \in disk.blob
    \/ e.file = "cursor" /\ disk.anchor # None /\ e.at = SavedCursor(disk)

\* A .json of an earlier run has another observed_at; a cursor may not go back.
Clashes(e) ==
    \/ e.file = "meta" /\ e.at \in disk.meta
    \/ e.file = "cursor" /\ disk.anchor # None /\ e.at < SavedCursor(disk)

SkipWrite ==
    /\ Writing /\ AlreadyThere(Head(todo))
    /\ todo' = Tail(todo)
    /\ UNCHANGED <<server, disk, synced, tmp, pc, cursor, caught, result, told, seen, blind>>

WriteRefused ==
    /\ Writing /\ Clashes(Head(todo))
    /\ End(IF Head(todo).file = "meta" THEN "EVIDENCE_CONFLICT"
           ELSE "READ_CHECKPOINT_FAILURE")
    /\ UNCHANGED <<server, disk, synced, tmp, seen, blind>>

\* Mutant: the old progress file is removed before the new one is renamed.
CreateTempUnlinking ==
    /\ Writing /\ ~AlreadyThere(Head(todo)) /\ ~Clashes(Head(todo))
    /\ tmp' = TRUE /\ pc' = "temp"
    /\ disk' = [disk EXCEPT !.progress = None]
    /\ UNCHANGED <<server, synced, cursor, todo, caught, result, told, seen, blind>>

CreateTemp ==
    /\ Writing /\ ~AlreadyThere(Head(todo)) /\ ~Clashes(Head(todo))
    /\ tmp' = TRUE /\ pc' = "temp"
    /\ UNCHANGED <<server, disk, synced, cursor, todo, caught, result, told, seen, blind>>

Rename ==
    /\ pc = "temp"
    /\ disk' = Put(disk, Head(todo))
    /\ tmp' = FALSE /\ pc' = "renamed"
    /\ UNCHANGED <<server, synced, cursor, todo, caught, result, told, seen, blind>>

SyncDirectory ==
    /\ pc = "renamed"
    /\ synced' = disk
    /\ todo' = Tail(todo) /\ pc' = "write"
    /\ UNCHANGED <<server, disk, tmp, cursor, caught, result, told, seen, blind>>

\* EVIDENCE_WRITE_FAILED before or after the rename; the unlink removes the
\* temporary file.
WriteFails ==
    /\ pc \in {"temp", "renamed"}
    /\ tmp' = FALSE
    /\ End("EVIDENCE_WRITE_FAILED")
    /\ UNCHANGED <<server, disk, synced, seen, blind>>

\* Everything is written: answer, or poll again.
Handled ==
    /\ pc = "write" /\ todo = <<>>
    /\ \/ caught # {} /\ End(Answer(caught))
       \/ caught = {} /\ pc' = "read" /\ UNCHANGED <<cursor, todo, caught, result, told>>
    /\ UNCHANGED <<server, disk, synced, tmp, seen, blind>>

\* A deadline, a bound, a stop or a failed read.
EndRun ==
    /\ pc = "read"
    /\ End("UNCONFIRMED")
    /\ UNCHANGED <<server, disk, synced, tmp, seen, blind>>

-----------------------------------------------------------------------------
\* The process dies; a temporary file it had not renamed stays.
Crash ==
    /\ pc # "off"
    /\ End(Nothing)
    /\ UNCHANGED <<server, disk, synced, tmp, seen, blind>>

Between(S, T) == {S \cup X : X \in SUBSET (T \ S)}

\* Power is lost: each entry written since the last directory fsync survives or
\* does not.
PowerLoss ==
    /\ End(Nothing)
    /\ \E anchor \in {disk.anchor, synced.anchor},
          progress \in {disk.progress, synced.progress},
          blob \in Between(synced.blob, disk.blob),
          meta \in Between(synced.meta, disk.meta),
          conflict \in {disk.conflict, synced.conflict} :
             disk' = [anchor |-> anchor, progress |-> progress, blob |-> blob,
                      meta |-> meta, conflict |-> conflict]
    /\ synced' = disk'
    /\ tmp' \in {tmp, FALSE}
    /\ UNCHANGED <<server, seen, blind>>

-----------------------------------------------------------------------------
(* The room (outside the program).                                         *)
Post(m) ==
    /\ Len(room) < MaxRoom
    /\ room' = Append(room, m)
    /\ UNCHANGED <<floor, dropped, disk, synced, tmp, pc, cursor, todo, caught,
                   result, told, seen, blind>>

Drop ==
    /\ \/ floor < Len(room) /\ floor' = floor + 1 /\ UNCHANGED dropped
       \/ dropped < floor /\ dropped' = dropped + 1 /\ UNCHANGED floor
    /\ UNCHANGED <<room, disk, synced, tmp, pc, cursor, todo, caught, result,
                   told, seen, blind>>

Observer ==
    \/ StartRefused \/ StartSaved \/ Start
    \/ Page \/ PageWithGap \/ Export
    \/ SkipWrite \/ WriteRefused \/ CreateTemp \/ Rename \/ SyncDirectory
    \/ WriteFails \/ Handled \/ EndRun

Next ==
    \/ Observer
    \/ Crash \/ PowerLoss
    \/ \E m \in Signed \cup {Other} : Post(m)
    \/ Drop

Spec == Init /\ [][Next]_vars

-----------------------------------------------------------------------------

ArchivedIn(d, i) == \E j \in d.blob \cap d.meta : room[j] = room[i]

\* "Receipt evidence is made durable before a cursor covering that receipt is
\* checkpointed": whatever was interrupted, failed or lost, a receipt of the
\* lineage the observer was shown and the durable cursor covers is a complete
\* durable pair, unless an export stood in for messages it did not show.
\* (Without its checkpoint a directory is no lineage.)
EvidenceBeforeCursor ==
    \A i \in seen :
        /\ ~blind /\ synced.anchor # None
        /\ synced.anchor < i /\ i <= SavedCursor(synced)
        => ArchivedIn(synced, i)

\* "The cursor may only advance", across crashes, failed writes and power loss.
CursorOnlyAdvances == [][SavedCursor(synced') >= SavedCursor(synced)]_vars

\* "Durably block reconciliation before writing either conflicting blob": once a
\* conflict is durably marked, no later run answers a disposition.
MarkerIsFinal == [][synced.conflict # {} => told' = told]_vars

\* A disposition is answered only while a complete pair of it is in the
\* directory.
AnswerHasEvidence ==
    result \in {"ACCEPTED", "REJECTED"} =>
        \E i \in disk.blob \cap disk.meta : Disposition(i) = result

\* "Distinct valid receipts with contradictory dispositions ... produce
\* review-required UNCONFIRMED": while complete durable pairs contradict each
\* other no run answers a disposition.  The code breaks it: one orphan .receipt
\* makes load() answer nothing, whatever complete pairs lie beside it.
ConflictIsFinal ==
    [][~blind /\ Cardinality(Dispositions(synced.blob \cap synced.meta)) > 1
       => told' = told]_vars
=============================================================================
