------------------------- MODULE CheckpointMigration -------------------------
(***************************************************************************)
(* The one-shot migration of the receipt observer's checkpoint from the    *)
(* legacy schema to version 2, sonnet_checkpoint_migration.py and          *)
(* scripts/migrate_sonnet_checkpoint.py.                                   *)
(*                                                                         *)
(* --seal-review fixes in a review record what was looked at; --apply, a   *)
(* later call, archives exactly that, marks the transaction, stages the    *)
(* new files, switches them in and removes marker and record.  There is no *)
(* resume: what an interrupted call leaves must make the observer and      *)
(* every later call refuse.  Calls take the observer's lock without        *)
(* waiting, and give it up between looking and doing.  A name that was not *)
(* synced may or may not outlive a power loss, a file that was not synced  *)
(* may be torn.                                                            *)
(*                                                                         *)
(* The legacy checkpoint is one immutable file with cursor 0.  Its         *)
(* progress file, if there is one, holds the latest cursor, and the        *)
(* observer that wrote the legacy files may still advance it.  Digests     *)
(* stand for the content they are of.                                      *)
(***************************************************************************)
EXTENDS Naturals, Sequences, FiniteSets, FiniteSetsExt

CONSTANTS Process,
          MaxCursor   \* bound: the latest legacy cursor

Archive == {"archived checkpoint", "archived progress", "manifest"}
Temporary == {"marker", "review", "staged checkpoint", "staged progress"}
Lineage == {"checkpoint v1", "checkpoint v2", "progress"}
Name == Archive \cup Temporary \cup Lineage

\* The directory of a name.
Beside(f) == IF f \in Archive THEN Archive ELSE Name \ Archive

Absent == <<"absent">>
Torn == <<"torn">>

VARIABLES now,      \* what the system shows: content per name
          disk,     \* the names that are durable
          pending,  \* changes of names not yet synced: sets of names
          unsynced, \* files whose content is not synced
          proc,     \* the calls
          lock,     \* the call that holds the lock: a set of at most one
          applied   \* a call returned LEGACY_MIGRATION_APPLIED

vars == <<now, disk, pending, unsynced, proc, lock, applied>>

Off == [pc |-> "off", target |-> {}, files |-> <<>>]

Progress(cursors) == IF cursors = {} THEN Absent ELSE <<"v1", Max(cursors)>>

Init ==
    /\ \E c \in {{}} \cup {{k} : k \in 0..MaxCursor} :
          now = [f \in Name |-> IF f = "checkpoint v1" THEN <<"v1">>
                                ELSE IF f = "progress" THEN Progress(c) ELSE Absent]
    /\ disk = now /\ pending = {} /\ unsynced = {}
    /\ proc = [p \in Process |-> Off]
    /\ lock = {} /\ applied = FALSE

Present(fs) == {f \in fs : now[f] # Absent}

-----------------------------------------------------------------------------
(* What the calls and the observer read.                                   *)

\* The cursor of the progress file as a set of at most one.
Cursor == IF now["progress"] = Absent THEN {} ELSE {now["progress"][2]}

\* Exactly a legacy checkpoint, with or without a legacy progress, which is
\* not behind it; a review record only where it is expected.
LegacyInventory(allowed) ==
    /\ Present(Name \ Archive) \ {"progress"} = {"checkpoint v1"} \cup allowed
    /\ now["progress"] # Absent => now["progress"][1] = "v1"

Review(target) == <<"target", target>>

\* Mutant of Loaded: files that begin with a dot are ignored.
LoadedIgnoring ==
    LET found == Present(Lineage) IN
    IF \/ "checkpoint v1" \in found
       \/ found = {"progress"}
       \/ now["progress"] # Absent /\ now["progress"][1] = "v1"
    THEN [mode |-> "refused", cursor |-> 0]
    ELSE [mode |-> IF found = {} THEN "new" ELSE "resumed",
          cursor |-> IF Cursor = {} THEN 0 ELSE Max(Cursor)]

\* What a start of the observer makes of the directory: it refuses, begins a
\* new observation, or resumes at a cursor.
Loaded ==
    LET found == Present(Name \ Archive) IN
    IF \/ found \cap Temporary # {}
       \/ {"checkpoint v1", "checkpoint v2"} \subseteq found
       \/ found = {"progress"}
       \/ "checkpoint v1" \in found
       \/ now["progress"] # Absent /\ now["progress"][1] = "v1"
       \/ now["checkpoint v2"] = Torn
    THEN [mode |-> "refused", cursor |-> 0]
    ELSE IF found = {} THEN [mode |-> "new", cursor |-> 0]
    ELSE [mode |-> "resumed", cursor |-> IF Cursor = {} THEN 0 ELSE Max(Cursor)]

-----------------------------------------------------------------------------
(* Looking and taking the lock.                                            *)
Quiet == UNCHANGED <<now, disk, pending, unsynced>>

Looks(p, pc) ==
    /\ proc[p].pc = "off" /\ lock = {}
    /\ Present(Archive) = {}
    /\ proc' = [proc EXCEPT ![p] = [Off EXCEPT !.pc = pc, !.target = Cursor]]
    /\ Quiet /\ UNCHANGED <<lock, applied>>

\* The call without arguments ends here.
Prepare(p) == LegacyInventory({}) /\ Looks(p, "prepared")

LoadSealed(p) ==
    /\ LegacyInventory({"review"}) /\ now["review"] = Review(Cursor)
    /\ Looks(p, "loaded")

\* The target is read again under the lock.
Acquires(p, files) ==
    /\ lock = {} /\ lock' = {p}
    /\ Present(Archive) = {}
    /\ proc' = [proc EXCEPT ![p] = [pc |-> "create", target |-> Cursor, files |-> files]]
    /\ Quiet /\ UNCHANGED applied

Seal(p) ==
    /\ proc[p].pc = "prepared"
    /\ LegacyInventory({}) /\ Cursor = proc[p].target
    /\ Acquires(p, <<"review">>)

\* The files --apply writes, in this order.
Written(target) ==
    IF target = {}
    THEN <<"archived checkpoint", "manifest", "marker", "staged checkpoint">>
    ELSE <<"archived checkpoint", "archived progress", "manifest", "marker",
           "staged checkpoint", "staged progress">>

\* Mutant of Apply: what was loaded is not compared with what is there.
ApplyUnread(p) ==
    /\ proc[p].pc = "loaded"
    /\ LegacyInventory({"review"})
    /\ Acquires(p, Written(Cursor))

Apply(p) ==
    /\ proc[p].pc = "loaded"
    /\ LegacyInventory({"review"})
    /\ now["review"] = Review(proc[p].target) /\ Cursor = proc[p].target
    /\ Acquires(p, Written(Cursor))

-----------------------------------------------------------------------------
(* Writing one file that must not exist yet.                               *)
Content(f, target) ==
    CASE f = "archived checkpoint" -> <<"v1">>
      [] f = "archived progress" -> Progress(target)
      [] f = "staged checkpoint" -> <<"v2">>
      [] f = "staged progress" -> <<"v2", Max(target)>>
      [] f \in {"review", "manifest", "marker"} -> Review(target)

Goes(p, pc) == proc' = [proc EXCEPT ![p].pc = pc]

Create(p) ==
    LET f == Head(proc[p].files) IN
    /\ proc[p].pc = "create" /\ now[f] = Absent
    /\ now' = [now EXCEPT ![f] = Torn]
    /\ pending' = pending \cup {{f}} /\ unsynced' = unsynced \cup {f}
    /\ Goes(p, "write") /\ UNCHANGED <<disk, lock, applied>>

Write(p) ==
    LET f == Head(proc[p].files) IN
    /\ proc[p].pc = "write"
    /\ now' = [now EXCEPT ![f] = Content(f, proc[p].target)]
    /\ Goes(p, "sync") /\ UNCHANGED <<disk, pending, unsynced, lock, applied>>

SyncFile(p) ==
    /\ proc[p].pc = "sync"
    /\ unsynced' = unsynced \ {Head(proc[p].files)}
    /\ Goes(p, "sync names") /\ UNCHANGED <<now, disk, pending, lock, applied>>

SyncNames(dir) ==
    /\ disk' = [f \in Name |-> IF f \in dir THEN now[f] ELSE disk[f]]
    /\ pending' = {fs \in pending : fs \cap dir = {}}

\* The next file; after the last one the review is sealed, or the switch begins.
Continues(p) ==
    LET f == Head(proc[p].files) IN
    /\ proc[p].pc = "sync names"
    /\ \/ f = "review" /\ proc' = [proc EXCEPT ![p] = Off] /\ lock' = {}
       \/ f # "review" /\ UNCHANGED lock
          /\ proc' = [proc EXCEPT ![p].files = Tail(@),
                 ![p].pc = IF Len(proc[p].files) = 1 THEN "unlink" ELSE "create"]

\* Mutant of SyncedNames: the directory of a new file is not synced.
SyncedNamesNot(p) ==
    Continues(p) /\ UNCHANGED <<now, disk, pending, unsynced, applied>>

SyncedNames(p) ==
    /\ Continues(p) /\ SyncNames(Beside(Head(proc[p].files)))
    /\ UNCHANGED <<now, unsynced, applied>>

-----------------------------------------------------------------------------
(* The switch and the clean-up.                                            *)
Unlink(p, f, pc) ==
    /\ now' = [now EXCEPT ![f] = Absent]
    /\ pending' = pending \cup {{f}}
    /\ Goes(p, pc) /\ UNCHANGED <<disk, unsynced, lock, applied>>

\* What is migrated is compared with what was archived once more.
UnlinkCheckpoint(p) ==
    /\ proc[p].pc = "unlink"
    /\ now["checkpoint v1"] = <<"v1">> /\ now["progress"] = Progress(proc[p].target)
    /\ Unlink(p, "checkpoint v1", "rename")

Rename(p, from, to, pc) ==
    /\ now' = [now EXCEPT ![to] = now[from], ![from] = Absent]
    /\ pending' = pending \cup {{from, to}}
    /\ Goes(p, pc) /\ UNCHANGED <<disk, unsynced, lock, applied>>

RenameCheckpoint(p) ==
    /\ proc[p].pc = "rename"
    /\ Rename(p, "staged checkpoint", "checkpoint v2",
              IF proc[p].target = {} THEN "sync switch" ELSE "rename progress")

RenameProgress(p) ==
    /\ proc[p].pc = "rename progress"
    /\ Rename(p, "staged progress", "progress", "sync switch")

SyncLineage(p, from, to) ==
    /\ proc[p].pc = from /\ SyncNames(Name \ Archive)
    /\ Goes(p, to) /\ UNCHANGED <<now, unsynced, lock, applied>>

SyncSwitch(p) == SyncLineage(p, "sync switch", "unmark")

\* The new files are read back and validated first.
RemoveMarker(p) ==
    /\ proc[p].pc = "unmark"
    /\ now["checkpoint v2"] = <<"v2">>
    /\ now["progress"] = IF proc[p].target = {} THEN Absent
                         ELSE <<"v2", Max(proc[p].target)>>
    /\ Unlink(p, "marker", "sync marker")

SyncMarker(p) == SyncLineage(p, "sync marker", "unreview")

RemoveReview(p) == proc[p].pc = "unreview" /\ Unlink(p, "review", "sync review")

\* Mutant of SyncReview: the call reports before the record is gone for good.
SyncReviewSkipped(p) ==
    /\ proc[p].pc = "sync review" /\ Goes(p, "final")
    /\ Quiet /\ UNCHANGED <<lock, applied>>

SyncReview(p) == SyncLineage(p, "sync review", "final")

\* The observer's own reading of the directory decides.
Report(p) ==
    /\ proc[p].pc = "final"
    /\ Loaded = [mode |-> "resumed",
                 cursor |-> IF proc[p].target = {} THEN 0 ELSE Max(proc[p].target)]
    /\ proc' = [proc EXCEPT ![p] = Off] /\ lock' = {} /\ applied' = TRUE
    /\ Quiet

-----------------------------------------------------------------------------
(* Errors, deaths, power losses and the legacy observer.                   *)

\* A refused or failed operation, or the end of the process: nothing is undone.
Ends(p) ==
    /\ proc[p].pc # "off"
    /\ proc' = [proc EXCEPT ![p] = Off] /\ lock' = lock \ {p}
    /\ Quiet /\ UNCHANGED applied

PowerLoss ==
    /\ \E kept \in SUBSET pending : \E torn \in SUBSET unsynced :
          now' = [f \in Name |->
                    LET left == IF f \in UNION kept THEN now[f] ELSE disk[f] IN
                    IF f \in torn /\ left # Absent THEN Torn ELSE left]
    /\ disk' = now' /\ pending' = {} /\ unsynced' = {}
    /\ proc' = [p \in Process |-> Off] /\ lock' = {}
    /\ UNCHANGED applied

\* It refuses a directory with files it does not know, but does not look for
\* the review record of a later program.
LegacyAdvances ==
    /\ lock = {}
    /\ Present(Name \ Archive) \subseteq {"checkpoint v1", "progress", "review"}
    /\ now["checkpoint v1"] # Absent
    /\ \E c \in 0..MaxCursor :
          /\ \A k \in Cursor : c > k
          /\ now' = [now EXCEPT !["progress"] = <<"v1", c>>]
          /\ disk' = [disk EXCEPT !["progress"] = <<"v1", c>>]
    /\ UNCHANGED <<pending, unsynced, proc, lock, applied>>

Call(p) ==
    \/ Prepare(p) \/ LoadSealed(p) \/ Seal(p) \/ Apply(p)
    \/ Create(p) \/ Write(p) \/ SyncFile(p) \/ SyncedNames(p)
    \/ UnlinkCheckpoint(p) \/ RenameCheckpoint(p) \/ RenameProgress(p)
    \/ SyncSwitch(p) \/ RemoveMarker(p) \/ SyncMarker(p)
    \/ RemoveReview(p) \/ SyncReview(p) \/ Report(p) \/ Ends(p)

Next == (\E p \in Process : Call(p)) \/ PowerLoss \/ LegacyAdvances

Spec == Init /\ [][Next]_vars

-----------------------------------------------------------------------------
(* Properties.                                                             *)

\* Wherever the migration was interrupted and whatever a power loss left, a
\* start of the observer refuses or resumes at the archived cursor: it never
\* begins a new observation or reads an older cursor (apply and load).
ResumesWhereItStopped ==
    Loaded.mode # "refused" =>
        /\ Loaded.mode = "resumed"
        /\ now["archived progress"] =
              Progress(IF now["progress"] = Absent THEN {} ELSE {Loaded.cursor})

\* The legacy bytes are never lost: a legacy file that was replaced is whole in
\* the archive, beside the manifest of both (apply, "evidence-preserving").
EvidenceIsKept ==
    now["checkpoint v1"] # <<"v1">> =>
        /\ now["archived checkpoint"] = <<"v1">>
        /\ now["manifest"] = Review(Cursor)
        /\ now["archived progress"] = Progress(Cursor)

\* A call that reported success is not undone by a power loss (apply).
AppliedIsDurable == applied => Loaded.mode = "resumed"

\* The legacy checkpoint gives way only to what a sealed review names, though
\* other calls and the legacy observer run between looking, sealing and applying.
OnlyTheReviewed ==
    now["checkpoint v1"] # now'["checkpoint v1"] =>
        \/ now["review"] = Review(Cursor)
        \/ \A p \in Process : proc'[p] = Off
=============================================================================
