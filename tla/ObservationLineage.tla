-------------------------- MODULE ObservationLineage --------------------------
(***************************************************************************)
(* Who may watch the registration room, from which start, and with which   *)
(* connection: the private child directory with its session lock and its   *)
(* checkpoint, the one-shot capability that carries both, the session that *)
(* consumes it, and the GET transport another thread may close.            *)
(*                                                                         *)
(* Two kinds of child share the code.  The ordinary one is resumed at will. *)
(* The registration interval is created by a provisioning command and may  *)
(* be started once: before preparing it the code looks whether its session *)
(* lock already exists, and opens the child again to take that lock.       *)
(*                                                                         *)
(* What a page says and how evidence files are written is the subject of   *)
(* module ReceiptObserver.  Here a read that ends saves the lineage, and a *)
(* lineage is named by the process that began it.                          *)
(***************************************************************************)
EXTENDS FiniteSets, Naturals

CONSTANTS
    Proc,   \* processes that start an observation, each at most once
    None    \* the absent value

VARIABLES
    interval,   \* is the child the one-shot registration interval?
    child,      \* does the child directory exist?
    prov,       \* the provisioning command
    marker,     \* the session lock file: "none", "cached" or "durable"
    owner,      \* the process holding the session lock
    saved,      \* the process that began the saved lineage
    pc,         \* where each process is in its start
    pinned,     \* its handle on the child: "no", "live" or "stale"
    mode,       \* the mode of its capability
    began,      \* the processes that were given a NEW observation
    conn,       \* the response its session thread is working on
    stopping    \* its session's stop: "no", "closing" or "closed"

dirVars == <<interval, child, prov>>
lockVars == <<marker, owner, saved>>
startVars == <<pc, pinned, mode, began>>
readVars == <<conn, stopping>>
vars == <<dirVars, lockVars, startVars, readVars>>

Live == {"inspecting", "prepare", "locked", "capable", "built", "running",
         "orphan"}

\* The ordinary child was provisioned long ago; the interval is not there yet.
Init ==
    /\ interval \in BOOLEAN
    /\ child = ~interval
    /\ prov = "idle"
    /\ marker = "none"
    /\ owner = None
    /\ saved = None
    /\ pc = [p \in Proc |-> "idle"]
    /\ pinned = [p \in Proc |-> "no"]
    /\ mode = [p \in Proc |-> None]
    /\ began = {}
    /\ conn = [p \in Proc |-> "none"]
    /\ stopping = [p \in Proc |-> "no"]

Go(p, from, to) == pc[p] = from /\ pc' = [pc EXCEPT ![p] = to]

\* The store is closed: the lock, if p holds it, is released with it.
Released(p) == IF owner = p THEN None ELSE owner

-----------------------------------------------------------------------------
(* provision_registration_interval --apply                                 *)

\* It goes on only when there is no child.
Look ==
    /\ interval
    /\ prov = "idle"
    /\ ~child
    /\ prov' = "looked"
    /\ UNCHANGED <<interval, child, lockVars, startVars, readVars>>

\* A child that appeared meanwhile is a race, and is not touched.
Make ==
    /\ prov = "looked"
    /\ prov' = IF child THEN "idle" ELSE "made"
    /\ child' = TRUE
    /\ UNCHANGED <<interval, lockVars, startVars, readVars>>

\* The new child must be empty and the root must be synced.  A starter that
\* has already put its lock there makes the first of these fail.
Made ==
    /\ prov = "made"
    /\ prov' \in IF marker = "none" THEN {"idle", "failed"} ELSE {"failed"}
    /\ UNCHANGED <<interval, child, lockVars, startVars, readVars>>

\* A failed command takes its child back, unless something is in it.
Unmake ==
    /\ prov = "failed"
    /\ prov' = "idle"
    /\ child' = (marker # "none")
    /\ pinned' = [p \in Proc |-> IF child' \/ pinned[p] = "no"
                                 THEN pinned[p] ELSE "stale"]
    /\ UNCHANGED <<interval, lockVars, pc, mode, began, readVars>>

-----------------------------------------------------------------------------
(* Preparing a capability                                                  *)

\* The interval is inspected first: any session lock means it was started.
\* A free lock is held for the length of the inspection.
Inspect(p) ==
    /\ interval
    /\ child
    /\ pc[p] = "idle"
    /\ IF marker = "none"
       THEN /\ pc' = [pc EXCEPT ![p] = "prepare"]
            /\ UNCHANGED owner
       ELSE /\ pc' = [pc EXCEPT ![p] = IF owner = None THEN "inspecting" ELSE "refused"]
            /\ owner' = IF owner = None THEN p ELSE owner
    /\ UNCHANGED <<dirVars, marker, saved, pinned, mode, began, readVars>>

\* validate_production_restart holds the lock of an ordinary child, if it has
\* one, for the length of its reading; a child without one is read without.
ValidateRestart(p) ==
    /\ ~interval
    /\ pc[p] = "idle"
    /\ pc' = [pc EXCEPT ![p] = IF marker # "none" /\ owner = None
                              THEN "inspecting" ELSE "done"]
    /\ owner' = IF marker # "none" /\ owner = None THEN p ELSE owner
    /\ UNCHANGED <<dirVars, marker, saved, pinned, mode, began, readVars>>

\* Either way the process has nothing more to do.
InspectionEnds(p) ==
    /\ Go(p, "inspecting", IF interval THEN "refused" ELSE "done")
    /\ owner' = Released(p)
    /\ UNCHANGED <<dirVars, marker, saved, pinned, mode, began, readVars>>

\* The ordinary child is prepared without being looked at.
Begin(p) ==
    /\ ~interval
    /\ Go(p, "idle", "prepare")
    /\ UNCHANGED <<dirVars, lockVars, pinned, mode, began, readVars>>

\* Open the child (again).
OpenChild(p) ==
    /\ pc[p] = "prepare"
    /\ pinned[p] = "no"
    /\ IF child THEN pinned' = [pinned EXCEPT ![p] = "live"] /\ UNCHANGED pc
                ELSE pc' = [pc EXCEPT ![p] = "refused"] /\ UNCHANGED pinned
    /\ UNCHANGED <<dirVars, lockVars, mode, began, readVars>>

\* Mutant of Lock: the lock file is opened, and not locked.
LockAnyway(p) ==
    /\ pc[p] = "prepare"
    /\ pinned[p] # "no"
    /\ pc' = [pc EXCEPT ![p] = IF pinned[p] = "live" THEN "locked" ELSE "refused"]
    /\ owner' = IF pinned[p] = "live" THEN p ELSE owner
    /\ marker' = IF pinned[p] = "live" /\ marker = "none" THEN "cached" ELSE marker
    /\ UNCHANGED <<dirVars, saved, pinned, mode, began, readVars>>

\* Create the lock file if it is not there and take the lock without waiting.
\* In a directory that was removed nothing can be created.
Lock(p) ==
    /\ pc[p] = "prepare"
    /\ pinned[p] # "no"
    /\ LET taken == pinned[p] = "live" /\ owner = None
       IN /\ pc' = [pc EXCEPT ![p] = IF taken THEN "locked" ELSE "refused"]
          /\ owner' = IF taken THEN p ELSE owner
    /\ marker' = IF pinned[p] = "live" /\ marker = "none" THEN "cached" ELSE marker
    /\ UNCHANGED <<dirVars, saved, pinned, mode, began, readVars>>

\* The checkpoint decides the mode; an interval that has one was started.
Load(p) ==
    /\ pc[p] = "locked"
    /\ IF interval /\ saved # None
       THEN /\ pc' = [pc EXCEPT ![p] = "refused"]
            /\ owner' = Released(p)
            /\ UNCHANGED <<mode, began>>
       ELSE /\ pc' = [pc EXCEPT ![p] = "capable"]
            /\ mode' = [mode EXCEPT ![p] = IF saved = None THEN "NEW" ELSE "RESUMING"]
            /\ began' = IF saved = None THEN began \cup {p} ELSE began
            /\ UNCHANGED owner
    /\ UNCHANGED <<dirVars, marker, saved, pinned, readVars>>

\* The stored evidence is not what this lineage can have written.
LoadFails(p) ==
    /\ Go(p, "locked", "refused")
    /\ owner' = Released(p)
    /\ UNCHANGED <<dirVars, marker, saved, pinned, mode, began, readVars>>

-----------------------------------------------------------------------------
(* From the capability to a running session                                *)

\* Bootstrap, pacing, the stop event or the wall end a start before the
\* capability is used: it is closed, and with it the store.
StartFails(p) ==
    /\ Go(p, "capable", "done")
    /\ owner' = Released(p)
    /\ UNCHANGED <<dirVars, marker, saved, pinned, mode, began, readVars>>

\* The capability is consumed: from here on closing it does nothing, and the
\* observer owns the store.
Build(p) ==
    /\ Go(p, "capable", "built")
    /\ UNCHANGED <<dirVars, lockVars, pinned, mode, began, readVars>>

\* The observer cannot be built, or its session cannot be started: each closes
\* the store itself.
BuildFails(p) ==
    /\ Go(p, "built", "done")
    /\ owner' = Released(p)
    /\ UNCHANGED <<dirVars, marker, saved, pinned, mode, began, readVars>>

\* The session's thread runs.  When the handle around it cannot be made the
\* start fails, nobody is left to stop the session, and it runs on.
StartSession(p) ==
    /\ pc[p] = "built"
    /\ pc' \in {[pc EXCEPT ![p] = end] : end \in {"running", "orphan"}}
    /\ UNCHANGED <<dirVars, lockVars, pinned, mode, began, readVars>>

-----------------------------------------------------------------------------
(* FixedReadonlyTransport and the session thread                           *)

Watching(p) == pc[p] \in {"running", "orphan"}

\* A closed transport begins no request.
Open(p) ==
    /\ Watching(p)
    /\ conn[p] = "none"
    /\ stopping[p] = "no"
    /\ conn' = [conn EXCEPT ![p] = "opening"]
    /\ UNCHANGED <<dirVars, lockVars, startVars, stopping>>

\* The response is there, or it failed.
Answer(p) ==
    /\ conn[p] = "opening"
    /\ conn' \in {[conn EXCEPT ![p] = c] : c \in {"opened", "none"}}
    /\ UNCHANGED <<dirVars, lockVars, startVars, stopping>>

\* Mutant of Register: the transport is not looked at again.
RegisterUnchecked(p) ==
    /\ conn[p] = "opened"
    /\ conn' = [conn EXCEPT ![p] = "reading"]
    /\ UNCHANGED <<dirVars, lockVars, startVars, stopping>>

\* Under the lock: a transport closed meanwhile closes the response unread.
Register(p) ==
    /\ conn[p] = "opened"
    /\ conn' = [conn EXCEPT ![p] = IF stopping[p] = "no" THEN "reading" ELSE "none"]
    /\ UNCHANGED <<dirVars, lockVars, startVars, stopping>>

\* The body is read to its end, or up to where the response was closed under
\* the reader; the code cannot tell the two.  A page handled saves the lineage
\* if it is the first, whose fsync of the directory also keeps the lock file.
Read(p) ==
    /\ conn[p] \in {"reading", "cut"}
    /\ conn' = [conn EXCEPT ![p] = "none"]
    /\ saved' = IF saved = None THEN p ELSE saved
    /\ marker' = "durable"
    /\ UNCHANGED <<dirVars, owner, startVars, stopping>>

\* The read fails, or what it brought is refused.
ReadFails(p) ==
    /\ conn[p] \in {"reading", "cut"}
    /\ conn' = [conn EXCEPT ![p] = "none"]
    /\ UNCHANGED <<dirVars, lockVars, startVars, stopping>>

\* Another thread stops the session: the transport is closed and the response
\* registered with it, if any, is taken ...
Stop(p) ==
    /\ pc[p] = "running"
    /\ stopping[p] = "no"
    /\ stopping' = [stopping EXCEPT ![p] = IF conn[p] = "reading" THEN "closing" ELSE "closed"]
    /\ UNCHANGED <<dirVars, lockVars, startVars, conn>>

\* ... and closed outside the lock.
CloseTaken(p) ==
    /\ stopping[p] = "closing"
    /\ stopping' = [stopping EXCEPT ![p] = "closed"]
    /\ conn' = [conn EXCEPT ![p] = IF conn[p] = "reading" THEN "cut" ELSE conn[p]]
    /\ UNCHANGED <<dirVars, lockVars, startVars>>

\* Between two reads the session ends, for whatever reason; it closes its
\* transport and its store.
EndSession(p) ==
    /\ Watching(p)
    /\ conn[p] = "none"
    /\ pc' = [pc EXCEPT ![p] = "done"]
    /\ owner' = Released(p)
    /\ UNCHANGED <<dirVars, marker, saved, pinned, mode, began, readVars>>

-----------------------------------------------------------------------------
(* Failures                                                                *)

\* The process dies; the kernel releases its lock.
Crash(p) ==
    /\ pc[p] \in Live
    /\ pc' = [pc EXCEPT ![p] = "dead"]
    /\ owner' = Released(p)
    /\ conn' = [conn EXCEPT ![p] = "none"]
    /\ UNCHANGED <<dirVars, marker, saved, pinned, mode, began, stopping>>

\* The machine dies.  Creating the lock file syncs nothing, so a marker that
\* no checkpoint followed may be gone.  (The child itself is taken to survive:
\* the provisioning command syncs the root before it reports success.)
PowerLoss ==
    /\ \E p \in Proc : pc[p] \in Live
    /\ pc' = [p \in Proc |-> IF pc[p] \in Live THEN "dead" ELSE pc[p]]
    /\ owner' = None
    /\ conn' = [p \in Proc |-> "none"]
    /\ prov' = "idle"
    /\ marker' \in {marker, IF marker = "durable" THEN "durable" ELSE "none"}
    /\ UNCHANGED <<interval, child, saved, pinned, mode, began, stopping>>

Next ==
    \/ Look \/ Make \/ Made \/ Unmake
    \/ \E p \in Proc :
          \/ Inspect(p) \/ ValidateRestart(p) \/ InspectionEnds(p)
          \/ Begin(p) \/ OpenChild(p)
          \/ Lock(p) \/ Load(p) \/ LoadFails(p)
          \/ StartFails(p) \/ Build(p) \/ BuildFails(p) \/ StartSession(p)
          \/ Open(p) \/ Answer(p) \/ Register(p) \/ Read(p) \/ ReadFails(p)
          \/ Stop(p) \/ CloseTaken(p) \/ EndSession(p)
          \/ Crash(p)
    \/ PowerLoss

Spec == Init /\ [][Next]_vars

-----------------------------------------------------------------------------
\* Two observations of one child never have two beginnings: whoever watches
\* as a NEW observation finds nothing saved but what it saved itself, and the
\* lock is its own.  The mode is decided once, long before the first save.
OneLineage ==
    \A p \in Proc :
        pc[p] \in {"capable", "built", "running", "orphan"} =>
            /\ owner = p
            /\ mode[p] = "NEW" => saved \in {None, p}
            /\ mode[p] = "RESUMING" => saved \notin {None, p}

\* Once stop has returned nothing goes on being read: a response that was
\* opened while the transport was being closed is closed unread
\* (FixedReadonlyTransport._get, close).
StoppedReadsEnd ==
    \A p \in Proc : stopping[p] = "closed" => conn[p] # "reading"

\* A registration interval is started once: its first session lock "also
\* permanently marks that interval as started even if bootstrap fails before a
\* checkpoint" (docs/SONNET2_ATTENDED_REGISTRATION.md).
IntervalStartedOnce == interval => Cardinality(began) <= 1
=============================================================================
