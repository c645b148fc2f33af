-------------------------- MODULE EngagementLauncher --------------------------
(***************************************************************************)
(* scripts/engagement_scheduler_launcher.py: launches that may overlap, in *)
(* front of one scheduler state and one rotated log.                       *)
(*                                                                         *)
(* A launch validates the runtime (reading the scheduler's status between  *)
(* two hashes of its files), checks the code tree, reads the status again, *)
(* appends PREFLIGHT_READY to the log, runs the scheduler for at most 40   *)
(* seconds, appends the outcome and prints a result.  The scheduler is     *)
(* what the launcher sees of it: its flag, its failures, the marker of a   *)
(* run, and the lock its process holds.                                    *)
(*                                                                         *)
(* A file of the log is its rows, oldest first; a row is its number in the *)
(* order of writing, and a row that was cut short counts as one.  The file *)
(* of failed preflights, whose errors the code ignores, is left out.       *)
(***************************************************************************)
EXTENDS Naturals, Sequences, SequencesExt

CONSTANTS
    Launch,      \* launches, each of one process
    MaxRows,     \* MAX_LOG_BYTES, in rows
    MaxWritten,  \* no launch starts again after so many rows
    None

VARIABLES
    sched,    \* scheduler-state.json
    active,   \* the launch whose scheduler holds the state's lock, or None
    pc,       \* per launch
    at,       \* per launch: the step of append_log it is at, or "out"
    moved,    \* per launch: the state files changed since the first hash
    armed,    \* per launch: what its last status said
    holder,   \* the launch that holds launcher.log.lock, or None
    log,      \* launcher.jsonl.2, launcher.jsonl.1, launcher.jsonl
    written,  \* rows written so far, whole or not
    ready,    \* history: launches whose PREFLIGHT_READY row is synced
    did,      \* history: per launch, what its scheduler did
    result    \* per launch: what it printed, or None

vars == <<sched, active, pc, at, moved, armed, holder, log, written, ready, did, result>>

Disabled == [enabled |-> FALSE, failures |-> 0, running |-> FALSE]
Enabled == [Disabled EXCEPT !.enabled = TRUE]
Open == [Disabled EXCEPT !.failures = 2]

Init ==
    /\ sched \in {None, Disabled, Enabled}
    /\ active = None /\ holder = None /\ written = 0 /\ ready = {}
    /\ log = <<<<>>, <<>>, <<>>>>
    /\ pc = [l \in Launch |-> "start"]
    /\ at = [l \in Launch |-> "out"]
    /\ moved = [l \in Launch |-> FALSE] /\ armed = [l \in Launch |-> FALSE]
    /\ did = [l \in Launch |-> "nothing"]
    /\ result = [l \in Launch |-> None]

Goes(l, place) == pc' = [pc EXCEPT ![l] = place]
LogVars == <<at, holder, log, written, ready>>
SchedVars == <<sched, active, moved, did>>

\* validate_scheduler_status_result: enabled, no failure, no run; the status
\* command must also find the lock free.
Armed == sched = Enabled /\ active = None

\* The scheduler's files change under every launch that hashed them before.
Becomes(state) ==
    /\ sched' = state
    /\ moved' = [l \in Launch |-> moved[l] \/ sched # state]

Prints(l, outcome, success, persisted) ==
    /\ result' = [result EXCEPT ![l] =
                     [outcome |-> outcome, success |-> success, persisted |-> persisted]]
    /\ Goes(l, "done")

-----------------------------------------------------------------------------
(* Preflight.                                                              *)

\* validate_runtime: everything before the first hash.
Hash(l) ==
    /\ pc[l] = "start"
    /\ moved' = [moved EXCEPT ![l] = FALSE]
    /\ Goes(l, "status")
    /\ UNCHANGED <<sched, active, armed, did, result, LogVars>>

\* The status command of validate_runtime, and the one of launch.
Status(l) ==
    /\ pc[l] \in {"status", "status again"}
    /\ armed' = [armed EXCEPT ![l] = Armed]
    /\ Goes(l, IF pc[l] = "status" THEN "compare" ELSE "judge")
    /\ UNCHANGED <<result, SchedVars, LogVars>>

\* The second hash, and the checks of the tree that follow it.
Compare(l) ==
    /\ pc[l] = "compare"
    /\ armed[l] /\ ~moved[l]
    /\ Goes(l, "status again")
    /\ UNCHANGED <<armed, result, SchedVars, LogVars>>

NotReady(l) ==
    /\ pc[l] = "compare"
    /\ ~armed[l] \/ moved[l]
    /\ Prints(l, "PRODUCTION_RUNTIME_NOT_READY", FALSE, FALSE)
    /\ UNCHANGED <<armed, SchedVars, LogVars>>

\* A path, a manifest, a hash, a git command or the status command fails.
CheckFails(l) ==
    /\ pc[l] \in {"start", "status", "compare", "status again"}
    /\ Prints(l, "PREFLIGHT_FAILED", FALSE, FALSE)
    /\ UNCHANGED <<armed, SchedVars, LogVars>>

Judge(l) ==
    /\ pc[l] = "judge"
    /\ IF armed[l]
         THEN Goes(l, "append ready") /\ UNCHANGED result
         ELSE Prints(l, "STATE_MISSING_OR_INVALID", FALSE, FALSE)
    /\ UNCHANGED <<armed, SchedVars, LogVars>>

-----------------------------------------------------------------------------
(* append_log, for the row of the preflight and for that of the outcome.   *)

Appends(l) == pc[l] \in {"append ready", "append outcome"}
Continue(l, step) == at' = [at EXCEPT ![l] = step]
Rest == <<armed, result, SchedVars>>

\* Mutant of Lock: two launches at once.
LockAnyway(l) ==
    /\ Appends(l) /\ at[l] = "out"
    /\ holder' = l
    /\ Continue(l, "measure")
    /\ UNCHANGED <<pc, log, written, ready, Rest>>
Lock(l) ==
    /\ Appends(l) /\ at[l] = "out"
    /\ holder = None /\ holder' = l
    /\ Continue(l, "measure")
    /\ UNCHANGED <<pc, log, written, ready, Rest>>

\* The size decides whether the files are rotated.
Measure(l) ==
    /\ at[l] = "measure"
    /\ Continue(l, IF Len(log[3]) + 1 > MaxRows THEN "rotate old" ELSE "write")
    /\ UNCHANGED <<pc, holder, log, written, ready, Rest>>

\* os.replace of one file by the next newer one, if that exists.
Replaced(from, to) ==
    IF log[from] = <<>> THEN log ELSE [log EXCEPT ![to] = log[from], ![from] = <<>>]

\* Mutant of RotateOld: the newer file first.
RotateNewFirst(l) ==
    /\ at[l] = "rotate old"
    /\ log' = Replaced(3, 2)
    /\ Continue(l, "rotate new")
    /\ UNCHANGED <<pc, holder, written, ready, Rest>>
RotateOld(l) ==
    /\ at[l] = "rotate old"
    /\ log' = Replaced(2, 1)
    /\ Continue(l, "rotate new")
    /\ UNCHANGED <<pc, holder, written, ready, Rest>>

RotateNew(l) ==
    /\ at[l] = "rotate new"
    /\ log' = Replaced(3, 2)
    /\ Continue(l, "write")
    /\ UNCHANGED <<pc, holder, written, ready, Rest>>

\* os.write until nothing is left, or until an error or a death.
WriteRow ==
    /\ written' = written + 1
    /\ log' = [log EXCEPT ![3] = Append(@, written')]

Write(l) ==
    /\ at[l] = "write"
    /\ WriteRow
    /\ Continue(l, "sync")
    /\ UNCHANGED <<pc, holder, ready, Rest>>

Leave(l) ==
    /\ Continue(l, "out")
    /\ holder' = IF holder = l THEN None ELSE holder

Sync(l) ==
    /\ at[l] = "sync"
    /\ IF pc[l] = "append ready"
         THEN Goes(l, "invoke") /\ ready' = ready \cup {l}
         ELSE Goes(l, "report") /\ UNCHANGED ready
    /\ Leave(l)
    /\ UNCHANGED <<log, written, Rest>>

\* The answer the scheduler's validated result, or an invalid one, leads to.
Outcome(l) ==
    CASE did[l] = "disabled" -> "OK_DISABLED"
      [] did[l] = "invalid" -> "LAUNCHER_INTERNAL_ERROR"
      [] OTHER -> "OK_SCHEDULER_INVOKED"

\* An OSError on the way; what was written stays.
Breaks(l) ==
    /\ Appends(l)
    /\ \/ at[l] = "write" /\ WriteRow
       \/ UNCHANGED <<log, written>>
    /\ Leave(l)
    /\ UNCHANGED <<armed, ready, SchedVars>>

\* Mutant of AppendFails: the launch goes on to the scheduler.
AppendFailsQuietly(l) ==
    /\ Breaks(l)
    /\ IF pc[l] = "append ready"
         THEN Goes(l, "invoke") /\ UNCHANGED result
         ELSE Prints(l, Outcome(l), FALSE, FALSE)
AppendFails(l) ==
    /\ Breaks(l)
    /\ Prints(l, IF pc[l] = "append ready" THEN "LOG_UNAVAILABLE" ELSE Outcome(l),
              FALSE, FALSE)

-----------------------------------------------------------------------------
(* run-once.                                                               *)

Does(l, what) == did' = [did EXCEPT ![l] = what]

\* The scheduler decides under its lock: disabled, not eligible, an
\* interrupted run to account for, or a collection.
Failed == LET n == sched.failures + 1
          IN  [enabled |-> n < 2, failures |-> n, running |-> FALSE]

Decide(l) ==
    /\ pc[l] = "invoke" /\ active = None /\ sched # None
    /\ \/ /\ sched.running
          /\ Becomes(Failed) /\ Does(l, "refused") /\ Goes(l, "append outcome")
          /\ UNCHANGED active
       \/ /\ ~sched.running /\ ~sched.enabled
          /\ Becomes(sched) /\ Does(l, IF sched.failures = 2 THEN "refused" ELSE "disabled")
          /\ Goes(l, "append outcome")
          /\ UNCHANGED active
       \/ /\ ~sched.running /\ sched.enabled
          /\ Becomes([sched EXCEPT !.running = TRUE]) /\ Does(l, "collecting")
          /\ Goes(l, "running")
          /\ active' = l
    /\ UNCHANGED <<armed, result, LogVars>>

\* Not eligible yet, the lock is taken, the state is gone; or an answer that
\* validate_scheduler_run_result does not accept.
Refuses(l) ==
    /\ pc[l] = "invoke"
    /\ Does(l, "refused") \/ Does(l, "invalid")
    /\ Goes(l, "append outcome")
    /\ UNCHANGED <<sched, active, moved, armed, result, LogVars>>

\* The scheduler ends, also when the launch that started it is dead.
Collected(l) ==
    /\ active = l /\ active' = None
    /\ \/ Becomes(Enabled) /\ Does(l, "succeeded")
       \/ Becomes(Failed) /\ Does(l, "failed")
    /\ Goes(l, IF pc[l] = "running" THEN "append outcome" ELSE pc[l])
    /\ UNCHANGED <<armed, result, LogVars>>

\* The process cannot be spawned, or is killed after its 40 seconds.
RunFails(l) ==
    /\ pc[l] \in {"invoke", "running"}
    /\ active' = IF active = l THEN None ELSE active
    /\ Prints(l, "LAUNCHER_INTERNAL_ERROR", FALSE, FALSE)
    /\ UNCHANGED <<sched, moved, did, armed, LogVars>>

Report(l) ==
    /\ pc[l] = "report"
    /\ Prints(l, Outcome(l),
              did[l] \in {"disabled", "succeeded"}, TRUE)
    /\ UNCHANGED <<armed, SchedVars, LogVars>>

\* The launch's process dies; a row may have been written in part.
Dies(l) ==
    /\ pc[l] \notin {"start", "done"}
    /\ Goes(l, "done") /\ Leave(l)
    /\ \/ at[l] = "write" /\ WriteRow
       \/ UNCHANGED <<log, written>>
    /\ UNCHANGED <<armed, result, ready, SchedVars>>

\* The scheduler dies; its launch reads no valid answer.
SchedulerDies(l) ==
    /\ active = l /\ active' = None
    /\ IF pc[l] = "running" THEN Goes(l, "append outcome") ELSE UNCHANGED pc
    /\ Does(l, "invalid")
    /\ UNCHANGED <<sched, moved, armed, result, LogVars>>

\* The next launch of the same job.
Again(l) ==
    /\ pc[l] = "done" /\ active # l /\ written < MaxWritten
    /\ Goes(l, "start")
    /\ result' = [result EXCEPT ![l] = None]
    /\ did' = [did EXCEPT ![l] = "nothing"] /\ ready' = ready \ {l}
    /\ UNCHANGED <<sched, active, moved, armed, at, holder, log, written>>

\* provision, enable, disable, approve-reset and a run-once by hand that finds
\* the marker of an interrupted run, each under the lock.
Operator ==
    /\ active = None
    /\ \/ sched = None /\ Becomes(Disabled)
       \/ sched = Disabled /\ Becomes(Enabled)
       \/ sched = Enabled /\ Becomes(Disabled)
       \/ sched = Open /\ Becomes(Disabled)
       \/ sched # None /\ sched.running /\ Becomes(Failed)
    /\ UNCHANGED <<active, pc, armed, did, result, LogVars>>

Next ==
    \/ Operator
    \/ \E l \in Launch :
          \/ Hash(l) \/ Status(l) \/ Compare(l) \/ NotReady(l) \/ CheckFails(l) \/ Judge(l)
          \/ Lock(l) \/ Measure(l) \/ RotateOld(l) \/ RotateNew(l) \/ Write(l) \/ Sync(l)
          \/ AppendFails(l)
          \/ Decide(l) \/ Refuses(l) \/ Collected(l) \/ RunFails(l) \/ Report(l) \/ Dies(l)
          \/ SchedulerDies(l) \/ Again(l)

Spec == Init /\ [][Next]_vars

-----------------------------------------------------------------------------
(* Properties.                                                             *)

\* The log is the end of what was written, in that order, and never less than
\* two full files of it, also when a launch dies between two renames or two
\* launches find the file full (append_log and _log_lock).
LogIsRecent ==
    LET rows == log[1] \o log[2] \o log[3]
    IN  /\ \A i \in 1..Len(rows) : rows[i] = written - Len(rows) + i
        /\ Len(rows) >= 2 * MaxRows \/ Len(rows) = written

\* A scheduler that was run had its PREFLIGHT_READY row on the disk before, and
\* a launch that prints success ran one that was disabled or collected cleanly,
\* and has both its rows (launch).
LaunchIsOnRecord ==
    \A l \in Launch :
        /\ did[l] # "nothing" => l \in ready
        /\ result[l] # None /\ result[l].success =>
              /\ did[l] \in {"disabled", "succeeded"}
              /\ (result[l].outcome = "OK_DISABLED") = (did[l] = "disabled")
              /\ result[l].persisted
=============================================================================
