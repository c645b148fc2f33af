------------------------- MODULE EngagementScheduler -------------------------
(***************************************************************************)
(* The scheduler policy of engagement_scheduler.py: when the collector may *)
(* be called, across processes, crashes, failed writes and power losses.   *)
(*                                                                         *)
(* Launchd and an operator start one-command processes.  Each reads the    *)
(* clock once (`now`), takes the flock on scheduler-state.lock, loads the  *)
(* state, decides, and replaces the state file as a whole.  run_once keeps *)
(* the lock over two writes with the collector call between them.          *)
(*                                                                         *)
(* scheduler_enabled and consecutive_failures are functions of             *)
(* circuit_state (validate_state accepts nothing else) and last_attempt_at *)
(* is the last of attempts_24h, so they are left out, and so are the error *)
(* class and last_success_at, which nothing decides on.  dry_run and       *)
(* status change nothing.  Time is counted in units of 30 minutes.         *)
(***************************************************************************)
EXTENDS Integers, Sequences, FiniteSets

CONSTANTS Process,
          Missing,         \* there is no state file
          Unlocked,        \* nobody holds the flock
          Interval,        \* normal_interval_minutes
          NormalInterval,  \* NORMAL_INTERVAL
          Window,          \* DAILY_WINDOW
          Budget,          \* MAX_REQUESTS_PER_DAY
          MaxTime,         \* bound: the last instant
          MaxPause         \* bound: how long a running process may be suspended

ASSUME SchedulerAssumption ==
    /\ Unlocked \notin Process
    /\ {Interval, NormalInterval, Window, Budget} \subseteq Nat \ {0}
    /\ NormalInterval <= Window
    /\ MaxTime \in Nat /\ MaxPause \in Nat

Circuit == {"READY_DISABLED", "READY", "DEGRADED", "CIRCUIT_OPEN"}

Operation == {"provision_disabled", "enable_scheduled", "disable_scheduled",
              "run_once", "approve_reset"}

None == -1

State == [circuit : Circuit, attempts : SUBSET (0..MaxTime), running : BOOLEAN,
          notBefore : {None} \cup Nat]

ASSUME MissingAssumption == Missing \notin State

VARIABLES clock,
          state,  \* scheduler-state.json as processes see it
          disk,   \* what a power loss may leave of it
          lock,   \* holder of the flock
          pc, op, now, want,  \* each process: place, command, its time, the
                              \* state it is writing
          calls,      \* the `now` of each collector call
          fruitless,  \* collector calls since the last one that succeeded or
                      \* the last reset
          quiet       \* the last enable has been taken back, or never was

vars == <<clock, state, disk, lock, pc, op, now, want, calls, fruitless, quiet>>

Init ==
    /\ clock = 0
    /\ state = Missing /\ disk = {Missing}
    /\ lock = Unlocked
    /\ pc = [p \in Process |-> "idle"]
    /\ op = [p \in Process |-> "run_once"]
    /\ now = [p \in Process |-> 0]
    /\ want = [p \in Process |-> Missing]
    /\ calls = <<>> /\ fruitless = 0 /\ quiet = TRUE

-----------------------------------------------------------------------------
Enabled(s) == s.circuit \in {"READY", "DEGRADED"}

\* validate_state, at time t.
Valid(s, t) ==
    /\ \A a \in s.attempts : a <= t
    /\ Cardinality(s.attempts) <= Budget
    /\ s.notBefore <= t + Window
    /\ Enabled(s) => s.notBefore # None

Loads(s, t) == s # Missing /\ Valid(s, t)

\* _recent_attempts.
Recent(s, t) == {a \in s.attempts : a > t - Window}

\* Mutant: the budget is checked after the attempt is counted in.
AllowedOverBudget(s, t) ==
    /\ Enabled(s)
    /\ s.notBefore <= t
    /\ \A a \in s.attempts : a + Interval <= t
    /\ Cardinality(Recent(s, t)) <= Budget

\* evaluate: SCHEDULER_READY.
Allowed(s, t) ==
    /\ Enabled(s)
    /\ s.notBefore <= t
    /\ \A a \in s.attempts : a + Interval <= t
    /\ Cardinality(Recent(s, t)) < Budget

\* Mutant: the second failure does not open the circuit.
FailedStaying(s) == [s EXCEPT !.circuit = "DEGRADED", !.running = FALSE]

\* _record_failure.
Failed(s) ==
    [s EXCEPT !.circuit = IF s.circuit = "DEGRADED" THEN "CIRCUIT_OPEN" ELSE "DEGRADED",
              !.running = FALSE]

Succeeded(s) == [s EXCEPT !.circuit = "READY", !.running = FALSE]

DisabledState ==
    [circuit |-> "READY_DISABLED", attempts |-> {}, running |-> FALSE,
     notBefore |-> None]

\* The states a command may write over a loaded state s; {}: it is refused.
Changes(o, s, t) ==
    CASE o = "enable_scheduled" /\ s.circuit = "READY_DISABLED" /\ ~s.running ->
            {[s EXCEPT !.circuit = "READY", !.notBefore = t + NormalInterval]}
      [] o = "disable_scheduled" /\ s.circuit = "READY" /\ ~s.running ->
            {[s EXCEPT !.circuit = "READY_DISABLED"]}
      [] o = "approve_reset" /\ s.circuit = "CIRCUIT_OPEN" ->
            {[s EXCEPT !.circuit = "READY_DISABLED", !.running = FALSE]}
      [] o = "run_once" /\ s.running -> {Failed(s)}
      [] o = "run_once" /\ ~s.running /\ Allowed(s, t) ->
            {[s EXCEPT !.running = TRUE, !.attempts = Recent(s, t) \cup {t}]}
      [] OTHER -> {}

\* What a command that holds the lock goes on to write first.
Writes(o, s, t) ==
    IF o = "provision_disabled" THEN IF s = Missing THEN {DisabledState} ELSE {}
    ELSE IF Loads(s, t) THEN Changes(o, s, t)
    ELSE {}

-----------------------------------------------------------------------------
\* A process starts and reads the clock.
Begin(p, o) ==
    /\ pc[p] = "idle"
    /\ pc' = [pc EXCEPT ![p] = "locking"]
    /\ op' = [op EXCEPT ![p] = o]
    /\ now' = [now EXCEPT ![p] = clock]
    /\ UNCHANGED <<clock, state, disk, lock, want, calls, fruitless, quiet>>

\* The process stops, by a result, an exception or a crash; the kernel drops a
\* lock it holds.
Stop(p) ==
    /\ pc' = [pc EXCEPT ![p] = "idle"]
    /\ op' = [op EXCEPT ![p] = "run_once"]
    /\ now' = [now EXCEPT ![p] = 0]
    /\ want' = [want EXCEPT ![p] = Missing]
    /\ lock' = IF lock = p THEN Unlocked ELSE lock

\* The lock is held (the nonblocking commands), or the loaded state permits no
\* change.
Refused(p) ==
    /\ pc[p] = "locking"
    /\ \/ lock # Unlocked /\ op[p] \in {"run_once", "approve_reset"}
       \/ lock = Unlocked /\ Writes(op[p], state, now[p]) = {}
    /\ Stop(p)
    /\ UNCHANGED <<clock, state, disk, calls, fruitless, quiet>>

\* Mutant: the state is read before the lock is taken.
DecideUnlocked(p) ==
    /\ pc[p] = "locking"
    /\ \E s \in Writes(op[p], state, now[p]) : want' = [want EXCEPT ![p] = s]
    /\ lock' = p
    /\ pc' = [pc EXCEPT ![p] = "writing"]
    /\ UNCHANGED <<clock, state, disk, op, now, calls, fruitless, quiet>>

\* Under the lock: load, decide, and go on to write.
Decide(p) ==
    /\ pc[p] = "locking" /\ lock = Unlocked
    /\ \E s \in Writes(op[p], state, now[p]) : want' = [want EXCEPT ![p] = s]
    /\ lock' = p
    /\ pc' = [pc EXCEPT ![p] = "writing"]
    /\ UNCHANGED <<clock, state, disk, op, now, calls, fruitless, quiet>>

\* write_state or _write_initial_state: the fsynced candidate becomes the state.
Publish(p) ==
    /\ pc[p] = "writing"
    /\ state' = want[p]
    /\ disk' = disk \cup {want[p]}
    /\ pc' = [pc EXCEPT ![p] = "syncing"]
    /\ quiet' = (quiet /\ op[p] # "enable_scheduled")
    /\ fruitless' = IF op[p] = "approve_reset" THEN 0 ELSE fruitless
    /\ UNCHANGED <<clock, lock, op, now, want, calls>>

\* Mutant: run_once calls the collector without waiting for the directory fsync.
SyncLater(p) ==
    /\ pc[p] = "syncing"
    /\ disk' = IF want[p].running THEN disk ELSE {state}
    /\ \/ /\ want[p].running
          /\ pc' = [pc EXCEPT ![p] = "collecting"]
          /\ UNCHANGED <<lock, op, now, want>>
       \/ ~want[p].running /\ Stop(p)
    /\ quiet' = (quiet \/ op[p] \in {"disable_scheduled", "approve_reset"})
    /\ UNCHANGED <<clock, state, calls, fruitless>>

\* The directory fsync: a run that marked itself goes on to the collector, every
\* other command is done.
Sync(p) ==
    /\ pc[p] = "syncing"
    /\ disk' = {state}
    /\ \/ /\ want[p].running
          /\ pc' = [pc EXCEPT ![p] = "collecting"]
          /\ UNCHANGED <<lock, op, now, want>>
       \/ ~want[p].running /\ Stop(p)
    /\ quiet' = (quiet \/ op[p] \in {"disable_scheduled", "approve_reset"})
    /\ UNCHANGED <<clock, state, calls, fruitless>>

\* The collector is called, once.
Collect(p) ==
    /\ pc[p] = "collecting"
    /\ calls' = Append(calls, now[p])
    /\ fruitless' = fruitless + 1
    /\ pc' = [pc EXCEPT ![p] = "collected"]
    /\ UNCHANGED <<clock, state, disk, lock, op, now, want, quiet>>

\* Its result is written by the same lock holder.
Collected(p) ==
    /\ pc[p] = "collected"
    /\ \/ want' = [want EXCEPT ![p] = Succeeded(@)] /\ fruitless' = 0
       \/ want' = [want EXCEPT ![p] = Failed(@)] /\ UNCHANGED fruitless
    /\ pc' = [pc EXCEPT ![p] = "writing"]
    /\ UNCHANGED <<clock, state, disk, lock, op, now, calls, quiet>>

\* An OSError of the lock, the candidate, the replace or the fsync, a kill by the
\* launcher's time limit, or a crash.
Dies(p) ==
    /\ pc[p] # "idle"
    /\ Stop(p)
    /\ UNCHANGED <<clock, state, disk, calls, fruitless, quiet>>

PowerLoss ==
    /\ state' \in disk
    /\ disk' = {state'}
    /\ lock' = Unlocked
    /\ pc' = [p \in Process |-> "idle"]
    /\ op' = [p \in Process |-> "run_once"]
    /\ now' = [p \in Process |-> 0]
    /\ want' = [p \in Process |-> Missing]
    /\ UNCHANGED <<clock, calls, fruitless, quiet>>

Tick ==
    /\ clock < MaxTime
    /\ \A p \in Process : pc[p] # "idle" => clock < now[p] + MaxPause
    /\ clock' = clock + 1
    /\ UNCHANGED <<state, disk, lock, pc, op, now, want, calls, fruitless, quiet>>

Next ==
    \/ \E p \in Process :
          \/ \E o \in Operation : Begin(p, o)
          \/ Refused(p) \/ Decide(p) \/ Publish(p) \/ Sync(p)
          \/ Collect(p) \/ Collected(p) \/ Dies(p)
    \/ PowerLoss
    \/ Tick

Spec == Init /\ [][Next]_vars

-----------------------------------------------------------------------------
\* Every variable has its type.
TypeOK ==
    /\ clock \in 0..MaxTime
    /\ state \in State \cup {Missing}
    /\ disk \subseteq State \cup {Missing} /\ state \in disk
    /\ lock \in Process \cup {Unlocked}
    /\ pc \in [Process -> {"idle", "locking", "writing", "syncing", "collecting",
                           "collected"}]
    /\ op \in [Process -> Operation]
    /\ now \in [Process -> 0..MaxTime]
    /\ want \in [Process -> State \cup {Missing}]
    /\ calls \in Seq(0..MaxTime)
    /\ fruitless \in Nat /\ quiet \in BOOLEAN

\* "An attempt is durably recorded before collector invocation": every call that
\* still counts is an attempt in whatever a power loss can leave.
CallIsRecorded ==
    \A i \in DOMAIN calls : calls[i] > clock - Window =>
        \A s \in disk : s # Missing /\ calls[i] \in s.attempts

\* "Normal cadence": the instants two calls were decided for are an interval
\* apart, whoever made them and whatever died between them.
CallsAreSpaced ==
    \A i, j \in DOMAIN calls : i < j => calls[i] + Interval <= calls[j]

\* "24 attempts in a rolling 24 hours": no window holds more calls.
DailyCeiling ==
    \A i \in DOMAIN calls :
        Cardinality({j \in DOMAIN calls : /\ calls[j] <= calls[i]
                                          /\ calls[j] > calls[i] - Window}) <= Budget

\* "The first consecutive failure is DEGRADED; the second is CIRCUIT_OPEN": there
\* is no third call without a success or a reset, even when results are lost.
NoThirdFailure == fruitless <= 2

\* "disable-scheduled is a separate offline rollback control", "circuit reset ...
\* never re-enables automatically": once one of them has succeeded, or before the
\* first enable, the collector is not called until an enable is written.
DisabledIsQuiet == [][quiet => calls' = calls]_vars

\* Nothing the commands write, and nothing a power loss leaves of it, is refused
\* by the validation of the next command.
StateStaysValid == \A s \in disk : s # Missing => Valid(s, clock)

-----------------------------------------------------------------------------
(* The inductive invariant behind the safety properties.                   *)
Busy == {"writing", "syncing", "collecting", "collected"}

\* Every call is an attempt of s, or lies a window before one of them.
Remembers(s) ==
    \A i \in DOMAIN calls :
        /\ s # Missing
        /\ calls[i] \in s.attempts \/ \E a \in s.attempts : calls[i] + Window <= a

\* Calls without a success that a circuit accounts for.
Failures(c) == IF c = "CIRCUIT_OPEN" THEN 2 ELSE IF c = "DEGRADED" THEN 1 ELSE 0

\* What holds of everything a power loss may leave.
Sound(s) ==
    /\ Remembers(s)
    /\ s = Missing => fruitless = 0
    /\ s # Missing =>
          /\ Valid(s, clock)
          /\ s.running => Enabled(s)
          /\ fruitless <= Failures(s.circuit) + (IF s.running THEN 1 ELSE 0)
          /\ quiet => ~Enabled(s)

\* What holds of the state the lock holder p writes or has written.
Writing(p) ==
    LET w == want[p] IN
    /\ w # Missing /\ Valid(w, now[p]) /\ Remembers(w)
    /\ w.running => (Enabled(w) /\ op[p] = "run_once")
    /\ op[p] \in {"disable_scheduled", "approve_reset"} => w.circuit = "READY_DISABLED"
    /\ \/ op[p] = "approve_reset"
       \/ fruitless <= Failures(w.circuit)
       \/ pc[p] = "collected" /\ fruitless <= Failures(w.circuit) + 1
    /\ (quiet /\ op[p] # "enable_scheduled") => ~Enabled(w)
    /\ pc[p] = "syncing" => (state = w /\ (op[p] = "enable_scheduled" => ~quiet))
    /\ pc[p] \in {"collecting", "collected"} => (disk = {w} /\ w.running)
    /\ (w.running /\ pc[p] # "collected") =>
          (/\ now[p] \in w.attempts
           /\ \A i \in DOMAIN calls : calls[i] + Interval <= now[p])

OneWriter == \A p \in Process : (pc[p] \in Busy) <=> (lock = p)
NowIsPast == \A p \in Process : now[p] <= clock
DiskIsSound == \A s \in disk : Sound(s)
WritersAreSound == \A p \in Process : pc[p] \in Busy => Writing(p)

\* The lock holder is the only one to write, and whatever it writes or a power
\* loss leaves remembers every call.
IInv ==
    /\ TypeOK
    /\ OneWriter /\ NowIsPast /\ DiskIsSound /\ WritersAreSound
    /\ CallsAreSpaced /\ DailyCeiling
=============================================================================
