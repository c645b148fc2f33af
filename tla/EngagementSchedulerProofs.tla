---------------------- MODULE EngagementSchedulerProofs ----------------------
(***************************************************************************)
(* Proofs about the scheduler policy, for any number of processes, any     *)
(* interval, window and budget.  IInv is the inductive invariant: who      *)
(* holds the lock, what it is writing, and that whatever it writes or a    *)
(* power loss leaves remembers every collector call.                       *)
(***************************************************************************)
EXTENDS EngagementScheduler, FiniteSetTheorems, SequenceTheorems, TLAPS

-----------------------------------------------------------------------------
(* Lemmas on the states the commands write.                                *)

LEMMA AttemptsAreFinite ==
    ASSUME NEW s \in State
    PROVE  IsFiniteSet(s.attempts) /\ Cardinality(s.attempts) \in Nat
<1>1. IsFiniteSet(0..MaxTime)
  BY SchedulerAssumption, FS_Interval
<1>2. s.attempts \in SUBSET (0..MaxTime)
  BY DEF State
<1> QED BY <1>1, <1>2, FS_Subset, FS_CardinalityType

\* What validation accepts now it accepts later.
LEMMA ValidLater ==
    ASSUME NEW s \in State, NEW t \in Nat, NEW u \in Nat, t <= u, Valid(s, t)
    PROVE  Valid(s, u)
<1>1. s.attempts \in SUBSET (0..MaxTime) /\ s.notBefore \in Int /\ Window \in Nat
  BY SchedulerAssumption DEF State, None
<1> QED BY <1>1, SchedulerAssumption DEF Valid

\* The updates of a state, as records.
LEMMA OneField ==
    ASSUME NEW s \in State, NEW c \in Circuit, NEW b, NEW n
    PROVE  /\ [s EXCEPT !.running = b] =
                 [circuit |-> s.circuit, attempts |-> s.attempts,
                  running |-> b, notBefore |-> s.notBefore]
           /\ [s EXCEPT !.notBefore = n] =
                 [circuit |-> s.circuit, attempts |-> s.attempts,
                  running |-> s.running, notBefore |-> n]
           /\ [s EXCEPT !.circuit = c] =
                 [circuit |-> c, attempts |-> s.attempts,
                  running |-> s.running, notBefore |-> s.notBefore]
           /\ [s EXCEPT !.circuit = c] \in State
BY DEF State

LEMMA TwoFields ==
    ASSUME NEW s \in State, NEW c \in Circuit, NEW b, NEW n
    PROVE  /\ [s EXCEPT !.circuit = c, !.running = b] =
                 [circuit |-> c, attempts |-> s.attempts,
                  running |-> b, notBefore |-> s.notBefore]
           /\ [s EXCEPT !.circuit = c, !.notBefore = n] =
                 [circuit |-> c, attempts |-> s.attempts,
                  running |-> s.running, notBefore |-> n]
<1> DEFINE u == [s EXCEPT !.circuit = c]
<1>1. /\ [s EXCEPT !.circuit = c, !.running = b] = [u EXCEPT !.running = b]
      /\ [s EXCEPT !.circuit = c, !.notBefore = n] = [u EXCEPT !.notBefore = n]
  OBVIOUS
<1>2. /\ u \in State
      /\ u = [circuit |-> c, attempts |-> s.attempts,
              running |-> s.running, notBefore |-> s.notBefore]
  BY OneField
<1> HIDE DEF u
<1>3. /\ [u EXCEPT !.running = b] =
            [circuit |-> u.circuit, attempts |-> u.attempts,
             running |-> b, notBefore |-> u.notBefore]
      /\ [u EXCEPT !.notBefore = n] =
            [circuit |-> u.circuit, attempts |-> u.attempts,
             running |-> u.running, notBefore |-> n]
  BY <1>2, OneField, Zenon
<1> QED BY <1>1, <1>2, <1>3

\* An allowed run marks itself in a state that validation accepts.
LEMMA RunIsValid ==
    ASSUME NEW s \in State, NEW t \in 0..MaxTime, Valid(s, t), Allowed(s, t),
           NEW w, w = [s EXCEPT !.running = TRUE, !.attempts = Recent(s, t) \cup {t}]
    PROVE  /\ w \in State /\ Valid(w, t)
           /\ w.running /\ w.circuit = s.circuit
           /\ w.attempts = Recent(s, t) \cup {t}
<1>1. /\ s.attempts \in SUBSET (0..MaxTime) /\ s.notBefore \in {None} \cup Nat
      /\ s.circuit \in Circuit
  BY DEF State
<1>2. /\ Recent(s, t) \in SUBSET s.attempts
      /\ Recent(s, t) \cup {t} \in SUBSET (0..MaxTime)
  BY <1>1 DEF Recent
<1>3. /\ w = [circuit |-> s.circuit, attempts |-> Recent(s, t) \cup {t},
              running |-> TRUE, notBefore |-> s.notBefore]
  BY DEF State
<1>4. w \in State
  BY <1>1, <1>2, <1>3 DEF State
<1>5. IsFiniteSet(Recent(s, t))
  BY <1>2, AttemptsAreFinite, FS_Subset
<1>6. Cardinality(Recent(s, t)) \in Nat /\ Cardinality(Recent(s, t)) < Budget
  BY <1>5, FS_CardinalityType DEF Allowed
<1>7. Cardinality(Recent(s, t) \cup {t}) <= Budget
  <2>1. Budget \in Nat
    BY SchedulerAssumption
  <2>2. Cardinality(Recent(s, t) \cup {t}) =
           IF t \in Recent(s, t) THEN Cardinality(Recent(s, t))
                                 ELSE Cardinality(Recent(s, t)) + 1
    BY <1>5, FS_AddElement, Zenon
  <2> QED BY <1>6, <2>1, <2>2
<1>8. \A a \in Recent(s, t) \cup {t} : a <= t
  BY <1>2 DEF Valid
<1>9. Valid(w, t)
  BY <1>3, <1>7, <1>8 DEF Valid, Enabled
<1> QED BY <1>3, <1>4, <1>9

\* What a command writes, by the commands that write.
WritesOf(o, s, t, w) ==
    \/ o = "provision_disabled" /\ s = Missing /\ w = DisabledState
    \/ o = "enable_scheduled" /\ s.circuit = "READY_DISABLED" /\ ~s.running
       /\ w = [s EXCEPT !.circuit = "READY", !.notBefore = t + NormalInterval]
    \/ o = "disable_scheduled" /\ s.circuit = "READY" /\ ~s.running
       /\ w = [s EXCEPT !.circuit = "READY_DISABLED"]
    \/ o = "approve_reset" /\ s.circuit = "CIRCUIT_OPEN"
       /\ w = [s EXCEPT !.circuit = "READY_DISABLED", !.running = FALSE]
    \/ o = "run_once" /\ s.running /\ w = Failed(s)
    \/ o = "run_once" /\ ~s.running /\ Allowed(s, t)
       /\ w = [s EXCEPT !.running = TRUE, !.attempts = Recent(s, t) \cup {t}]

LEMMA WritesCases ==
    ASSUME NEW o \in Operation, NEW s, NEW t, NEW w \in Writes(o, s, t)
    PROVE  /\ WritesOf(o, s, t, w)
           /\ o = "provision_disabled" \/ (s # Missing /\ Valid(s, t))
<1>1. CASE o = "provision_disabled"
  BY <1>1 DEF Writes, WritesOf
<1>2. CASE o # "provision_disabled"
  <2>1. s # Missing /\ Valid(s, t) /\ w \in Changes(o, s, t)
    BY <1>2 DEF Writes, Loads
  <2>2. CASE o = "enable_scheduled"
    BY <2>1, <2>2 DEF Changes, WritesOf
  <2>3. CASE o = "disable_scheduled"
    BY <2>1, <2>3 DEF Changes, WritesOf
  <2>4. CASE o = "approve_reset"
    BY <2>1, <2>4 DEF Changes, WritesOf
  <2>5. CASE o = "run_once"
    BY <2>1, <2>5 DEF Changes, WritesOf
  <2> QED BY <1>2, <2>1, <2>2, <2>3, <2>4, <2>5 DEF Operation
<1> QED BY <1>1, <1>2

\* The result of a run is accepted where the run's own mark was.
LEMMA ResultIsValid ==
    ASSUME NEW s \in State, NEW t, Valid(s, t), Enabled(s)
    PROVE  /\ Succeeded(s) \in State /\ Valid(Succeeded(s), t)
           /\ Succeeded(s).attempts = s.attempts /\ ~Succeeded(s).running
           /\ Succeeded(s).circuit = "READY"
           /\ Failed(s) \in State /\ Valid(Failed(s), t)
           /\ Failed(s).attempts = s.attempts /\ ~Failed(s).running
           /\ Failures(Failed(s).circuit) = Failures(s.circuit) + 1
<1>1. /\ s.attempts \in SUBSET (0..MaxTime) /\ s.notBefore \in {None} \cup Nat
      /\ s.circuit \in Circuit /\ s.running \in BOOLEAN
  BY DEF State
<1>2. Succeeded(s) = [circuit |-> "READY", attempts |-> s.attempts,
                      running |-> FALSE, notBefore |-> s.notBefore]
  <2>1. "READY" \in Circuit
    BY DEF Circuit
  <2> QED BY <2>1, TwoFields, Zenon DEF Succeeded
<1>3. PICK c \in {"CIRCUIT_OPEN", "DEGRADED"} :
         /\ Failed(s) = [circuit |-> c, attempts |-> s.attempts,
                         running |-> FALSE, notBefore |-> s.notBefore]
         /\ Failures(c) = Failures(s.circuit) + 1
  <2> DEFINE d == IF s.circuit = "DEGRADED" THEN "CIRCUIT_OPEN" ELSE "DEGRADED"
  <2>1. d \in {"CIRCUIT_OPEN", "DEGRADED"} /\ Failures(d) = Failures(s.circuit) + 1
    BY DEF Enabled, Failures
  <2>2. d \in Circuit
    BY DEF Circuit
  <2>3. Failed(s) = [circuit |-> d, attempts |-> s.attempts,
                     running |-> FALSE, notBefore |-> s.notBefore]
    BY <2>2, TwoFields, Zenon DEF Failed
  <2> QED BY <2>1, <2>3
<1>4. Succeeded(s) \in State /\ Failed(s) \in State
  BY <1>1, <1>2, <1>3 DEF State, Circuit
<1>5. Valid(Succeeded(s), t) /\ Valid(Failed(s), t)
  BY <1>2, <1>3 DEF Valid, Enabled
<1> QED BY <1>2, <1>3, <1>4, <1>5

LEMMA DisabledIsValid ==
    ASSUME NEW t \in Nat
    PROVE  DisabledState \in State /\ Valid(DisabledState, t)
<1>1. DisabledState \in State
  BY DEF DisabledState, State, Circuit, None
<1>2. Cardinality({}) = 0 /\ Budget \in Nat /\ Window \in Nat
  BY FS_EmptySet, SchedulerAssumption
<1> QED BY <1>1, <1>2 DEF DisabledState, Valid, Enabled, None

-----------------------------------------------------------------------------
(* The state a command decides to write.                                   *)

\* What a decision establishes of the state w it is going to write.
Decided(o, t, w) ==
    /\ w \in State /\ Valid(w, t) /\ Remembers(w)
    /\ w.running => (Enabled(w) /\ o = "run_once")
    /\ o \in {"disable_scheduled", "approve_reset"} => w.circuit = "READY_DISABLED"
    /\ o = "approve_reset" \/ fruitless <= Failures(w.circuit)
    /\ (quiet /\ o # "enable_scheduled") => ~Enabled(w)
    /\ w.running => (/\ t \in w.attempts
                     /\ \A i \in DOMAIN calls : calls[i] + Interval <= t)

\* A loaded state that remembers the calls is replaced by one that does.
LEMMA RunRemembers ==
    ASSUME TypeOK, NEW t \in 0..MaxTime, state \in State, Sound(state), Valid(state, t),
           Allowed(state, t),
           NEW w \in State, w.attempts = Recent(state, t) \cup {t}
    PROVE  /\ Remembers(w)
           /\ \A i \in DOMAIN calls : calls[i] + Interval <= t
<1>1. /\ DOMAIN calls = 1..Len(calls) /\ \A i \in DOMAIN calls : calls[i] \in Nat
      /\ Interval \in Nat /\ Window \in Nat /\ t \in Nat
  BY SchedulerAssumption DEF TypeOK
<1>2. state.attempts \in SUBSET Nat
  BY SchedulerAssumption DEF State
<1>3. SUFFICES ASSUME NEW i \in DOMAIN calls
               PROVE  /\ \/ calls[i] \in w.attempts
                         \/ \E a \in w.attempts : calls[i] + Window <= a
                      /\ calls[i] + Interval <= t
  BY MissingAssumption DEF Remembers
<1>4. PICK a \in state.attempts : calls[i] = a \/ calls[i] + Window <= a
  BY MissingAssumption DEF Sound, Remembers
<1>5. a \in Nat /\ a <= t /\ a + Interval <= t /\ calls[i] \in Nat
  BY <1>1, <1>2, <1>4 DEF Valid, Allowed
<1>6. calls[i] <= a /\ calls[i] + Interval <= t
  BY <1>1, <1>4, <1>5
<1>7. CASE a > t - Window
  BY <1>4, <1>6, <1>7 DEF Recent
<1>8. CASE ~(a > t - Window)
  <2>1. calls[i] + Window <= t
    BY <1>1, <1>5, <1>6, <1>8
  <2> QED BY <1>6, <2>1
<1> QED BY <1>7, <1>8

LEMMA DecisionIsSound ==
    ASSUME IInv, NEW p \in Process, NEW w \in Writes(op[p], state, now[p])
    PROVE  Decided(op[p], now[p], w)
<1> DEFINE o == op[p]
           t == now[p]
<1>1. /\ o \in Operation /\ t \in 0..MaxTime /\ t \in Nat
      /\ state \in State \cup {Missing} /\ Sound(state) /\ quiet \in BOOLEAN
      /\ fruitless \in Nat
  BY SchedulerAssumption DEF IInv, TypeOK, DiskIsSound
<1>2. WritesOf(o, state, t, w)
  BY <1>1, WritesCases
<1>3. o = "provision_disabled" \/ (state \in State /\ Valid(state, t))
  BY <1>1, WritesCases
<1>4. state \in State =>
         /\ Remembers(state)
         /\ state.running => Enabled(state)
         /\ fruitless <= Failures(state.circuit) + (IF state.running THEN 1 ELSE 0)
         /\ quiet => ~Enabled(state)
         /\ state.running \in BOOLEAN
  BY <1>1, MissingAssumption DEF Sound, State
<1> SUFFICES Decided(o, t, w)
  OBVIOUS
<1> HIDE DEF o, t
\* A state whose attempts are the loaded ones remembers what those do.
<1>5. ASSUME state \in State, w \in State, w.attempts = state.attempts
      PROVE  Remembers(w)
  BY <1>4, <1>5, MissingAssumption DEF Remembers
<1>6. CASE o = "provision_disabled" /\ state = Missing /\ w = DisabledState
  <2>1. DOMAIN calls = {} /\ fruitless = 0
    BY <1>1, <1>6 DEF Sound, Remembers
  <2>2. w \in State /\ Valid(w, t) /\ ~w.running /\ w.circuit = "READY_DISABLED"
    BY <1>1, <1>6, DisabledIsValid DEF DisabledState
  <2> QED BY <1>6, <2>1, <2>2, MissingAssumption DEF Decided, Remembers, Enabled, Failures
<1>7. CASE o = "enable_scheduled" /\ state.circuit = "READY_DISABLED" /\ ~state.running
           /\ w = [state EXCEPT !.circuit = "READY", !.notBefore = t + NormalInterval]
  <2>1. state \in State /\ "READY" \in Circuit /\ t + NormalInterval \in Nat
        /\ t + NormalInterval <= t + Window /\ t + NormalInterval # None
    BY <1>1, <1>3, <1>7, SchedulerAssumption DEF Circuit, None
  <2>2. w = [circuit |-> "READY", attempts |-> state.attempts,
             running |-> state.running, notBefore |-> t + NormalInterval]
    BY <1>7, <2>1, TwoFields, Zenon
  <2>3. w \in State /\ Valid(w, t)
    BY <1>3, <1>7, <2>1, <2>2 DEF State, Valid, Enabled
  <2>4. fruitless <= Failures(w.circuit)
    BY <1>1, <1>4, <1>7, <2>1, <2>2 DEF Failures
  <2>5. Remembers(w)
    BY <1>5, <2>1, <2>2, <2>3
  <2> QED BY <1>7, <2>2, <2>3, <2>4, <2>5 DEF Decided
<1>8. CASE o = "disable_scheduled" /\ state.circuit = "READY" /\ ~state.running
           /\ w = [state EXCEPT !.circuit = "READY_DISABLED"]
  <2>1. state \in State /\ "READY_DISABLED" \in Circuit
    BY <1>3, <1>8 DEF Circuit
  <2>2. w = [circuit |-> "READY_DISABLED", attempts |-> state.attempts,
             running |-> state.running, notBefore |-> state.notBefore]
    BY <1>8, <2>1, OneField, Zenon
  <2>3. w \in State /\ Valid(w, t)
    BY <1>3, <1>8, <2>1, <2>2 DEF State, Valid, Enabled
  <2>4. fruitless <= Failures(w.circuit)
    BY <1>1, <1>4, <1>8, <2>1, <2>2 DEF Failures
  <2>5. Remembers(w)
    BY <1>5, <2>1, <2>2, <2>3
  <2> QED BY <1>8, <2>2, <2>3, <2>4, <2>5 DEF Decided, Enabled
<1>9. CASE o = "approve_reset" /\ state.circuit = "CIRCUIT_OPEN"
           /\ w = [state EXCEPT !.circuit = "READY_DISABLED", !.running = FALSE]
  <2>1. state \in State /\ "READY_DISABLED" \in Circuit
    BY <1>3, <1>9 DEF Circuit
  <2>2. w = [circuit |-> "READY_DISABLED", attempts |-> state.attempts,
             running |-> FALSE, notBefore |-> state.notBefore]
    BY <1>9, <2>1, TwoFields, Zenon
  <2>3. w \in State /\ Valid(w, t)
    BY <1>3, <1>9, <2>1, <2>2 DEF State, Valid, Enabled
  <2>5. Remembers(w)
    BY <1>5, <2>1, <2>2, <2>3
  <2> QED BY <1>9, <2>2, <2>3, <2>5 DEF Decided, Enabled
<1>10. CASE o = "run_once" /\ state.running /\ w = Failed(state)
  <2>1. state \in State /\ Enabled(state) /\ Valid(state, t) /\ ~quiet
    BY <1>3, <1>4, <1>10
  <2>2. /\ w \in State /\ Valid(w, t) /\ ~w.running
        /\ w.attempts = state.attempts
        /\ Failures(w.circuit) = Failures(state.circuit) + 1
    BY <1>10, <2>1, ResultIsValid
  <2>3. Remembers(w)
    BY <1>5, <2>1, <2>2
  <2> QED BY <1>4, <1>10, <2>1, <2>2, <2>3 DEF Decided
<1>11. CASE o = "run_once" /\ ~state.running /\ Allowed(state, t)
            /\ w = [state EXCEPT !.running = TRUE, !.attempts = Recent(state, t) \cup {t}]
  <2>1. state \in State /\ Enabled(state) /\ Valid(state, t) /\ ~quiet
    BY <1>3, <1>4, <1>11 DEF Allowed
  <2>2. /\ w \in State /\ Valid(w, t) /\ w.running /\ w.circuit = state.circuit
        /\ w.attempts = Recent(state, t) \cup {t}
    <3>1. t \in 0..MaxTime /\ Allowed(state, t)
      BY <1>1, <1>11
    <3>2. w = [state EXCEPT !.running = TRUE, !.attempts = Recent(state, t) \cup {t}]
      BY <1>11, Zenon
    <3> QED BY <2>1, <3>1, <3>2, RunIsValid, ZenonT(30)
  <2>3. Remembers(w) /\ \A i \in DOMAIN calls : calls[i] + Interval <= t
    BY <1>1, <1>11, <2>1, <2>2, RunRemembers DEF IInv
  <2>4. fruitless <= Failures(w.circuit) /\ Enabled(w) /\ t \in w.attempts
    BY <1>1, <1>4, <1>11, <2>1, <2>2 DEF Enabled, Failures
  <2> QED BY <1>11, <2>1, <2>2, <2>3, <2>4 DEF Decided
<1> QED BY <1>2, <1>6, <1>7, <1>8, <1>9, <1>10, <1>11 DEF WritesOf

-----------------------------------------------------------------------------
(* What a step that does not touch them keeps.                             *)

LEMMA SoundKept ==
    ASSUME TypeOK, TypeOK', NEW s \in State \cup {Missing}, Sound(s), clock <= clock',
           UNCHANGED calls, fruitless' \in {0, fruitless}, quiet' => quiet
    PROVE  Sound(s)'
<1>1. Remembers(s)'
  BY DEF Sound, Remembers
<1>2. ASSUME s # Missing PROVE Valid(s, clock')
  BY <1>2, ValidLater, SchedulerAssumption DEF Sound, TypeOK
<1>3. Valid(s, clock)' <=> Valid(s, clock')
  BY DEF Valid, Enabled
<1>4. ASSUME s # Missing
      PROVE  fruitless' <= Failures(s.circuit) + (IF s.running THEN 1 ELSE 0)
  BY <1>4 DEF Sound, Failures, TypeOK
<1> QED BY <1>1, <1>2, <1>3, <1>4 DEF Sound, Enabled, Failures

LEMMA DiskKept ==
    ASSUME IInv, TypeOK', disk' \subseteq disk, clock <= clock',
           UNCHANGED <<calls, fruitless>>, quiet' => quiet
    PROVE  DiskIsSound'
<1>1. \A s \in disk' : s \in State \cup {Missing} /\ Sound(s)
  BY DEF IInv, TypeOK, DiskIsSound
<1>2. SUFFICES ASSUME NEW s \in disk' PROVE Sound(s)'
  BY DEF DiskIsSound
<1> QED BY <1>1, SoundKept DEF IInv

LEMMA HistoryKept ==
    ASSUME IInv, UNCHANGED calls
    PROVE  CallsAreSpaced' /\ DailyCeiling'
BY DEF IInv, CallsAreSpaced, DailyCeiling

LEMMA WritingKept ==
    ASSUME NEW q \in Process, Writing(q),
           UNCHANGED <<state, disk, calls, fruitless, quiet>>,
           pc'[q] = pc[q], op'[q] = op[q], now'[q] = now[q], want'[q] = want[q]
    PROVE  Writing(q)'
BY DEF Writing, Valid, Remembers, Enabled, Failures

\* A process that stops leaves the others where they were.
LEMMA StopKeeps ==
    ASSUME IInv, NEW p \in Process, Stop(p)
    PROVE  /\ lock' \in Process \cup {Unlocked}
           /\ pc' \in [Process -> {"idle", "locking", "writing", "syncing",
                                   "collecting", "collected"}]
           /\ op' \in [Process -> Operation]
           /\ now' \in [Process -> 0..MaxTime]
           /\ want' \in [Process -> State \cup {Missing}]
           /\ OneWriter'
           /\ NowIsPast' <=> \A q \in Process : now'[q] <= clock'
           /\ \A q \in Process : now'[q] <= clock
           /\ pc'[p] \notin Busy
           /\ \A q \in Process : q # p => /\ pc'[q] = pc[q] /\ op'[q] = op[q]
                                          /\ now'[q] = now[q] /\ want'[q] = want[q]
<1>1. TypeOK /\ OneWriter /\ NowIsPast
  BY DEF IInv
<1>2. /\ pc' = [pc EXCEPT ![p] = "idle"] /\ op' = [op EXCEPT ![p] = "run_once"]
      /\ now' = [now EXCEPT ![p] = 0] /\ want' = [want EXCEPT ![p] = Missing]
      /\ lock' = IF lock = p THEN Unlocked ELSE lock
  BY DEF Stop
<1>3. "run_once" \in Operation /\ 0 \in 0..MaxTime /\ "idle" \notin Busy
  BY SchedulerAssumption DEF Operation, Busy
<1>4. OneWriter'
  <2>1. SUFFICES ASSUME NEW q \in Process PROVE pc'[q] \in Busy <=> lock' = q
    BY DEF OneWriter, Busy
  <2>2. CASE q = p
    BY <1>1, <1>2, <1>3, <2>2, SchedulerAssumption DEF TypeOK
  <2>3. CASE q # p
    BY <1>1, <1>2, <2>3, SchedulerAssumption DEF TypeOK, OneWriter
  <2> QED BY <2>2, <2>3
<1>5. \A q \in Process : now'[q] <= clock
  BY <1>1, <1>2 DEF TypeOK, NowIsPast
<1> QED BY <1>1, <1>2, <1>3, <1>4, <1>5 DEF TypeOK, NowIsPast

-----------------------------------------------------------------------------
(* One lemma per action.                                                   *)

LEMMA BeginStep ==
    ASSUME IInv, NEW p \in Process, NEW o \in Operation, Begin(p, o)
    PROVE  IInv'
<1>1. TypeOK'
  BY DEF IInv, TypeOK, Begin
<1>2. OneWriter'
  BY DEF IInv, TypeOK, Begin, OneWriter, Busy
<1>3. NowIsPast'
  BY DEF IInv, TypeOK, Begin, NowIsPast
<1>4. DiskIsSound'
  BY <1>1, DiskKept DEF IInv, TypeOK, Begin
<1>5. WritersAreSound'
  <2>1. SUFFICES ASSUME NEW q \in Process, pc'[q] \in Busy PROVE Writing(q)'
    BY DEF WritersAreSound, Busy
  <2>2. q # p
    BY <2>1 DEF IInv, TypeOK, Begin, Busy
  <2>3. /\ pc'[q] = pc[q] /\ op'[q] = op[q] /\ now'[q] = now[q] /\ want'[q] = want[q]
        /\ UNCHANGED <<state, disk, calls, fruitless, quiet>>
    BY <2>2 DEF IInv, TypeOK, Begin
  <2> QED BY <2>1, <2>3, WritingKept DEF IInv, WritersAreSound
<1> QED BY <1>1, <1>2, <1>3, <1>4, <1>5, HistoryKept DEF IInv, Begin

LEMMA StoppedStep ==
    ASSUME IInv, NEW p \in Process, Stop(p),
           UNCHANGED <<clock, state, disk, calls, fruitless, quiet>>
    PROVE  IInv'
<1>1. TypeOK' /\ OneWriter' /\ NowIsPast'
  BY StopKeeps DEF IInv, TypeOK
<1>2. DiskIsSound'
  BY <1>1, DiskKept, SchedulerAssumption DEF IInv, TypeOK
<1>3. WritersAreSound'
  <2>1. SUFFICES ASSUME NEW q \in Process, pc'[q] \in Busy PROVE Writing(q)'
    BY DEF WritersAreSound, Busy
  <2>2. q # p /\ pc[q] \in Busy
    BY <2>1, StopKeeps
  <2> QED BY <2>2, StopKeeps, WritingKept DEF IInv, WritersAreSound
<1> QED BY <1>1, <1>2, <1>3, HistoryKept DEF IInv

LEMMA DecideStep ==
    ASSUME IInv, NEW p \in Process, Decide(p)
    PROVE  IInv'
<1>1. TypeOK /\ OneWriter /\ NowIsPast
  BY DEF IInv
<1>2. PICK w \in Writes(op[p], state, now[p]) : want' = [want EXCEPT ![p] = w]
  BY DEF Decide
<1>3. Decided(op[p], now[p], w)
  BY <1>2, DecisionIsSound
<1>4. w \in State /\ w # Missing
  BY <1>3, MissingAssumption DEF Decided
<1>5. TypeOK'
  BY <1>1, <1>2, <1>4 DEF TypeOK, Decide
<1>6. \A q \in Process : pc[q] \notin Busy
  BY <1>1, SchedulerAssumption DEF OneWriter, Decide
<1>7. OneWriter' /\ NowIsPast'
  BY <1>1, <1>6 DEF TypeOK, OneWriter, NowIsPast, Decide, Busy
<1>8. DiskIsSound'
  BY <1>1, <1>5, DiskKept DEF TypeOK, Decide
<1>9. WritersAreSound'
  <2>1. SUFFICES ASSUME NEW q \in Process, pc'[q] \in Busy PROVE Writing(q)'
    BY DEF WritersAreSound, Busy
  <2>2. q = p
    BY <1>1, <1>6, <2>1 DEF TypeOK, Decide
  <2>3. /\ want'[p] = w /\ pc'[p] = "writing" /\ op'[p] = op[p] /\ now'[p] = now[p]
        /\ UNCHANGED <<state, disk, calls, fruitless, quiet>>
    BY <1>1, <1>2 DEF TypeOK, Decide
  <2>4. Writing(p)'
    BY <1>3, <1>4, <2>3
       DEF Writing, Decided, Valid, Remembers, Enabled, Failures
  <2> QED BY <2>2, <2>4
<1> QED BY <1>5, <1>7, <1>8, <1>9, HistoryKept DEF IInv, Decide

LEMMA PublishStep ==
    ASSUME IInv, NEW p \in Process, Publish(p)
    PROVE  IInv'
<1>1. TypeOK /\ OneWriter /\ NowIsPast /\ DiskIsSound
  BY DEF IInv
<1>2. /\ Writing(p) /\ pc[p] = "writing" /\ lock = p
      /\ op[p] \in Operation /\ now[p] \in Nat /\ now[p] <= clock /\ clock \in Nat
      /\ quiet \in BOOLEAN /\ fruitless \in Nat
  BY SchedulerAssumption
     DEF IInv, WritersAreSound, OneWriter, NowIsPast, TypeOK, Publish, Busy
<1>3. want[p] \in State /\ want[p] # Missing
  BY <1>1, <1>2 DEF TypeOK, Writing
<1>4. TypeOK'
  BY <1>1, <1>3 DEF TypeOK, Publish
<1>5. OneWriter' /\ NowIsPast'
  BY <1>1, <1>2 DEF TypeOK, OneWriter, NowIsPast, Publish, Busy
<1>6. /\ fruitless' = IF op[p] = "approve_reset" THEN 0 ELSE fruitless
      /\ quiet' <=> (quiet /\ op[p] # "enable_scheduled")
      /\ UNCHANGED <<clock, calls, want, op, now>>
      /\ pc'[p] = "syncing" /\ state' = want[p]
  BY <1>1 DEF TypeOK, Publish
<1>7. DiskIsSound'
  <2>1. SUFFICES ASSUME NEW s \in disk' PROVE Sound(s)'
    BY DEF DiskIsSound
  <2>2. CASE s \in disk
    <3>1. s \in State \cup {Missing} /\ Sound(s)
      BY <1>1, <2>2 DEF DiskIsSound, TypeOK
    <3>2. clock <= clock' /\ fruitless' \in {0, fruitless} /\ (quiet' => quiet)
      BY <1>2, <1>6
    <3> QED BY <1>1, <1>4, <1>6, <3>1, <3>2, SoundKept
  <2>3. CASE s = want[p]
    <3>1. Valid(s, clock)
      BY <1>2, <1>3, <2>3, ValidLater DEF Writing
    <3>2. Valid(s, clock)'
      BY <1>6, <3>1 DEF Valid, Enabled
    <3>3. Remembers(s)'
      BY <1>2, <1>6, <2>3 DEF Writing, Remembers
    <3>4. fruitless' <= Failures(s.circuit)
      BY <1>2, <1>6, <2>3 DEF Writing, Failures
    <3>5. (s.running => Enabled(s)) /\ (quiet' => ~Enabled(s))
      BY <1>2, <1>6, <2>3 DEF Writing
    <3> QED BY <1>3, <1>4, <2>3, <3>2, <3>3, <3>4, <3>5
            DEF Sound, Enabled, Failures, TypeOK
  <2> QED BY <2>2, <2>3 DEF Publish
<1>8. WritersAreSound'
  <2>1. SUFFICES ASSUME NEW q \in Process, pc'[q] \in Busy PROVE Writing(q)'
    BY DEF WritersAreSound, Busy
  <2>2. q = p
    BY <1>1, <1>2, <1>5, <2>1 DEF OneWriter, Publish
  <2>3. Writing(p)'
    BY <1>2, <1>6 DEF Writing, Valid, Remembers, Enabled, Failures
  <2> QED BY <2>2, <2>3
<1> QED BY <1>4, <1>5, <1>6, <1>7, <1>8, HistoryKept DEF IInv

LEMMA SyncStep ==
    ASSUME IInv, NEW p \in Process, Sync(p)
    PROVE  IInv'
<1>1. TypeOK /\ OneWriter /\ NowIsPast /\ DiskIsSound
  BY DEF IInv
<1>2. /\ Writing(p) /\ pc[p] = "syncing" /\ lock = p /\ state = want[p]
      /\ op[p] \in Operation /\ quiet \in BOOLEAN /\ state \in disk
      /\ \A q \in Process : q # p => pc[q] \notin Busy
      /\ disk' = {state} /\ UNCHANGED <<clock, state, calls, fruitless>>
      /\ quiet' = (quiet \/ op[p] \in {"disable_scheduled", "approve_reset"})
      /\ quiet' \in BOOLEAN
  BY DEF IInv, WritersAreSound, OneWriter, TypeOK, Sync, Busy, Writing
<1>3. quiet' => ~Enabled(state)
  BY <1>2 DEF Writing, Enabled
<1>4. DiskIsSound'
  BY <1>1, <1>2, <1>3 DEF DiskIsSound, Sound, Remembers, Valid, Enabled, Failures
<1>5. CASE want[p].running /\ pc' = [pc EXCEPT ![p] = "collecting"]
           /\ UNCHANGED <<lock, op, now, want>>
  <2>1. TypeOK'
    BY <1>1, <1>2, <1>5 DEF TypeOK
  <2>2. OneWriter' /\ NowIsPast'
    BY <1>1, <1>2, <1>5 DEF TypeOK, OneWriter, NowIsPast, Busy
  <2>3. op[p] = "run_once" /\ (quiet' <=> quiet) /\ pc'[p] = "collecting"
    BY <1>1, <1>2, <1>5 DEF Writing, TypeOK
  <2>4. Writing(p)'
    BY <1>2, <1>5, <2>3 DEF Writing, Valid, Remembers, Enabled, Failures
  <2>5. WritersAreSound'
    BY <1>1, <1>2, <1>5, <2>4 DEF WritersAreSound, Busy, TypeOK
  <2> QED BY <1>2, <1>4, <2>1, <2>2, <2>5, HistoryKept DEF IInv
<1>6. CASE Stop(p)
  <2>1. TypeOK' /\ OneWriter' /\ NowIsPast'
    BY <1>1, <1>2, <1>6, StopKeeps DEF TypeOK
  <2>2. \A q \in Process : pc'[q] \notin Busy
    BY <1>2, <1>6, StopKeeps
  <2>3. WritersAreSound'
    BY <2>2 DEF WritersAreSound, Busy
  <2> QED BY <1>2, <1>4, <2>1, <2>3, HistoryKept DEF IInv
<1> QED BY <1>5, <1>6 DEF Sync

\* The call that is appended is later than every other by an interval, so those
\* of the last window are different attempts of the state the run has written.
LEMMA CollectIsSpaced ==
    ASSUME IInv, NEW p \in Process, Collect(p)
    PROVE  CallsAreSpaced' /\ DailyCeiling'
<1> DEFINE n == Len(calls)
           t == now[p]
           w == want[p]
<1>1. /\ Writing(p) /\ w \in State /\ w # Missing /\ w.running /\ t \in 0..MaxTime
      /\ calls \in Seq(0..MaxTime) /\ Interval \in Nat \ {0} /\ Window \in Nat
      /\ Budget \in Nat
  BY SchedulerAssumption DEF IInv, TypeOK, WritersAreSound, Collect, Busy, Writing
<1>2. /\ Valid(w, t) /\ Remembers(w) /\ t \in w.attempts
      /\ \A i \in DOMAIN calls : calls[i] + Interval <= t
  BY <1>1 DEF Writing, Collect
<1>3. /\ n \in Nat /\ DOMAIN calls = 1..n /\ DOMAIN calls' = 1..(n + 1)
      /\ \A i \in 1..n : calls'[i] = calls[i] /\ calls[i] \in Nat
      /\ calls'[n + 1] = t /\ t \in Nat
  BY <1>1, SchedulerAssumption DEF Collect
<1> HIDE DEF n, t, w
<1>4. \A i, j \in 1..(n + 1) : i < j => calls'[i] + Interval <= calls'[j]
  <2>1. SUFFICES ASSUME NEW i \in 1..(n + 1), NEW j \in 1..(n + 1), i < j
                 PROVE  calls'[i] + Interval <= calls'[j]
    OBVIOUS
  <2>2. i \in 1..n
    BY <1>3, <2>1
  <2>3. CASE j \in 1..n
    BY <1>3, <2>1, <2>2, <2>3 DEF IInv, CallsAreSpaced
  <2>4. CASE j = n + 1
    BY <1>2, <1>3, <2>2, <2>4
  <2> QED BY <1>3, <2>3, <2>4
<1>5. CallsAreSpaced'
  BY <1>3, <1>4 DEF CallsAreSpaced
<1>6. ASSUME NEW i \in 1..(n + 1)
      PROVE  Cardinality({j \in 1..(n + 1) : /\ calls'[j] <= calls'[i]
                                             /\ calls'[j] > calls'[i] - Window}) <= Budget
  <2> DEFINE D == {j \in 1..(n + 1) : /\ calls'[j] <= calls'[i]
                                      /\ calls'[j] > calls'[i] - Window}
  <2>1. CASE i \in 1..n
    <3>1. D = {j \in 1..n : calls[j] <= calls[i] /\ calls[j] > calls[i] - Window}
      <4>1. ~(calls'[n + 1] <= calls'[i])
        BY <1>1, <1>2, <1>3, <2>1
      <4>2. \A j \in 1..(n + 1) : j = n + 1 \/ j \in 1..n
        BY <1>3
      <4>3. \A j \in 1..n : j \in 1..(n + 1)
        BY <1>3
      <4> QED BY <1>3, <2>1, <4>1, <4>2, <4>3
    <3>2. \A k \in 1..n : Cardinality({j \in 1..n : /\ calls[j] <= calls[k]
                                                    /\ calls[j] > calls[k] - Window}) <= Budget
      BY <1>3 DEF IInv, DailyCeiling
    <3> QED BY <2>1, <3>1, <3>2
  <2>2. CASE i = n + 1
    <3> DEFINE f == [j \in D |-> calls'[j]]
    <3>1. \A j \in D : calls'[j] \in w.attempts
      <4>1. SUFFICES ASSUME NEW j \in D, j # n + 1 PROVE calls[j] \in w.attempts
        BY <1>2, <1>3
      <4>2. j \in 1..n /\ calls[j] \in Nat /\ calls[j] > t - Window
        BY <1>3, <2>2, <4>1
      <4>3. \A a \in w.attempts : a \in Nat /\ a <= t
        BY <1>1, <1>2, SchedulerAssumption DEF Valid, State
      <4>4. \A a \in w.attempts : ~(calls[j] + Window <= a)
        BY <1>1, <1>3, <4>2, <4>3
      <4> QED BY <1>2, <1>3, <4>2, <4>4 DEF Remembers
    <3>2. \A j, k \in D : calls'[j] = calls'[k] => j = k
      <4>1. SUFFICES ASSUME NEW j \in D, NEW k \in D, j < k PROVE calls'[j] # calls'[k]
        BY <1>3
      <4>2. j \in 1..(n + 1) /\ k \in 1..(n + 1) /\ calls'[j] \in Nat /\ calls'[k] \in Nat
        BY <1>3
      <4>3. calls'[j] + Interval <= calls'[k]
        BY <1>4, <4>1, <4>2
      <4> QED BY <1>1, <4>2, <4>3
    <3>3. f \in Injection(D, w.attempts)
      BY <3>1, <3>2 DEF Injection, IsInjective
    <3>4. Cardinality(D) <= Cardinality(w.attempts)
      <4>1. IsFiniteSet(w.attempts)
        BY <1>1, AttemptsAreFinite
      <4> HIDE DEF D, f
      <4> QED BY <3>3, <4>1, FS_Injection
    <3>5. Cardinality(w.attempts) <= Budget /\ Cardinality(w.attempts) \in Nat
      BY <1>1, <1>2, AttemptsAreFinite DEF Valid
    <3>6. Cardinality(D) \in Nat
      <4>1. IsFiniteSet(w.attempts)
        BY <1>1, AttemptsAreFinite
      <4> HIDE DEF D, f
      <4> QED BY <3>3, <4>1, FS_Injection, FS_CardinalityType
    <3> QED BY <1>1, <3>4, <3>5, <3>6
  <2> QED BY <1>3, <2>1, <2>2
<1>7. DailyCeiling'
  BY <1>3, <1>6, Zenon DEF DailyCeiling
<1> QED BY <1>5, <1>7

LEMMA CollectStep ==
    ASSUME IInv, NEW p \in Process, Collect(p)
    PROVE  IInv'
<1> DEFINE n == Len(calls)
           t == now[p]
           w == want[p]
<1>1. TypeOK /\ OneWriter /\ NowIsPast /\ DiskIsSound
  BY DEF IInv
<1>2. /\ Writing(p) /\ w \in State /\ w # Missing /\ w.running /\ t \in 0..MaxTime
      /\ disk = {w} /\ Sound(w) /\ calls \in Seq(0..MaxTime) /\ fruitless \in Nat
      /\ lock = p /\ Window \in Nat
  BY <1>1, SchedulerAssumption
     DEF IInv, OneWriter, DiskIsSound, TypeOK, WritersAreSound, Collect, Busy, Writing
<1>3. /\ n \in Nat /\ DOMAIN calls = 1..n /\ DOMAIN calls' = 1..(n + 1)
      /\ \A i \in 1..n : calls'[i] = calls[i]
      /\ calls'[n + 1] = t
      /\ calls' \in Seq(0..MaxTime)
  BY <1>2 DEF Collect
<1>4. Remembers(w) /\ t \in w.attempts /\ Enabled(w) /\ ~quiet
      /\ op[p] = "run_once" /\ fruitless <= Failures(w.circuit)
  BY <1>2 DEF Writing, Collect
<1>5. \A i \in 1..(n + 1) :
         calls'[i] \in w.attempts \/ \E a \in w.attempts : calls'[i] + Window <= a
  <2>1. SUFFICES ASSUME NEW i \in 1..(n + 1)
                 PROVE calls'[i] \in w.attempts \/ \E a \in w.attempts : calls'[i] + Window <= a
    OBVIOUS
  <2>2. CASE i \in 1..n
    BY <1>3, <1>4, <2>2 DEF Remembers
  <2>3. CASE i = n + 1
    BY <1>3, <1>4, <2>3
  <2> QED BY <1>3, <2>2, <2>3
<1>6. /\ UNCHANGED <<clock, state, disk, lock, op, now, want, quiet>>
      /\ fruitless' = fruitless + 1 /\ pc'[p] = "collected" /\ pc[p] = "collecting"
      /\ \A q \in Process : q # p => pc'[q] = pc[q]
  BY <1>1 DEF TypeOK, Collect
<1>7. TypeOK'
  BY <1>1, <1>3, <1>6 DEF TypeOK, Collect
<1>8. OneWriter' /\ NowIsPast'
  BY <1>1, <1>2, <1>6 DEF OneWriter, NowIsPast, Busy
<1>9. Sound(w)'
  <2>1. fruitless' <= Failures(w.circuit) + 1
    BY <1>2, <1>4, <1>6 DEF Failures
  <2>2. Valid(w, clock)'
    BY <1>2, <1>6 DEF Sound, Valid, Enabled
  <2>3. Remembers(w)'
    BY <1>2, <1>3, <1>5, <1>6 DEF Remembers
  <2> QED BY <1>2, <1>4, <1>6, <2>1, <2>2, <2>3 DEF Sound, Enabled, Failures
<1>10. DiskIsSound'
  BY <1>2, <1>6, <1>9 DEF DiskIsSound
<1>11. WritersAreSound'
  <2>1. SUFFICES ASSUME NEW q \in Process, pc'[q] \in Busy PROVE Writing(q)'
    BY DEF WritersAreSound, Busy
  <2>2. q = p
    BY <1>1, <1>2, <1>6, <1>8, <2>1 DEF OneWriter
  <2>3. Valid(w, t)'
    BY <1>2, <1>6 DEF Writing, Valid, Enabled
  <2>4. Remembers(w)'
    BY <1>9 DEF Sound
  <2>5. fruitless' <= Failures(w.circuit) + 1
    BY <1>2, <1>4, <1>6 DEF Failures
  <2> QED BY <1>2, <1>4, <1>6, <2>2, <2>3, <2>4, <2>5 DEF Writing, Enabled, Failures
<1> QED BY <1>7, <1>8, <1>10, <1>11, CollectIsSpaced DEF IInv

LEMMA CollectedStep ==
    ASSUME IInv, NEW p \in Process, Collected(p)
    PROVE  IInv'
<1>1. TypeOK /\ OneWriter /\ NowIsPast /\ DiskIsSound
  BY DEF IInv
<1>2. /\ Writing(p) /\ want[p] \in State /\ want[p] # Missing /\ want[p].running
      /\ disk = {want[p]} /\ lock = p /\ pc[p] = "collected" /\ fruitless \in Nat
      /\ \A q \in Process : q # p => pc[q] \notin Busy
      /\ want[p] \in disk
  BY <1>1 DEF IInv, OneWriter, TypeOK, WritersAreSound, Collected, Busy, Writing
<1>3. /\ Valid(want[p], now[p]) /\ Enabled(want[p]) /\ Remembers(want[p]) /\ ~quiet
      /\ op[p] = "run_once" /\ fruitless <= Failures(want[p].circuit) + 1
  BY <1>2 DEF Writing, Failures
<1>4. PICK w \in {Succeeded(want[p]), Failed(want[p])} :
         /\ want' = [want EXCEPT ![p] = w]
         /\ w = Succeeded(want[p]) => fruitless' = 0
         /\ w = Failed(want[p]) => fruitless' \in {0, fruitless}
         /\ fruitless' \in {0, fruitless}
  <2>1. CASE want' = [want EXCEPT ![p] = Succeeded(@)] /\ fruitless' = 0
    BY <2>1
  <2>2. CASE want' = [want EXCEPT ![p] = Failed(@)] /\ UNCHANGED fruitless
    <3>1. Succeeded(want[p]) # Failed(want[p])
      <4>1. Failures(Failed(want[p]).circuit) = Failures(want[p].circuit) + 1
        BY <1>2, <1>3, ResultIsValid
      <4>2. Succeeded(want[p]).circuit = "READY"
        BY <1>2, <1>3, ResultIsValid
      <4> QED BY <4>1, <4>2 DEF Failures
    <3> QED BY <2>2, <3>1
  <2> QED BY <2>1, <2>2 DEF Collected
<1>5. /\ w \in State /\ w # Missing /\ Valid(w, now[p]) /\ ~w.running
      /\ w.attempts = want[p].attempts
  BY <1>2, <1>3, MissingAssumption, ResultIsValid
<1>6. fruitless' <= Failures(w.circuit)
  <2>1. CASE w = Succeeded(want[p])
    BY <1>4, <2>1 DEF Failures
  <2>2. CASE w = Failed(want[p])
    <3>1. Failures(w.circuit) = Failures(want[p].circuit) + 1
      BY <1>2, <1>3, <2>2, ResultIsValid
    <3> QED BY <1>2, <1>3, <1>4, <3>1 DEF Failures
  <2> QED BY <2>1, <2>2
<1>7. /\ UNCHANGED <<clock, state, disk, lock, op, now, calls, quiet>>
      /\ pc'[p] = "writing" /\ want'[p] = w
      /\ \A q \in Process : q # p => pc'[q] = pc[q]
  BY <1>1, <1>4 DEF TypeOK, Collected
<1>8. TypeOK'
  BY <1>1, <1>2, <1>4, <1>5 DEF TypeOK, Collected
<1>9. OneWriter' /\ NowIsPast'
  BY <1>1, <1>2, <1>7 DEF OneWriter, NowIsPast, Busy
<1>10. DiskIsSound'
  <2>1. SUFFICES ASSUME NEW s \in disk' PROVE Sound(s)'
    BY DEF DiskIsSound
  <2>2. s \in State \cup {Missing} /\ Sound(s)
    BY <1>1, <1>7 DEF DiskIsSound, TypeOK
  <2> QED BY <1>1, <1>4, <1>7, <1>8, <2>2, SoundKept, SchedulerAssumption DEF TypeOK
<1>11. WritersAreSound'
  <2>1. SUFFICES ASSUME NEW q \in Process, pc'[q] \in Busy PROVE Writing(q)'
    BY DEF WritersAreSound, Busy
  <2>2. q = p
    BY <1>2, <1>7, <2>1
  <2>3. Valid(w, now[p])'
    BY <1>5, <1>7 DEF Valid, Enabled
  <2>4. Remembers(w)'
    BY <1>2, <1>3, <1>5, <1>7 DEF Remembers
  <2> QED BY <1>3, <1>5, <1>6, <1>7, <2>2, <2>3, <2>4 DEF Writing, Enabled, Failures
<1> QED BY <1>7, <1>8, <1>9, <1>10, <1>11, HistoryKept DEF IInv

LEMMA PowerLossStep ==
    ASSUME IInv, PowerLoss
    PROVE  IInv'
<1>1. TypeOK /\ \A p \in Process : pc'[p] = "idle"
  BY DEF IInv, PowerLoss
<1>2. "run_once" \in Operation /\ 0 \in 0..MaxTime /\ "idle" \notin Busy
  BY SchedulerAssumption DEF Operation, Busy
<1>3. TypeOK'
  BY <1>1, <1>2 DEF TypeOK, PowerLoss
<1>4. OneWriter' /\ WritersAreSound'
  BY <1>1, <1>2, SchedulerAssumption DEF OneWriter, WritersAreSound, PowerLoss, Busy
<1>5. NowIsPast'
  BY <1>1 DEF NowIsPast, PowerLoss, TypeOK
<1>6. DiskIsSound'
  BY <1>1, <1>3, DiskKept, SchedulerAssumption DEF PowerLoss, TypeOK
<1> QED BY <1>3, <1>4, <1>5, <1>6, HistoryKept DEF IInv, PowerLoss

LEMMA TickStep ==
    ASSUME IInv, Tick
    PROVE  IInv'
<1>1. TypeOK /\ OneWriter /\ NowIsPast /\ WritersAreSound
  BY DEF IInv
<1>2. TypeOK'
  BY <1>1, SchedulerAssumption DEF TypeOK, Tick
<1>3. OneWriter' /\ NowIsPast'
  BY <1>1, SchedulerAssumption DEF OneWriter, NowIsPast, TypeOK, Tick, Busy
<1>4. DiskIsSound'
  BY <1>1, <1>2, DiskKept, SchedulerAssumption DEF TypeOK, Tick
<1>5. WritersAreSound'
  BY <1>1, WritingKept DEF WritersAreSound, Tick, Busy
<1> QED BY <1>2, <1>3, <1>4, <1>5, HistoryKept DEF IInv, Tick

LEMMA StutterStep ==
    ASSUME IInv, UNCHANGED vars
    PROVE  IInv'
<1>1. TypeOK /\ OneWriter /\ NowIsPast /\ WritersAreSound
  BY DEF IInv
<1>2. TypeOK' /\ OneWriter' /\ NowIsPast'
  BY <1>1 DEF TypeOK, OneWriter, NowIsPast, Busy, vars
<1>3. DiskIsSound'
  BY <1>1, <1>2, DiskKept, SchedulerAssumption DEF TypeOK, vars
<1>4. WritersAreSound'
  BY <1>1, WritingKept DEF WritersAreSound, Busy, vars
<1> QED BY <1>2, <1>3, <1>4, HistoryKept DEF IInv, vars

-----------------------------------------------------------------------------
(* The theorems.                                                           *)

LEMMA InitIsSound == Init => IInv
<1> SUFFICES ASSUME Init PROVE IInv
  OBVIOUS
<1>1. "run_once" \in Operation /\ 0 \in 0..MaxTime /\ "idle" \notin Busy
  BY SchedulerAssumption DEF Operation, Busy
<1>2. TypeOK
  BY <1>1 DEF Init, TypeOK
<1>3. DOMAIN calls = {}
  BY DEF Init
<1>4. OneWriter /\ NowIsPast /\ WritersAreSound
  BY <1>1, SchedulerAssumption DEF Init, OneWriter, NowIsPast, WritersAreSound
<1>5. DiskIsSound
  BY <1>3 DEF Init, DiskIsSound, Sound, Remembers
<1> QED BY <1>2, <1>3, <1>4, <1>5 DEF IInv, CallsAreSpaced, DailyCeiling

LEMMA NextKeepsIInv == IInv /\ [Next]_vars => IInv'
<1> SUFFICES ASSUME IInv, [Next]_vars PROVE IInv'
  OBVIOUS
<1>1. ASSUME NEW p \in Process, NEW o \in Operation, Begin(p, o) PROVE IInv'
  BY <1>1, BeginStep
<1>2. ASSUME NEW p \in Process, Refused(p) PROVE IInv'
  BY <1>2, StoppedStep DEF Refused
<1>3. ASSUME NEW p \in Process, Decide(p) PROVE IInv'
  BY <1>3, DecideStep
<1>4. ASSUME NEW p \in Process, Publish(p) PROVE IInv'
  BY <1>4, PublishStep
<1>5. ASSUME NEW p \in Process, Sync(p) PROVE IInv'
  BY <1>5, SyncStep
<1>6. ASSUME NEW p \in Process, Collect(p) PROVE IInv'
  BY <1>6, CollectStep
<1>7. ASSUME NEW p \in Process, Collected(p) PROVE IInv'
  BY <1>7, CollectedStep
<1>8. ASSUME NEW p \in Process, Dies(p) PROVE IInv'
  BY <1>8, StoppedStep DEF Dies
<1>9. CASE PowerLoss
  BY <1>9, PowerLossStep
<1>10. CASE Tick
  BY <1>10, TickStep
<1>11. CASE UNCHANGED vars
  BY <1>11, StutterStep
<1> QED BY <1>1, <1>2, <1>3, <1>4, <1>5, <1>6, <1>7, <1>8, <1>9, <1>10, <1>11 DEF Next

\* The inductive invariant: whoever holds the flock writes, and everything that is
\* written or can be left by a power loss remembers every collector call.
THEOREM Invariance == Spec => []IInv
BY InitIsSound, NextKeepsIInv, PTL DEF Spec

\* Every variable has its type in every reachable state.
THEOREM TypeCorrect == Spec => []TypeOK
<1>1. IInv => TypeOK
  BY DEF IInv
<1> QED BY <1>1, Invariance, PTL

\* A call that still counts is in whatever a power loss leaves of the state file:
\* write_state returns, fsync included, before the collector is called.
THEOREM CallsAreRecorded == Spec => []CallIsRecorded
<1>1. IInv => CallIsRecorded
  <2>1. SUFFICES ASSUME IInv, NEW i \in DOMAIN calls, calls[i] > clock - Window,
                        NEW s \in disk
                 PROVE  s # Missing /\ calls[i] \in s.attempts
    BY DEF CallIsRecorded
  <2>2. /\ Sound(s) /\ s \in State \cup {Missing} /\ clock \in Nat /\ Window \in Nat
        /\ calls[i] \in Nat
    <3>1. Sound(s) /\ TypeOK
      BY <2>1 DEF IInv, DiskIsSound
    <3>2. calls \in Seq(0..MaxTime)
      BY <3>1 DEF TypeOK
    <3>3. calls[i] \in 0..MaxTime
      BY <2>1, <3>2, ElementOfSeq, LenProperties
    <3> QED BY <3>1, <3>3, SchedulerAssumption DEF TypeOK
  <2>3. s \in State /\ s # Missing /\ Valid(s, clock)
    BY <2>2 DEF Sound, Remembers
  <2>4. \A a \in s.attempts : a \in Nat /\ a <= clock
    BY <2>3, SchedulerAssumption DEF State, Valid
  <2>5. \A a \in s.attempts : ~(calls[i] + Window <= a)
    BY <2>1, <2>2, <2>4
  <2> QED BY <2>2, <2>3, <2>5 DEF Sound, Remembers
<1> QED BY <1>1, Invariance, PTL

\* The instants the calls were decided for are an interval apart.
THEOREM Spacing == Spec => []CallsAreSpaced
<1>1. IInv => CallsAreSpaced
  BY DEF IInv
<1> QED BY <1>1, Invariance, PTL

\* No rolling window holds more calls than the budget.
THEOREM Ceiling == Spec => []DailyCeiling
<1>1. IInv => DailyCeiling
  BY DEF IInv
<1> QED BY <1>1, Invariance, PTL

\* There is no third call without a success or a reset.
THEOREM CircuitOpens == Spec => []NoThirdFailure
<1>1. IInv => NoThirdFailure
  <2> SUFFICES ASSUME IInv PROVE NoThirdFailure
    OBVIOUS
  <2>1. Sound(state) /\ state \in State \cup {Missing} /\ fruitless \in Nat
    BY DEF IInv, DiskIsSound, TypeOK
  <2>2. CASE state = Missing
    BY <2>1, <2>2 DEF Sound, NoThirdFailure
  <2>3. CASE state # Missing
    <3>1. /\ state.running => Enabled(state)
          /\ fruitless <= Failures(state.circuit) + (IF state.running THEN 1 ELSE 0)
      BY <2>1, <2>3 DEF Sound
    <3> QED BY <2>1, <3>1 DEF Enabled, Failures, NoThirdFailure
  <2> QED BY <2>2, <2>3
<1> QED BY <1>1, Invariance, PTL

\* What a power loss leaves is accepted by the validation of the next command.
THEOREM StaysValid == Spec => []StateStaysValid
<1>1. IInv => StateStaysValid
  BY DEF IInv, DiskIsSound, Sound, StateStaysValid
<1> QED BY <1>1, Invariance, PTL

\* While scheduling is disabled, or an enable has been taken back, the collector is
\* not called, whatever another process had begun.
THEOREM DisabledStaysQuiet == Spec => DisabledIsQuiet
<1>1. IInv /\ [Next]_vars => [quiet => calls' = calls]_vars
  <2> SUFFICES ASSUME IInv, [Next]_vars, quiet PROVE calls' = calls
    OBVIOUS
  <2>1. ASSUME NEW p \in Process, Collect(p) PROVE FALSE
    <3>1. Writing(p) /\ want[p].running
      BY <2>1 DEF IInv, WritersAreSound, Collect, Busy, Writing
    <3> QED BY <3>1 DEF Writing
  <2> QED BY <2>1 DEF Next, Begin, Refused, Decide, Publish, Sync, Collected, Dies,
                      PowerLoss, Tick, vars
<1> QED BY <1>1, Invariance, PTL DEF Spec, DisabledIsQuiet
=============================================================================
