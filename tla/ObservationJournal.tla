-------------------------- MODULE ObservationJournal --------------------------
(***************************************************************************)
(* The durable observation attempt journal, durable_observation_journal.py,*)
(* and the one-shot runner on top of it, manual_reobservation_runner.py.   *)
(*                                                                         *)
(* One journal file records one attempt to ask each fixed source once.     *)
(* Processes share it: every append takes a non-blocking lock, rewrites    *)
(* the whole file into a candidate, replaces the journal by it and syncs   *)
(* the directory.  Reads take no lock.  A process drives its attempt with  *)
(* a token that dies with it: a runner calls in the fixed order, a fixture *)
(* caller in any order.  Processes and the machine may die at any point,   *)
(* and the file may be damaged from outside.                               *)
(*                                                                         *)
(* A record is its type and its source.  Hash chain, fixed identities and  *)
(* sizes are what Integrity says of the file: a damaged one is TORN_TAIL   *)
(* (its last line is incomplete) or CORRUPT.  What a response holds is     *)
(* left out: a result is complete or the run ends.                         *)
(***************************************************************************)
EXTENDS Integers, Sequences, FiniteSets, SequencesExt

CONSTANTS Process,
          Nobody,
          NumSources   \* FIXED_SOURCES

VARIABLES file,      \* the journal as processes see it
          synced,    \* what the last directory fsync covered
          candidate, \* what .journal.candidate holds, <<>>: it is not there
          lock,      \* holder of journal.lock
          proc,      \* the processes
          requests,  \* GETs sent to each source, ever
          damaged    \* somebody else has written to the journal

vars == <<file, synced, candidate, lock, proc, requests, damaged>>

Sources == 0..(NumSources - 1)

NoSource == -1

Rec(type, i) == [type |-> type, source |-> i]

Plan == Rec("PLAN_PREPARED", NoSource)
Permit == Rec("PERMIT_CONSUMED", NoSource)
Intent == Rec("ATTEMPT_INTENT", NoSource)
Commit == Rec("EVIDENCE_COMMIT", NoSource)
Finalize == Rec("FINALIZE", NoSource)

SourceRecords == {Rec(t, i) : t \in {"SOURCE_INTENT", "REQUEST_BOUNDARY", "SOURCE_RESULT"},
                              i \in Sources}

Records == {Plan, Permit, Intent, Commit, Finalize} \cup SourceRecords

\* The transition grammar of _history_valid.
Follows(r) ==
    CASE r = Plan -> {Permit, Intent}
      [] r = Permit -> {Intent}
      [] r = Intent -> {Rec("SOURCE_INTENT", 0)}
      [] r.type = "SOURCE_INTENT" -> {Rec("REQUEST_BOUNDARY", r.source),
                                      Rec("SOURCE_RESULT", r.source)}
      [] r.type = "REQUEST_BOUNDARY" -> {Rec("SOURCE_RESULT", r.source)}
      [] r.type = "SOURCE_RESULT" -> IF r.source = NumSources - 1 THEN {Commit}
                                     ELSE {Rec("SOURCE_INTENT", r.source + 1)}
      [] r = Commit -> {Finalize}
      [] OTHER -> {}

HistoryValid(rs) ==
    /\ rs # <<>> /\ rs[1] = Plan
    /\ \A k \in 1..(Len(rs) - 1) : rs[k + 1] \in Follows(rs[k])

File(integrity, rs) == [integrity |-> integrity, records |-> rs]

Absent == File("ABSENT", <<>>)

Off == [pc |-> "off", mode |-> "runner", token |-> FALSE, consumed |-> FALSE,
        unknown |-> FALSE, todo |-> Plan]

Init ==
    /\ file = Absent /\ synced = Absent
    /\ candidate = <<>> /\ lock = Nobody
    /\ proc = [p \in Process |-> Off]
    /\ requests = [i \in Sources |-> 0]
    /\ damaged = FALSE

-----------------------------------------------------------------------------
(* What the calls check before they append, from a read without the lock.  *)
In(r) == r \in ToSet(file.records)

Results == {i \in Sources : In(Rec("SOURCE_RESULT", i))}

Touched(i) == \E r \in ToSet(file.records) : r.source = i

Allowed(r) ==
    /\ file.integrity = "VALID"
    /\ CASE r = Permit -> ~In(Permit) /\ ~In(Intent)
         [] r = Intent -> ~In(Intent)
         [] r.type = "SOURCE_INTENT" ->
                In(Intent) /\ r.source = Cardinality(Results) /\ ~Touched(r.source)
         [] r.type = "REQUEST_BOUNDARY" ->
                /\ In(Rec("SOURCE_INTENT", r.source))
                /\ ~In(Rec("REQUEST_BOUNDARY", r.source)) /\ r.source \notin Results
         [] r.type = "SOURCE_RESULT" ->
                In(Rec("SOURCE_INTENT", r.source)) /\ r.source \notin Results
         [] r = Commit -> ~In(Commit) /\ Results = Sources
         [] r = Finalize -> Last(file.records) = Commit
         [] OTHER -> FALSE

Goes(p, pc) == proc' = [proc EXCEPT ![p].pc = pc]

\* A call that raised.  A runner gives up its attempt, a caller may go on.
Raises(p) == proc' = [proc EXCEPT ![p].pc = "idle",
                 ![p].token = @ /\ proc[p].mode = "caller"]

Appends(p, r) == proc' = [proc EXCEPT ![p].pc = "lock", ![p].todo = r]

Start(p) ==
    /\ proc[p].pc = "off"
    /\ \E m \in {"runner", "caller"} :
          proc' = [proc EXCEPT ![p] = [Off EXCEPT !.pc = "idle", !.mode = m]]
    /\ UNCHANGED <<file, synced, candidate, lock, requests, damaged>>

\* execute: nothing may have been found and the permit is unused.
Execute(p) ==
    /\ proc[p].pc = "idle" /\ proc[p].mode = "runner"
    /\ file.integrity = "ABSENT" /\ ~proc[p].consumed
    /\ Goes(p, "prepare")
    /\ UNCHANGED <<file, synced, candidate, lock, requests, damaged>>

CallPrepare(p) ==
    /\ proc[p].pc = "idle" /\ proc[p].mode = "caller"
    /\ Goes(p, "prepare")
    /\ UNCHANGED <<file, synced, candidate, lock, requests, damaged>>

Prepare(p) ==
    /\ proc[p].pc = "prepare"
    /\ IF file.integrity = "ABSENT" /\ ~proc[p].unknown
       THEN Appends(p, Plan) ELSE Raises(p)
    /\ UNCHANGED <<file, synced, candidate, lock, requests, damaged>>

\* A fixture caller makes any call, in any order.
Call(p) ==
    /\ proc[p].pc = "idle" /\ proc[p].token
    /\ \E r \in Records : Allowed(r) /\ Appends(p, r)
    /\ UNCHANGED <<file, synced, candidate, lock, requests, damaged>>

-----------------------------------------------------------------------------
(* append.                                                                 *)
Lock(p) ==
    /\ proc[p].pc = "lock"
    /\ IF proc[p].unknown \/ lock # Nobody
       THEN Raises(p) /\ UNCHANGED lock
       ELSE lock' = p /\ Goes(p, "check")
    /\ UNCHANGED <<file, synced, candidate, requests, damaged>>

\* Mutant of Writable: append trusts the caller's order.
WritableAnyway(r) == file.integrity \in {"ABSENT", "VALID"}

\* The journal is read again under the lock, and the candidate as a whole has
\* to be a history.
Writable(r) ==
    /\ file.integrity \in {"ABSENT", "VALID"}
    /\ HistoryValid(Append(file.records, r))

\* A candidate left behind by a dead process fails the call, and is removed.
Check(p) ==
    /\ proc[p].pc = "check"
    /\ IF Writable(proc[p].todo) /\ candidate = <<>>
       THEN /\ candidate' = Append(file.records, proc[p].todo)
            /\ Goes(p, "write") /\ UNCHANGED lock
       ELSE candidate' = <<>> /\ Raises(p) /\ lock' = Nobody
    /\ UNCHANGED <<file, synced, requests, damaged>>

WriteFails(p) ==
    /\ proc[p].pc = "write"
    /\ candidate' = <<>> /\ Raises(p) /\ lock' = Nobody
    /\ UNCHANGED <<file, synced, requests, damaged>>

Replace(p) ==
    /\ proc[p].pc = "write"
    /\ file' = File("VALID", candidate)
    /\ candidate' = <<>> /\ Goes(p, "sync")
    /\ UNCHANGED <<synced, lock, requests, damaged>>

Appended(p) ==
    proc' = [proc EXCEPT ![p].pc = IF proc[p].mode = "runner" THEN "next" ELSE "idle",
                         ![p].token = TRUE, ![p].consumed = TRUE]

\* Mutant of Sync: the directory is not synced.
SyncSkipped(p) ==
    /\ proc[p].pc = "sync"
    /\ Appended(p) /\ lock' = Nobody
    /\ UNCHANGED <<file, synced, candidate, requests, damaged>>

Sync(p) ==
    /\ proc[p].pc = "sync"
    /\ synced' = file
    /\ Appended(p) /\ lock' = Nobody
    /\ UNCHANGED <<file, candidate, requests, damaged>>

\* From now on this process writes nothing.
SyncFails(p) ==
    /\ proc[p].pc = "sync"
    /\ proc' = [proc EXCEPT ![p].pc = "idle", ![p].unknown = TRUE,
                    ![p].token = @ /\ proc[p].mode = "caller"]
    /\ lock' = Nobody
    /\ UNCHANGED <<file, synced, candidate, requests, damaged>>

-----------------------------------------------------------------------------
(* The runner between two appends.                                         *)
NextRecord(r) == IF r = Plan THEN Permit
                 ELSE IF r.type = "SOURCE_INTENT" THEN Rec("REQUEST_BOUNDARY", r.source)
                 ELSE CHOOSE n \in Follows(r) : TRUE

Continue(p) ==
    LET r == proc[p].todo IN
    /\ proc[p].pc = "next"
    /\ \/ /\ r = Finalize \/ r.type = "SOURCE_RESULT"  \* done, or a gap
          /\ Raises(p)
       \/ /\ r.type = "REQUEST_BOUNDARY" /\ Goes(p, "request")
       \/ /\ r # Finalize /\ r.type # "REQUEST_BOUNDARY"
          /\ IF Allowed(NextRecord(r)) THEN Appends(p, NextRecord(r)) ELSE Raises(p)
    /\ UNCHANGED <<file, synced, candidate, lock, requests, damaged>>

\* The observer's one GET; what it raises leaves the outcome unknown.
Request(p) ==
    LET i == proc[p].todo.source IN
    /\ proc[p].pc = "request"
    /\ requests' = [requests EXCEPT ![i] = @ + 1]
    /\ \/ Allowed(Rec("SOURCE_RESULT", i)) /\ Appends(p, Rec("SOURCE_RESULT", i))
       \/ Raises(p)
    /\ UNCHANGED <<file, synced, candidate, lock, damaged>>

-----------------------------------------------------------------------------
(* Faults.                                                                 *)
Crash(p) ==
    /\ proc[p].pc # "off"
    /\ proc' = [proc EXCEPT ![p] = Off]
    /\ lock' = IF lock = p THEN Nobody ELSE lock
    /\ UNCHANGED <<file, synced, candidate, requests, damaged>>

\* A replace that no fsync covered may be undone.
PowerLoss ==
    /\ proc' = [p \in Process |-> Off] /\ lock' = Nobody
    /\ file' \in {file, synced} /\ synced' = file'
    /\ candidate' \in {candidate, <<>>}
    /\ UNCHANGED <<requests, damaged>>

\* The tail of the file is cut off, or something inside it is changed.
Damage ==
    /\ file.integrity = "VALID" /\ damaged' = TRUE
    /\ \/ \E k \in 0..(Len(file.records) - 1) :
             file' = File("TORN_TAIL", SubSeq(file.records, 1, k))
       \/ file' = File("CORRUPT", <<>>)
    /\ synced' = file'
    /\ UNCHANGED <<candidate, lock, proc, requests>>

Step(p) ==
    \/ Start(p) \/ Execute(p) \/ CallPrepare(p) \/ Prepare(p) \/ Call(p)
    \/ Lock(p) \/ Check(p) \/ WriteFails(p) \/ Replace(p) \/ Sync(p) \/ SyncFails(p)
    \/ Continue(p) \/ Request(p) \/ Crash(p)

Next == (\E p \in Process : Step(p)) \/ PowerLoss \/ Damage

Spec == Init /\ [][Next]_vars

-----------------------------------------------------------------------------
(* inspect: what a process reports of the journal, and validate_projection,*)
(* which raises instead when the report contradicts itself.                *)
AttemptState(r) ==
    CASE r \in {Plan, Permit} -> "PREPARED"
      [] r = Intent -> "INTENT_DURABLE"
      [] r = Commit -> "EVIDENCE_COMMITTED"
      [] r = Finalize -> "FINALIZED"
      [] r = Rec("SOURCE_RESULT", NumSources - 1) -> "RESULTS_COMPLETE"
      [] OTHER -> "IN_PROGRESS"

\* Mutant of SourceState: a request that was never answered was never made.
SourceStateForgetting(i) ==
    IF i \in Results THEN "RESULT_DURABLE" ELSE "NOT_ATTEMPTED"

SourceState(i) ==
    IF i \in Results THEN "RESULT_DURABLE"
    ELSE IF Touched(i) THEN "OUTCOME_UNKNOWN" ELSE "NOT_ATTEMPTED"

Inspect(p) ==
    LET rs == file.records
        corrupt == file.integrity \in {"CORRUPT", "TORN_TAIL"}
        unknown == \E i \in Sources : SourceState(i) = "OUTCOME_UNKNOWN"
        final == rs # <<>> /\ Last(rs) = Finalize
        review == proc[p].unknown \/ corrupt \/ unknown \/ file.integrity = "ABSENT"
    IN  [found |-> file.integrity # "ABSENT", integrity |-> file.integrity,
         durability |-> IF proc[p].unknown THEN "DURABILITY_UNKNOWN"
                        ELSE IF file.integrity = "ABSENT" THEN "NOT_FOUND" ELSE "CONFIRMED",
         state |-> IF proc[p].unknown \/ corrupt \/ unknown \/ rs = <<>>
                   THEN "RECONCILIATION_REQUIRED" ELSE AttemptState(Last(rs)),
         count |-> Len(rs), sources |-> [i \in Sources |-> SourceState(i)],
         committed |-> In(Commit), finalized |-> final,
         reconcile |-> review \/ (rs # <<>> /\ ~final),
         review |-> review, investigate |-> proc[p].unknown \/ corrupt]

AllDurable(v) == \A i \in Sources : v.sources[i] = "RESULT_DURABLE"

ProjectionValid(v) ==
    /\ IF v.count = 0 /\ v.integrity = "ABSENT"
       THEN ~v.found /\ v.durability = "NOT_FOUND"
       ELSE v.found /\ v.durability # "NOT_FOUND"
    /\ v.integrity \in {"CORRUPT", "TORN_TAIL"} => v.investigate /\ v.reconcile
    /\ v.durability = "DURABILITY_UNKNOWN" => v.reconcile /\ v.investigate
    /\ (\E i \in Sources : v.sources[i] = "OUTCOME_UNKNOWN") => v.reconcile /\ v.review
    /\ v.finalized => v.committed /\ v.state = "FINALIZED" /\ AllDurable(v)
    /\ v.committed => AllDurable(v)
    /\ v.state # "FINALIZED" => v.reconcile

-----------------------------------------------------------------------------
(* Properties.                                                             *)

\* No source is ever asked twice, whatever dies between two appends and whatever
\* a power loss undoes, and a source that was asked has its request boundary in
\* the durable journal (execute, append).
AskedOnceOnRecord ==
    \A i \in Sources :
        /\ requests[i] <= 1
        /\ requests[i] = 1 /\ ~damaged =>
              Rec("REQUEST_BOUNDARY", i) \in ToSet(synced.records)

\* Two processes that both found no journal, calls in any order and leftovers of
\* dead processes never put a file in place that the grammar refuses.
JournalIsHistory ==
    /\ file.integrity = "VALID" => HistoryValid(file.records)
    /\ synced.integrity = "VALID" => IsPrefix(synced.records, file.records) \/ damaged

\* Whoever inspects a journal that can be read is told of every request that was
\* sent, also by a process that died before its result was durable; and what
\* inspect builds passes its own validator, whatever is in the file.  The one
\* exception is the process whose sync of the last record failed: inspect says
\* finalized without the state, which its validator refuses.
InspectionTellsAll ==
    \A p \in Process :
        LET v == Inspect(p) IN
        /\ file.integrity = "VALID" =>
              \A i \in Sources : requests[i] > 0 => v.sources[i] # "NOT_ATTEMPTED"
        /\ ~(proc[p].unknown /\ v.finalized) => ProjectionValid(v)
=============================================================================
