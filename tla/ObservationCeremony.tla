------------------------- MODULE ObservationCeremony -------------------------
(***************************************************************************)
(* The re-observation ceremony of observation_retention.py: the historical *)
(* evidence, its predicate migration, the plan, the human review and the   *)
(* attempt whose sources are recorded one by one.  Records live behind     *)
(* tokens that any thread of the process may hold and present again; a     *)
(* call resolves its token under the lock, lets the lock go, and takes it  *)
(* again to decide, so that what it resolved may be old by then.           *)
(*                                                                         *)
(* A record identifier is the hash of the record with its predecessor's    *)
(* identifier.  A record of the attempt is therefore named by its chain:   *)
(* the sources recorded so far, in order, each with its state.  The other  *)
(* four records exist once.  A token nobody holds any more vanishes from   *)
(* its weak registry; this is the behaviour in which nobody presents it.   *)
(***************************************************************************)
EXTENDS FiniteSets, Naturals, Sequences, SequencesExt

CONSTANTS
    Caller,   \* threads of the process
    Source,   \* FIXED_SOURCES
    None

VARIABLES
    tokens,     \* the registries: records that were issued
    recorded,   \* migrated_evidence, planned_migrations, reviewed_plans,
                \* attempted_plans: the types that were issued from them
    active,     \* active_attempt_record: the chain of the attempt, or None
    call,       \* per thread: what its call resolved, or None
    answer      \* per thread: what its last call returned, or None

vars == <<tokens, recorded, active, call, answer>>

Results == {"COMPLETED", "FAILED", "INTERRUPTED"}
Step == [source : Source, state : Results]
Record(type, chain) == [type |-> type, chain |-> chain]
Attempt(chain) == Record("ATTEMPT", chain)
Attempts == {r \in tokens : r.type = "ATTEMPT"}

\* What each one-use call is given and what it issues.
IssuedFrom == [MIGRATION |-> "EVIDENCE", PLAN |-> "MIGRATION",
               REVIEW |-> "PLAN", ATTEMPT |-> "REVIEW"]

Init ==
    /\ tokens = {} /\ recorded = {} /\ active = None
    /\ call = [c \in Caller |-> None]
    /\ answer = [c \in Caller |-> None]

-----------------------------------------------------------------------------
(* What an attempt's chain says.                                           *)

SourcesOf(chain) == {step.source : step \in Range(chain)}

Status(chain) ==
    IF chain = <<>> THEN "STARTED"
    ELSE IF Last(chain).state # "COMPLETED" THEN Last(chain).state
    ELSE IF SourcesOf(chain) = Source THEN "COMPLETED" ELSE "PARTIAL"

Terminal(chain) == Status(chain) \in Results

\* project: the fields of a public projection that depend on the record.
Projection(record, superseded) ==
    CASE record.type = "EVIDENCE" ->
            [type |-> "EVIDENCE", linked |-> FALSE, policy |-> "V1", superseded |-> TRUE,
             complete |-> FALSE, semantic |-> "LLMS_SEMANTIC_GAP", generation |-> 0,
             reconcile |-> FALSE]
      [] record.type = "MIGRATION" ->
            [type |-> "MIGRATION", linked |-> TRUE, policy |-> "V2", superseded |-> TRUE,
             complete |-> FALSE, semantic |-> "RE_EVALUATION_PROHIBITED", generation |-> 0,
             reconcile |-> FALSE]
      [] record.type \in {"PLAN", "REVIEW"} ->
            [type |-> record.type, linked |-> TRUE, policy |-> "V2", superseded |-> FALSE,
             complete |-> FALSE, generation |-> 0, reconcile |-> FALSE,
             semantic |-> IF record.type = "PLAN" THEN "MANUAL_EXECUTION_PENDING"
                          ELSE "HUMAN_REVIEW_RECORDED"]
      [] record.type = "ATTEMPT" ->
            [type |-> "ATTEMPT", linked |-> record.chain # <<>>, policy |-> "V2",
             superseded |-> superseded, complete |-> Status(record.chain) = "COMPLETED",
             semantic |-> Status(record.chain), generation |-> Len(record.chain),
             reconcile |-> record.chain # <<>>
                           /\ Last(record.chain).state \in {"FAILED", "INTERRUPTED"}]

\* validate_projection: the state a descriptive record must have.
Expected ==
    [EVIDENCE |-> <<"V1", TRUE, FALSE, "LLMS_SEMANTIC_GAP">>,
     MIGRATION |-> <<"V2", TRUE, FALSE, "RE_EVALUATION_PROHIBITED">>,
     PLAN |-> <<"V2", FALSE, FALSE, "MANUAL_EXECUTION_PENDING">>,
     REVIEW |-> <<"V2", FALSE, FALSE, "HUMAN_REVIEW_RECORDED">>]

\* validate_projection: the codes it returns for what a projection may vary in.
Errors(p) ==
    (IF p.generation \in 0..Cardinality(Source) THEN {} ELSE {"RECORD_GENERATION_INVALID"})
    \cup
    IF p.type = "ATTEMPT"
      THEN IF /\ p.policy = "V2"
              /\ p.semantic \in Results \cup {"STARTED", "PARTIAL"}
              /\ p.complete <=> p.semantic = "COMPLETED"
              /\ p.linked <=> p.generation # 0
              /\ p.semantic = "STARTED" <=> p.generation = 0
              /\ p.reconcile <=> p.semantic \in {"FAILED", "INTERRUPTED"}
             THEN {} ELSE {"ATTEMPT_STATE_CONTRADICTION"}
      ELSE (IF p.reconcile THEN {"ATTEMPT_FIELDS_PROHIBITED"} ELSE {})
           \cup (IF /\ <<p.policy, p.superseded, p.complete, p.semantic>> = Expected[p.type]
                    /\ p.generation = 0
                   THEN {} ELSE {"RECORD_STATE_CONTRADICTION"})
           \cup (IF p.linked <=> p.type # "EVIDENCE"
                   THEN {} ELSE {"PREVIOUS_ID_CONTRADICTION"})

-----------------------------------------------------------------------------
(* Calls.  Historical is one step; the others resolve first.               *)

Historical(c) ==
    /\ call[c] = None
    /\ tokens' = tokens \cup {Record("EVIDENCE", <<>>)}
    /\ UNCHANGED <<recorded, active, call, answer>>

\* resolve, and the checks of the other arguments before the lock is retaken.
Resolves(c, op, type, input) ==
    /\ call[c] = None
    /\ \E record \in tokens :
          /\ record.type = type
          /\ call' = [call EXCEPT ![c] = [op |-> op, record |-> record, input |-> input]]
    /\ answer' = [answer EXCEPT ![c] = None]
    /\ UNCHANGED <<tokens, recorded, active>>

Call(c) ==
    \/ \E issued \in DOMAIN IssuedFrom : Resolves(c, issued, IssuedFrom[issued], None)
    \/ \E step \in Step : Resolves(c, "record_source", "ATTEMPT", step)
    \/ Resolves(c, "commit_result", "ATTEMPT", None)
    \/ \E type \in {"EVIDENCE"} \cup DOMAIN IssuedFrom : Resolves(c, "project", type, None)

Returns(c, value) ==
    /\ call' = [call EXCEPT ![c] = None]
    /\ answer' = [answer EXCEPT ![c] = value]

Calling(c, ops) == call[c] # None /\ call[c].op \in ops

\* Mutant of Issue: nothing remembers that the source record was used.
IssueAgain(c) ==
    /\ Calling(c, DOMAIN IssuedFrom)
    /\ LET type == call[c].op
       IN  /\ recorded' = recorded \cup {type}
           /\ tokens' = tokens \cup {Record(type, <<>>)}
           /\ active' = IF type = "ATTEMPT" THEN <<>> ELSE active
    /\ Returns(c, None)

\* migrate, prepare, review and begin: each source record is used once.
Issue(c) ==
    /\ Calling(c, DOMAIN IssuedFrom)
    /\ LET type == call[c].op
       IN  /\ type \notin recorded
           /\ recorded' = recorded \cup {type}
           /\ tokens' = tokens \cup {Record(type, <<>>)}
           /\ active' = IF type = "ATTEMPT" THEN <<>> ELSE active
    /\ Returns(c, None)

\* Mutant of Continues: whatever has become of the resolved record since.
ContinuesAnything(chain, step) ==
    ~Terminal(chain) /\ step.source \notin SourcesOf(chain)

\* record_source under the lock: the resolved record must still be the active
\* one, and not have ended, and not have the source.
Continues(chain, step) ==
    active = chain /\ ~Terminal(chain) /\ step.source \notin SourcesOf(chain)

RecordSource(c) ==
    /\ Calling(c, {"record_source"})
    /\ LET chain == call[c].record.chain
       IN  /\ Continues(chain, call[c].input)
           /\ active' = Append(chain, call[c].input)
           /\ tokens' = tokens \cup {Attempt(active')}
    /\ Returns(c, None)
    /\ UNCHANGED recorded

\* The exceptions of the calls above: nothing is issued.
Refused(c) ==
    /\ \/ Calling(c, recorded)
       \/ Calling(c, {"record_source"}) /\ ~Continues(call[c].record.chain, call[c].input)
    /\ Returns(c, None)
    /\ UNCHANGED <<tokens, recorded, active>>

\* commit_result asks for a completed attempt and for evidence of the second
\* policy that follows the historical one, and no call issues such evidence.
CommitResult(c) ==
    /\ Calling(c, {"commit_result"})
    /\ Returns(c, [committed |-> /\ Status(call[c].record.chain) = "COMPLETED"
                                 /\ \E r \in tokens : /\ r.type = "EVIDENCE"
                                                      /\ Projection(r, TRUE).policy = "V2"])
    /\ UNCHANGED <<tokens, recorded, active>>

\* Mutant of Project: the comparison the wrong way round.
ProjectTurned(c) ==
    /\ Calling(c, {"project"})
    /\ LET record == call[c].record
           p == Projection(record, active = record.chain)
       IN  Returns(c, [projection |-> p, errors |-> Errors(p)])
    /\ UNCHANGED <<tokens, recorded, active>>

\* project reads under the lock whether the attempt was continued, and
\* validates what it made before it returns it.
Project(c) ==
    /\ Calling(c, {"project"})
    /\ LET record == call[c].record
           p == Projection(record, active # record.chain)
       IN  Returns(c, [projection |-> p, errors |-> Errors(p)])
    /\ UNCHANGED <<tokens, recorded, active>>

Next == \E c \in Caller :
    \/ Historical(c) \/ Call(c)
    \/ Issue(c) \/ RecordSource(c) \/ Refused(c)
    \/ CommitResult(c) \/ Project(c)

Spec == Init /\ [][Next]_vars

-----------------------------------------------------------------------------
(* Properties.                                                             *)

\* The attempt is one line of records, whoever presents which token when:
\* every record issued is a prefix of the active one, no source is recorded
\* twice, and nothing follows a source that failed or was interrupted
\* (begin and record_source).
OneLine ==
    /\ \A r \in Attempts : active # None /\ IsPrefix(r.chain, active)
    /\ active # None =>
         /\ Cardinality(SourcesOf(active)) = Len(active)
         /\ \A i \in 1..Len(active) : i < Len(active) => active[i].state = "COMPLETED"

\* A projection that says the attempt has ended is right for good: it was not
\* superseded when it was made, and the active record still says the same; and
\* no projection project makes is refused by its own validator (project and
\* validate_projection).
ProjectionsHold ==
    \A c \in Caller : answer[c] # None =>
        IF "committed" \in DOMAIN answer[c] THEN ~answer[c].committed
        ELSE /\ answer[c].errors = {}
             /\ answer[c].projection.semantic \in Results =>
                   /\ ~answer[c].projection.superseded
                   /\ Status(active) = answer[c].projection.semantic

==============================================================================
