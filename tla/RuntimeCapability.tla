-------------------------- MODULE RuntimeCapability --------------------------
(***************************************************************************)
(* The testnet readiness model, src/flop_agent/runtime_capability.py: the  *)
(* assessor judges every capability of the reviewed catalogue by the       *)
(* newest observation it was given and publishes a manifest; the validator *)
(* reads such a manifest later, after time has passed and after other      *)
(* tools or people may have relabelled it, and recomputes what it can from *)
(* its rows.  Hashes, names and the public projection of an observation    *)
(* are left out; an optional time is a set of at most one time.            *)
(***************************************************************************)
EXTENDS Naturals, Sequences, FiniteSets, SequencesExt

CONSTANTS
    Catalogs,    \* catalogues a release may ship: sets of capabilities
    Fixtures,    \* what may be observed: [cap, at, response, network]
    Values,      \* runtime values an edited manifest may carry
    Asked,       \* bound: the actions a manifest is asked for
    TTL,         \* DEFAULT_OBSERVATION_TTL, in ticks
    MaxTime,     \* bound: the last tick
    MaxTokens,   \* bound: observations issued, and given to the assessor
    None

VARIABLES
    catalog,     \* the definitions the service captured
    now,
    issued,      \* observations the sealed verifier issued to this process
    manifest,    \* the manifest last published
    edited,      \* it was changed after it was published
    verdict      \* the validator's last answer and when it was given

vars == <<catalog, now, issued, manifest, edited, verdict>>

Domain == {"IDENTITY", "TECHNOCORE", "EXPORT_EVIDENCE", "FAUCET",
           "TESTNET_NETWORK", "INFERENCE", "SETTLEMENT_RAIL",
           "EVIDENCE_DURABILITY", "DELEGATION_VERIFICATION",
           "TOOL_OUTPUT_BUDGET", "REPLAY_SAFETY", "ACTIVITY_QUALITY",
           "PROTOCOL_MODEL", "RUNTIME_DRIFT"}

RequiredDomains == {"IDENTITY", "TECHNOCORE", "EXPORT_EVIDENCE", "FAUCET",
                    "TESTNET_NETWORK", "INFERENCE", "SETTLEMENT_RAIL",
                    "EVIDENCE_DURABILITY"}

Dependencies ==
    [GENERAL_TESTNET   |-> RequiredDomains \union {"REPLAY_SAFETY"},
     FAUCET_CLAIM      |-> {"IDENTITY", "TECHNOCORE", "FAUCET",
                            "TESTNET_NETWORK", "EVIDENCE_DURABILITY",
                            "REPLAY_SAFETY"},
     INFERENCE_REQUEST |-> {"IDENTITY", "TESTNET_NETWORK", "INFERENCE",
                            "EVIDENCE_DURABILITY"},
     SETTLEMENT        |-> {"IDENTITY", "SETTLEMENT_RAIL",
                            "EVIDENCE_DURABILITY", "REPLAY_SAFETY"}]

Age(at, t) == IF at <= t THEN t - at ELSE 0
Fresh(at, t) == at <= t /\ Age(at, t) <= TTL

---------------------------------------------------------------------------
(* The assessor. *)

\* The loop over the observations: the newest of a capability counts, and
\* of several with one time the first.
Deciding(observations, c) ==
    {i \in DOMAIN observations :
        /\ observations[i].cap = c.id
        /\ \A j \in DOMAIN observations : observations[j].cap = c.id =>
               \/ observations[j].at < observations[i].at
               \/ observations[j].at = observations[i].at /\ i <= j}

RuntimeStatus(c, seen, t) ==
    CASE ~c.runtime -> "NOT_REQUIRED"
      [] c.runtime /\ seen = {} -> "RUNTIME_NOT_OBSERVED"
      [] c.runtime /\ \E o \in seen : ~Fresh(o.at, t) ->
             "STALE_RUNTIME_OBSERVATION"
      [] c.runtime /\ \E o \in seen : /\ Fresh(o.at, t)
                                      /\ o.response = "UNAVAILABLE" ->
             IF c.documented = "DOCUMENTED_ONLY"
             THEN "CONFLICTING_CAPABILITY_EVIDENCE" ELSE "RUNTIME_UNAVAILABLE"
      [] c.runtime /\ \E o \in seen : /\ Fresh(o.at, t)
                                      /\ o.response = "AVAILABLE"
                                      /\ c.domain = "TESTNET_NETWORK"
                                      /\ o.network # c.network ->
             "CONFLICTING_CAPABILITY_EVIDENCE"
      [] OTHER -> "RUNTIME_OBSERVED"

RuntimeBlockers(c, status) ==
    IF status \in {"NOT_REQUIRED", "RUNTIME_OBSERVED"} THEN {} ELSE {status}

Blockers(c, status) ==
    c.blockers \union RuntimeBlockers(c, status)
               \union {b \in {"IMPLEMENTATION_REQUIRED"} :
                           c.implemented = "NOT_IMPLEMENTED"}

RowOf(c, observations, action, t) ==
    LET seen == {observations[i] : i \in Deciding(observations, c)}
        status == RuntimeStatus(c, seen, t)
        required == c.domain \in Dependencies[action]
    IN [id |-> c.id, domain |-> c.domain, implemented |-> c.implemented,
        documented |-> c.documented, runtime |-> status,
        observed |-> {o.at : o \in {s \in seen : c.runtime}},
        blockers |-> Blockers(c, status), required |-> required,
        ready |-> required /\ Blockers(c, status) = {},
        ledger |-> c.ledger, journal |-> c.journal]

ConfigOk(action) ==
    /\ RequiredDomains \subseteq {c.domain : c \in {d \in catalog : d.critical}}
    /\ Dependencies[action] \subseteq {c.domain : c \in catalog}

Overall(action, rows) ==
    LET required == {r \in rows : r.required}
        Some(statuses) == \E r \in required : r.runtime \in statuses
    IN CASE ~ConfigOk(action) -> "INVALID_CONFIGURATION"
         [] ConfigOk(action) /\ Some({"STALE_RUNTIME_OBSERVATION",
                                      "CONFLICTING_CAPABILITY_EVIDENCE",
                                      "RUNTIME_UNAVAILABLE"}) -> "BLOCKED"
         [] ConfigOk(action) /\ ~Some({"STALE_RUNTIME_OBSERVATION",
                                       "CONFLICTING_CAPABILITY_EVIDENCE",
                                       "RUNTIME_UNAVAILABLE"})
                             /\ Some({"RUNTIME_NOT_OBSERVED"}) ->
                "OBSERVATION_REQUIRED"
         [] OTHER -> IF \A r \in required : r.ready
                     THEN "ACTION_READY" ELSE "HUMAN_REVIEW_REQUIRED"

NotObserved == [status |-> "NOT_OBSERVED", documented |-> {}, observed |-> {},
                at |-> {}, fresh |-> "NOT_OBSERVED", ready |-> FALSE]

ManifestOf(observations, action, t) ==
    LET rows == {RowOf(c, observations, action, t) : c \in catalog}
        overall == Overall(action, rows)
    IN [action |-> action, overall |-> overall,
        ready |-> overall = "ACTION_READY",
        blockers |-> UNION {r.blockers : r \in {s \in rows : s.required}},
        rows |-> rows, value |-> NotObserved, given |-> observations]

---------------------------------------------------------------------------
(* The validator. *)

\* What it asks of one required row of a manifest that claims readiness.
ChildErrors(r, c, t) ==
    {e \in {"NOT_READY", "IMPLEMENTATION", "DOCUMENTATION", "NOT_ACTIONABLE",
            "EVIDENCE", "FUTURE", "STALE"} :
        \/ e = "NOT_READY" /\ (~r.ready \/ r.blockers # {})
        \/ e = "IMPLEMENTATION" /\ r.implemented # "IMPLEMENTED_OFFLINE"
        \/ e = "DOCUMENTATION" /\ r.documented # "DOCUMENTED_ONLY"
        \/ e = "NOT_ACTIONABLE" /\ r.runtime # IF c.runtime
                                   THEN "RUNTIME_OBSERVED" ELSE "NOT_REQUIRED"
        \/ e = "EVIDENCE" /\ c.runtime /\ r.observed = {}
        \/ e = "FUTURE" /\ c.runtime /\ \E at \in r.observed : at > t
        \/ e = "STALE" /\ c.runtime /\ \E at \in r.observed : Age(at, t) > TTL}

\* Mutant of ReadyErrors: a row is believed when it says that it is ready.
ReadyErrorsUndated(m, t) ==
    {"ACTION_STATE" : x \in {y \in {1} : ~m.ready \/ m.blockers # {}}}
        \union {"NOT_READY" : r \in {s \in m.rows : s.required /\ ~s.ready}}

ReadyErrors(m, t) ==
    {"ACTION_STATE" : x \in {y \in {1} : ~m.ready \/ m.blockers # {}}}
        \union (UNION {ChildErrors(p[1], p[2], t) :
                          p \in {q \in m.rows \X catalog :
                                    q[1].required /\ q[1].id = q[2].id}})
        \union {"REPLAY" : r \in {s \in m.rows :
                   /\ s.domain = "REPLAY_SAFETY" /\ s.required
                   /\ s.ledger # {"IMPLEMENTED", "CORE", "IPC"}
                      \/ s.journal # {"IMPLEMENTED", "CORE", "IPC",
                                      "CONFIRM", "RECONCILE"}}}

\* The flags of a replay row must be derived as the release derives them.
DerivationErrors(m) ==
    {"DERIVATION" : r \in {s \in m.rows :
        /\ s.domain = "REPLAY_SAFETY"
        /\ \/ ("IMPLEMENTED" \in s.ledger) # ({"CORE", "IPC"} \subseteq s.ledger)
           \/ ("IMPLEMENTED" \in s.journal)
                 # ({"CORE", "IPC", "CONFIRM", "RECONCILE"} \subseteq s.journal)}}

StructureErrors(m) ==
    {"DOMAIN_MISSING" : d \in Domain \ {r.domain : r \in m.rows}}
        \union {"LABEL" : r \in {s \in m.rows :
                   s.required # (s.domain \in Dependencies[m.action])}}

Observed == {"RUNTIME_OBSERVED_VALUE", "STALE_RUNTIME_VALUE",
             "CONFLICTING_VALUE"}

\* Mutant of ValueErrors: a value's age is not recomputed.
ValueErrorsUndated(v, t) ==
    {e \in {"UNMARKED", "UNSAFE"} :
        \/ e = "UNMARKED" /\ v.documented # {} /\ v.observed # {}
              /\ v.documented # v.observed /\ v.status # "CONFLICTING_VALUE"
        \/ e = "UNSAFE" /\ v.status # "RUNTIME_OBSERVED_VALUE" /\ v.ready}

\* The checks of one runtime value: its status, its age and its label agree.
ValueErrors(v, t) ==
    {e \in {"UNMARKED", "UNSAFE", "HAS_EVIDENCE", "UNOBSERVED_LABEL",
            "CONFLICT_EVIDENCE", "INCOMPLETE", "TIMESTAMP", "FUTURE",
            "STALE_UNMARKED", "STALE_MISMATCH", "LABEL"} :
        \/ e = "UNMARKED" /\ v.documented # {} /\ v.observed # {}
              /\ v.documented # v.observed /\ v.status # "CONFLICTING_VALUE"
        \/ e = "UNSAFE" /\ v.status # "RUNTIME_OBSERVED_VALUE" /\ v.ready
        \/ /\ v.status \in {"NOT_OBSERVED", "DOCUMENTED_ONLY"}
           /\ \/ e = "HAS_EVIDENCE" /\ v.observed \union v.at # {}
              \/ e = "UNOBSERVED_LABEL" /\ v.fresh # "NOT_OBSERVED"
        \/ /\ v.status = "CONFLICTING_VALUE"
           /\ e = "CONFLICT_EVIDENCE"
           /\ v.documented = v.observed \/ {} \in {v.documented, v.observed, v.at}
        \/ /\ v.status = "RUNTIME_OBSERVED_VALUE"
           /\ e = "INCOMPLETE" /\ {} \in {v.observed, v.at}
        \/ /\ v.status \in Observed
           /\ \/ e = "TIMESTAMP" /\ v.at = {}
              \/ e = "FUTURE" /\ \E at \in v.at : at > t
              \/ e = "STALE_UNMARKED" /\ v.status # "STALE_RUNTIME_VALUE"
                    /\ \E at \in v.at : Age(at, t) > TTL
              \/ e = "STALE_MISMATCH" /\ v.status = "STALE_RUNTIME_VALUE"
                    /\ \E at \in v.at : Age(at, t) <= TTL
              \/ e = "LABEL" /\ \E at \in v.at : at <= t
                    /\ v.fresh # IF Age(at, t) > TTL THEN "STALE" ELSE "FRESH"}

Errors(m, t) ==
    StructureErrors(m) \union DerivationErrors(m) \union ValueErrors(m.value, t)
        \union UNION {ReadyErrors(m, t) :
                         x \in {y \in {1} : m.overall = "ACTION_READY"}}

---------------------------------------------------------------------------
Init ==
    /\ catalog \in Catalogs
    /\ now = 0
    /\ issued = {}
    /\ manifest = None
    /\ edited = FALSE
    /\ verdict = None

\* reviewed_runtime_observation: a reviewed fixture becomes an observation
\* (bounded: before the first manifest, which later observations leave alone).
Issue ==
    \E f \in Fixtures \ issued :
        /\ manifest = None
        /\ Cardinality(issued) < MaxTokens
        /\ issued' = issued \union {f}
        /\ UNCHANGED <<catalog, now, manifest, edited, verdict>>

\* capability_manifest: the caller passes its observations in any order
\* (bounded: once, as an assessment leaves nothing behind for the next).
Assess ==
    /\ manifest = None
    /\ \E action \in Asked : \E given \in SetToSeqs(issued) :
           manifest' = ManifestOf(given, action, now)
    /\ UNCHANGED <<catalog, now, issued, edited, verdict>>

\* The manifest is plain JSON: its summary may be rewritten.
Relabel ==
    /\ manifest # None
    /\ ~edited
    /\ manifest' = [manifest EXCEPT !.overall = "ACTION_READY", !.ready = TRUE,
                                    !.blockers = {}]
    /\ edited' = TRUE
    /\ verdict' = None
    /\ UNCHANGED <<catalog, now, issued>>

\* A runtime value is filled in (bounded: in manifests without observations).
Annotate ==
    /\ manifest # None
    /\ ~edited
    /\ manifest.given = <<>>
    /\ \E v \in Values : manifest' = [manifest EXCEPT !.value = v]
    /\ edited' = TRUE
    /\ verdict' = None
    /\ UNCHANGED <<catalog, now, issued>>

\* validate_capability_manifest
Validate ==
    /\ manifest # None
    /\ verdict' = [accepted |-> Errors(manifest, now) = {}, at |-> now]
    /\ UNCHANGED <<catalog, now, issued, manifest, edited>>

Tick ==
    /\ now < MaxTime
    /\ now' = now + 1
    /\ UNCHANGED <<catalog, issued, manifest, edited, verdict>>

Next == Issue \/ Assess \/ Relabel \/ Annotate \/ Validate \/ Tick

Spec == Init /\ [][Next]_vars

---------------------------------------------------------------------------
Accepted == verdict # None /\ verdict.accepted

\* A manifest that passes the validator as ready to act, whoever wrote its
\* summary and however late it is read, rests on rows that are: every
\* capability the action needs is free of blockers, and where the runtime
\* must be observed the newest observation the assessor was given says
\* AVAILABLE, names the documented network and is within the TTL when the
\* manifest is read (docs/TESTNET_READINESS_RUNTIME_CAPABILITY.md).
AcceptedIsReady ==
    (Accepted /\ manifest.overall = "ACTION_READY") =>
        \A c \in catalog : c.domain \in Dependencies[manifest.action] =>
            /\ c.blockers = {}
            /\ c.domain = "REPLAY_SAFETY" => "IMPLEMENTED" \in c.journal
            /\ c.runtime => \E o \in ToSet(manifest.given) :
                   /\ o.cap = c.id
                   /\ o.response = "AVAILABLE"
                   /\ Fresh(o.at, verdict.at)
                   /\ c.domain = "TESTNET_NETWORK" => o.network = c.network
                   /\ \A p \in ToSet(manifest.given) :
                          p.cap = c.id => p.at <= o.at

\* A runtime value that passes the validator as ready is one that was
\* observed within the TTL and does not contradict the documented value.
ReadyValuesAreFresh ==
    (Accepted /\ manifest.value.ready) =>
        /\ \E at \in manifest.value.at : Fresh(at, verdict.at)
        /\ manifest.value.observed # {}
        /\ manifest.value.documented \in {{}, manifest.value.observed}
===========================================================================
