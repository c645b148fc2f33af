-------------------------- MODULE EvidenceAuthority --------------------------
(***************************************************************************)
(* The sealed authority of wire evidence, evidence_authority.py, and the   *)
(* descriptive policies of wire_evidence.py it repeats for itself.         *)
(*                                                                         *)
(* The service gives out opaque tokens; each is a key of a private record  *)
(* and two tokens with the same record are good for the same things, so a  *)
(* registry is the set of its records.  A hash or a canonical encoding is  *)
(* the value it is made from; a signature is whether it verifies.          *)
(*                                                                         *)
(* Left out: revisions, clocks, the grammar of identifiers, and a token's  *)
(* end, after which its record can only be used less.                      *)
(***************************************************************************)
EXTENDS Integers, Sequences, FiniteSets

CONSTANTS Exports,      \* raw exports: sequences of lines
          Policy,       \* the reviewed acquisitions: records with a member raw
          Proposals,    \* offers a caller may present
          Acceptances,  \* acceptances a caller may present
          Observations, \* rail observations
          RailProofs,   \* the reviewed rail proofs, each of one observation
          Readbacks,    \* the reviewed read-backs, each of one observation
          Histories,    \* sequences of read-back events a caller may present
          None

VARIABLES acquired,   \* acquisitions_issued
          complete,   \* completeness_issued
          agreements, \* agreements_issued
          finality,   \* finality_issued
          readbacks,  \* readbacks_issued
          bundle      \* what the bundle issued last is made of

vars == <<acquired, complete, agreements, finality, readbacks, bundle>>

NoBundle == [complete |-> None, agreement |-> None, finality |-> None, readback |-> None]

Init ==
    /\ acquired = {} /\ complete = {} /\ agreements = {}
    /\ finality = {} /\ readbacks = {} /\ bundle = NoBundle

-----------------------------------------------------------------------------
(* Exports.  A line is a record [decodes, text, seq, generation, time]: it  *)
(* is a JSON object; its number is a string; the number, negative when it   *)
(* is not one; its generation or None; its time is valid.                   *)

\* The lines that count, told by their positions: those with a number.
Numbered(line) == line.decodes /\ line.seq >= 0

\* a and b are members of S, and no member is between them.
Adjacent(S, a, b) == a \in S /\ b \in S /\ a < b /\ \A k \in S : k <= a \/ b <= k

Repeats(raw, at) == \E i, j \in at : i < j /\ raw[i].seq = raw[j].seq

Reversed(raw, at) == \E i, j \in at : Adjacent(at, i, j) /\ raw[j].seq < raw[i].seq

Generations(raw, at) == {raw[i].generation : i \in at} \ {None}

Mixed(raw, at, generation) ==
    \/ Cardinality(Generations(raw, at)) > 1
    \/ generation # None /\ Generations(raw, at) \notin {{}, {generation}}

When(condition, issue) == IF condition THEN {issue} ELSE {}

LineIssues(raw, at) ==
         When(\E i \in DOMAIN raw : ~raw[i].decodes, "DECODE_INVALID")
    \cup When(\E i \in DOMAIN raw \ at : raw[i].decodes, "SEQ_INVALID")
    \cup When(\E i \in at : ~raw[i].time, "TIME_INVALID")

\* assess_export: a number may be an integer or a string, and a gap is one of
\* the sorted numbers.
Public(raw, generation) ==
    LET at == {i \in DOMAIN raw : Numbered(raw[i])}
        numbers == {raw[i].seq : i \in at}
    IN [at |-> at,
        issues |-> LineIssues(raw, at)
              \cup When(Repeats(raw, at), "DUPLICATE_SEQUENCE")
              \cup When(Reversed(raw, at), "SEQUENCE_REVERSAL")
              \cup When(\E m, n \in numbers : Adjacent(numbers, m, n) /\ n - m > 1, "SEQUENCE_GAP")
              \cup When(Mixed(raw, at, generation), "GENERATION_INCONSISTENT")]

\* Mutant of Sealed: neighbours are not compared.
SealedWithoutGaps(raw, generation) ==
    LET at == {i \in DOMAIN raw : Numbered(raw[i]) /\ raw[i].text}
    IN [at |-> at,
        issues |-> LineIssues(raw, at)
              \cup When(Repeats(raw, at), "DUPLICATE_SEQUENCE")
              \cup When(Mixed(raw, at, generation), "GENERATION_INCONSISTENT")]

\* The authority's own assessor: a number must be a string, and a gap is one
\* between neighbouring lines.
Sealed(raw, generation) ==
    LET at == {i \in DOMAIN raw : Numbered(raw[i]) /\ raw[i].text}
    IN [at |-> at,
        issues |-> LineIssues(raw, at)
              \cup When(Repeats(raw, at), "DUPLICATE_SEQUENCE")
              \cup When(Reversed(raw, at), "SEQUENCE_REVERSAL")
              \cup When(\E i, j \in at : Adjacent(at, i, j) /\ raw[j].seq - raw[i].seq > 1,
                        "SEQUENCE_GAP")
              \cup When(Mixed(raw, at, generation), "GENERATION_INCONSISTENT")]

\* structure_status: a gap alone leaves the structure valid.
Structure(issues) ==
    IF issues \subseteq {"SEQUENCE_GAP"} THEN "TRANSCRIPT_STRUCT_VALID" ELSE "TRANSCRIPT_INVALID"

\* acquire: only what the policy lists, byte for byte.
Acquire(p) ==
    /\ \E raw \in Exports : raw = p.raw
    /\ acquired' = acquired \cup {p}
    /\ UNCHANGED <<complete, agreements, finality, readbacks, bundle>>

\* completeness
Complete(p) ==
    LET report == Sealed(p.raw, p.generation)
        at == report.at
    IN
    /\ p \in acquired
    /\ p.allowed /\ ~p.truncated
    /\ p.started <= p.at /\ p.at <= p.ended
    /\ report.issues = {} /\ Structure(report.issues) = "TRANSCRIPT_STRUCT_VALID"
    /\ Cardinality(at) = p.count
    /\ at = {} => p.first = None /\ p.last = None
    /\ \A i \in at : (\A k \in at : i <= k) => p.first = p.raw[i].seq
    /\ \A i \in at : (\A k \in at : k <= i) => p.last = p.raw[i].seq
    /\ p.generation # None
    /\ complete' = complete \cup {p}
    /\ UNCHANGED <<acquired, agreements, finality, readbacks, bundle>>

-----------------------------------------------------------------------------
(* Agreements.  A proposal is a record [protocol, proposer, counterparty,   *)
(* locked, rail, reference, signed, own], its last members whether its      *)
(* signature verifies and whether its offer_id is its own.  An acceptance   *)
(* is [protocol, accepter, proposer, offer, statement, signed, own].        *)

Aliases == [paper |-> "PAPER", btc |-> "BITCOIN", bitcoin |-> "BITCOIN", ln |-> "LIGHTNING"]

\* canonicalize_rail: an alias nobody reviewed is refused.
Canonical(rail) == IF rail \in DOMAIN Aliases THEN Aliases[rail] ELSE "UNREVIEWED"

\* The proposal can be encoded, and what the encoding and its id keep of it.
Encodes(p) == p.proposer # p.counterparty /\ Canonical(p.rail) # "UNREVIEWED"

OfferId(p) ==
    <<p.protocol, p.proposer, p.counterparty, p.locked, Canonical(p.rail), p.reference, p.signed>>

AcceptanceEncodes(a) == a.accepter # a.proposer /\ a.statement \in {"ACCEPT", "REJECT"}

AgreementId(a) == <<a.offer, a.protocol, a.accepter, a.proposer, a.statement, a.signed>>

\* verify_tclk_alpha_agreement: the statuses of the descriptive report.
Report(p, a) ==
    [signatures   |-> Encodes(p) /\ p.signed /\ AcceptanceEncodes(a) /\ a.signed,
     ids          |-> Encodes(p) /\ p.own /\ AcceptanceEncodes(a) /\ a.own,
     counterparty |-> /\ p.proposer # p.counterparty
                      /\ a.accepter = p.counterparty /\ a.proposer = p.proposer
                      /\ a.offer = (IF p.own THEN OfferId(p) ELSE None)
                      /\ a.protocol = p.protocol,
     semantics    |-> p.locked /\ a.statement = "ACCEPT"]

\* agreement: the stages of _AGREEMENT_TRANSITIONS, in their order.
OfferVerified(p) == Encodes(p) /\ p.signed /\ p.own /\ p.locked

\* Mutant of AcceptanceVerified: who the acceptance names is not compared.
AcceptanceVerifiedOfAnyone(p, a) ==
    /\ AcceptanceEncodes(a) /\ a.signed /\ a.own
    /\ a.offer = OfferId(p) /\ a.protocol = p.protocol /\ a.statement = "ACCEPT"

AcceptanceVerified(p, a) ==
    /\ AcceptanceEncodes(a) /\ a.signed /\ a.own
    /\ a.offer = OfferId(p)
    /\ a.accepter = p.counterparty /\ a.proposer = p.proposer /\ a.protocol = p.protocol
    /\ a.statement = "ACCEPT"

Agree(p, a) ==
    /\ OfferVerified(p) /\ AcceptanceVerified(p, a)
    /\ agreements' = agreements \cup {[id |-> AgreementId(a), rail |-> Canonical(p.rail),
                                       reference |-> p.reference, offer |-> p]}
    /\ UNCHANGED <<acquired, complete, finality, readbacks, bundle>>

-----------------------------------------------------------------------------
(* Rails and read-backs.  An observation is [rail, reference, terminal];    *)
(* a proof adds what it proves.                                             *)

\* rail: the agreement's rail and reference, and a reviewed proof of exactly
\* this observation.
Settles(agreement, o) ==
    /\ Canonical(o.rail) # "PAPER"
    /\ agreement.rail = Canonical(o.rail) /\ agreement.reference = o.reference
    /\ \E proof \in RailProofs :
          /\ proof.of = o
          /\ proof.rail = Canonical(o.rail) /\ proof.reference = o.reference
          /\ proof.terminal = o.terminal
          /\ proof.valid /\ proof.final /\ proof.crypto

Artifact(agreement, o) == <<agreement.id, Canonical(o.rail), o.reference, o.terminal, o>>

Finalize(agreement, o) ==
    /\ Settles(agreement, o)
    /\ finality' = finality \cup {[agreement |-> agreement.id, rail |-> Canonical(o.rail),
                                   reference |-> o.reference, of |-> o,
                                   artifact |-> Artifact(agreement, o)]}
    /\ UNCHANGED <<acquired, complete, agreements, readbacks, bundle>>

\* The stages after NOT_STARTED, and the events that lead to them; the public
\* advance_readback also has a detour through attempt_recorded.
Stages == <<"write_accepted", "read_back_observed", "decode_valid", "signature_valid",
            "state_replay_valid", "evidence_confirmed">>

ReadBack(f, artifact, events) ==
    /\ events = Stages
    /\ artifact = f.artifact
    /\ \E r \in Readbacks :
          r.of = f.of /\ r.rail = f.rail /\ r.reference = f.reference /\ r.events = events
    /\ readbacks' = readbacks \cup {[artifact |-> f.artifact, agreement |-> f.agreement,
                                     rail |-> f.rail, reference |-> f.reference]}
    /\ UNCHANGED <<acquired, complete, agreements, finality, bundle>>

-----------------------------------------------------------------------------
(* Bundles.                                                                 *)

\* Mutant of Fits: each part is only known to be issued here.
FitsAnything(c, a, f, r) == r # None => f # None

Fits(c, a, f, r) ==
    /\ f # None => a # None /\ f.agreement = a.id
    /\ r # None => /\ f # None /\ r.artifact = f.artifact /\ r.agreement = f.agreement
                   /\ r.rail = f.rail /\ r.reference = f.reference

\* issue_bundle
Issue ==
    \E c \in complete \cup {None}, a \in agreements \cup {None},
       f \in finality \cup {None}, r \in readbacks \cup {None} :
        /\ Fits(c, a, f, r)
        /\ bundle' = [complete |-> c, agreement |-> a, finality |-> f, readback |-> r]
        /\ UNCHANGED <<acquired, complete, agreements, finality, readbacks>>

Next ==
    \/ \E p \in Policy : Acquire(p) \/ Complete(p)
    \/ \E p \in Proposals, a \in Acceptances : Agree(p, a)
    \/ \E agreement \in agreements, o \in Observations : Finalize(agreement, o)
    \/ \E f \in finality, artifact \in {g.artifact : g \in finality}, events \in Histories :
          ReadBack(f, artifact, events)
    \/ Issue

Spec == Init /\ [][Next]_vars

-----------------------------------------------------------------------------
\* A complete transcript is a run of consecutive numbers of one generation,
\* from the first number its review expected to the last.
CompleteMeansWhole ==
    \A p \in complete :
        /\ p.raw # <<>> => p.last - p.first + 1 = Len(p.raw)
        /\ \A i \in DOMAIN p.raw :
              p.raw[i].seq = p.first + i - 1 /\ p.raw[i].generation \in {p.generation, None}

\* The descriptive report and the authority, which check an agreement in two
\* pieces of code, never differ on whether all of it holds; nor do the two
\* assessors on an export both can read.
ReportsMatch ==
    /\ \A p \in Proposals, a \in Acceptances :
          (\A status \in DOMAIN Report(p, a) : Report(p, a)[status])
              <=> OfferVerified(p) /\ AcceptanceVerified(p, a)
    /\ \A p \in acquired :
          (\A i \in DOMAIN p.raw : p.raw[i].text) =>
              LET sealed == Sealed(p.raw, p.generation).issues
                  public == Public(p.raw, p.generation).issues
              IN /\ (sealed = {}) = (public = {})
                 /\ Structure(sealed) = Structure(public)

\* Whatever tokens a caller combines, a bundle that claims finality shows the
\* agreement it settles, signed for that rail and reference; one that claims a
\* read-back, the settlement that was read back.
BundlesHangTogether ==
    LET a == bundle.agreement
        f == bundle.finality
        r == bundle.readback
    IN /\ f # None => /\ a # None
                      /\ f.agreement = a.id /\ f.of.reference = a.offer.reference
                      /\ Canonical(f.of.rail) = Canonical(a.offer.rail)
                      /\ Canonical(f.of.rail) # "PAPER"
       /\ r # None => f # None /\ r.artifact[5] = f.of /\ r.agreement = a.id
=============================================================================
