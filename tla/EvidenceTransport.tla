-------------------------- MODULE EvidenceTransport --------------------------
(***************************************************************************)
(* The evidence transport service, evidence_transport.py: what a page of a *)
(* room may be claimed to show.                                            *)
(*                                                                         *)
(* A snapshot is an object the service remembers, described by its fields, *)
(* of which its acquisition id is a hash: two snapshots with the same      *)
(* fields have the same id and are still two.  Elevating one makes another *)
(* snapshot.  A token says that one snapshot was acquired under review; a  *)
(* proof is issued from it, and dies with it.  The ids that a review found *)
(* complete, or whose loss it confirmed, are fixed when the service is     *)
(* made: they are chosen here when an id first appears.                    *)
(*                                                                         *)
(* Left out: the bounds and grammar of the input, the room and the         *)
(* revision, and the archive, which no production service has.             *)
(***************************************************************************)
EXTENDS Integers, Sequences, FiniteSets

CONSTANTS Responses,    \* acquisitions: records [page, since, export, direct, generation,
                        \* truncated], the page a sequence of record numbers
          MaxSnapshots, \* bound: snapshots of the service
          None

Numbers == UNION {{r.page[i] : i \in DOMAIN r.page} : r \in Responses}

VARIABLES snapshots, \* the snapshots the service remembers
          trusted,   \* the snapshots that have a token
          proofs     \* the proofs: records [of, kind]

vars == <<snapshots, trusted, proofs>>

Kinds == {"COMPLETE_EXPORT", "REVIEWED_RETENTION_LOSS"}

Init == snapshots = <<>> /\ trusted = {} /\ proofs = {}

\* with_identity and remember: the id of a snapshot is all it says, and what
\* the review says of the id is the same for all that have it.
Id(s) == s.says

Remember(says, from) ==
    /\ Len(snapshots) < MaxSnapshots
    /\ \E reviewed \in SUBSET Kinds :
          /\ \A j \in DOMAIN snapshots : Id(snapshots[j]) = says => snapshots[j].reviewed = reviewed
          /\ snapshots' = Append(snapshots, [says |-> says, from |-> from, reviewed |-> reviewed])

\* _parse_jsonl and the request's lower end.
Gap(page, since) ==
    IF page # <<>> /\ since # None /\ page[1] > since + 1 THEN "GAP_UNRESOLVED"
    ELSE IF \E i \in 1 .. Len(page) - 1 : page[i + 1] # page[i] + 1 THEN "HISTORY_GAP"
    ELSE "NO_GAP_OBSERVED"

Acquire ==
    /\ \E r \in Responses :
          Remember([response |-> r, gap |-> Gap(r.page, r.since),
                    completeness |-> IF r.truncated = "yes" THEN "PARTIAL" ELSE "UNKNOWN",
                    retention |-> "RETENTION_FLOOR_UNKNOWN", whole |-> FALSE, known |-> FALSE], 0)
    /\ UNCHANGED <<trusted, proofs>>

\* attest_trusted_acquisition
Attest(i) ==
    /\ trusted' = trusted \cup {i}
    /\ UNCHANGED <<snapshots, proofs>>

\* The token is dropped: what was issued from it no longer counts.
Drop(i) ==
    /\ i \in trusted
    /\ trusted' = trusted \ {i} /\ proofs' = {p \in proofs : p.of # i}
    /\ UNCHANGED snapshots

\* A whole, direct export of a known generation that the review lists.
Exported(i, kind) ==
    LET r == snapshots[i].says.response IN
    r.export /\ r.truncated = "no" /\ r.direct /\ r.generation /\ kind \in snapshots[i].reviewed

\* Mutant of IssueComplete: the gap is not looked at.
IssueCompleteDespiteGap(i) ==
    /\ i \in trusted /\ Exported(i, "COMPLETE_EXPORT")
    /\ proofs' = proofs \cup {[of |-> i, kind |-> "COMPLETE_EXPORT"]}
    /\ UNCHANGED <<snapshots, trusted>>

IssueComplete(i) ==
    /\ i \in trusted /\ Exported(i, "COMPLETE_EXPORT")
    /\ snapshots[i].says.gap = "NO_GAP_OBSERVED"
    /\ proofs' = proofs \cup {[of |-> i, kind |-> "COMPLETE_EXPORT"]}
    /\ UNCHANGED <<snapshots, trusted>>

\* Mutant of IssueRetention: any acquisition under review will do.
IssueRetentionUnlisted(i) ==
    /\ i \in trusted /\ snapshots[i].says.response.export
    /\ proofs' = proofs \cup {[of |-> i, kind |-> "REVIEWED_RETENTION_LOSS"]}
    /\ UNCHANGED <<snapshots, trusted>>

IssueRetention(i) ==
    /\ i \in trusted /\ Exported(i, "REVIEWED_RETENTION_LOSS")
    /\ proofs' = proofs \cup {[of |-> i, kind |-> "REVIEWED_RETENTION_LOSS"]}
    /\ UNCHANGED <<snapshots, trusted>>

\* require_proof: of this very snapshot and this kind.
Proven(i, kind) == [of |-> i, kind |-> kind] \in proofs

\* apply_completeness
ApplyComplete(i) ==
    /\ Proven(i, "COMPLETE_EXPORT")
    /\ Remember([snapshots[i].says EXCEPT !.completeness = "COMPLETE_VERIFIED", !.whole = TRUE,
                     !.known = TRUE, !.retention = "RETENTION_FLOOR_OBSERVED"], i)
    /\ UNCHANGED <<trusted, proofs>>

\* Mutant of ConfirmLoss: the retention floor is not recorded.
ConfirmLossUnobserved(i) ==
    /\ Proven(i, "REVIEWED_RETENTION_LOSS")
    /\ Remember([snapshots[i].says EXCEPT !.gap = "RETENTION_LOSS_CONFIRMED", !.known = TRUE], i)
    /\ UNCHANGED <<trusted, proofs>>

\* confirm_retention_loss
ConfirmLoss(i) ==
    /\ Proven(i, "REVIEWED_RETENTION_LOSS")
    /\ Remember([snapshots[i].says EXCEPT !.gap = "RETENTION_LOSS_CONFIRMED", !.known = TRUE,
                     !.retention = "RETENTION_FLOOR_OBSERVED"], i)
    /\ UNCHANGED <<trusted, proofs>>

Next ==
    \/ Acquire
    \/ \E i \in DOMAIN snapshots :
          \/ Attest(i) \/ Drop(i) \/ IssueComplete(i) \/ IssueRetention(i)
          \/ ApplyComplete(i) \/ ConfirmLoss(i)

Spec == Init /\ [][Next]_vars

-----------------------------------------------------------------------------
\* search: what a snapshot says of the record with number q.  A loss that was
\* confirmed after the snapshot was found complete changes nothing here.
Unresolved == {"HISTORY_GAP", "GAP_UNRESOLVED"}

Finding(s, q) ==
    IF \E n \in DOMAIN s.response.page : s.response.page[n] = q THEN "FOUND"
    ELSE CASE s.gap \in Unresolved -> "GAP_UNRESOLVED"
           [] s.gap \notin Unresolved /\ s.completeness = "COMPLETE_VERIFIED" ->
                  "NOT_FOUND_CONFIRMED"
           [] OTHER -> "NOT_IN_VISIBLE_PAGE"

\* validate_evidence_projection, of a snapshot's projection; the order of its
\* numbers is the sender's.
Valid(s) ==
    /\ s.whole = (s.completeness = "COMPLETE_VERIFIED")
    /\ s.completeness = "COMPLETE_VERIFIED" => s.response.export
    /\ s.gap = "RETENTION_LOSS_CONFIRMED" =>
           s.known /\ s.retention = "RETENTION_FLOOR_OBSERVED"

\* A record's absence is confirmed by a snapshot made from an unbroken, whole
\* and direct export that was itself acquired under review, token, list and all:
\* neither a twin with the same fields nor an elevation lends that standing.  It
\* outlives one thing only, a retention loss confirmed for a snapshot that had
\* confirmed the absence already (search, apply_completeness).
AbsenceIsReviewed ==
    \A i \in DOMAIN snapshots, q \in Numbers :
        Finding(snapshots[i].says, q) = "NOT_FOUND_CONFIRMED" =>
            \E j \in 1 .. i - 1 :
                /\ snapshots[i].from = j
                /\ \/ /\ Exported(j, "COMPLETE_EXPORT")
                      /\ snapshots[j].says.gap = "NO_GAP_OBSERVED"
                   \/ /\ snapshots[i].says.gap = "RETENTION_LOSS_CONFIRMED"
                      /\ Finding(snapshots[j].says, q) = "NOT_FOUND_CONFIRMED"

\* A loss is confirmed by a snapshot made from a whole and direct export whose
\* loss the review lists, whatever was seen or found complete before
\* (issue_retention_evidence, confirm_retention_loss).
LossIsReviewed ==
    \A i \in DOMAIN snapshots :
        snapshots[i].says.gap = "RETENTION_LOSS_CONFIRMED" =>
            \E j \in 1 .. i - 1 :
                snapshots[i].from = j /\ Exported(j, "REVIEWED_RETENTION_LOSS")

\* Whatever was elevated, and in whatever order, no snapshot claims what the
\* project's own validator calls a contradiction.
ProjectionsAreValid == \A i \in DOMAIN snapshots : Valid(snapshots[i].says)
=============================================================================
