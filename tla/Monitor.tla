------------------------------- MODULE Monitor -------------------------------
(***************************************************************************)
(* The readiness monitor, src/flop_agent/monitor.py: one run reads the     *)
(* reviewed endpoints and specifications one after the other, gives every  *)
(* answer a status, folds the statuses into one and ends in an exit code.  *)
(* What an endpoint holds is one of the few contents the evaluators tell   *)
(* apart; the parsing of pages and the wording of details are left out.    *)
(* Any read may fail, and every endpoint may change between two reads.     *)
(***************************************************************************)
EXTENDS Naturals, Sequences, FiniteSets

CONSTANTS
    Specs,       \* the official specifications that are pinned by hash
    MaxOdd,      \* bound: answers of a run that are not as reviewed
    None, Aborted

VARIABLES
    mode,        \* evidence_mode of the run
    local,       \* the receipts and the activity log of this host verify
    got,         \* the answers of the endpoints read so far
    specs,       \* the answers of the specifications read so far
    code         \* None while it runs, the exit code, or Aborted

vars == <<mode, local, got, specs, code>>

\* What the evaluators distinguish of each answer; the first is as reviewed.
Contents ==
    [technocore        |-> <<"up">>,
     did_note          |-> <<"expected", "changed">>,
     contribution      |-> <<"live", "evicted", "forged", "missing",
                             "unbounded", "malformed", "not_object">>,
     repo              |-> <<"public", "private", "malformed", "not_object">>,
     original_commit   |-> <<"present">>,
     dashboard_commit  |-> <<"present">>,
     dashboard         |-> <<"marked", "unmarked">>,
     public_evidence   |-> <<"expected", "changed">>,
     official_repo     |-> <<"present">>,
     flop_site         |-> <<"reviewed", "reworded", "new_term", "unlinked">>,
     teaser            |-> <<"reviewed", "changed">>,
     yellow_paper      |-> <<"reviewed", "transport", "changed", "malformed">>,
     capacity_manifest |-> <<"small", "large", "malformed">>,
     rooms_summary     |-> <<"small", "large", "idle", "malformed", "not_object">>]

Endpoints == DOMAIN Contents
Failed == {"failed", "gone"}      \* "gone": the answer was HTTP 404
Answers(e) == {Contents[e][i] : i \in DOMAIN Contents[e]} \union Failed

Odd(read, read_specs) ==
    Cardinality({e \in DOMAIN read : read[e] # Contents[e][1]})
        + Cardinality({s \in DOMAIN read_specs : read_specs[s] # "same"})

\* Once an answer is used, a list or a number in place of an object makes
\* the evaluator raise AttributeError, which nothing catches.
Raises == \E e \in {"repo", "contribution", "rooms_summary"} : got[e] = "not_object"

Read(e) == got[e] \notin Failed

---------------------------------------------------------------------------
(* The evaluators: the status of each check. *)

\* _local_evidence and _public_evidence
Evidence ==
    IF mode = "local" THEN local
    ELSE got["public_evidence"] = "expected" /\ Read("original_commit") /\ local

DidNote ==
    CASE got["did_note"] = "expected" -> "READY"
      [] got["did_note"] = "changed" -> "REVIEW_REQUIRED"
      [] got["did_note"] = "gone" -> IF Evidence THEN "READY" ELSE "UNKNOWN"
      [] OTHER -> "UNKNOWN"

Repo ==
    CASE got["repo"] = "public" -> "READY"
      [] got["repo"] = "private" -> "REVIEW_REQUIRED"
      [] got["repo"] = "malformed" -> "ERROR"
      [] OTHER -> "UNKNOWN"

Marked(e, good) ==
    CASE ~Read(e) -> "UNKNOWN"
      [] Read(e) /\ got[e] \in good -> "READY"
      [] OTHER -> "REVIEW_REQUIRED"

\* evaluate_capacity_contract: both numbers, or no contract
Capacity ==
    LET rooms == IF got["rooms_summary"] = "idle" THEN "small"
                 ELSE got["rooms_summary"]
    IN CASE ~Read("capacity_manifest") \/ ~Read("rooms_summary") -> "UNKNOWN"
         [] /\ Read("capacity_manifest") /\ Read("rooms_summary")
            /\ got["capacity_manifest"] = rooms /\ rooms # "malformed" -> "READY"
         [] OTHER -> "REVIEW_REQUIRED"

Engagement ==
    IF got["rooms_summary"] \in {"small", "large"} THEN "READY" ELSE "UNKNOWN"
Migration ==
    IF got["rooms_summary"] \in {"small", "large", "idle"}
    THEN "READY" ELSE "UNKNOWN"

\* classify_live_record and what run makes of it: an eviction is expected as
\* long as the evidence kept elsewhere verifies.
Contribution ==
    IF got["contribution"] \in {"live", "evicted"} /\ Evidence
    THEN "READY" ELSE "REVIEW_REQUIRED"

\* classify_source_failure is always asked about one failure.
Teaser == Marked("teaser", {"reviewed"})
YellowPaper == Marked("yellow_paper", {"reviewed", "transport"})

Plain(e) == IF Read(e) THEN "READY" ELSE "UNKNOWN"

Checks ==
    [technocore |-> Plain("technocore"), did_note |-> DidNote,
     contribution |-> Contribution, repo |-> Repo,
     original_commit |-> Plain("original_commit"),
     dashboard_commit |-> Plain("dashboard_commit"),
     dashboard |-> Marked("dashboard", {"marked"}),
     public_evidence |-> Plain("public_evidence"),
     official_repo |-> Plain("official_repo"),
     flop_site |-> Marked("flop_site", {"reviewed", "reworded", "new_term"}),
     teaser |-> Teaser, yellow_paper |-> YellowPaper,
     capacity_manifest |-> Plain("capacity_manifest"),
     rooms_summary |-> Plain("rooms_summary"),
     capacity_contract |-> Capacity, engagement |-> Engagement,
     mailbox_migration |-> Migration,
     receipts |-> IF Evidence THEN "READY" ELSE "ERROR"]

SpecStatus(s) ==
    CASE specs[s] = "same" -> "READY"
      [] specs[s] = "changed" -> "REVIEW_REQUIRED"
      [] OTHER -> "ERROR"

\* detect_signal_terms, when the site was read and its hash is not the pinned
Signals ==
    CASE got["flop_site"] = "new_term" -> "REVIEW_REQUIRED"
      [] got["flop_site"] \in {"reworded", "unlinked"} -> "CHANGED"
      [] OTHER -> "READY"

Statuses == {Checks[c] : c \in DOMAIN Checks}
            \union {SpecStatus(s) : s \in Specs} \union {Signals}

\* Mutant of Overall: an endpoint that could not be read does not count.
OverallWithoutUnknown ==
    CASE "REVIEW_REQUIRED" \in Statuses -> "REVIEW_REQUIRED"
      [] "ERROR" \in Statuses /\ "REVIEW_REQUIRED" \notin Statuses -> "ERROR"
      [] "CHANGED" \in Statuses
             /\ Statuses \intersect {"REVIEW_REQUIRED", "ERROR"} = {} -> "CHANGED"
      [] OTHER -> "READY"

Overall ==
    LET Worst(s) == CHOOSE i \in DOMAIN s : s[i] \in Statuses
                        /\ \A j \in DOMAIN s : s[j] \in Statuses => i <= j
        order == <<"REVIEW_REQUIRED", "ERROR", "UNKNOWN", "CHANGED", "READY">>
    IN <<"REVIEW_REQUIRED", "ERROR", "DEGRADED", "CHANGED", "READY">>[Worst(order)]

\* Mutant of Meaningful: a problem counts only while everything was read.
MeaningfulWhenWhole ==
    /\ "UNKNOWN" \notin Statuses
    /\ \/ \E c \in {"did_note", "repo", "dashboard", "contribution",
                    "receipts", "capacity_contract"} :
              Checks[c] \in {"REVIEW_REQUIRED", "ERROR"}
       \/ \E s \in Specs : specs[s] = "changed"
       \/ "REVIEW_REQUIRED" \in {Signals, Teaser, YellowPaper}

Meaningful ==
    \/ \E c \in {"did_note", "repo", "dashboard", "contribution", "receipts",
                 "capacity_contract"} : Checks[c] \in {"REVIEW_REQUIRED", "ERROR"}
    \/ \E s \in Specs : specs[s] = "changed"
    \/ "REVIEW_REQUIRED" \in {Signals, Teaser, YellowPaper}

ExitCode ==
    CASE Meaningful -> 3
      [] ~Meaningful /\ Overall = "READY" -> 0
      [] ~Meaningful /\ Overall = "ERROR" -> 2
      [] OTHER -> 1

---------------------------------------------------------------------------
Init ==
    /\ mode \in {"local", "public"}
    /\ local \in BOOLEAN
    /\ got = <<>>
    /\ specs = <<>>
    /\ code = None

\* Answers are independent of each other, so any fixed order will do.
FirstUnread(set, read) == CHOOSE x \in set \ DOMAIN read : TRUE

With(read, x, answer) ==
    [z \in DOMAIN read \union {x} |-> IF z = x THEN answer ELSE read[z]]

\* _safe_fetch, once for every endpoint
Fetch ==
    /\ Endpoints # DOMAIN got
    /\ LET e == FirstUnread(Endpoints, got)
       IN \E a \in Answers(e) : got' = With(got, e, a)
    /\ Odd(got', specs) <= MaxOdd
    /\ UNCHANGED <<mode, local, specs, code>>

\* The evaluators run before the specifications are read: an exception that
\* leaves them ends the run with no record.
Abort ==
    /\ Endpoints = DOMAIN got
    /\ Raises
    /\ code = None
    /\ code' = Aborted
    /\ UNCHANGED <<mode, local, got, specs>>

FetchSpec ==
    /\ Endpoints = DOMAIN got
    /\ ~Raises
    /\ Specs # DOMAIN specs
    /\ \E a \in {"same", "changed", "failed"} :
           specs' = With(specs, FirstUnread(Specs, specs), a)
    /\ Odd(got, specs') <= MaxOdd
    /\ UNCHANGED <<mode, local, got, code>>

\* The end of _run_monitor, and exit_code
Judge ==
    /\ Endpoints = DOMAIN got
    /\ Specs = DOMAIN specs
    /\ code = None
    /\ code' = ExitCode
    /\ UNCHANGED <<mode, local, got, specs>>

Next == Fetch \/ Abort \/ FetchSpec \/ Judge

Spec == Init /\ [][Next]_vars

---------------------------------------------------------------------------
\* What a person has to look at, whatever else went wrong in the run.
Alarming(e) ==
    got[e] \in CASE e = "did_note" -> {"changed"}
                 [] e = "contribution" -> {"forged", "missing"}
                 [] e = "repo" -> {"private", "malformed"}
                 [] e = "dashboard" -> {"unmarked"}
                 [] e = "flop_site" -> {"new_term"}
                 [] e = "teaser" -> {"changed"}
                 [] e = "yellow_paper" -> {"changed", "malformed"}
                 [] OTHER -> {}

\* An outage hides nothing: a run that saw a changed DID note, a foreign
\* contribution, a private repository, a changed page or specification ends
\* with MEANINGFUL_CHANGE, however many other endpoints failed beside it.
OutageHidesNothing ==
    (code \in 0..3 /\ \/ \E e \in Endpoints : Alarming(e)
                      \/ \E s \in Specs : specs[s] = "changed") => code = 3

\* READY is never said on less than the whole: exit code 0 means that every
\* endpoint but the DID note was read in this run, that the note was read or
\* is known to be gone, that the two capacities agree, that the evidence of
\* the mode verified and that every specification has its pinned hash.
ZeroIsVerified ==
    code = 0 =>
        /\ \A e \in Endpoints \ {"did_note"} : Read(e) /\ ~Alarming(e)
        /\ got["did_note"] \in {"expected", "gone"}
        /\ got["contribution"] \in {"live", "evicted"}
        /\ got["capacity_manifest"] # "malformed"
        /\ got["rooms_summary"] = got["capacity_manifest"]
        /\ local /\ (mode = "public" => got["public_evidence"] = "expected")
        /\ \A s \in Specs : specs[s] = "same"
===========================================================================
