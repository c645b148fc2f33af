----------------------------- MODULE OneShotPost -----------------------------
(***************************************************************************)
(* What the registration hand-off promises, whatever processes, files and  *)
(* failures are behind it: one registration can be armed once, an armed    *)
(* registration is sent at most once, and one verdict is recorded and      *)
(* never changed.  A registration that is spent is never armed again.      *)
(***************************************************************************)
EXTENDS Naturals

CONSTANTS Verdicts,  \* what the referee may decide
          NoVerdict

VARIABLES stage,     \* "fresh", "armed" (may send) or "spent"
          sent,      \* POSTs sent
          recorded   \* the recorded verdict

vars == <<stage, sent, recorded>>

Init == stage = "fresh" /\ sent = 0 /\ recorded = NoVerdict

Arm ==
    /\ stage = "fresh"
    /\ stage' = "armed"
    /\ UNCHANGED <<sent, recorded>>

Send ==
    /\ stage = "armed"
    /\ stage' = "spent"
    /\ sent' = sent + 1
    /\ UNCHANGED recorded

\* A failure or a crash burns the registration without sending it.
GiveUp ==
    /\ stage # "spent"
    /\ stage' = "spent"
    /\ UNCHANGED <<sent, recorded>>

RecordVerdict ==
    /\ stage # "armed" /\ recorded = NoVerdict
    /\ recorded' \in Verdicts
    /\ stage' = "spent"
    /\ UNCHANGED sent

Next == Arm \/ Send \/ GiveUp \/ RecordVerdict

Spec == Init /\ [][Next]_vars
=============================================================================
