---------------------------- MODULE RemoteContent -----------------------------
(***************************************************************************)
(* What remote content may become (remote_content_policy.py and            *)
(* sensitive_action_router.py).  Remote values reach no sink; a reviewed   *)
(* page is read by one exact GET within byte bounds a caller can only      *)
(* tighten; material offered to a remote tool must be public through every *)
(* level of nesting; and what reviewed evidence says of a contract is      *)
(* derived from a registry no caller can write to.                         *)
(*                                                                         *)
(* One question is asked in a behaviour, and every answer is kept with it. *)
(***************************************************************************)
EXTENDS Naturals, FiniteSets

CONSTANTS
  Response,    \* what a page answers: [url, declared, length], declared
               \* being a set of at most one Content-Length
  Bound,       \* byte bounds: of the source, and asked for by a caller
  Payload,     \* offers to a remote tool: [fields, did, key, envelope, inner],
               \* inner being a set: its evidence if it has one
  Sink,        \* the sinks a remote value may be proposed for
  Evidence     \* reviewed contract evidence: [contract, root, artifact]

VARIABLE answer   \* what was asked last and what came of it
vars == answer

Init == answer = [asked |-> "nothing"]
First == answer.asked = "nothing"

\* The configured reader: one exact GET of a reviewed source.

Least(m, n) == IF m < n THEN m ELSE n
\* Mutant of Received: no room for the byte that proves the body too long.
ReceivedUpTo(r, max) == Least(r.length, max)
Received(r, max) == Least(r.length, max + 1)

Accepted(r, max) ==
  /\ r.url = "SAME"
  /\ \A d \in r.declared : d <= max
  /\ Received(r, max) <= max

\* A caller may tighten the bound of the source, never widen it.
Read(r, source, asked) ==
  /\ First /\ asked <= source
  /\ answer' = [asked |-> "page", response |-> r, source |-> source,
                 gets |-> IF Accepted(r, asked) THEN {Received(r, asked)} ELSE {}]

-----------------------------------------------------------------------------
\* Contract evidence.  A caller's own object resolves to nothing.

Unknown == [contract |-> "", root |-> "", artifact |-> ""]
Roots(items) == {i.root : i \in items}
\* Mutant of Artifacts: every item counts as an artifact of its own.
ArtifactsOfRoots(items) == Roots(items)
Artifacts(items) == {i.artifact : i \in items}

Confirmed == {"MULTI_SOURCE_CONFIRMED", "VERIFIED_FOR_TESTNET_USE"}
Derived(items, contract, approval) ==
  CASE items = {} \/ Unknown \in items -> "UNVERIFIED"
    [] items # {} /\ Unknown \notin items
         /\ \E i \in items : i.contract # contract -> "CONFLICTING"
    [] OTHER -> IF Cardinality(Roots(items)) < 2 \/ Cardinality(Artifacts(items)) < 2
                THEN "OFFICIAL_SOURCE_REFERENCED"
                ELSE IF approval THEN "VERIFIED_FOR_TESTNET_USE"
                     ELSE "MULTI_SOURCE_CONFIRMED"

Evaluate(items, contract, approval) ==
  /\ First
  /\ answer' = [asked |-> "contract", items |-> items, contract |-> contract,
                 is |-> Derived(items, contract, approval)]

-----------------------------------------------------------------------------
\* The remote router: every proposal is refused before its adapter can run.

Allowed(sink) == FALSE
Dispatch(sink) ==
  /\ First
  /\ answer' = [asked |-> "sink", sink |-> sink, ran |-> Allowed(sink)]

\* Material for a remote tool.  Fields are public names, secret-looking names
\* or unknown ones; a key is only good next to the identifier it derives.
PublicFields == {"public_did", "public_key", "digest", "status", "signed_envelope", "evidence"}
InnerFields == {"public_did", "digest", "status"}

Sound(p) ==
  /\ p.fields # {} /\ p.fields \subseteq PublicFields
  /\ "public_did" \in p.fields => p.did
  /\ "public_key" \in p.fields => "public_did" \in p.fields /\ p.did /\ p.key
  /\ "signed_envelope" \in p.fields => p.envelope
\* Mutant of Public: what is nested is not looked at.
PublicOutside(p) == Sound(p)
Public(p) ==
  /\ Sound(p)
  /\ "evidence" \in p.fields =>
       \E q \in p.inner : q.fields \subseteq InnerFields /\ Sound(q)

Offer(p) ==
  /\ First
  /\ answer' = [asked |-> "tool", offer |-> p,
                 decision |-> IF Public(p) THEN "REQUIRE_HUMAN_APPROVAL"
                                           ELSE "DENY_MCP_CUSTODY"]

-----------------------------------------------------------------------------
Next ==
  \/ \E r \in Response, source, asked \in Bound : Read(r, source, asked)
  \/ \E items \in SUBSET (Evidence \cup {Unknown}), a \in BOOLEAN :
       \E contract \in {i.contract : i \in Evidence} : Evaluate(items, contract, a)
  \/ \E sink \in Sink : Dispatch(sink)
  \/ \E p \in Payload : Offer(p)

Spec == Init /\ [][Next]_vars

-----------------------------------------------------------------------------
(***************************************************************************)
(* A page the reader hands on was not cut short by its own byte bound, and *)
(* is no longer than the source's own bound whatever the caller asked.     *)
(***************************************************************************)
PagesAreWhole ==
  answer.asked = "page" =>
    \A size \in answer.gets : size = answer.response.length /\ size <= answer.source

(***************************************************************************)
(* A contract confirmed by several sources has two pieces of evidence that *)
(* differ both in their origin and in the artifact they rest on, though    *)
(* the code counts origins and artifacts separately.                       *)
(***************************************************************************)
ConfirmedByTwo ==
  answer.asked = "contract" /\ answer.is \in Confirmed =>
    \E i, j \in answer.items :
      /\ i.contract = answer.contract /\ j.contract = answer.contract
      /\ i.root # j.root /\ i.artifact # j.artifact

(***************************************************************************)
(* What a human is asked to let out holds nothing but public names, at the *)
(* top and in what is nested, and no key that its identifier is not made   *)
(* of.                                                                     *)
(***************************************************************************)
PublicAllTheWay ==
  answer.asked = "tool" /\ answer.decision = "REQUIRE_HUMAN_APPROVAL" =>
    \A p \in {answer.offer} \cup answer.offer.inner :
      /\ p.fields \subseteq PublicFields
      /\ "public_key" \in p.fields => p.key
===============================================================================
