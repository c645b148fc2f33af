------------------------------- MODULE MCGates -------------------------------
(* Gates with the constants of its .cfg file and the inputs below.         *)
EXTENDS Gates, TLC

CONSTANTS c1, c2, a1, a2, q1, q2

Perms == Permutations(Client) \cup Permutations(Action)

MCNonceScope == [a \in Action |-> "n1"]
MCSource == Action \cup {"config"}

-----------------------------------------------------------------------------
(* Acquisitions of the evidence transport: a good one, a gap, an answer    *)
(* after a cursor, and one flaw each.                                      *)

Good == [page |-> <<1, 2>>, since |-> None, export |-> TRUE, direct |-> TRUE,
         generation |-> TRUE, truncated |-> "no"]
MCResponses == {Good, [Good EXCEPT !.page = <<2, 4>>],
              [Good EXCEPT !.page = <<3>>, !.since = 0],
              [Good EXCEPT !.export = FALSE], [Good EXCEPT !.direct = FALSE],
              [Good EXCEPT !.truncated = "yes"]}

-----------------------------------------------------------------------------
(* Exports, agreements and settlements of the evidence authority: what     *)
(* holds, and what differs from it in one respect.                         *)

Line(n) == [decodes |-> TRUE, text |-> TRUE, seq |-> n, generation |-> "g", time |-> TRUE]
MCExports == {<<Line(1), Line(2)>>, <<Line(1), Line(3)>>, <<Line(1), Line(3), Line(2)>>,
            <<Line(2), [Line(3) EXCEPT !.generation = "h"]>>,
            <<Line(1), [Line(2) EXCEPT !.time = FALSE]>>,
            <<[Line(1) EXCEPT !.text = FALSE]>>}
MCPolicy == {[raw |-> raw, generation |-> "g", allowed |-> TRUE, truncated |-> FALSE,
            started |-> 1, at |-> 2, ended |-> 3, count |-> Len(raw),
            first |-> raw[1].seq, last |-> raw[Len(raw)].seq] : raw \in MCExports}

Offer == [protocol |-> "tclk", proposer |-> "p", counterparty |-> "q", locked |-> TRUE,
          rail |-> "btc", reference |-> "r1", signed |-> TRUE, own |-> TRUE]
MCProposals == {Offer, [Offer EXCEPT !.rail = "bitcoin"], [Offer EXCEPT !.reference = "r2"],
              [Offer EXCEPT !.rail = "paper"], [Offer EXCEPT !.signed = FALSE],
              [Offer EXCEPT !.locked = FALSE]}

\* The content identifier of an offer, whose rail is canonical.
Identifier(p) ==
    <<p.protocol, p.proposer, p.counterparty, p.locked,
      IF p.rail = "paper" THEN "PAPER" ELSE "BITCOIN", p.reference, p.signed>>
Yes(p) == [protocol |-> "tclk", accepter |-> "q", proposer |-> "p",
           offer |-> Identifier(p), statement |-> "ACCEPT", signed |-> TRUE, own |-> TRUE]
MCAcceptances == {Yes(p) : p \in MCProposals}
    \cup {[Yes(Offer) EXCEPT !.accepter = "s"], [Yes(Offer) EXCEPT !.statement = "REJECT"],
          [Yes(Offer) EXCEPT !.own = FALSE]}

Seen == [rail |-> "bitcoin", reference |-> "r1", terminal |-> "COMPLETED"]
MCObservations == {Seen, [Seen EXCEPT !.rail = "btc"], [Seen EXCEPT !.reference = "r2"],
                 [Seen EXCEPT !.rail = "paper"]}
Proof(o, rail) == [of |-> o, rail |-> rail, reference |-> o.reference,
                   terminal |-> o.terminal, valid |-> TRUE, final |-> TRUE, crypto |-> TRUE]
MCRailProofs == {Proof(Seen, "BITCOIN"), Proof([Seen EXCEPT !.reference = "r2"], "BITCOIN"),
               Proof([Seen EXCEPT !.rail = "paper"], "PAPER")}
AllStages == <<"write_accepted", "read_back_observed", "decode_valid", "signature_valid",
               "state_replay_valid", "evidence_confirmed">>
MCReadbacks == {[of |-> o, rail |-> "BITCOIN", reference |-> o.reference, events |-> AllStages] :
                 o \in {Seen, [Seen EXCEPT !.reference = "r2"]}}
MCHistories == {AllStages, SubSeq(AllStages, 1, 5)}

-----------------------------------------------------------------------------
(* Pages, pieces of evidence and offers of the remote content policy.      *)

MCResponse == [url : {"SAME"}, declared : {{}}, length : {1, 2, 3}]
    \cup {[url |-> "OTHER", declared |-> {}, length |-> 1],
          [url |-> "SAME", declared |-> {3}, length |-> 1]}
MCPieces == [contract : {"c"}, root : {"r1", "r2"}, artifact : {"a1", "a2"}]
    \cup {[contract |-> "d", root |-> "r1", artifact |-> "a1"]}
Inner == [fields : {{}, {"digest"}, {"secret_key"}, {"public_did", "public_key"}, {"public_did"}},
          did : BOOLEAN, key : BOOLEAN, envelope : {TRUE}]
MCPayload == [fields : {{"public_did"}, {"public_did", "public_key"}, {"secret_key"},
                     {"public_key"}, {"signed_envelope"}},
           did : BOOLEAN, key : BOOLEAN, envelope : BOOLEAN, inner : {{}}]
    \cup {[fields |-> {"evidence"}, did |-> TRUE, key |-> TRUE, envelope |-> TRUE,
           inner |-> {q}] : q \in Inner}

-----------------------------------------------------------------------------
(* Catalogues of the runtime capability model: one all of whose blockers   *)
(* are cleared, the shipped one, one whose replay journal is not           *)
(* implemented, and one without a required domain.                         *)

Capability(id, domain, runtime, blockers) ==
    [id |-> id, domain |-> domain, implemented |-> "IMPLEMENTED_OFFLINE",
     documented |-> "DOCUMENTED_ONLY", runtime |-> runtime, critical |-> TRUE,
     blockers |-> blockers, network |-> "net", ledger |-> {}, journal |-> {}]
Offline == {Capability(d, d, FALSE, {}) :
               d \in {"IDENTITY", "TECHNOCORE", "EXPORT_EVIDENCE", "FAUCET",
                      "DELEGATION_VERIFICATION", "TOOL_OUTPUT_BUDGET",
                      "ACTIVITY_QUALITY", "PROTOCOL_MODEL", "RUNTIME_DRIFT"}}
Ledger == {"IMPLEMENTED", "CORE", "IPC"}
ReplaySafety(journal, blockers) ==
    [Capability("REPLAY_SAFETY", "REPLAY_SAFETY", FALSE, blockers)
        EXCEPT !.ledger = Ledger, !.journal = journal]
Observed(blockers) ==
    {Capability("network", "TESTNET_NETWORK", TRUE, blockers),
     Capability("inference", "INFERENCE", TRUE, {}),
     Capability("rail", "SETTLEMENT_RAIL", TRUE, {})}
Durability(documented) ==
    [Capability("durability", "EVIDENCE_DURABILITY", TRUE, {})
        EXCEPT !.documented = documented]
Cleared == Offline \cup Observed({})
    \cup {Durability("DOCUMENTED_ONLY"), ReplaySafety(Ledger \cup {"CONFIRM", "RECONCILE"}, {})}
Shipped == Offline \cup Observed({"CHAIN_ID_UNDOCUMENTED"})
    \cup {Durability("RUNTIME_NOT_OBSERVED"),
          ReplaySafety({"CORE", "IPC", "RECONCILE"}, {"CONFIRMATION_VERIFIER_UNAVAILABLE"})}
Partial == Offline \cup Observed({})
    \cup {Durability("DOCUMENTED_ONLY"), ReplaySafety({"CORE", "IPC", "RECONCILE"}, {})}
MCCatalogs == {Cleared, Shipped, Partial, {c \in Cleared : c.domain # "FAUCET"}}

Observation(cap, at, response, network) ==
    [cap |-> cap, at |-> at, response |-> response, network |-> network]
MCIssuable ==
    {Observation("network", 1, "AVAILABLE", "net"), Observation("network", 1, "AVAILABLE", "other"),
     Observation("inference", 1, "AVAILABLE", "net"), Observation("durability", 0, "AVAILABLE", "net"),
     Observation("durability", 1, "AVAILABLE", "net"), Observation("durability", 1, "UNAVAILABLE", "net"),
     Observation("rail", 1, "AVAILABLE", "net"), Observation("rail", 2, "UNAVAILABLE", "net")}
MCValues == [status : {"NOT_OBSERVED", "DOCUMENTED_ONLY", "RUNTIME_OBSERVED_VALUE",
                     "STALE_RUNTIME_VALUE", "CONFLICTING_VALUE"},
           documented : {{}, {1}}, observed : {{}, {1}, {2}}, at : {{}, {0}, {2}},
           fresh : {"NOT_OBSERVED", "FRESH", "STALE"}, ready : BOOLEAN]

==============================================================================
