----------------------------- MODULE GatesProofs -----------------------------
(***************************************************************************)
(* Proofs about the systems of Gates, which decide what may be done or     *)
(* concluded.  Each part has the inductive invariant of one system over    *)
(* its own variables, the lemmas of its steps, and the theorems of the     *)
(* sum: a behaviour of another system never makes the premise true.        *)
(***************************************************************************)
EXTENDS Gates, SequenceFacts

-----------------------------------------------------------------------------
(* The authority of sensitive actions.                                     *)

AUCap == [binding : Action, issued : Nat, expires : Nat, used : BOOLEAN]

AUTypeOK ==
  /\ auNow \in Nat
  /\ auCaps \in Seq(AUCap)
  /\ auThread \in [Client -> Nat]

\* What is held or done was spent.
AURegistered(c) == c \in DOMAIN auCaps /\ auCaps[c].used
AUSpentFirst ==
  /\ \A t \in Client : auThread[t] # AU!Idle => AURegistered(auThread[t])
  /\ \A a \in auActs : AURegistered(a.cap)

AUIInv == AUTypeOK /\ AUSpentFirst /\ AU!OneActionEach

\* Init makes the registry empty and every thread idle.
LEMMA AUInitIInv == AU!Init => AUIInv
  BY DEF AU!Init, AUIInv, AUTypeOK, AUSpentFirst, AU!OneActionEach, AURegistered, AU!Idle, AUCap

\* Issue appends an unused capability and changes none that is there.
LEMMA AUIssueIInv ==
  ASSUME Window \in Nat, AUIInv, NEW b \in Action, AU!Issue(b)
  PROVE  AUIInv'
<1> USE DEF AUIInv
<1> DEFINE new == [binding |-> b, issued |-> auNow, expires |-> auNow + Window, used |-> FALSE]
<1>1. new \in AUCap
  BY DEF AUTypeOK, AUCap
<1>2. auCaps' = Append(auCaps, new) /\ UNCHANGED <<auNow, auThread, auActs>>
  BY DEF AU!Issue
<1> HIDE DEF new
<1>3. AUTypeOK'
  BY <1>1, <1>2 DEF AUTypeOK
<1>4. ASSUME NEW c, AURegistered(c) PROVE AURegistered(c)'
  <2>1. c \in DOMAIN auCaps'  /\ auCaps'[c] = auCaps[c]
    BY <1>1, <1>2, <1>4 DEF AURegistered, AUTypeOK
  <2>2. QED BY <2>1, <1>4 DEF AURegistered
<1>5. AUSpentFirst'
  BY <1>2, <1>4 DEF AUSpentFirst
<1>6. AU!OneActionEach'
  BY <1>2 DEF AU!OneActionEach
<1>7. QED BY <1>3, <1>5, <1>6

\* Require takes a capability that is not used, and marks it: no thread held it
\* and no action was carried out with it.
LEMMA AURequireIInv ==
  ASSUME AUIInv, NEW t \in Client, NEW c \in DOMAIN auCaps, NEW b \in Action,
         AU!Require(t, c, b)
  PROVE  AUIInv'
<1> USE DEF AUIInv
<1>1. /\ ~auCaps[c].used
      /\ auCaps' = [auCaps EXCEPT ![c].used = TRUE]
      /\ auThread' = [auThread EXCEPT ![t] = c]
      /\ UNCHANGED <<auNow, auActs>>
  BY DEF AU!Require, AU!Spent
<1>2. auCaps[c] \in AUCap /\ c \in Nat /\ c # AU!Idle
  BY DEF AUTypeOK, AU!Idle
<1>3. /\ auCaps' \in Seq(AUCap) /\ DOMAIN auCaps' = DOMAIN auCaps
      /\ auCaps'[c].used
      /\ \A d \in DOMAIN auCaps : d # c => auCaps'[d] = auCaps[d]
  <2> DEFINE spent == [auCaps[c] EXCEPT !.used = TRUE]
  <2>1. spent \in AUCap /\ spent.used
    BY <1>2 DEF AUCap
  <2>2. auCaps' = [auCaps EXCEPT ![c] = spent]
    BY <1>1
  <2> HIDE DEF spent
  <2>3. auCaps' \in Seq(AUCap) /\ DOMAIN auCaps' = DOMAIN auCaps
    BY <2>1, <2>2 DEF AUTypeOK
  <2>4. auCaps'[c] = spent /\ \A d \in DOMAIN auCaps : d # c => auCaps'[d] = auCaps[d]
    BY <2>2 DEF AUTypeOK
  <2>5. QED BY <2>1, <2>3, <2>4
<1>4. AUTypeOK'
  BY <1>1, <1>2, <1>3 DEF AUTypeOK
<1>5. \A d : AURegistered(d) => d # c /\ AURegistered(d)'
  BY <1>1, <1>3 DEF AURegistered
<1>6. AUSpentFirst'
  <2>1. AURegistered(c)'
    BY <1>3 DEF AURegistered
  <2>2. QED BY <1>1, <1>5, <2>1 DEF AUSpentFirst, AUTypeOK
<1>7. AU!OneActionEach'
  BY <1>1, <1>2, <1>5 DEF AU!OneActionEach, AUSpentFirst, AUTypeOK
<1>8. QED BY <1>4, <1>6, <1>7

\* Sign, AppendLocal and Fails empty the thread's hands; the first two carry
\* out one action with what was in them.
LEMMA AUUseIInv ==
  ASSUME AUIInv, NEW t \in Client, AU!Use(t)
  PROVE  AUIInv'
<1> USE DEF AUIInv
<1>1. /\ auThread[t] # AU!Idle
      /\ auThread' = [auThread EXCEPT ![t] = AU!Idle]
      /\ UNCHANGED <<auNow, auCaps>>
  BY DEF AU!Use, AU!Sign, AU!AppendLocal, AU!Fails, AU!Done
<1>2. \/ auActs' = auActs
      \/ auActs' = auActs \cup {[cap |-> auThread[t], by |-> t, at |-> auNow]}
  BY DEF AU!Use, AU!Sign, AU!AppendLocal, AU!Fails, AU!Done
<1>3. AUTypeOK'
  BY <1>1 DEF AUTypeOK, AU!Idle
<1>4. \A d : AURegistered(d)' = AURegistered(d)
  BY <1>1 DEF AURegistered
<1>5. AUSpentFirst'
  BY <1>1, <1>2, <1>4 DEF AUSpentFirst, AUTypeOK
<1>6. \A a \in auActs' : a \in auActs \/ a = [cap |-> auThread[t], by |-> t, at |-> auNow]
  BY <1>2
<1>7. \A a \in auActs' : a.cap \in DOMAIN auCaps /\ a.cap # AU!Idle
  BY <1>1, <1>4, <1>5 DEF AUSpentFirst, AURegistered, AUTypeOK, AU!Idle
<1>8. AU!OneActionEach'
  <2>1. \A a, d \in auActs' : a.cap = d.cap => a = d
    BY <1>6 DEF AU!OneActionEach
  <2>2. \A u, v \in Client : auThread'[u] = auThread'[v] /\ auThread'[u] # AU!Idle => u = v
    BY <1>1 DEF AU!OneActionEach, AUTypeOK
  <2>3. \A a \in auActs', u \in Client : auThread'[u] # a.cap
    BY <1>1, <1>6, <1>7 DEF AU!OneActionEach, AUTypeOK
  <2>4. QED BY <2>1, <2>2, <2>3 DEF AU!OneActionEach
<1>9. QED BY <1>3, <1>5, <1>8

\* No step of a thread or of the clock breaks it.
LEMMA AUStepIInv == ASSUME Window \in Nat, AUIInv, [AU!Next]_auVars PROVE AUIInv'
<1>1. CASE AU!Tick
  BY <1>1 DEF AU!Tick, AUIInv, AUTypeOK, AUSpentFirst, AU!OneActionEach, AURegistered
<1>2. CASE \E b \in Action : AU!Issue(b)
  BY <1>2, AUIssueIInv
<1>3. CASE \E t \in Client, c \in DOMAIN auCaps, b \in Action : AU!Require(t, c, b)
  BY <1>3, AURequireIInv
<1>4. CASE \E t \in Client : AU!Use(t)
  BY <1>4, AUUseIInv
<1>5. CASE \E t \in Client, b \in Action : AU!AppendRemote(t, b)
  BY <1>5 DEF AU!AppendRemote, AUIInv, AUTypeOK, AUSpentFirst, AU!OneActionEach, AURegistered
<1>6. CASE UNCHANGED auVars
  BY <1>6 DEF auVars, AUIInv, AUTypeOK, AUSpentFirst, AU!OneActionEach, AURegistered
<1>7. QED BY <1>1, <1>2, <1>3, <1>4, <1>5, <1>6 DEF AU!Next

\* What a thread holds or has carried out is spent in the registry, at every
\* moment of every behaviour (remote_content_policy.py, require).
THEOREM AUInvariance == Spec => [](machine = "Authority" => AUIInv)
<1>1. Init => (machine = "Authority" => AUIInv)
  BY AUInitIInv DEF Init
<1>2. (machine = "Authority" => AUIInv) /\ [Next]_vars => (machine = "Authority" => AUIInv)'
  BY WindowAssumption, AUStepIInv DEF Next, vars
<1>3. QED BY <1>1, <1>2, PTL DEF Spec

\* However many threads present one capability, it carries out one action
\* (remote_content_policy.py, require and the services that use it).
THEOREM OneAction == Spec => []OneActionEach
<1>1. (machine = "Authority" => AUIInv) => OneActionEach
  BY DEF AUIInv, OneActionEach
<1>2. QED BY <1>1, AUInvariance, PTL

-----------------------------------------------------------------------------
(* The replay store.                                                       *)

RSStages == {"open", "credential", "seal", "metadata", "recover", "operate"}
RSState == {RS!Unseen, "OBSERVED", "VALIDATED", "EFFECT_RESERVED", "EFFECT_ATTEMPTED",
          "EFFECT_OUTCOME_UNKNOWN", "EFFECT_CONFIRMED", "EFFECT_FAILED_SAFE"}
RSEvidenceTypes == {"RESULT", "LOCAL_NO_EFFECT_PROOF", "READ_BACK_CONFIRMATION"}
RSEffect == [request : Request, result : RSState, evidence : RSEvidenceTypes \cup {"none"}]
RSCall == [stage : RSStages, op : RS!Operations, action : Action, request : Request,
         reservation : RS!Reservation, created : BOOLEAN]

RSProofOK(p) ==
  /\ p.action \in Action /\ p.fixture \in RS!Fixtures
  /\ p = [action |-> p.action, attempt |-> p.attempt, fixture |-> p.fixture]

\* A helper only runs in a production store.
RSCallsOK ==
  /\ rsCall \in [Client -> RSCall \cup {RS!Idle}]
  /\ \A p \in rsProofs : RSProofOK(p)
  /\ rsKind = "TEST" => \A c \in Client : rsCall[c] = RS!Idle

RSTypeOK ==
  /\ rsKind \in {"PRODUCTION", "TEST"}
  /\ rsRecord \in [Action -> RSState]
  /\ rsEffects \in [Action -> Seq(RSEffect)]
  /\ rsGrants \in [RS!Reservation -> Nat]

\* One action of a nonce has a record, and who is in conflict has one.
RSScopeInv ==
  /\ \A a, b \in Action : a # b /\ NonceScope[a] = NonceScope[b]
                             => rsRecord[a] = RS!Unseen \/ rsRecord[b] = RS!Unseen
  /\ \A a, b \in Action : <<a, b>> \in rsConflicts => rsRecord[a] # RS!Unseen

\* The record of an action tells whether it has attempts, and that the latest
\* one is not closed.
RSEarly == {RS!Unseen, "OBSERVED", "VALIDATED"}
RSPending == {"EFFECT_RESERVED"} \cup RS!Open
RSRowOK(a) ==
  /\ Len(rsEffects[a]) <= MaxAttempts
  /\ rsEffects[a] = <<>> <=> rsRecord[a] \in RSEarly
  /\ rsRecord[a] \in RSPending => RS!Latest(a).evidence = "none"

\* What was licensed is closed, but for the attempt that is open.
RSGiven(a) == {a} \X (1..MaxAttempts)
RSClosed(a) == {n \in 1..Len(rsEffects[a]) : rsEffects[a][n].evidence # "none"}
RSGrantOK(a) ==
  /\ \A n \in 1..MaxAttempts : rsGrants[<<a, n>>] > 0 => n <= Len(rsEffects[a])
  /\ Cardinality(Units(rsGrants, RSGiven(a)))
        <= Cardinality(RSClosed(a)) + (IF rsRecord[a] \in RS!Open THEN 1 ELSE 0)

\* Nothing closes an attempt in production.
RSProductionOK(a) ==
  /\ Len(rsEffects[a]) <= 1
  /\ Len(rsEffects[a]) = 1 => rsRecord[a] = rsEffects[a][1].result /\ rsRecord[a] \in RSPending
  /\ \A n \in 1..MaxAttempts :
        rsGrants[<<a, n>>] > 0 => rsGrants[<<a, n>>] = 1 /\ rsRecord[a] \in RS!Open

RSRowsInv == \A a \in Action : RSRowOK(a)
RSGrantInv == \A a \in Action : RSGrantOK(a)
RSProductionInv == rsKind = "PRODUCTION" => \A a \in Action : RSProductionOK(a)

RSTablesInv == RSTypeOK /\ RSScopeInv /\ RSRowsInv /\ RSGrantInv /\ RSProductionInv

RSIInv == RSCallsOK /\ RSTablesInv

\* What a step may do to the tables: a row of one action changes, or recovery
\* writes the rows of all that were started.
RSValidateRow(a) ==
  /\ rsRecord[a] = "OBSERVED" /\ RS!SetState(a, "VALIDATED")
  /\ rsKind = "TEST" => ~RS!Conflicted(a)
  /\ UNCHANGED <<rsConflicts, rsEffects, rsGrants>>
RSReserveRow(a, q) ==
  /\ rsRecord[a] \in {"VALIDATED", "EFFECT_FAILED_SAFE"} /\ Len(rsEffects[a]) < MaxAttempts
  /\ rsKind = "TEST" => ~RS!Conflicted(a)
  /\ RS!SetState(a, "EFFECT_RESERVED") /\ RS!AddEffect(a, q)
  /\ UNCHANGED <<rsConflicts, rsGrants>>
RSAttemptRow(a, n) ==
  /\ rsRecord[a] = "EFFECT_RESERVED" /\ n \in 1..Len(rsEffects[a])
  /\ rsKind = "TEST" => ~RS!Conflicted(a)
  /\ RS!SetState(a, "EFFECT_ATTEMPTED") /\ RS!SetEffect(a, n, "EFFECT_ATTEMPTED")
  /\ RS!Grant(a, n)
  /\ UNCHANGED rsConflicts
RSAgainRow(a, n) ==
  /\ rsKind = "PRODUCTION" /\ n \in 1..Len(rsEffects[a])
  /\ rsEffects[a][n].result = "EFFECT_ATTEMPTED"
  /\ RS!SetState(a, "EFFECT_OUTCOME_UNKNOWN") /\ RS!SetEffect(a, n, "EFFECT_OUTCOME_UNKNOWN")
  /\ UNCHANGED <<rsConflicts, rsGrants>>
RSEvidenceRow(a, s, type) ==
  /\ rsKind = "TEST" /\ rsEffects[a] # <<>> /\ rsRecord[a] \in RSPending
  /\ type \notin RS!Observed =>
        type = "LOCAL_NO_EFFECT_PROOF" /\ RS!NotInvoked(a) /\ s = "EFFECT_FAILED_SAFE"
  /\ RS!SetState(a, s)
  /\ rsEffects' = [rsEffects EXCEPT ![a][Len(rsEffects[a])].result = s,
                                ![a][Len(rsEffects[a])].evidence = type]
  /\ UNCHANGED <<rsConflicts, rsGrants>>
RSRowStep(a) ==
  \/ RS!ObserveRow(a) \/ RSValidateRow(a)
  \/ \E q \in Request : RSReserveRow(a, q)
  \/ \E n \in Nat : RSAttemptRow(a, n) \/ RSAgainRow(a, n)
  \/ \E s \in {"EFFECT_CONFIRMED", "EFFECT_FAILED_SAFE"}, type \in RSEvidenceTypes :
        RSEvidenceRow(a, s, type)
RSTablesStep == UNCHANGED RS!tables \/ RS!RecoverRows \/ \E a \in Action : RSRowStep(a)

\* The tables of a new store are empty.
LEMMA RSInitIInv == ASSUME IsFiniteSet(Action), MaxAttempts \in Nat, RS!Init PROVE RSIInv
<1>1. RSCallsOK
  BY DEF RS!Init, RSCallsOK
<1>2. RSTypeOK
  BY DEF RS!Init, RSTypeOK, RSState, RS!Unseen
<1>3. RSScopeInv
  BY DEF RS!Init, RSScopeInv
<1>4. RSRowsInv
  BY DEF RS!Init, RSRowsInv, RSRowOK, RSEarly, RSPending, RS!Open, RS!Unseen
<1>5. RSGrantInv
  <2>1. \A a \in Action : Units(rsGrants, RSGiven(a)) = {}
    BY DEF RS!Init, RSGiven, Units, RS!Reservation
  <2>2. \A a \in Action : RSClosed(a) = {}
    BY DEF RS!Init, RSClosed
  <2>3. Cardinality({}) = 0
    BY FS_EmptySet
  <2>4. \A a \in Action, n \in 1..MaxAttempts : rsGrants[<<a, n>>] = 0
    BY DEF RS!Init, RS!Reservation
  <2>5. \A a \in Action : rsRecord[a] \notin RS!Open
    BY DEF RS!Init, RS!Open, RS!Unseen
  <2>6. ASSUME NEW a \in Action PROVE RSGrantOK(a)
    <3>1. Cardinality(Units(rsGrants, RSGiven(a))) = 0 /\ Cardinality(RSClosed(a)) = 0
      BY <2>1, <2>2, <2>3
    <3>2. \A n \in 1..MaxAttempts : rsGrants[<<a, n>>] = 0
      BY <2>4
    <3>3. QED BY <2>5, <3>1, <3>2 DEF RSGrantOK
  <2>7. QED BY <2>6 DEF RSGrantInv
<1>6. RSProductionInv
  <2>1. \A a \in Action : Len(rsEffects[a]) = 0
    BY DEF RS!Init
  <2>2. \A a \in Action, n \in 1..MaxAttempts : rsGrants[<<a, n>>] = 0
    BY DEF RS!Init, RS!Reservation
  <2>3. QED BY <2>1, <2>2 DEF RSProductionInv, RSProductionOK
<1>7. QED BY <1>1, <1>2, <1>3, <1>4, <1>5, <1>6 DEF RSIInv, RSTablesInv

\* What runs an operation names an action, a request and a reservation.
LEMMA RSCallDef ==
  ASSUME RSCallsOK, NEW c \in Client, rsCall[c].stage # "idle"
  PROVE  /\ rsKind # "TEST" /\ rsCall[c] \in RSCall
         /\ rsCall[c].action \in Action /\ rsCall[c].request \in Request
         /\ rsCall[c].reservation \in RS!Reservation
<1>1. rsCall[c] # RS!Idle
  BY DEF RS!Idle
<1>2. rsCall[c] \in RSCall
  BY <1>1 DEF RSCallsOK
<1>3. QED BY <1>1, <1>2 DEF RSCallsOK, RSCall

\* A helper's steps keep its call well formed.
LEMMA RSCallsStep ==
  ASSUME MaxAttempts \in Nat, RSCallsOK, rsKind \in {"PRODUCTION", "TEST"}, [RS!Next]_rsVars
  PROVE  RSCallsOK' /\ rsKind' = rsKind
<1>1. ASSUME NEW c \in Client, RS!Helper(c) PROVE RSCallsOK' /\ rsKind' = rsKind
  <2>1. ASSUME rsCall[c].stage # "idle", NEW s \in RSStages, rsCall' = [rsCall EXCEPT ![c].stage = s]
        PROVE  rsCall' \in [Client -> RSCall \cup {RS!Idle}]
    <3> DEFINE e == [rsCall[c] EXCEPT !.stage = s]
    <3>1. rsCall[c] \in RSCall
      BY <2>1, RSCallDef
    <3>2. e \in RSCall
      BY <3>1 DEF RSCall
    <3>3. rsCall' = [rsCall EXCEPT ![c] = e]
      BY <2>1
    <3> HIDE DEF e
    <3>4. QED BY <3>2, <3>3 DEF RSCallsOK
  <2>2. ASSUME rsCall' = [rsCall EXCEPT ![c] = RS!Idle] PROVE rsCall' \in [Client -> RSCall \cup {RS!Idle}]
    BY <2>2 DEF RSCallsOK
  <2>3. ASSUME rsKind = "PRODUCTION", rsCall' \in [Client -> RSCall \cup {RS!Idle}],
               UNCHANGED <<rsKind, rsProofs>>
        PROVE  RSCallsOK' /\ rsKind' = rsKind
    BY <2>3 DEF RSCallsOK
  <2>4. CASE RS!Invoke(c)
    <3>1. PICK op \in RS!Operations, a \in Action, q \in Request, r \in RS!Reservation :
             rsCall' = [rsCall EXCEPT ![c] = [stage |-> "open", op |-> op,
                 action |-> a, request |-> q, reservation |-> r, created |-> FALSE]]
      BY <2>4 DEF RS!Invoke
    <3> DEFINE e == [stage |-> "open", op |-> op, action |-> a, request |-> q,
                     reservation |-> r, created |-> FALSE]
    <3>2. e \in RSCall
      BY DEF RSCall, RSStages
    <3> HIDE DEF e
    <3>3. rsCall' = [rsCall EXCEPT ![c] = e]
      BY <3>1 DEF e
    <3>4. rsCall' \in [Client -> RSCall \cup {RS!Idle}]
      BY <3>2, <3>3 DEF RSCallsOK
    <3>5. rsKind = "PRODUCTION" /\ UNCHANGED <<rsKind, rsProofs>>
      BY <2>4 DEF RS!Invoke
    <3>6. QED BY <2>3, <3>4, <3>5
  <2>5. CASE rsCall[c].stage # "idle"
    <3>1. rsKind = "PRODUCTION"
      BY <2>5, RSCallDef
    <3>2. CASE RS!OpenFile(c)
      <4> DEFINE t == rsFile = "absent"
                 e == [rsCall[c] EXCEPT !.stage = "credential", !.created = t]
      <4>1. t \in BOOLEAN
        OBVIOUS
      <4>2. rsCall' = [rsCall EXCEPT ![c] = e]
        BY <3>2 DEF RS!OpenFile
      <4> HIDE DEF t
      <4>3. rsCall[c] \in RSCall
        BY <2>5, RSCallDef
      <4>4. e \in RSCall
        BY <4>1, <4>3 DEF RSCall, RSStages
      <4> HIDE DEF e
      <4>5. rsCall' \in [Client -> RSCall \cup {RS!Idle}]
        BY <4>2, <4>4 DEF RSCallsOK
      <4>6. UNCHANGED <<rsKind, rsProofs>>
        BY <3>2 DEF RS!OpenFile
      <4>7. QED BY <2>3, <3>1, <4>5, <4>6
    <3>3. CASE RS!OpenCredential(c)
      <4>1. rsCall' = [rsCall EXCEPT ![c] = RS!Idle] \/ \E s \in RSStages : rsCall' = [rsCall EXCEPT ![c].stage = s]
        BY <3>3 DEF RS!OpenCredential, RS!Goes, RS!Exits, RSStages
      <4>2. UNCHANGED <<rsKind, rsProofs>>
        BY <3>3 DEF RS!OpenCredential
      <4>3. QED BY <2>1, <2>2, <2>3, <2>5, <3>1, <4>1, <4>2
    <3>4. CASE RS!SealCredential(c) \/ RS!Metadata(c) \/ RS!Recover(c)
      <4>1. \E s \in RSStages : rsCall' = [rsCall EXCEPT ![c].stage = s]
        BY <3>4 DEF RS!SealCredential, RS!Metadata, RS!Recover, RS!Goes, RSStages
      <4>2. UNCHANGED <<rsKind, rsProofs>>
        BY <3>4 DEF RS!SealCredential, RS!Metadata, RS!Recover
      <4>3. QED BY <2>1, <2>3, <2>5, <3>1, <4>1, <4>2
    <3>5. CASE RS!Die(c) \/ RS!Observe(c) \/ RS!Validate(c) \/ RS!Reserve(c) \/ RS!MarkAttempted(c)
               \/ RS!MarkAgain(c) \/ RS!AnswerOnly(c)
      <4>1. rsCall' = [rsCall EXCEPT ![c] = RS!Idle] /\ UNCHANGED <<rsKind, rsProofs>>
        BY <3>5 DEF RS!Die, RS!Observe, RS!Validate, RS!Reserve, RS!MarkAttempted, RS!MarkAgain, RS!AnswerOnly, RS!Exits
      <4>2. QED BY <2>2, <2>3, <3>1, <4>1
    <3>6. CASE RS!Invoke(c)
      BY <2>4, <3>6
    <3>7. QED BY <1>1, <3>2, <3>3, <3>4, <3>5, <3>6 DEF RS!Helper
  <2>6. CASE rsCall[c].stage = "idle" /\ ~RS!Invoke(c)
    <3>1. RS!Die(c)
      BY <1>1, <2>6 DEF RS!Helper, RS!OpenFile, RS!OpenCredential, RS!SealCredential, RS!Metadata, RS!Recover, RS!Observe,
         RS!Validate, RS!Reserve, RS!MarkAttempted, RS!MarkAgain, RS!AnswerOnly, RS!Runs
    <3>2. rsCall[c] \in RSCall
      BY <3>1 DEF RS!Die, RSCallsOK
    <3>3. QED BY <2>6, <3>2 DEF RSCall, RSStages
  <2>7. QED BY <2>4, <2>5, <2>6
<1>2. CASE RS!Family
  <2>1. UNCHANGED <<rsKind, rsCall>>
    BY <1>2 DEF RS!Family
  <2>2. rsProofs' = rsProofs \/ \E a \in Action, f \in RS!Fixtures : rsProofs' = rsProofs \cup
            {[action |-> a, attempt |-> Len(rsEffects[a]), fixture |-> f]}
    BY <1>2 DEF RS!Family, RS!FamilyRecover, RS!Reconcile, RS!FamilyObserve, RS!FamilyValidate, RS!FamilyReserve,
                RS!FamilyAttempted, RS!FamilyConfirm, RS!IssueReconciliation
  <2>3. \A p \in rsProofs' : RSProofOK(p)
    BY <2>2 DEF RSCallsOK, RSProofOK
  <2>4. QED BY <2>1, <2>3 DEF RSCallsOK
<1>3. CASE UNCHANGED rsVars
  BY <1>3 DEF rsVars, RSCallsOK
<1>4. QED BY <1>1, <1>2, <1>3 DEF RS!Next

\* Every step is one of those on the tables.
LEMMA RSStepIsTablesStep ==
  ASSUME MaxAttempts \in Nat, RSIInv, [RS!Next]_rsVars
  PROVE  RSTablesStep
<1>1. ASSUME NEW c \in Client, RS!Helper(c) PROVE RSTablesStep
  <2>1. ASSUME rsCall[c].stage = "operate"
        PROVE  rsKind = "PRODUCTION" /\ rsCall[c].action \in Action /\ rsCall[c].request \in Request
               /\ rsCall[c].reservation \in RS!Reservation
    BY <2>1, RSCallDef DEF RSIInv, RSTablesInv, RSTypeOK
  <2>2. CASE RS!Observe(c)
    BY <2>1, <2>2 DEF RS!Observe, RS!Runs, RSTablesStep, RSRowStep
  <2>3. CASE RS!Validate(c)
    BY <2>1, <2>3 DEF RS!Validate, RS!Runs, RSTablesStep, RSRowStep, RSValidateRow
  <2>4. CASE RS!Reserve(c)
    BY <2>1, <2>4 DEF RS!Reserve, RS!Runs, RSTablesStep, RSRowStep, RSReserveRow
  <2>5. CASE RS!MarkAttempted(c)
    <3> DEFINE a == rsCall[c].action
               n == rsCall[c].reservation[2]
    <3>1. a \in Action /\ n \in Nat /\ n \in 1..Len(rsEffects[a]) /\ rsKind = "PRODUCTION"
      BY <2>1, <2>5 DEF RS!MarkAttempted, RS!Runs, RS!OwnReservation, RS!Reservation
    <3>2. RSAttemptRow(a, n)
      BY <2>5, <3>1 DEF RS!MarkAttempted, RSAttemptRow
    <3> HIDE DEF a, n
    <3>3. QED BY <3>1, <3>2 DEF RSTablesStep, RSRowStep
  <2>6. CASE RS!MarkAgain(c)
    <3> DEFINE a == rsCall[c].action
               n == rsCall[c].reservation[2]
    <3>1. a \in Action /\ n \in Nat /\ n \in 1..Len(rsEffects[a]) /\ rsKind = "PRODUCTION"
      BY <2>1, <2>6 DEF RS!MarkAgain, RS!Runs, RS!OwnReservation, RS!Reservation
    <3>2. RSAgainRow(a, n)
      BY <2>6, <3>1 DEF RS!MarkAgain, RSAgainRow
    <3> HIDE DEF a, n
    <3>3. QED BY <3>1, <3>2 DEF RSTablesStep, RSRowStep
  <2>7. CASE RS!Recover(c)
    BY <2>7 DEF RS!Recover, RSTablesStep
  <2>8. CASE RS!Invoke(c) \/ RS!OpenFile(c) \/ RS!OpenCredential(c) \/ RS!SealCredential(c)
             \/ RS!Metadata(c) \/ RS!Die(c) \/ RS!AnswerOnly(c)
    BY <2>8 DEF RS!Invoke, RS!OpenFile, RS!OpenCredential, RS!SealCredential, RS!Metadata, RS!Die, RS!AnswerOnly,
                RSTablesStep
  <2>9. QED BY <1>1, <2>2, <2>3, <2>4, <2>5, <2>6, <2>7, <2>8 DEF RS!Helper
<1>2. CASE RS!Family
  <2>1. rsKind = "TEST"
    BY <1>2 DEF RS!Family
  <2>2. ASSUME NEW a \in Action, NEW n, NEW s \in {"EFFECT_CONFIRMED", "EFFECT_FAILED_SAFE"},
               NEW type \in RSEvidenceTypes, RS!WriteEvidence(a, n, s, type),
               n = Len(rsEffects[a]) /\ type \notin RS!Observed =>
                  type = "LOCAL_NO_EFFECT_PROOF" /\ RS!NotInvoked(a) /\ s = "EFFECT_FAILED_SAFE"
        PROVE  RSTablesStep
    <3>1. rsRecord[a] \in RSPending
      BY <2>2 DEF RS!WriteEvidence, RS!Transition, RS!Transitions, RSPending, RS!Open
    <3>2. RSEvidenceRow(a, s, type)
      BY <2>1, <2>2, <3>1 DEF RS!WriteEvidence, RS!Transition, RSEvidenceRow
    <3>3. QED BY <3>2 DEF RSTablesStep, RSRowStep
  <2>3. CASE RS!FamilyRecover
    BY <2>3 DEF RS!FamilyRecover, RSTablesStep
  <2>4. CASE \E p \in rsProofs : RS!Reconcile(p)
    <3>1. PICK p \in rsProofs : RS!Reconcile(p)
      BY <2>4
    <3>2. p.action \in Action /\ RS!Proves(p.fixture) \in {"EFFECT_CONFIRMED", "EFFECT_FAILED_SAFE"}
          /\ RS!EvidenceType(p.fixture) \in RSEvidenceTypes
      BY DEF RSIInv, RSCallsOK, RSProofOK, RS!Proves, RS!EvidenceType, RSEvidenceTypes
    <3>3. RS!WriteEvidence(p.action, p.attempt, RS!Proves(p.fixture), RS!EvidenceType(p.fixture))
      BY <3>1 DEF RS!Reconcile
    <3>4. p.attempt = Len(rsEffects[p.action]) /\ RS!EvidenceType(p.fixture) \notin RS!Observed =>
             /\ RS!EvidenceType(p.fixture) = "LOCAL_NO_EFFECT_PROOF" /\ RS!NotInvoked(p.action)
             /\ RS!Proves(p.fixture) = "EFFECT_FAILED_SAFE"
      <4>1. p = [action |-> p.action, attempt |-> p.attempt, fixture |-> p.fixture] /\ p \in rsProofs
        BY DEF RSIInv, RSCallsOK, RSProofOK
      <4>2. QED BY <4>1 DEF RS!EvidenceType, RS!Observed, RS!NotInvoked, RS!Proves
    <3>5. QED BY <2>2, <3>2, <3>3, <3>4
  <2>5. ASSUME NEW a \in Action, RS!FamilyObserve(a) \/ RS!FamilyValidate(a) PROVE RSTablesStep
    BY <2>5 DEF RS!FamilyObserve, RS!FamilyValidate, RSTablesStep, RSRowStep, RSValidateRow, RS!Transition,
                RS!Transitions
  <2>6. ASSUME NEW a \in Action, NEW q \in Request, RS!FamilyReserve(a, q) PROVE RSTablesStep
    <3>1. rsRecord[a] \in {"VALIDATED", "EFFECT_FAILED_SAFE"}
      BY <2>6 DEF RS!FamilyReserve, RS!Transition, RS!Transitions
    <3>2. RSReserveRow(a, q)
      BY <2>6, <3>1 DEF RS!FamilyReserve, RS!Transition, RSReserveRow
    <3>3. QED BY <3>2 DEF RSTablesStep, RSRowStep
  <2>7. ASSUME NEW a \in Action, NEW n \in 1..MaxAttempts, RS!FamilyAttempted(a, n) PROVE RSTablesStep
    <3>1. rsRecord[a] = "EFFECT_RESERVED"
      BY <2>7 DEF RS!FamilyAttempted, RS!Transition, RS!Transitions
    <3>2. RSAttemptRow(a, n)
      BY <2>7, <3>1 DEF RS!FamilyAttempted, RS!Transition, RSAttemptRow
    <3>3. QED BY <3>2 DEF RSTablesStep, RSRowStep
  <2>8. ASSUME NEW a \in Action, NEW n \in 1..MaxAttempts, RS!FamilyConfirm(a, n) PROVE RSTablesStep
    <3>1. "RESULT" \in RSEvidenceTypes /\ "RESULT" \in RS!Observed
      BY DEF RSEvidenceTypes, RS!Observed
    <3>2. QED BY <2>2, <2>8, <3>1 DEF RS!FamilyConfirm
  <2>9. ASSUME NEW a \in Action, NEW f \in RS!Fixtures, RS!IssueReconciliation(a, f) PROVE RSTablesStep
    BY <2>9 DEF RS!IssueReconciliation, RSTablesStep
  <2>10. QED BY <1>2, <2>3, <2>4, <2>5, <2>6, <2>7, <2>8, <2>9 DEF RS!Family
<1>3. CASE UNCHANGED rsVars
  BY <1>3 DEF rsVars, RS!tables, RSTablesStep
<1>4. QED BY <1>1, <1>2, <1>3 DEF RS!Next

\* The units given to one action do not depend on another's.
LEMMA RSGivenFacts ==
  ASSUME IsFiniteSet(Action), MaxAttempts \in Nat, NEW a \in Action
  PROVE  /\ IsFiniteSet(RS!Reservation) /\ RSGiven(a) \in SUBSET RS!Reservation
         /\ \A g, h : (\A n \in 1..MaxAttempts : h[<<a, n>>] = g[<<a, n>>])
                         => Units(h, RSGiven(a)) = Units(g, RSGiven(a))
<1>1. IsFiniteSet(1..MaxAttempts)
  BY FS_Interval
<1>2. IsFiniteSet(RS!Reservation)
  BY <1>1, FS_Product DEF RS!Reservation
<1>3. RSGiven(a) \in SUBSET RS!Reservation
  BY DEF RSGiven, RS!Reservation
<1>4. ASSUME NEW g, NEW h, \A n \in 1..MaxAttempts : h[<<a, n>>] = g[<<a, n>>]
      PROVE  Units(h, RSGiven(a)) = Units(g, RSGiven(a))
  <2>1. \A x \in RSGiven(a) : h[x] = g[x]
    BY <1>4 DEF RSGiven
  <2>2. QED BY <2>1 DEF Units
<1>5. QED BY <1>2, <1>3, <1>4

LEMMA RSClosedFinite ==
  ASSUME RSTypeOK, NEW a \in Action
  PROVE  IsFiniteSet(RSClosed(a)) /\ Cardinality(RSClosed(a)) \in Nat
<1>1. Len(rsEffects[a]) \in Nat
  BY LenProperties DEF RSTypeOK
<1>2. IsFiniteSet(1..Len(rsEffects[a]))
  BY <1>1, FS_Interval
<1>3. RSClosed(a) \subseteq 1..Len(rsEffects[a])
  BY DEF RSClosed
<1>4. QED BY <1>2, <1>3, FS_Subset, FS_CardinalityType

\* A step that changes the rows of one action leaves the others as they were.
LEMMA RSOneRow ==
  ASSUME IsFiniteSet(Action), MaxAttempts \in Nat, RSTablesInv, NEW a \in Action, NEW s \in RSState,
         rsRecord' = [rsRecord EXCEPT ![a] = s], rsRecord[a] # RS!Unseen, s # RS!Unseen,
         UNCHANGED <<rsKind, rsConflicts>>,
         rsEffects' \in [Action -> Seq(RSEffect)], \A b \in Action \ {a} : rsEffects'[b] = rsEffects[b],
         rsGrants' \in [RS!Reservation -> Nat],
         \A b \in Action \ {a}, n \in 1..MaxAttempts : rsGrants'[<<b, n>>] = rsGrants[<<b, n>>],
         RSRowOK(a)', RSGrantOK(a)', rsKind = "PRODUCTION" => RSProductionOK(a)'
  PROVE  RSTablesInv'
<1> USE DEF RSTablesInv
<1>1. RSTypeOK'
  BY DEF RSTypeOK
<1>2. \A b \in Action : rsRecord'[b] = RS!Unseen <=> rsRecord[b] = RS!Unseen
  BY DEF RSTypeOK
<1>3. RSScopeInv'
  BY <1>2 DEF RSScopeInv
<1>4. ASSUME NEW b \in Action \ {a}
      PROVE  /\ RSRowOK(b)' /\ RSGrantOK(b)'
             /\ rsKind = "PRODUCTION" => RSProductionOK(b)'
  <2>1. rsRecord'[b] = rsRecord[b] /\ rsEffects'[b] = rsEffects[b] /\ RS!Latest(b)' = RS!Latest(b)
    BY <1>4 DEF RSTypeOK, RS!Latest
  <2>2. \A n \in 1..MaxAttempts : rsGrants'[<<b, n>>] = rsGrants[<<b, n>>]
    BY <1>4
  <2>3. Units(rsGrants, RSGiven(b))' = Units(rsGrants, RSGiven(b))
    <3>1. RSGiven(b)' = RSGiven(b)
      BY DEF RSGiven
    <3>2. Units(rsGrants, RSGiven(b))' = Units(rsGrants', RSGiven(b))
      BY <3>1 DEF Units
    <3>3. QED BY <2>2, <3>2, RSGivenFacts
  <2>4. RSClosed(b)' = RSClosed(b)
    BY <2>1 DEF RSClosed
  <2>5. RSRowOK(b)'
    BY <2>1 DEF RSRowOK, RSRowsInv
  <2>6. RSGrantOK(b)'
    <3>1. RSGrantOK(b)
      BY DEF RSGrantInv
    <3>2. QED BY <2>1, <2>2, <2>3, <2>4, <3>1 DEF RSGrantOK
  <2>7. rsKind = "PRODUCTION" => RSProductionOK(b)'
    BY <2>1, <2>2 DEF RSProductionOK, RSProductionInv
  <2>8. QED BY <2>5, <2>6, <2>7
<1>5. RSRowsInv' /\ RSGrantInv' /\ RSProductionInv'
  BY <1>4 DEF RSRowsInv, RSGrantInv, RSProductionInv
<1>6. QED BY <1>1, <1>3, <1>5

\* An attempt is changed in place.
LEMMA RSEffectIs ==
  ASSUME RSTypeOK, NEW a \in Action, NEW n \in 1..Len(rsEffects[a]), NEW e \in RSEffect,
         rsEffects' = [rsEffects EXCEPT ![a][n] = e]
  PROVE  /\ rsEffects' \in [Action -> Seq(RSEffect)] /\ Len(rsEffects'[a]) = Len(rsEffects[a])
         /\ \A b \in Action \ {a} : rsEffects'[b] = rsEffects[b]
         /\ rsEffects'[a][n] = e
         /\ \A m \in 1..Len(rsEffects[a]) : m # n => rsEffects'[a][m] = rsEffects[a][m]
         /\ rsEffects[a] # <<>> /\ rsEffects'[a] # <<>> /\ Len(rsEffects[a]) \in Nat
<1> DEFINE row == [rsEffects[a] EXCEPT ![n] = e]
<1>1. rsEffects[a] \in Seq(RSEffect) /\ Len(rsEffects[a]) \in Nat /\ DOMAIN rsEffects[a] = 1..Len(rsEffects[a])
  BY LenProperties DEF RSTypeOK
<1>2. row \in Seq(RSEffect) /\ Len(row) = Len(rsEffects[a]) /\ row[n] = e
      /\ \A m \in 1..Len(rsEffects[a]) : m # n => row[m] = rsEffects[a][m]
  BY <1>1
<1>3. rsEffects' = [rsEffects EXCEPT ![a] = row]
  OBVIOUS
<1>4. rsEffects[a] # <<>> /\ row # <<>>
  BY <1>1, <1>2, EmptySeq
<1> HIDE DEF row
<1>5. QED BY <1>1, <1>2, <1>3, <1>4 DEF RSTypeOK

LEMMA RSObserveKeeps ==
  ASSUME IsFiniteSet(Action), MaxAttempts \in Nat, RSTablesInv, NEW a \in Action, rsKind' = rsKind,
         RS!ObserveRow(a)
  PROVE  RSTablesInv'
<1> USE DEF RSTablesInv
<1>1. UNCHANGED <<rsEffects, rsGrants>>
  BY DEF RS!ObserveRow
<1>2. CASE RS!Holders(a) # {}
  <2>1. rsConflicts' = rsConflicts \cup {<<b, a>> : b \in RS!Holders(a)} /\ rsRecord' = rsRecord
    BY <1>2 DEF RS!ObserveRow
  <2>2. RSTypeOK'
    BY <1>1, <2>1 DEF RSTypeOK
  <2>3. RSScopeInv'
    BY <2>1 DEF RSScopeInv, RS!Holders
  <2>4. RSRowsInv'
    BY <1>1, <2>1 DEF RSRowsInv, RSRowOK, RS!Latest
  <2>5. RSGrantInv'
    BY <1>1, <2>1 DEF RSGrantInv, RSGrantOK, RSGiven, RSClosed, Units
  <2>6. RSProductionInv'
    BY <1>1, <2>1 DEF RSProductionInv, RSProductionOK
  <2>7. QED BY <2>2, <2>3, <2>4, <2>5, <2>6
<1>3. CASE RS!Holders(a) = {}
  <2>1. rsRecord' = [rsRecord EXCEPT ![a] = IF @ = RS!Unseen THEN "OBSERVED" ELSE @]
        /\ rsConflicts' = rsConflicts
    BY <1>3 DEF RS!ObserveRow
  <2>2. CASE rsRecord[a] # RS!Unseen
    <3>1. rsRecord' = rsRecord
      BY <2>1, <2>2 DEF RSTypeOK
    <3>2. RSTypeOK' /\ RSScopeInv'
      BY <1>1, <2>1, <3>1 DEF RSTypeOK, RSScopeInv
    <3>3. RSRowsInv'
      BY <1>1, <3>1 DEF RSRowsInv, RSRowOK, RS!Latest
    <3>4. RSGrantInv'
      BY <1>1, <3>1 DEF RSGrantInv, RSGrantOK, RSGiven, RSClosed, Units
    <3>5. RSProductionInv'
      BY <1>1, <3>1 DEF RSProductionInv, RSProductionOK
    <3>6. QED BY <3>2, <3>3, <3>4, <3>5
  <2>3. CASE rsRecord[a] = RS!Unseen
    <3>1. rsRecord' = [rsRecord EXCEPT ![a] = "OBSERVED"]
      BY <2>1, <2>3
    <3>2. /\ rsRecord' \in [Action -> RSState] /\ rsRecord'[a] = "OBSERVED"
          /\ \A b \in Action \ {a} : rsRecord'[b] = rsRecord[b]
      BY <3>1 DEF RSTypeOK, RSState
    <3>3. RSTypeOK'
      BY <1>1, <3>2 DEF RSTypeOK
    <3>4. RSScopeInv'
      BY <1>3, <2>1, <3>2 DEF RSScopeInv, RS!Holders, RS!Unseen
    <3>5. rsEffects[a] = <<>>
      BY <2>3 DEF RSRowsInv, RSRowOK, RSEarly
    <3>6. RSRowsInv'
      BY <1>1, <2>3, <3>2 DEF RSRowsInv, RSRowOK, RS!Latest, RSEarly, RSPending, RS!Open, RS!Unseen
    <3>7. ASSUME NEW b \in Action PROVE RSGrantOK(b)'
      <4>1. RSGrantOK(b)
        BY DEF RSGrantInv
      <4>2. RSClosed(b)' = RSClosed(b) /\ Units(rsGrants, RSGiven(b))' = Units(rsGrants, RSGiven(b))
        BY <1>1 DEF RSClosed, RSGiven, Units
      <4>3. rsRecord'[b] \in RS!Open <=> rsRecord[b] \in RS!Open
        BY <2>3, <3>2 DEF RS!Open, RS!Unseen
      <4>4. QED BY <1>1, <4>1, <4>2, <4>3 DEF RSGrantOK
    <3>8. ASSUME NEW b \in Action, rsKind = "PRODUCTION" PROVE RSProductionOK(b)'
      <4>1. RSProductionOK(b)
        BY <3>8 DEF RSProductionInv
      <4>2. CASE b = a
        BY <1>1, <2>3, <3>5, <4>1, <4>2 DEF RSProductionOK, RS!Open, RS!Unseen
      <4>3. CASE b # a
        BY <1>1, <3>2, <4>1, <4>3 DEF RSProductionOK
      <4>4. QED BY <4>2, <4>3
    <3>9. QED BY <3>3, <3>4, <3>6, <3>7, <3>8 DEF RSGrantInv, RSProductionInv
  <2>4. QED BY <2>2, <2>3
<1>4. QED BY <1>2, <1>3

LEMMA RSValidateKeeps ==
  ASSUME IsFiniteSet(Action), MaxAttempts \in Nat, RSTablesInv, NEW a \in Action, rsKind' = rsKind,
         RSValidateRow(a)
  PROVE  RSTablesInv'
<1>1. /\ rsRecord[a] = "OBSERVED" /\ rsRecord' = [rsRecord EXCEPT ![a] = "VALIDATED"]
      /\ UNCHANGED <<rsConflicts, rsEffects, rsGrants>>
  BY DEF RSValidateRow, RS!SetState
<1>2. rsRecord'[a] = "VALIDATED"
  BY <1>1 DEF RSTablesInv, RSTypeOK
<1>3. RSRowOK(a) /\ RSGrantOK(a) /\ (rsKind = "PRODUCTION" => RSProductionOK(a))
  BY DEF RSTablesInv, RSRowsInv, RSGrantInv, RSProductionInv
<1>4. RSRowOK(a)'
  BY <1>1, <1>2, <1>3 DEF RSRowOK, RS!Latest, RSEarly, RSPending, RS!Open
<1>5. RSGrantOK(a)'
  <2>1. RSClosed(a)' = RSClosed(a) /\ Units(rsGrants, RSGiven(a))' = Units(rsGrants, RSGiven(a))
    BY <1>1 DEF RSClosed, RSGiven, Units
  <2>2. rsRecord'[a] \notin RS!Open /\ rsRecord[a] \notin RS!Open
    BY <1>1, <1>2 DEF RS!Open
  <2>3. QED BY <1>1, <1>3, <2>1, <2>2 DEF RSGrantOK
<1>6. rsKind = "PRODUCTION" => RSProductionOK(a)'
  BY <1>1, <1>2, <1>3 DEF RSProductionOK, RSPending, RS!Open
<1>7. "VALIDATED" \in RSState /\ "VALIDATED" # RS!Unseen /\ rsRecord[a] # RS!Unseen
  BY <1>1 DEF RSState, RS!Unseen
<1>8. rsEffects' \in [Action -> Seq(RSEffect)] /\ rsGrants' \in [RS!Reservation -> Nat]
  BY <1>1 DEF RSTablesInv, RSTypeOK
<1>9. QED BY <1>1, <1>4, <1>5, <1>6, <1>7, <1>8, RSOneRow

LEMMA RSReserveKeeps ==
  ASSUME IsFiniteSet(Action), MaxAttempts \in Nat, RSTablesInv, NEW a \in Action,
         NEW q \in Request, rsKind' = rsKind, RSReserveRow(a, q)
  PROVE  RSTablesInv'
<1> DEFINE new == [request |-> q, result |-> "EFFECT_RESERVED", evidence |-> "none"]
           row == Append(rsEffects[a], new)
<1>1. /\ rsRecord[a] \in {"VALIDATED", "EFFECT_FAILED_SAFE"} /\ Len(rsEffects[a]) < MaxAttempts
      /\ rsRecord' = [rsRecord EXCEPT ![a] = "EFFECT_RESERVED"]
      /\ rsEffects' = [rsEffects EXCEPT ![a] = row]
      /\ UNCHANGED <<rsConflicts, rsGrants>>
  BY DEF RSReserveRow, RS!SetState, RS!AddEffect
<1>2. new \in RSEffect /\ new.evidence = "none" /\ new.result = "EFFECT_RESERVED"
  BY DEF RSEffect, RSState
<1>3. rsRecord'[a] = "EFFECT_RESERVED"
  BY <1>1 DEF RSTablesInv, RSTypeOK
<1>4. RSRowOK(a) /\ RSGrantOK(a) /\ (rsKind = "PRODUCTION" => RSProductionOK(a))
  BY DEF RSTablesInv, RSRowsInv, RSGrantInv, RSProductionInv
<1> HIDE DEF new
<1>5. rsEffects[a] \in Seq(RSEffect) /\ Len(rsEffects[a]) \in Nat
  BY LenProperties DEF RSTablesInv, RSTypeOK
<1>6. /\ row \in Seq(RSEffect) /\ Len(row) = Len(rsEffects[a]) + 1 /\ row[Len(rsEffects[a]) + 1] = new
      /\ \A m \in 1..Len(rsEffects[a]) : row[m] = rsEffects[a][m]
  BY <1>2, <1>5, AppendProperties
<1> HIDE DEF row
<1>7. rsEffects' \in [Action -> Seq(RSEffect)] /\ rsEffects'[a] = row
      /\ \A b \in Action \ {a} : rsEffects'[b] = rsEffects[b]
  BY <1>1, <1>6 DEF RSTablesInv, RSTypeOK
<1>8. rsEffects'[a] # <<>> /\ Len(rsEffects'[a]) = Len(rsEffects[a]) + 1 /\ RS!Latest(a)' = new
  <2>1. RS!Latest(a)' = row[Len(row)]
    BY <1>7 DEF RS!Latest
  <2>2. QED BY <1>5, <1>6, <1>7, <2>1, EmptySeq
<1>9. RSRowOK(a)'
  BY <1>1, <1>2, <1>3, <1>5, <1>8 DEF RSRowOK, RSEarly, RS!Unseen
<1>10. RSGrantOK(a)'
  <2>1. RSClosed(a)' = RSClosed(a)
    <3>1. ASSUME NEW n \in 1..Len(rsEffects'[a]), rsEffects'[a][n].evidence # "none"
          PROVE  n \in 1..Len(rsEffects[a]) /\ rsEffects'[a][n] = rsEffects[a][n]
      BY <1>2, <1>5, <1>6, <1>7, <1>8, <3>1
    <3>2. ASSUME NEW n \in 1..Len(rsEffects[a])
          PROVE  n \in 1..Len(rsEffects'[a]) /\ rsEffects'[a][n] = rsEffects[a][n]
      BY <1>5, <1>6, <1>7, <1>8
    <3>3. QED BY <3>1, <3>2 DEF RSClosed
  <2>2. Units(rsGrants, RSGiven(a))' = Units(rsGrants, RSGiven(a))
    BY <1>1 DEF RSGiven, Units
  <2>3. rsRecord'[a] \notin RS!Open /\ rsRecord[a] \notin RS!Open
    BY <1>1, <1>3 DEF RS!Open
  <2>4. ASSUME NEW n \in 1..MaxAttempts, rsGrants'[<<a, n>>] > 0 PROVE n <= Len(rsEffects'[a])
    BY <1>1, <1>4, <1>5, <1>8, <2>4 DEF RSGrantOK
  <2>5. QED BY <1>4, <2>1, <2>2, <2>3, <2>4 DEF RSGrantOK
<1>11. ASSUME rsKind = "PRODUCTION" PROVE RSProductionOK(a)'
  <2>1. rsRecord[a] \notin RS!Open /\ rsRecord[a] \notin RSPending
    BY <1>1 DEF RSPending, RS!Open
  <2>2. Len(rsEffects[a]) = 0
    <3>1. RSProductionOK(a)
      BY <1>4, <1>11
    <3> DEFINE len == Len(rsEffects[a])
    <3>2. len \in Nat /\ len <= 1 /\ len # 1
      BY <1>5, <2>1, <3>1 DEF RSProductionOK
    <3> HIDE DEF len
    <3>3. len = 0
      BY <3>2
    <3>4. QED BY <3>3 DEF len
  <2>3. Len(rsEffects'[a]) = 1 /\ rsEffects'[a][1] = new
    BY <1>6, <1>7, <2>2
  <2>4. \A n \in 1..MaxAttempts : ~(rsGrants'[<<a, n>>] > 0)
    BY <1>1, <1>4, <1>11, <2>1 DEF RSProductionOK
  <2>5. QED BY <1>2, <1>3, <2>3, <2>4 DEF RSProductionOK, RSPending
<1>12. "EFFECT_RESERVED" \in RSState /\ "EFFECT_RESERVED" # RS!Unseen /\ rsRecord[a] # RS!Unseen
  BY <1>1 DEF RSState, RS!Unseen
<1>13. rsGrants' \in [RS!Reservation -> Nat]
  BY <1>1 DEF RSTablesInv, RSTypeOK
<1>14. QED BY <1>1, <1>7, <1>9, <1>10, <1>11, <1>12, <1>13, RSOneRow

LEMMA RSAttemptKeeps ==
  ASSUME IsFiniteSet(Action), MaxAttempts \in Nat, RSTablesInv, NEW a \in Action,
         NEW n \in Nat, rsKind' = rsKind, RSAttemptRow(a, n)
  PROVE  RSTablesInv'
<1> DEFINE e == [rsEffects[a][n] EXCEPT !.result = "EFFECT_ATTEMPTED"]
<1>1. /\ rsRecord[a] = "EFFECT_RESERVED" /\ n \in 1..Len(rsEffects[a])
      /\ rsRecord' = [rsRecord EXCEPT ![a] = "EFFECT_ATTEMPTED"]
      /\ rsEffects' = [rsEffects EXCEPT ![a][n] = e]
      /\ rsGrants' = [rsGrants EXCEPT ![<<a, n>>] = @ + 1]
      /\ UNCHANGED rsConflicts
  BY DEF RSAttemptRow, RS!SetState, RS!SetEffect, RS!Grant
<1>2. RSRowOK(a) /\ RSGrantOK(a) /\ (rsKind = "PRODUCTION" => RSProductionOK(a)) /\ RSTypeOK
  BY DEF RSTablesInv, RSRowsInv, RSGrantInv, RSProductionInv
<1>3. rsEffects[a] \in Seq(RSEffect) /\ rsEffects[a][n] \in RSEffect
  BY <1>1, <1>2, ElementOfSeq DEF RSTypeOK
<1>4. e \in RSEffect /\ e.result = "EFFECT_ATTEMPTED" /\ e.evidence = rsEffects[a][n].evidence
  BY <1>3 DEF RSEffect, RSState
<1> HIDE DEF e
<1>5. rsRecord'[a] = "EFFECT_ATTEMPTED"
  BY <1>1, <1>2 DEF RSTypeOK
<1>6. /\ rsEffects' \in [Action -> Seq(RSEffect)] /\ Len(rsEffects'[a]) = Len(rsEffects[a])
      /\ \A b \in Action \ {a} : rsEffects'[b] = rsEffects[b]
      /\ rsEffects'[a][n] = e
      /\ \A m \in 1..Len(rsEffects[a]) : m # n => rsEffects'[a][m] = rsEffects[a][m]
      /\ rsEffects[a] # <<>> /\ rsEffects'[a] # <<>> /\ Len(rsEffects[a]) \in Nat
  BY <1>1, <1>2, <1>4, RSEffectIs
<1>7. \A m \in 1..Len(rsEffects[a]) : rsEffects'[a][m].evidence = rsEffects[a][m].evidence
  BY <1>4, <1>6
<1>8. Len(rsEffects[a]) \in 1..Len(rsEffects[a])
  BY <1>1, <1>6
<1>9. RSRowOK(a)'
  <2>1. RS!Latest(a)'.evidence = RS!Latest(a).evidence
    <3>1. RS!Latest(a)' = rsEffects'[a][Len(rsEffects[a])]
      BY <1>6 DEF RS!Latest
    <3>2. QED BY <1>7, <1>8, <3>1 DEF RS!Latest
  <2>2. RS!Latest(a).evidence = "none"
    BY <1>1, <1>2 DEF RSRowOK, RSPending
  <2>3. QED BY <1>2, <1>5, <1>6, <2>1, <2>2 DEF RSRowOK, RSEarly, RS!Unseen
<1>10. <<a, n>> \in RS!Reservation /\ n \in 1..MaxAttempts
  BY <1>1, <1>2, <1>6 DEF RSRowOK, RS!Reservation
<1>11. /\ rsGrants' \in [RS!Reservation -> Nat]
       /\ \A r \in RS!Reservation : r # <<a, n>> => rsGrants'[r] = rsGrants[r]
       /\ rsGrants'[<<a, n>>] = rsGrants[<<a, n>>] + 1
  <2> DEFINE x == <<a, n>>
             g == rsGrants[x] + 1
  <2>1. x \in RS!Reservation /\ rsGrants \in [RS!Reservation -> Nat] /\ g \in Nat
    BY <1>2, <1>10 DEF RSTypeOK
  <2>2. rsGrants' = [rsGrants EXCEPT ![x] = g]
    BY <1>1
  <2>3. g = rsGrants[x] + 1
    OBVIOUS
  <2> HIDE DEF x, g
  <2>4. /\ rsGrants' \in [RS!Reservation -> Nat] /\ rsGrants'[x] = g
        /\ \A r \in RS!Reservation : r # x => rsGrants'[r] = rsGrants[r]
    BY <2>1, <2>2
  <2>5. QED BY <2>3, <2>4 DEF x
<1>12. \A b \in Action, m \in 1..MaxAttempts : <<b, m>> # <<a, n>> => rsGrants'[<<b, m>>] = rsGrants[<<b, m>>]
  BY <1>11 DEF RS!Reservation
<1>13. rsRecord[a] \notin RS!Open /\ rsRecord'[a] \in RS!Open
  BY <1>1, <1>5 DEF RS!Open
<1>14. RSGrantOK(a)'
  <2>1. RSClosed(a)' = RSClosed(a)
    BY <1>6, <1>7 DEF RSClosed
  <2>2. Cardinality(Units(rsGrants, RSGiven(a)))' = Cardinality(Units(rsGrants, RSGiven(a))) + 1
    <3>1. <<a, n>> \in RSGiven(a) /\ RSGiven(a) \in SUBSET RS!Reservation /\ IsFiniteSet(RS!Reservation)
      BY <1>10, RSGivenFacts DEF RSGiven
    <3>2. Units(rsGrants, RSGiven(a))' = Units(rsGrants', RSGiven(a))
      BY DEF Units, RSGiven
    <3>3. Cardinality(Units(rsGrants', RSGiven(a))) = Cardinality(Units(rsGrants, RSGiven(a))) + 1
      <4> DEFINE x == <<a, n>>
                 given == RSGiven(a)
      <4>1. x \in RS!Reservation /\ x \in given /\ given \in SUBSET RS!Reservation
        BY <1>10, <3>1
      <4>2. /\ rsGrants \in [RS!Reservation -> Nat] /\ rsGrants' \in [RS!Reservation -> Nat]
            /\ rsGrants'[x] = rsGrants[x] + 1
            /\ \A y \in RS!Reservation \ {x} : rsGrants'[y] = rsGrants[y]
        BY <1>2, <1>11 DEF RSTypeOK
      <4> HIDE DEF x, given
      <4>3. Cardinality(Units(rsGrants', given)) = Cardinality(Units(rsGrants, given)) + 1
        BY <3>1, <4>1, <4>2, UnitsPlus
      <4>4. QED BY <4>3 DEF given
    <3>4. QED BY <3>2, <3>3
  <2>3. /\ Cardinality(Units(rsGrants, RSGiven(a))) \in Nat /\ Cardinality(RSClosed(a)) \in Nat
    <3>1. RSGiven(a) \in SUBSET RS!Reservation /\ IsFiniteSet(RS!Reservation)
      BY RSGivenFacts
    <3>2. QED BY <1>2, <3>1, UnitsFinite, RSClosedFinite DEF RSTypeOK
  <2>4. Cardinality(Units(rsGrants, RSGiven(a))) <= Cardinality(RSClosed(a)) + 0
    BY <1>2, <1>13 DEF RSGrantOK
  <2>5. ASSUME NEW m \in 1..MaxAttempts, rsGrants'[<<a, m>>] > 0 PROVE m <= Len(rsEffects'[a])
    <3>1. CASE m = n
      BY <1>1, <1>6, <3>1
    <3>2. CASE m # n
      BY <1>2, <1>6, <1>12, <2>5, <3>2 DEF RSGrantOK
    <3>3. QED BY <3>1, <3>2
  <2>6. Cardinality(Units(rsGrants, RSGiven(a)))' <= Cardinality(RSClosed(a))' + 1
    BY <2>1, <2>2, <2>3, <2>4
  <2>7. QED BY <1>13, <2>5, <2>6 DEF RSGrantOK
<1>15. ASSUME rsKind = "PRODUCTION" PROVE RSProductionOK(a)'
  <2>1. Len(rsEffects[a]) = 1 /\ n = 1
    <3> DEFINE len == Len(rsEffects[a])
    <3>1. len \in Nat /\ len <= 1 /\ n \in 1..len
      BY <1>1, <1>2, <1>6, <1>15 DEF RSProductionOK
    <3> HIDE DEF len
    <3>2. len = 1 /\ n = 1
      BY <3>1
    <3>3. QED BY <3>2 DEF len
  <2>2. ASSUME NEW m \in 1..MaxAttempts PROVE ~(rsGrants[<<a, m>>] > 0) /\ rsGrants[<<a, m>>] = 0
    <3>1. ~(rsGrants[<<a, m>>] > 0)
      BY <1>2, <1>13, <1>15 DEF RSProductionOK
    <3>2. rsGrants[<<a, m>>] \in Nat
      BY <1>2 DEF RSTypeOK, RS!Reservation
    <3>3. QED BY <3>1, <3>2
  <2>3. \A m \in 1..MaxAttempts : rsGrants'[<<a, m>>] > 0 => rsGrants'[<<a, m>>] = 1
    <3> SUFFICES ASSUME NEW m \in 1..MaxAttempts, rsGrants'[<<a, m>>] > 0
                 PROVE  rsGrants'[<<a, m>>] = 1
      OBVIOUS
    <3>1. CASE m = n
      BY <1>11, <2>2, <3>1
    <3>2. CASE m # n
      BY <1>12, <2>2, <3>2
    <3>3. QED BY <3>1, <3>2
  <2>4. rsEffects'[a][1].result = rsRecord'[a] /\ Len(rsEffects'[a]) = 1 /\ rsRecord'[a] \in RSPending
    BY <1>4, <1>5, <1>6, <1>13, <2>1 DEF RSPending
  <2>5. QED BY <1>13, <2>3, <2>4 DEF RSProductionOK
<1>16. "EFFECT_ATTEMPTED" \in RSState /\ "EFFECT_ATTEMPTED" # RS!Unseen /\ rsRecord[a] # RS!Unseen
  BY <1>1 DEF RSState, RS!Unseen
<1>17. \A b \in Action \ {a}, m \in 1..MaxAttempts : rsGrants'[<<b, m>>] = rsGrants[<<b, m>>]
  BY <1>12
<1>18. QED BY <1>1, <1>6, <1>9, <1>11, <1>14, <1>15, <1>16, <1>17, RSOneRow

LEMMA RSAgainKeeps ==
  ASSUME IsFiniteSet(Action), MaxAttempts \in Nat, RSTablesInv, NEW a \in Action,
         NEW n \in Nat, rsKind' = rsKind, RSAgainRow(a, n)
  PROVE  RSTablesInv'
<1> DEFINE e == [rsEffects[a][n] EXCEPT !.result = "EFFECT_OUTCOME_UNKNOWN"]
<1>1. /\ rsKind = "PRODUCTION" /\ n \in 1..Len(rsEffects[a])
      /\ rsEffects[a][n].result = "EFFECT_ATTEMPTED"
      /\ rsRecord' = [rsRecord EXCEPT ![a] = "EFFECT_OUTCOME_UNKNOWN"]
      /\ rsEffects' = [rsEffects EXCEPT ![a][n] = e]
      /\ UNCHANGED <<rsConflicts, rsGrants>>
  BY DEF RSAgainRow, RS!SetState, RS!SetEffect
<1>2. RSRowOK(a) /\ RSGrantOK(a) /\ RSProductionOK(a) /\ RSTypeOK
  BY <1>1 DEF RSTablesInv, RSRowsInv, RSGrantInv, RSProductionInv
<1>3. rsEffects[a] \in Seq(RSEffect) /\ rsEffects[a][n] \in RSEffect
  BY <1>1, <1>2, ElementOfSeq DEF RSTypeOK
<1>4. e \in RSEffect /\ e.result = "EFFECT_OUTCOME_UNKNOWN" /\ e.evidence = rsEffects[a][n].evidence
  BY <1>3 DEF RSEffect, RSState
<1> HIDE DEF e
<1>5. rsRecord'[a] = "EFFECT_OUTCOME_UNKNOWN"
  BY <1>1, <1>2 DEF RSTypeOK
<1>6. /\ rsEffects' \in [Action -> Seq(RSEffect)] /\ Len(rsEffects'[a]) = Len(rsEffects[a])
      /\ \A b \in Action \ {a} : rsEffects'[b] = rsEffects[b]
      /\ rsEffects'[a][n] = e
      /\ \A m \in 1..Len(rsEffects[a]) : m # n => rsEffects'[a][m] = rsEffects[a][m]
      /\ rsEffects[a] # <<>> /\ rsEffects'[a] # <<>> /\ Len(rsEffects[a]) \in Nat
  BY <1>1, <1>2, <1>4, RSEffectIs
<1>7. \A m \in 1..Len(rsEffects[a]) : rsEffects'[a][m].evidence = rsEffects[a][m].evidence
  BY <1>4, <1>6
<1>8. Len(rsEffects[a]) = 1 /\ n = 1 /\ rsRecord[a] = "EFFECT_ATTEMPTED"
  <2>1. Len(rsEffects[a]) <= 1
    BY <1>2 DEF RSProductionOK
  <2>2. Len(rsEffects[a]) = 1 /\ n = 1
    <3> DEFINE len == Len(rsEffects[a])
    <3>1. len \in Nat /\ len <= 1 /\ n \in 1..len
      BY <1>1, <1>6, <2>1
    <3> HIDE DEF len
    <3>2. len = 1 /\ n = 1
      BY <3>1
    <3>3. QED BY <3>2 DEF len
  <2>3. QED BY <1>1, <1>2, <2>2 DEF RSProductionOK
<1>9. rsRecord[a] \in RS!Open /\ rsRecord'[a] \in RS!Open /\ rsRecord[a] \in RSPending
  BY <1>5, <1>8 DEF RS!Open, RSPending
<1>10. RSRowOK(a)'
  <2>1. RS!Latest(a)'.evidence = RS!Latest(a).evidence
    <3>1. RS!Latest(a)' = rsEffects'[a][1] /\ RS!Latest(a) = rsEffects[a][1]
      BY <1>6, <1>8 DEF RS!Latest
    <3>2. QED BY <1>7, <1>8, <3>1
  <2>2. RS!Latest(a).evidence = "none"
    BY <1>2, <1>9 DEF RSRowOK
  <2>3. QED BY <1>2, <1>5, <1>6, <2>1, <2>2 DEF RSRowOK, RSEarly, RS!Unseen
<1>11. RSGrantOK(a)'
  <2>1. RSClosed(a)' = RSClosed(a)
    BY <1>6, <1>7 DEF RSClosed
  <2>2. Units(rsGrants, RSGiven(a))' = Units(rsGrants, RSGiven(a))
    BY <1>1 DEF RSGiven, Units
  <2>3. QED BY <1>1, <1>2, <1>6, <1>9, <2>1, <2>2 DEF RSGrantOK
<1>12. RSProductionOK(a)'
  <2>1. rsEffects'[a][1].result = rsRecord'[a] /\ Len(rsEffects'[a]) = 1 /\ rsRecord'[a] \in RSPending
    BY <1>4, <1>5, <1>6, <1>8, <1>9 DEF RSPending
  <2>2. QED BY <1>1, <1>2, <1>9, <2>1 DEF RSProductionOK
<1>13. /\ "EFFECT_OUTCOME_UNKNOWN" \in RSState /\ "EFFECT_OUTCOME_UNKNOWN" # RS!Unseen
       /\ rsRecord[a] # RS!Unseen
  BY <1>8 DEF RSState, RS!Unseen
<1>14. rsGrants' \in [RS!Reservation -> Nat]
       /\ \A b \in Action \ {a}, m \in 1..MaxAttempts : rsGrants'[<<b, m>>] = rsGrants[<<b, m>>]
  BY <1>1, <1>2 DEF RSTypeOK
<1>15. QED BY <1>1, <1>6, <1>10, <1>11, <1>12, <1>13, <1>14, RSOneRow

LEMMA RSEvidenceKeeps ==
  ASSUME IsFiniteSet(Action), MaxAttempts \in Nat, RSTablesInv, NEW a \in Action,
         NEW s \in {"EFFECT_CONFIRMED", "EFFECT_FAILED_SAFE"}, NEW type \in RSEvidenceTypes,
         rsKind' = rsKind, RSEvidenceRow(a, s, type)
  PROVE  RSTablesInv'
<1> DEFINE n == Len(rsEffects[a])
           e == [[rsEffects[a][n] EXCEPT !.result = s] EXCEPT !.evidence = type]
<1>1. /\ rsKind = "TEST" /\ rsEffects[a] # <<>> /\ rsRecord[a] \in RSPending
      /\ rsRecord' = [rsRecord EXCEPT ![a] = s]
      /\ UNCHANGED <<rsConflicts, rsGrants>>
  BY DEF RSEvidenceRow, RS!SetState
<1>2. RSRowOK(a) /\ RSGrantOK(a) /\ RSTypeOK
  BY <1>1 DEF RSTablesInv, RSRowsInv, RSGrantInv
<1>3. n \in Nat /\ n \in 1..Len(rsEffects[a]) /\ rsEffects[a] \in Seq(RSEffect)
  BY <1>1, <1>2, LenProperties, EmptySeq DEF RSTypeOK
<1>4. rsEffects[a][n] \in RSEffect
  BY <1>3, ElementOfSeq
<1>5. e \in RSEffect /\ e.evidence = type /\ type # "none"
  BY <1>4 DEF RSEffect, RSState, RSEvidenceTypes
<1>6. rsEffects' = [rsEffects EXCEPT ![a][n] = e]
  <2>1. rsEffects' = [rsEffects EXCEPT ![a][n].result = s, ![a][n].evidence = type]
    BY DEF RSEvidenceRow
  <2>2. DOMAIN rsEffects = Action /\ DOMAIN rsEffects[a] = 1..Len(rsEffects[a])
    BY <1>2, <1>3, LenProperties DEF RSTypeOK
  <2> HIDE DEF n
  <2>3. QED BY <1>3, <2>1, <2>2
<1> HIDE DEF e
<1>7. rsRecord'[a] = s
  BY <1>1, <1>2 DEF RSTypeOK
<1>8. /\ rsEffects' \in [Action -> Seq(RSEffect)] /\ Len(rsEffects'[a]) = Len(rsEffects[a])
      /\ \A b \in Action \ {a} : rsEffects'[b] = rsEffects[b]
      /\ rsEffects'[a][n] = e
      /\ \A m \in 1..Len(rsEffects[a]) : m # n => rsEffects'[a][m] = rsEffects[a][m]
      /\ rsEffects[a] # <<>> /\ rsEffects'[a] # <<>>
  <2> HIDE DEF n
  <2>1. RSTypeOK /\ n \in 1..Len(rsEffects[a]) /\ e \in RSEffect
    BY <1>2, <1>3, <1>5
  <2> DEFINE P(m, f) == /\ rsEffects' \in [Action -> Seq(RSEffect)] /\ Len(rsEffects'[a]) = Len(rsEffects[a])
                        /\ \A b \in Action \ {a} : rsEffects'[b] = rsEffects[b]
                        /\ rsEffects'[a][m] = f
                        /\ \A k \in 1..Len(rsEffects[a]) : k # m => rsEffects'[a][k] = rsEffects[a][k]
                        /\ rsEffects[a] # <<>> /\ rsEffects'[a] # <<>> /\ Len(rsEffects[a]) \in Nat
  <2>2. ASSUME NEW m \in 1..Len(rsEffects[a]), NEW f \in RSEffect, rsEffects' = [rsEffects EXCEPT ![a][m] = f]
        PROVE  P(m, f)
    BY <2>1, <2>2, RSEffectIs
  <2> HIDE DEF P
  <2>3. P(n, e)
    BY <1>6, <2>1, <2>2
  <2>4. QED BY <2>3 DEF P
<1>9. rsEffects[a][n].evidence = "none"
  BY <1>1, <1>2 DEF RSRowOK, RS!Latest
<1>10. RSRowOK(a)'
  BY <1>2, <1>7, <1>8 DEF RSRowOK, RSEarly, RSPending, RS!Open, RS!Unseen
<1>11. RSGrantOK(a)'
  <2>1. RSClosed(a)' = RSClosed(a) \cup {n} /\ n \notin RSClosed(a)
    <3> HIDE DEF n
    <3>1. n \notin RSClosed(a)
      BY <1>9 DEF RSClosed
    <3>2. \A m \in 1..Len(rsEffects[a]) : rsEffects'[a][m].evidence # "none"
                                          <=> rsEffects[a][m].evidence # "none" \/ m = n
      BY <1>5, <1>8
    <3>3. QED BY <1>3, <1>8, <3>1, <3>2 DEF RSClosed
  <2>2. Cardinality(RSClosed(a))' = Cardinality(RSClosed(a)) + 1
    <3> HIDE DEF n
    <3>1. IsFiniteSet(RSClosed(a))
      BY <1>2, RSClosedFinite
    <3>2. Cardinality(RSClosed(a) \cup {n}) = Cardinality(RSClosed(a)) + 1
      BY <2>1, <3>1, FS_AddElement
    <3>3. QED BY <2>1, <3>2
  <2>3. Units(rsGrants, RSGiven(a))' = Units(rsGrants, RSGiven(a))
    BY <1>1 DEF RSGiven, Units
  <2>4. /\ Cardinality(Units(rsGrants, RSGiven(a))) \in Nat /\ Cardinality(RSClosed(a)) \in Nat
    <3>1. RSGiven(a) \in SUBSET RS!Reservation /\ IsFiniteSet(RS!Reservation)
      BY RSGivenFacts
    <3>2. QED BY <1>2, <3>1, UnitsFinite, RSClosedFinite DEF RSTypeOK
  <2>5. rsRecord'[a] \notin RS!Open
    BY <1>7 DEF RS!Open
  <2>6. Cardinality(Units(rsGrants, RSGiven(a))) <= Cardinality(RSClosed(a)) + 1
    <3>1. Cardinality(Units(rsGrants, RSGiven(a)))
            <= Cardinality(RSClosed(a)) + (IF rsRecord[a] \in RS!Open THEN 1 ELSE 0)
      BY <1>2 DEF RSGrantOK
    <3>2. QED BY <2>4, <3>1
  <2>7. Cardinality(Units(rsGrants, RSGiven(a)))' <= Cardinality(RSClosed(a))' + 0
    BY <2>2, <2>3, <2>4, <2>6
  <2>8. \A m \in 1..MaxAttempts : rsGrants'[<<a, m>>] > 0 => m <= Len(rsEffects'[a])
    BY <1>1, <1>2, <1>8 DEF RSGrantOK
  <2>9. QED BY <2>5, <2>7, <2>8 DEF RSGrantOK
<1>12. s \in RSState /\ s # RS!Unseen /\ rsRecord[a] # RS!Unseen
  BY <1>1 DEF RSState, RS!Unseen, RSPending, RS!Open
<1>13. rsGrants' \in [RS!Reservation -> Nat]
       /\ \A b \in Action \ {a}, m \in 1..MaxAttempts : rsGrants'[<<b, m>>] = rsGrants[<<b, m>>]
  BY <1>1, <1>2 DEF RSTypeOK
<1>14. QED BY <1>1, <1>8, <1>10, <1>11, <1>12, <1>13, RSOneRow

\* Recovery writes many rows, and closes none.
LEMMA RSRecoverKeeps ==
  ASSUME IsFiniteSet(Action), MaxAttempts \in Nat, RSTablesInv, rsKind' = rsKind, RS!RecoverRows
  PROVE  RSTablesInv'
<1> DEFINE Lost(e) == IF e.result = "EFFECT_ATTEMPTED"
                      THEN [e EXCEPT !.result = "EFFECT_OUTCOME_UNKNOWN"] ELSE e
           row(a) == [n \in 1..Len(rsEffects[a]) |-> Lost(rsEffects[a][n])]
           stuck(a) == rsRecord[a] = "EFFECT_ATTEMPTED"
<1>1. /\ rsRecord' = [a \in Action |-> IF stuck(a) THEN "EFFECT_OUTCOME_UNKNOWN" ELSE rsRecord[a]]
      /\ rsEffects' = [a \in Action |-> IF stuck(a) THEN row(a) ELSE rsEffects[a]]
      /\ UNCHANGED <<rsConflicts, rsGrants>>
  BY DEF RS!RecoverRows
<1>2. RSTypeOK /\ RSScopeInv /\ \A a \in Action : RSRowOK(a) /\ RSGrantOK(a)
      /\ (rsKind = "PRODUCTION" => RSProductionOK(a))
  BY DEF RSTablesInv, RSRowsInv, RSGrantInv, RSProductionInv
<1>3. ASSUME NEW e \in RSEffect
      PROVE  Lost(e) \in RSEffect /\ Lost(e).evidence = e.evidence
             /\ (e.result = "EFFECT_ATTEMPTED" => Lost(e).result = "EFFECT_OUTCOME_UNKNOWN")
  BY DEF RSEffect, RSState
<1> HIDE DEF Lost
<1>4. ASSUME NEW a \in Action
      PROVE  /\ rsEffects[a] \in Seq(RSEffect) /\ Len(rsEffects[a]) \in Nat
             /\ rsEffects'[a] \in Seq(RSEffect) /\ Len(rsEffects'[a]) = Len(rsEffects[a])
             /\ rsEffects'[a] = <<>> <=> rsEffects[a] = <<>>
             /\ \A n \in 1..Len(rsEffects[a]) :
                   /\ rsEffects'[a][n].evidence = rsEffects[a][n].evidence
                   /\ stuck(a) => rsEffects'[a][n] = Lost(rsEffects[a][n])
                   /\ rsEffects[a][n] \in RSEffect
             /\ ~stuck(a) => rsEffects'[a] = rsEffects[a]
  <2>1. rsEffects[a] \in Seq(RSEffect) /\ Len(rsEffects[a]) \in Nat
    BY <1>2, LenProperties DEF RSTypeOK
  <2>2. \A n \in 1..Len(rsEffects[a]) : rsEffects[a][n] \in RSEffect
    BY <2>1, ElementOfSeq
  <2>3. row(a) \in Seq(RSEffect) /\ Len(row(a)) = Len(rsEffects[a])
    <3>1. \A n \in 1..Len(rsEffects[a]) : Lost(rsEffects[a][n]) \in RSEffect
      BY <1>3, <2>2
    <3>2. row(a) \in [1..Len(rsEffects[a]) -> RSEffect]
      BY <3>1
    <3>3. QED BY <2>1, <3>2, LenProperties
  <2>4. \A n \in 1..Len(rsEffects[a]) : row(a)[n] = Lost(rsEffects[a][n])
    OBVIOUS
  <2>5. rsEffects'[a] = IF stuck(a) THEN row(a) ELSE rsEffects[a]
    BY <1>1
  <2> HIDE DEF row, stuck
  <2>6. CASE stuck(a)
    <3>1. rsEffects'[a] = row(a)
      BY <2>5, <2>6
    <3>2. \A n \in 1..Len(rsEffects[a]) : Lost(rsEffects[a][n]).evidence = rsEffects[a][n].evidence
      BY <1>3, <2>2
    <3>3. rsEffects'[a] = <<>> <=> rsEffects[a] = <<>>
      BY <2>1, <2>3, <3>1, EmptySeq
    <3>4. QED BY <2>1, <2>2, <2>3, <2>4, <2>6, <3>1, <3>2, <3>3
  <2>7. CASE ~stuck(a)
    BY <2>1, <2>2, <2>5, <2>7
  <2>8. QED BY <2>6, <2>7
<1> HIDE DEF row
<1>5. ASSUME NEW a \in Action
      PROVE  /\ rsRecord'[a] = IF stuck(a) THEN "EFFECT_OUTCOME_UNKNOWN" ELSE rsRecord[a]
             /\ rsRecord'[a] \in RSState
             /\ rsRecord'[a] = RS!Unseen <=> rsRecord[a] = RS!Unseen
             /\ rsRecord'[a] \in RSEarly <=> rsRecord[a] \in RSEarly
             /\ rsRecord'[a] \in RSPending <=> rsRecord[a] \in RSPending
             /\ rsRecord'[a] \in RS!Open <=> rsRecord[a] \in RS!Open
  BY <1>1, <1>2 DEF RSTypeOK, RSState, RS!Unseen, RSEarly, RSPending, RS!Open
<1>6. RSTypeOK'
  <2>1. rsRecord' \in [Action -> RSState]
    <3>1. \A a \in Action : (IF stuck(a) THEN "EFFECT_OUTCOME_UNKNOWN" ELSE rsRecord[a]) \in RSState
      BY <1>5
    <3>2. QED BY <1>1, <3>1
  <2>2. rsEffects' \in [Action -> Seq(RSEffect)]
    <3> DEFINE f(a) == IF stuck(a) THEN row(a) ELSE rsEffects[a]
    <3>1. rsEffects' = [a \in Action |-> f(a)]
      BY <1>1
    <3> HIDE DEF f
    <3>2. \A a \in Action : f(a) \in Seq(RSEffect)
      BY <1>4, <3>1
    <3>3. QED BY <3>1, <3>2
  <2>3. QED BY <1>1, <1>2, <2>1, <2>2 DEF RSTypeOK
<1>7. RSScopeInv'
  BY <1>1, <1>2, <1>5 DEF RSScopeInv
<1>8. ASSUME NEW a \in Action PROVE RSRowOK(a)'
  <2>1. RSRowOK(a)
    BY <1>2
  <2>2. ASSUME rsRecord'[a] \in RSPending PROVE RS!Latest(a)'.evidence = "none"
    <3>1. rsRecord[a] \in RSPending /\ rsRecord[a] \notin RSEarly
      BY <1>5, <2>2 DEF RSPending, RSEarly, RS!Open, RS!Unseen
    <3>2. Len(rsEffects[a]) \in 1..Len(rsEffects[a])
      BY <1>4, <2>1, <3>1, EmptySeq DEF RSRowOK
    <3>3. RS!Latest(a).evidence = "none"
      BY <2>1, <3>1 DEF RSRowOK
    <3>4. RS!Latest(a)' = rsEffects'[a][Len(rsEffects[a])]
      BY <1>4 DEF RS!Latest
    <3>5. QED BY <1>4, <3>2, <3>3, <3>4 DEF RS!Latest
  <2>3. QED BY <1>4, <1>5, <2>1, <2>2 DEF RSRowOK
<1>9. ASSUME NEW a \in Action PROVE RSGrantOK(a)'
  <2>1. RSClosed(a)' = RSClosed(a)
    BY <1>4 DEF RSClosed
  <2>2. Units(rsGrants, RSGiven(a))' = Units(rsGrants, RSGiven(a))
    BY <1>1 DEF RSGiven, Units
  <2>3. RSGrantOK(a)
    BY <1>2
  <2>4. QED BY <1>1, <1>4, <1>5, <2>1, <2>2, <2>3 DEF RSGrantOK
<1>10. ASSUME NEW a \in Action, rsKind = "PRODUCTION" PROVE RSProductionOK(a)'
  <2>1. RSProductionOK(a)
    BY <1>2, <1>10
  <2>2. ASSUME Len(rsEffects'[a]) = 1
        PROVE  rsRecord'[a] = rsEffects'[a][1].result /\ rsRecord'[a] \in RSPending
    <3>1. Len(rsEffects[a]) = 1 /\ 1 \in 1..Len(rsEffects[a])
      <4>1. Len(rsEffects'[a]) = Len(rsEffects[a])
        BY <1>4
      <4>2. Len(rsEffects[a]) = 1
        BY <2>2, <4>1
      <4>3. QED BY <4>2
    <3>2. rsRecord[a] = rsEffects[a][1].result /\ rsRecord[a] \in RSPending
      BY <2>1, <3>1 DEF RSProductionOK
    <3>3. CASE stuck(a)
      <4>1. rsEffects'[a][1] = Lost(rsEffects[a][1]) /\ rsEffects[a][1] \in RSEffect
        BY <1>4, <3>1, <3>3
      <4>2. rsEffects'[a][1].result = "EFFECT_OUTCOME_UNKNOWN"
        BY <1>3, <3>2, <3>3, <4>1
      <4>3. QED BY <1>5, <3>2, <3>3, <4>2
    <3>4. CASE ~stuck(a)
      BY <1>4, <1>5, <3>2, <3>4
    <3>5. QED BY <3>3, <3>4
  <2>3. QED BY <1>1, <1>4, <1>5, <2>1, <2>2 DEF RSProductionOK
<1>11. QED BY <1>6, <1>7, <1>8, <1>9, <1>10 DEF RSTablesInv, RSRowsInv, RSGrantInv, RSProductionInv

\* No step of a helper or of the reviewed family breaks the invariant.
LEMMA RSStepIInv ==
  ASSUME IsFiniteSet(Action), MaxAttempts \in Nat, RSIInv, [RS!Next]_rsVars
  PROVE  RSIInv'
<1>1. RSCallsOK' /\ rsKind' = rsKind
  BY RSCallsStep DEF RSIInv, RSTablesInv, RSTypeOK
<1>2. RSTablesStep
  BY RSStepIsTablesStep
<1>3. CASE UNCHANGED RS!tables
  <2>1. UNCHANGED <<rsRecord, rsConflicts, rsEffects, rsGrants>>
    BY <1>3 DEF RS!tables
  <2>2. RSTypeOK' /\ RSScopeInv'
    BY <1>1, <2>1 DEF RSIInv, RSTablesInv, RSTypeOK, RSScopeInv
  <2>3. RSRowsInv'
    BY <2>1 DEF RSIInv, RSTablesInv, RSRowsInv, RSRowOK, RS!Latest
  <2>4. RSGrantInv'
    BY <2>1 DEF RSIInv, RSTablesInv, RSGrantInv, RSGrantOK, RSClosed, RSGiven, Units
  <2>5. RSProductionInv'
    BY <1>1, <2>1 DEF RSIInv, RSTablesInv, RSProductionInv, RSProductionOK
  <2>6. QED BY <1>1, <2>2, <2>3, <2>4, <2>5 DEF RSIInv, RSTablesInv
<1>4. CASE RS!RecoverRows
  BY <1>1, <1>4, RSRecoverKeeps DEF RSIInv
<1>5. ASSUME NEW a \in Action, RSRowStep(a) PROVE RSTablesInv'
  BY <1>1, <1>5, RSObserveKeeps, RSValidateKeeps, RSReserveKeeps, RSAttemptKeeps, RSAgainKeeps,
     RSEvidenceKeeps DEF RSIInv, RSRowStep
<1>6. QED BY <1>1, <1>2, <1>3, <1>4, <1>5 DEF RSIInv, RSTablesStep

\* The sum of the licences is their number.
LEMMA RSSumOfGrants ==
  ASSUME IsFiniteSet(RS!Reservation), rsGrants \in [RS!Reservation -> Nat], NEW G \in SUBSET RS!Reservation
  PROVE  RS!MapThenSumSet(LAMBDA r : rsGrants[r], G) = Cardinality(Units(rsGrants, G))
<1>1. LET Sum(i) == [s \in SUBSET G |-> IF s = {} THEN 0
                         ELSE LET x == CHOOSE x \in s : TRUE IN rsGrants[x] + i[s \ {x}]]
      IN  RS!MapThenSumSet(LAMBDA r : rsGrants[r], G) = (CHOOSE i : i = Sum(i))[G]
  BY DEF RS!MapThenSumSet, RS!MapThenFoldSet
<1>2. LET Sum(i) == [s \in SUBSET G |-> IF s = {} THEN 0
                         ELSE LET x == CHOOSE x \in s : TRUE IN rsGrants[x] + i[s \ {x}]]
      IN  (CHOOSE i : i = Sum(i))[G] = Cardinality(Units(rsGrants, G))
  BY SumIsUnits
<1>3. QED BY <1>1, <1>2, Zenon

\* Between them the actions of a nonce have what one of them was given and closed.
LEMMA RSNeedEvidence ==
  ASSUME IsFiniteSet(Action), MaxAttempts \in Nat, RSTablesInv
  PROVE  RS!GrantsNeedEvidence
<1> SUFFICES ASSUME NEW a \in Action
    PROVE LET Same == {b \in Action : NonceScope[b] = NonceScope[a]}
              All == {r \in RS!Reservation : r[1] \in Same}
              Shut == {r \in All : /\ r[2] <= Len(rsEffects[r[1]])
                                   /\ rsEffects[r[1]][r[2]].evidence # "none"}
          IN  RS!MapThenSumSet(LAMBDA r : rsGrants[r], All) <= 1 + RS!Cardinality(Shut)
  BY DEF RS!GrantsNeedEvidence
<1> DEFINE Same == {b \in Action : NonceScope[b] = NonceScope[a]}
           All == {r \in RS!Reservation : r[1] \in Same}
           Shut == {r \in All : /\ r[2] <= Len(rsEffects[r[1]])
                                /\ rsEffects[r[1]][r[2]].evidence # "none"}
<1>1. RSTypeOK /\ RSScopeInv /\ \A b \in Action : RSRowOK(b) /\ RSGrantOK(b)
  BY DEF RSTablesInv, RSRowsInv, RSGrantInv
<1>2. PICK b \in Same : \A c \in Same \ {b} : rsRecord[c] = RS!Unseen
  <2>1. a \in Same /\ \A b, c \in Same : b # c => rsRecord[b] = RS!Unseen \/ rsRecord[c] = RS!Unseen
    BY <1>1 DEF RSScopeInv
  <2> HIDE DEF Same
  <2>2. QED BY <2>1
<1>3. b \in Action
  OBVIOUS
<1>4. ASSUME NEW c \in Same, c # b, NEW n \in 1..MaxAttempts
      PROVE  rsEffects[c] = <<>> /\ rsGrants[<<c, n>>] = 0
  <2>1. c \in Action /\ rsRecord[c] = RS!Unseen
    BY <1>2, <1>4
  <2>2. rsEffects[c] = <<>> /\ Len(rsEffects[c]) = 0
    BY <1>1, <2>1 DEF RSRowOK, RSEarly
  <2>3. ~(rsGrants[<<c, n>>] > 0)
    BY <1>1, <2>1, <2>2 DEF RSGrantOK
  <2>4. rsGrants[<<c, n>>] \in Nat
    BY <1>1, <2>1 DEF RSTypeOK, RS!Reservation
  <2>5. QED BY <2>2, <2>3, <2>4
<1>5. Units(rsGrants, All) = Units(rsGrants, RSGiven(b))
  <2>1. RSGiven(b) \subseteq All
    BY DEF RSGiven, RS!Reservation
  <2>2. \A r \in All \ RSGiven(b) : rsGrants[r] = 0
    <3> SUFFICES ASSUME NEW r \in All \ RSGiven(b) PROVE rsGrants[r] = 0
      OBVIOUS
    <3>1. PICK c \in Same, n \in 1..MaxAttempts : r = <<c, n>>
      BY DEF RS!Reservation
    <3>2. c # b
      BY <3>1 DEF RSGiven
    <3>3. QED BY <1>4, <3>1, <3>2
  <2> HIDE DEF All
  <2>3. QED BY <2>1, <2>2 DEF Units
<1>6. Shut = {<<b, n>> : n \in RSClosed(b)}
  <2>1. ASSUME NEW r \in Shut PROVE r \in {<<b, n>> : n \in RSClosed(b)}
    <3>1. PICK c \in Same, n \in 1..MaxAttempts : r = <<c, n>>
      BY DEF RS!Reservation
    <3>2. n <= Len(rsEffects[c]) /\ rsEffects[c][n].evidence # "none"
      BY <3>1
    <3>3. c = b
      BY <1>4, <3>1, <3>2
    <3>4. n \in RSClosed(b)
      <4>1. Len(rsEffects[b]) \in Nat
        BY <1>1, LenProperties DEF RSTypeOK
      <4>2. QED BY <3>2, <3>3, <4>1 DEF RSClosed
    <3>5. QED BY <3>1, <3>3, <3>4
  <2>2. ASSUME NEW n \in RSClosed(b) PROVE <<b, n>> \in Shut
    <3>1. Len(rsEffects[b]) \in Nat /\ Len(rsEffects[b]) <= MaxAttempts
      BY <1>1, LenProperties DEF RSTypeOK, RSRowOK
    <3>2. n \in 1..MaxAttempts /\ n <= Len(rsEffects[b]) /\ rsEffects[b][n].evidence # "none"
      BY <3>1 DEF RSClosed
    <3>3. QED BY <3>2 DEF RS!Reservation
  <2> HIDE DEF Shut
  <2>3. QED BY <2>1, <2>2
<1>7. RS!Cardinality(Shut) = Cardinality(RSClosed(b)) /\ Cardinality(RSClosed(b)) \in Nat
  <2> DEFINE C == RSClosed(b)
             f == [n \in C |-> <<b, n>>]
  <2>1. IsFiniteSet(C) /\ Cardinality(C) \in Nat
    BY <1>1, RSClosedFinite
  <2>2. Shut = {<<b, n>> : n \in C}
    BY <1>6
  <2> HIDE DEF C, Shut
  <2>3. f \in Bijection(C, Shut)
    BY <2>2 DEF Bijection, Injection, Surjection, IsInjective
  <2>4. Cardinality(Shut) = Cardinality(C)
    BY <2>1, <2>3, FS_Bijection DEF ExistsBijection
  <2>5. RS!Cardinality(Shut) = Cardinality(Shut)
    BY DEF RS!Cardinality, Cardinality
  <2>6. QED BY <2>1, <2>4, <2>5 DEF C
<1>8. RS!MapThenSumSet(LAMBDA r : rsGrants[r], All) = Cardinality(Units(rsGrants, RSGiven(b)))
  <2>1. All \in SUBSET RS!Reservation /\ IsFiniteSet(RS!Reservation) /\ rsGrants \in [RS!Reservation -> Nat]
    BY <1>1, RSGivenFacts DEF RSTypeOK
  <2>2. Units(rsGrants, All) = Units(rsGrants, RSGiven(b))
    BY <1>5
  <2> HIDE DEF All
  <2>3. RS!MapThenSumSet(LAMBDA r : rsGrants[r], All) = Cardinality(Units(rsGrants, All))
    BY <2>1, RSSumOfGrants
  <2>4. QED BY <2>2, <2>3
<1>9. Cardinality(Units(rsGrants, RSGiven(b))) <= Cardinality(RSClosed(b)) + 1
      /\ Cardinality(Units(rsGrants, RSGiven(b))) \in Nat
  <2>1. RSGrantOK(b)
    BY <1>1
  <2>2. RSGiven(b) \in SUBSET RS!Reservation /\ IsFiniteSet(RS!Reservation)
    BY RSGivenFacts
  <2>3. Cardinality(Units(rsGrants, RSGiven(b))) \in Nat
    BY <1>1, <2>2, UnitsFinite DEF RSTypeOK
  <2>4. QED BY <1>7, <2>1, <2>3 DEF RSGrantOK
<1>10. RS!MapThenSumSet(LAMBDA r : rsGrants[r], All) <= 1 + RS!Cardinality(Shut)
  BY <1>7, <1>8, <1>9
<1>11. QED BY <1>10, Zenon

\* In production one attempt of a nonce is licensed, once.
LEMMA RSProductionOnce ==
  ASSUME MaxAttempts \in Nat, RSTablesInv
  PROVE  RS!GrantedOnce /\ RS!RecordMatchesLatest
<1>1. RSTypeOK /\ RSScopeInv /\ \A b \in Action : RSRowOK(b) /\ RSGrantOK(b)
      /\ (rsKind = "PRODUCTION" => RSProductionOK(b))
  BY DEF RSTablesInv, RSRowsInv, RSGrantInv, RSProductionInv
<1>2. ASSUME rsKind = "PRODUCTION", NEW r \in RS!Reservation, rsGrants[r] > 0
      PROVE  /\ r[1] \in Action /\ r = <<r[1], 1>>
             /\ rsGrants[r] = 1 /\ rsRecord[r[1]] \in RS!Open
  <2>1. PICK a \in Action, n \in 1..MaxAttempts : r = <<a, n>>
    BY DEF RS!Reservation
  <2>2. RSProductionOK(a) /\ RSGrantOK(a)
    BY <1>1, <1>2
  <2>3. rsGrants[<<a, n>>] = 1 /\ rsRecord[a] \in RS!Open
    BY <1>2, <2>1, <2>2 DEF RSProductionOK
  <2>4. n = 1
    <3> DEFINE len == Len(rsEffects[a])
    <3>1. len \in Nat /\ len <= 1 /\ n <= len
      BY <1>1, <1>2, <2>1, <2>2, LenProperties DEF RSProductionOK, RSGrantOK, RSTypeOK
    <3> HIDE DEF len
    <3>2. QED BY <3>1
  <2>5. QED BY <2>1, <2>3, <2>4
<1>3. ASSUME rsKind = "PRODUCTION", NEW r \in RS!Reservation, rsGrants[r] > 0,
             NEW s \in RS!Reservation, NonceScope[s[1]] = NonceScope[r[1]], rsGrants[s] > 0
      PROVE  s = r
  <2>1. rsRecord[r[1]] \in RS!Open /\ rsRecord[s[1]] \in RS!Open /\ r[1] \in Action /\ s[1] \in Action
        /\ r = <<r[1], 1>> /\ s = <<s[1], 1>>
    BY <1>2, <1>3
  <2>2. r[1] = s[1]
    BY <1>1, <1>3, <2>1 DEF RSScopeInv, RS!Open, RS!Unseen
  <2>3. QED BY <2>1, <2>2
<1>4. RS!GrantedOnce
  BY <1>2, <1>3 DEF RS!GrantedOnce, RS!Open
<1>5. ASSUME rsKind = "PRODUCTION", NEW a \in Action
      PROVE  IF rsEffects[a] = <<>> THEN rsRecord[a] \in {RS!Unseen, "OBSERVED", "VALIDATED"}
             ELSE rsRecord[a] = RS!Latest(a).result
  <2>1. RSRowOK(a) /\ RSProductionOK(a)
    BY <1>1, <1>5
  <2>2. CASE rsEffects[a] # <<>>
    <3> DEFINE len == Len(rsEffects[a])
    <3>1. len \in Nat /\ len <= 1 /\ len # 0
      BY <1>1, <2>1, <2>2, LenProperties, EmptySeq DEF RSProductionOK, RSTypeOK
    <3> HIDE DEF len
    <3>2. len = 1
      BY <3>1
    <3>3. QED BY <2>1, <2>2, <3>2 DEF RSProductionOK, RS!Latest, len
  <2>3. CASE rsEffects[a] = <<>>
    BY <2>1, <2>3 DEF RSRowOK, RSEarly
  <2>4. QED BY <2>2, <2>3
<1>6. QED BY <1>4, <1>5 DEF RS!RecordMatchesLatest

\* Only evidence closes an attempt, and a conflict starts nothing.
LEMMA RSOpenStep ==
  ASSUME MaxAttempts \in Nat, RSIInv, [RS!Next]_rsVars
  PROVE  RS!OpenUntilEvidence /\ RS!ConflictStartsNothing
<1>1. RSTypeOK /\ RSScopeInv /\ \A a \in Action : RSRowOK(a) /\ (rsKind = "PRODUCTION" => RSProductionOK(a))
  BY DEF RSIInv, RSTablesInv, RSRowsInv, RSProductionInv
<1>2. RSTablesStep
  BY RSStepIsTablesStep
<1> DEFINE Kept(b) ==
      /\ rsRecord[b] \in RS!Open /\ rsRecord'[b] \notin RS!Open
           => /\ rsKind = "TEST" /\ Len(rsEffects'[b]) = Len(rsEffects[b])
              /\ \/ RS!Latest(b)'.evidence \in RS!Observed
                 \/ /\ RS!Latest(b)'.evidence = "LOCAL_NO_EFFECT_PROOF"
                    /\ RS!NotInvoked(b) /\ rsRecord'[b] = "EFFECT_FAILED_SAFE"
      /\ rsKind = "TEST" /\ RS!Conflicted(b) /\ rsRecord'[b] # rsRecord[b]
           => rsRecord'[b] \in {"EFFECT_OUTCOME_UNKNOWN", "EFFECT_CONFIRMED", "EFFECT_FAILED_SAFE"}
<1>3. ASSUME NEW b \in Action, rsRecord'[b] = rsRecord[b] PROVE Kept(b)
  BY <1>3
<1>4. ASSUME RS!RecoverRows, NEW b \in Action PROVE Kept(b)
  <2>1. rsRecord'[b] = IF rsRecord[b] = "EFFECT_ATTEMPTED" THEN "EFFECT_OUTCOME_UNKNOWN" ELSE rsRecord[b]
    BY <1>4 DEF RS!RecoverRows
  <2>2. QED BY <2>1 DEF RS!Open
<1>5. ASSUME NEW a \in Action, RSRowStep(a), NEW b \in Action PROVE Kept(b)
  <2>1. CASE b # a
    <3>1. rsRecord'[b] = rsRecord[b]
      BY <1>1, <1>5, <2>1 DEF RSRowStep, RS!ObserveRow, RSValidateRow, RSReserveRow, RSAttemptRow, RSAgainRow,
                              RSEvidenceRow, RS!SetState, RSTypeOK
    <3>2. QED BY <1>3, <3>1
  <2>2. CASE b = a
    <3>1. CASE RS!ObserveRow(a)
      <4>1. rsRecord'[a] = rsRecord[a] \/ rsRecord[a] = RS!Unseen
        BY <1>1, <3>1 DEF RS!ObserveRow, RSTypeOK
      <4>2. rsRecord[a] = RS!Unseen => ~RS!Conflicted(a) /\ rsRecord[a] \notin RS!Open
        BY <1>1 DEF RSScopeInv, RS!Conflicted, RS!Open, RS!Unseen
      <4>3. QED BY <2>2, <4>1, <4>2
    <3>2. CASE RSValidateRow(a)
      BY <2>2, <3>2 DEF RSValidateRow, RS!Open
    <3>3. CASE \E q \in Request : RSReserveRow(a, q)
      BY <2>2, <3>3 DEF RSReserveRow, RS!Open
    <3>4. CASE \E n \in Nat : RSAttemptRow(a, n)
      BY <2>2, <3>4 DEF RSAttemptRow, RS!Open
    <3>5. CASE \E n \in Nat : RSAgainRow(a, n)
      <4>1. rsKind = "PRODUCTION" /\ rsRecord'[a] = "EFFECT_OUTCOME_UNKNOWN"
        BY <1>1, <3>5 DEF RSAgainRow, RS!SetState, RSTypeOK
      <4>2. QED BY <2>2, <4>1 DEF RS!Open
    <3>6. ASSUME NEW s \in {"EFFECT_CONFIRMED", "EFFECT_FAILED_SAFE"}, NEW type \in RSEvidenceTypes,
                 RSEvidenceRow(a, s, type)
          PROVE  Kept(a)
      <4> DEFINE n == Len(rsEffects[a])
                 e == [[rsEffects[a][n] EXCEPT !.result = s] EXCEPT !.evidence = type]
                 row == [rsEffects[a] EXCEPT ![n] = e]
      <4>1. rsKind = "TEST" /\ rsRecord'[a] = s /\ rsEffects[a] # <<>>
        BY <1>1, <3>6 DEF RSEvidenceRow, RS!SetState, RSTypeOK
      <4>2. n \in Nat /\ n \in 1..Len(rsEffects[a]) /\ rsEffects[a] \in Seq(RSEffect)
            /\ DOMAIN rsEffects[a] = 1..Len(rsEffects[a])
        BY <1>1, <4>1, LenProperties, EmptySeq DEF RSTypeOK
      <4>3. rsEffects[a][n] \in RSEffect
        BY <4>2, ElementOfSeq
      <4>4. e \in RSEffect /\ e.evidence = type /\ type # "none"
        BY <4>3 DEF RSEffect, RSState, RSEvidenceTypes
      <4>5. rsEffects'[a] = row
        <5>1. rsEffects' = [rsEffects EXCEPT ![a][n].result = s, ![a][n].evidence = type]
          BY <3>6 DEF RSEvidenceRow
        <5>2. DOMAIN rsEffects = Action
          BY <1>1 DEF RSTypeOK
        <5> HIDE DEF n
        <5>3. QED BY <4>2, <5>1, <5>2
      <4> HIDE DEF e
      <4>6. row \in Seq(RSEffect) /\ Len(row) = n /\ row[n] = e
        BY <4>2, <4>4
      <4> HIDE DEF row
      <4>7. RS!Latest(a)' = e
        BY <4>5, <4>6 DEF RS!Latest
      <4>8. Len(rsEffects'[a]) = Len(rsEffects[a])
        BY <4>5, <4>6
      <4>9. type \notin RS!Observed =>
              type = "LOCAL_NO_EFFECT_PROOF" /\ RS!NotInvoked(a) /\ s = "EFFECT_FAILED_SAFE"
        BY <3>6 DEF RSEvidenceRow
      <4> HIDE DEF n
      <4>10. QED BY <4>1, <4>4, <4>7, <4>8, <4>9
    <3>7. QED BY <1>5, <2>2, <3>1, <3>2, <3>3, <3>4, <3>5, <3>6 DEF RSRowStep
  <2>3. QED BY <2>1, <2>2
<1>6. ASSUME NEW b \in Action PROVE Kept(b)
  <2>1. CASE UNCHANGED RS!tables
    BY <1>3, <2>1 DEF RS!tables
  <2>2. QED BY <1>2, <1>4, <1>5, <2>1 DEF RSTablesStep
<1>7. QED BY <1>6 DEF RS!OpenUntilEvidence, RS!ConflictStartsNothing

\* The record of a nonce, its effects and the licences given fit together at every
\* moment (libexec/flop_replay_store_helper).
THEOREM RSInvariance == Spec => [](machine = "ReplayStore" => RSIInv)
<1>1. Init => (machine = "ReplayStore" => RSIInv)
  BY ActionAssumption, AttemptsAssumption, RSInitIInv DEF Init
<1>2. (machine = "ReplayStore" => RSIInv) /\ [Next]_vars => (machine = "ReplayStore" => RSIInv)'
  BY ActionAssumption, AttemptsAssumption, RSStepIInv DEF Next, vars
<1>3. QED BY <1>1, <1>2, PTL DEF Spec

\* Whoever dies, is not answered or asks again: the actions of a nonce are
\* licensed once, and once more for each attempt that evidence closed; in
\* production once (libexec/flop_replay_store_helper, mark_attempted, recover).
THEOREM Granted == Spec => []GrantedOnce
<1>1. (machine = "ReplayStore" => RSIInv) => GrantedOnce
  BY ActionAssumption, AttemptsAssumption, RSNeedEvidence, RSProductionOnce
     DEF RSIInv, GrantedOnce
<1>2. QED BY <1>1, RSInvariance, PTL

\* An attempt whose result nobody knows stays open until sealed evidence for that
\* very attempt is written, a result, a read-back or a proof that it was not
\* invoked issued before it was, and a conflict starts nothing
\* (replay_journal.py, the helper's recovery and write_evidence).
THEOREM StaysOpen == Spec => OpenUntilEvidence
<1>1. (machine = "ReplayStore" => RSIInv) /\ [Next]_vars
         => [machine = "ReplayStore" => RS!OpenUntilEvidence /\ RS!ConflictStartsNothing]_vars
  BY ActionAssumption, AttemptsAssumption, RSOpenStep DEF Next, vars
<1>2. QED BY <1>1, RSInvariance, PTL DEF Spec, OpenUntilEvidence

-----------------------------------------------------------------------------
(* The re-observation ceremony.                                            *)

OCKinds == {"EVIDENCE", "MIGRATION", "PLAN", "REVIEW", "ATTEMPT"}
OCEntry == [type : OCKinds, chain : Seq(OC!Step)]

OCTypeOK ==
  /\ ocTokens \subseteq OCEntry
  /\ ocActive # None => ocActive \in Seq(OC!Step)
  /\ ocRecorded \subseteq DOMAIN OC!IssuedFrom
  /\ ocActive = None <=> "ATTEMPT" \notin ocRecorded

\* What a call has resolved was issued, and is of the type it asked for.
OCCallOK(c) ==
  ocCall[c] # None =>
    /\ ocCall[c].record \in ocTokens
    /\ ocCall[c].op = "record_source" => ocCall[c].record.type = "ATTEMPT" /\ ocCall[c].input \in OC!Step
OCCallsInv ==
  /\ ocCall = [c \in Client |-> ocCall[c]] /\ ocAnswer = [c \in Client |-> ocAnswer[c]]
  /\ \A c \in Client : OCCallOK(c)

\* The active chain has each source once and goes on after successes only, and
\* every chain issued is where it once was.
OCStraight(chain) ==
  /\ \A i, j \in 1..Len(chain) : i # j => chain[i].source # chain[j].source
  /\ \A i \in 1..Len(chain) : i < Len(chain) => chain[i].state = "COMPLETED"
OCStartOf(chain, longer) ==
  Len(chain) <= Len(longer) /\ \A i \in 1..Len(chain) : chain[i] = longer[i]
OCLineInv ==
  /\ ocActive # None => OCStraight(ocActive)
  /\ \A r \in OC!Attempts : ocActive # None /\ OCStartOf(r.chain, ocActive)

OCAnswersInv ==
  \A c \in Client : ocAnswer[c] # None =>
    IF "committed" \in DOMAIN ocAnswer[c] THEN ~ocAnswer[c].committed
    ELSE /\ ocAnswer[c].errors = {}
         /\ ocAnswer[c].projection.semantic \in OC!Results =>
               /\ ~ocAnswer[c].projection.superseded
               /\ ocActive # None /\ OC!Status(ocActive) = ocAnswer[c].projection.semantic

OCIInv == OCTypeOK /\ OCCallsInv /\ OCLineInv /\ OCAnswersInv

\* Init: nothing is issued, called or answered.
LEMMA OCInitIInv == OC!Init => OCIInv
  BY DEF OC!Init, OCIInv, OCTypeOK, OCCallsInv, OCCallOK, OCLineInv, OCAnswersInv, OC!Attempts, OC!IssuedFrom

-----------------------------------------------------------------------------
(* Chains.                                                                 *)

\* The sources of a chain, counted.
LEMMA OCSourcesCount ==
  ASSUME IsFiniteSet(Source), NEW chain \in Seq(OC!Step), OCStraight(chain)
  PROVE  /\ IsFiniteSet(OC!SourcesOf(chain)) /\ Cardinality(OC!SourcesOf(chain)) = Len(chain)
         /\ OC!SourcesOf(chain) \subseteq Source
         /\ Len(chain) \in 0..Cardinality(Source)
         /\ \A x : x \in OC!SourcesOf(chain) <=> \E i \in 1..Len(chain) : chain[i].source = x
<1>1. Len(chain) \in Nat /\ DOMAIN chain = 1..Len(chain)
  BY LenProperties
<1>2. ASSUME NEW i \in 1..Len(chain) PROVE chain[i].source \in Source
  <2>1. chain[i] \in OC!Step
    BY <1>1, ElementOfSeq
  <2>2. QED BY <2>1 DEF OC!Step
<1>3. \A x : x \in OC!SourcesOf(chain) <=> \E i \in 1..Len(chain) : chain[i].source = x
  BY <1>1 DEF OC!SourcesOf, OC!Range
<1> DEFINE S == OC!SourcesOf(chain)
           f == [i \in 1..Len(chain) |-> chain[i].source]
<1>4. S \subseteq Source
  BY <1>2, <1>3
<1>5. f \in Bijection(1..Len(chain), S)
  <2> HIDE DEF S
  <2>1. \A i \in 1..Len(chain) : chain[i].source \in S
    BY <1>3 DEF S
  <2>2. f \in [1..Len(chain) -> S]
    BY <2>1
  <2>3. \A i, j \in 1..Len(chain) : f[i] = f[j] => i = j
    BY DEF OCStraight
  <2>4. \A x \in S : \E i \in 1..Len(chain) : f[i] = x
    BY <1>3 DEF S
  <2>5. QED BY <2>2, <2>3, <2>4 DEF Bijection, Injection, Surjection, IsInjective
<1>6. IsFiniteSet(1..Len(chain)) /\ Cardinality(1..Len(chain)) = Len(chain)
  BY <1>1, FS_Interval
<1>7. IsFiniteSet(S) /\ Cardinality(S) = Len(chain)
  <2> HIDE DEF S, f
  <2>1. QED BY <1>5, <1>6, FS_Bijection DEF ExistsBijection
<1>8. Cardinality(S) <= Cardinality(Source) /\ Cardinality(Source) \in Nat
  <2> HIDE DEF S
  <2>1. QED BY <1>4, FS_Subset, FS_CardinalityType
<1>9. Len(chain) \in 0..Cardinality(Source)
  BY <1>1, <1>7, <1>8
<1>10. QED BY <1>3, <1>4, <1>7, <1>9

\* A chain that has ended is all there is.
LEMMA OCEndedIsActive ==
  ASSUME IsFiniteSet(Source), NEW chain \in Seq(OC!Step), NEW longer \in Seq(OC!Step),
         OCStraight(longer), OCStartOf(chain, longer), OC!Terminal(chain)
  PROVE  chain = longer
<1>1. /\ Len(chain) \in Nat /\ Len(longer) \in Nat /\ DOMAIN chain = 1..Len(chain)
      /\ DOMAIN longer = 1..Len(longer)
  BY LenProperties
<1>2. chain # <<>> /\ Len(chain) # 0
  BY EmptySeq DEF OC!Terminal, OC!Status, OC!Results
<1>3. OC!Last(chain) = chain[Len(chain)] /\ Len(chain) \in 1..Len(chain)
  BY <1>1, <1>2 DEF OC!Last
<1>4. ASSUME Len(chain) < Len(longer) PROVE FALSE
  <2>1. longer[Len(chain)] = chain[Len(chain)] /\ Len(chain) \in 1..Len(longer)
    BY <1>1, <1>3, <1>4 DEF OCStartOf
  <2>2. OC!Last(chain).state = "COMPLETED"
    BY <1>3, <1>4, <2>1 DEF OCStraight
  <2>3. OC!SourcesOf(chain) = Source
    BY <1>2, <2>2 DEF OC!Terminal, OC!Status, OC!Results
  <2>4. Len(chain) + 1 \in 1..Len(longer)
    BY <1>1, <1>4
  <2>5. longer[Len(chain) + 1].source \in Source
    <3>1. longer[Len(chain) + 1] \in OC!Step
      BY <2>4, ElementOfSeq
    <3>2. QED BY <3>1 DEF OC!Step
  <2>6. PICK i \in 1..Len(chain) : chain[i].source = longer[Len(chain) + 1].source
    BY <1>1, <2>3, <2>5 DEF OC!SourcesOf, OC!Range
  <2>7. longer[i] = chain[i] /\ i \in 1..Len(longer) /\ i # Len(chain) + 1
    BY <1>1, <2>6 DEF OCStartOf
  <2>8. QED BY <2>4, <2>6, <2>7 DEF OCStraight
<1>5. Len(chain) = Len(longer)
  <2>1. Len(chain) <= Len(longer) /\ ~(Len(chain) < Len(longer))
    BY <1>4 DEF OCStartOf
  <2> DEFINE n == Len(chain)
             m == Len(longer)
  <2>2. n \in Nat /\ m \in Nat /\ n <= m /\ ~(n < m)
    BY <1>1, <2>1
  <2> HIDE DEF n, m
  <2>3. n = m
    BY <2>2
  <2>4. QED BY <2>3 DEF n, m
<1>6. \A i \in 1..Len(chain) : chain[i] = longer[i]
  BY DEF OCStartOf
<1>7. QED BY <1>1, <1>5, <1>6, SeqEqual

\* A start of a chain is a prefix of it.
LEMMA OCStartIsPrefix ==
  ASSUME NEW chain \in Seq(OC!Step), NEW longer \in Seq(OC!Step), OCStartOf(chain, longer)
  PROVE  OC!IsPrefix(chain, longer)
<1>1. Len(chain) \in Nat /\ Len(longer) \in Nat /\ Len(chain) <= Len(longer)
  BY LenProperties DEF OCStartOf
<1>2. /\ SubSeq(longer, 1, Len(chain)) \in Seq(OC!Step)
      /\ Len(SubSeq(longer, 1, Len(chain))) = Len(chain)
      /\ \A i \in 1..Len(chain) : SubSeq(longer, 1, Len(chain))[i] = longer[i]
  BY <1>1, SubSeqProperties
<1>3. chain = SubSeq(longer, 1, Len(chain))
  <2> DEFINE t == SubSeq(longer, 1, Len(chain))
  <2> HIDE DEF t
  <2>1. t \in Seq(OC!Step) /\ Len(t) = Len(chain) /\ \A i \in 1..Len(chain) : chain[i] = t[i]
    BY <1>2 DEF t, OCStartOf
  <2>2. chain = t
    BY <2>1, SeqEqual
  <2>3. QED BY <2>2 DEF t
<1>4. QED BY <1>1, <1>3 DEF OC!IsPrefix

\* A start of a straight chain is straight.
LEMMA OCStartStraight ==
  ASSUME NEW chain \in Seq(OC!Step), NEW longer \in Seq(OC!Step), OCStraight(longer),
         OCStartOf(chain, longer)
  PROVE  OCStraight(chain)
<1>1. Len(chain) \in Nat /\ Len(longer) \in Nat
  BY LenProperties
<1>2. \A i \in 1..Len(chain) : i \in 1..Len(longer) /\ chain[i] = longer[i]
  BY <1>1 DEF OCStartOf
<1>3. \A i \in 1..Len(chain) : i < Len(chain) => i < Len(longer)
  BY <1>1 DEF OCStartOf
<1>4. QED BY <1>2, <1>3 DEF OCStraight

\* One more result: the source is new and the chain had not ended.
LEMMA OCExtended ==
  ASSUME NEW chain \in Seq(OC!Step), NEW step \in OC!Step, OCStraight(chain), ~OC!Terminal(chain),
         step.source \notin OC!SourcesOf(chain)
  PROVE  /\ Append(chain, step) \in Seq(OC!Step) /\ OCStraight(Append(chain, step))
         /\ OCStartOf(chain, Append(chain, step))
         /\ \A shorter \in Seq(OC!Step) : OCStartOf(shorter, chain)
                                          => OCStartOf(shorter, Append(chain, step))
<1> DEFINE next == Append(chain, step)
<1>1. /\ next \in Seq(OC!Step) /\ Len(next) = Len(chain) + 1 /\ Len(chain) \in Nat
      /\ next[Len(chain) + 1] = step /\ \A i \in 1..Len(chain) : next[i] = chain[i]
  BY AppendProperties, LenProperties
<1> HIDE DEF next
<1>2. \A i \in 1..Len(chain) : chain[i].source # step.source
  BY LenProperties DEF OC!SourcesOf, OC!Range
<1>3. \A i \in 1..Len(chain) : chain[i].state = "COMPLETED"
  <2>1. ASSUME Len(chain) # 0 PROVE chain[Len(chain)].state = "COMPLETED"
    <3>1. chain # <<>> /\ OC!Last(chain) = chain[Len(chain)] /\ Len(chain) \in 1..Len(chain)
      BY <1>1, <2>1, EmptySeq DEF OC!Last
    <3>2. chain[Len(chain)].state \in OC!Results
      <4>1. chain[Len(chain)] \in OC!Step
        BY <3>1, ElementOfSeq
      <4>2. QED BY <4>1 DEF OC!Step
    <3>3. QED BY <3>1, <3>2 DEF OC!Terminal, OC!Status
  <2>2. QED BY <1>1, <2>1 DEF OCStraight
<1>4. ASSUME NEW i \in 1..Len(next), NEW j \in 1..Len(next), i # j
      PROVE  next[i].source # next[j].source
  <2>1. CASE i = Len(chain) + 1
    BY <1>1, <1>2, <1>4, <2>1
  <2>2. CASE j = Len(chain) + 1
    BY <1>1, <1>2, <1>4, <2>2
  <2>3. CASE i # Len(chain) + 1 /\ j # Len(chain) + 1
    BY <1>1, <1>4, <2>3 DEF OCStraight
  <2>4. QED BY <2>1, <2>2, <2>3
<1>5. \A i \in 1..Len(next) : i < Len(next) => next[i].state = "COMPLETED"
  BY <1>1, <1>3
<1>6. OCStraight(next)
  BY <1>4, <1>5 DEF OCStraight
<1>7. OCStartOf(chain, next)
  BY <1>1 DEF OCStartOf
<1>8. ASSUME NEW shorter \in Seq(OC!Step), OCStartOf(shorter, chain) PROVE OCStartOf(shorter, next)
  <2>1. Len(shorter) \in Nat
    BY LenProperties
  <2>2. QED BY <1>1, <1>8, <2>1 DEF OCStartOf
<1>9. QED BY <1>1, <1>6, <1>7, <1>8 DEF next

-----------------------------------------------------------------------------
(* Projections.                                                            *)

\* The validator accepts what project makes.
LEMMA OCNoErrors ==
  ASSUME IsFiniteSet(Source), NEW r \in OCEntry, NEW b \in BOOLEAN,
         r.type = "ATTEMPT" => OCStraight(r.chain)
  PROVE  OC!Errors(OC!Projection(r, b)) = {}
<1> DEFINE p == OC!Projection(r, b)
<1>1. Cardinality(Source) \in Nat
  BY FS_CardinalityType
<1>2. CASE r.type # "ATTEMPT"
  <2>1. /\ p.type = r.type /\ p.generation = 0 /\ p.reconcile = FALSE
        /\ p.linked <=> r.type # "EVIDENCE"
        /\ <<p.policy, p.superseded, p.complete, p.semantic>> = OC!Expected[r.type]
    <3>1. CASE r.type = "EVIDENCE"
      <4>1. p = [type |-> "EVIDENCE", linked |-> FALSE, policy |-> "V1", superseded |-> TRUE,
                 complete |-> FALSE, generation |-> 0, reconcile |-> FALSE,
                 semantic |-> "LLMS_SEMANTIC_GAP"]
        BY <3>1 DEF OC!Projection
      <4>2. OC!Expected["EVIDENCE"] = <<"V1", TRUE, FALSE, "LLMS_SEMANTIC_GAP">>
        BY DEF OC!Expected
      <4> HIDE DEF p
      <4>3. QED BY <3>1, <4>1, <4>2
    <3>2. CASE r.type = "MIGRATION"
      <4>1. p = [type |-> "MIGRATION", linked |-> TRUE, policy |-> "V2", superseded |-> TRUE,
                 complete |-> FALSE, generation |-> 0, reconcile |-> FALSE,
                 semantic |-> "RE_EVALUATION_PROHIBITED"]
        BY <3>2 DEF OC!Projection
      <4>2. OC!Expected["MIGRATION"] = <<"V2", TRUE, FALSE, "RE_EVALUATION_PROHIBITED">>
        BY DEF OC!Expected
      <4> HIDE DEF p
      <4>3. QED BY <3>2, <4>1, <4>2
    <3>3. CASE r.type = "PLAN"
      <4>1. p = [type |-> "PLAN", linked |-> TRUE, policy |-> "V2", superseded |-> FALSE,
                 complete |-> FALSE, generation |-> 0, reconcile |-> FALSE,
                 semantic |-> "MANUAL_EXECUTION_PENDING"]
        BY <3>3 DEF OC!Projection
      <4>2. OC!Expected["PLAN"] = <<"V2", FALSE, FALSE, "MANUAL_EXECUTION_PENDING">>
        BY DEF OC!Expected
      <4> HIDE DEF p
      <4>3. QED BY <3>3, <4>1, <4>2
    <3>4. CASE r.type = "REVIEW"
      <4>1. p = [type |-> "REVIEW", linked |-> TRUE, policy |-> "V2", superseded |-> FALSE,
                 complete |-> FALSE, generation |-> 0, reconcile |-> FALSE,
                 semantic |-> "HUMAN_REVIEW_RECORDED"]
        BY <3>4 DEF OC!Projection
      <4>2. OC!Expected["REVIEW"] = <<"V2", FALSE, FALSE, "HUMAN_REVIEW_RECORDED">>
        BY DEF OC!Expected
      <4> HIDE DEF p
      <4>3. QED BY <3>4, <4>1, <4>2
    <3> HIDE DEF p
    <3>5. r.type \in {"EVIDENCE", "MIGRATION", "PLAN", "REVIEW"}
      BY <1>2 DEF OCEntry, OCKinds
    <3>6. QED BY <3>1, <3>2, <3>3, <3>4, <3>5
  <2> HIDE DEF p
  <2>2. 0 \in 0..OC!Cardinality(Source)
    BY <1>1 DEF OC!Cardinality, Cardinality
  <2>3. QED BY <1>2, <2>1, <2>2 DEF OC!Errors, p
<1>3. CASE r.type = "ATTEMPT"
  <2>1. r.chain \in Seq(OC!Step)
    BY DEF OCEntry
  <2> DEFINE linked == r.chain # <<>>
             complete == OC!Status(r.chain) = "COMPLETED"
             reconcile == r.chain # <<>> /\ OC!Last(r.chain).state \in {"FAILED", "INTERRUPTED"}
             s == OC!Status(r.chain)
             n == Len(r.chain)
  <2>2. p = [type |-> "ATTEMPT", linked |-> linked, policy |-> "V2", superseded |-> b,
             complete |-> complete, semantic |-> s, generation |-> n, reconcile |-> reconcile]
    BY <1>3 DEF OC!Projection
  <2>3. n \in 0..OC!Cardinality(Source) /\ n \in Nat
    BY <1>3, <2>1, OCSourcesCount, LenProperties DEF OC!Cardinality, Cardinality
  <2>4. linked <=> n # 0
    BY <2>1, EmptySeq, LenProperties
  <2>5. r.chain # <<>> => OC!Last(r.chain).state \in OC!Results
    <3> SUFFICES ASSUME r.chain # <<>> PROVE OC!Last(r.chain).state \in OC!Results
      OBVIOUS
    <3>1. n \in 1..n
      BY <2>3, <2>4
    <3>2. r.chain[n] \in OC!Step
      BY <2>1, <3>1, ElementOfSeq
    <3>3. QED BY <3>2 DEF OC!Last, OC!Step
  <2>6. /\ s \in OC!Results \cup {"STARTED", "PARTIAL"}
        /\ s = "STARTED" <=> ~linked
        /\ reconcile <=> s \in {"FAILED", "INTERRUPTED"}
    BY <2>5 DEF OC!Status, OC!Results
  <2>7. complete <=> s = "COMPLETED"
    OBVIOUS
  <2>8. linked \in BOOLEAN /\ complete \in BOOLEAN /\ reconcile \in BOOLEAN
    OBVIOUS
  <2> HIDE DEF p, linked, complete, reconcile, s, n
  <2>9. /\ p.type = "ATTEMPT" /\ p.policy = "V2" /\ p.semantic = s /\ p.generation = n
        /\ p.linked = linked /\ p.complete = complete /\ p.reconcile = reconcile
    BY <2>2
  <2>10. (p.complete <=> p.semantic = "COMPLETED") /\ (p.linked <=> p.generation # 0)
    BY <2>4, <2>7, <2>8, <2>9
  <2>11. /\ p.semantic = "STARTED" <=> p.generation = 0
         /\ p.reconcile <=> p.semantic \in {"FAILED", "INTERRUPTED"}
    BY <2>4, <2>6, <2>8, <2>9
  <2>12. QED BY <2>3, <2>6, <2>9, <2>10, <2>11 DEF OC!Errors, p
<1>4. QED BY <1>2, <1>3

-----------------------------------------------------------------------------
(* Steps.                                                                  *)

\* A call that returns keeps what the calls resolved; so does more tokens.
LEMMA OCReturned ==
  ASSUME OCCallsInv, NEW c \in Client, NEW v, OC!Returns(c, v), ocTokens \subseteq ocTokens'
  PROVE  OCCallsInv'
<1>1. ocCall' = [d \in Client |-> ocCall'[d]] /\ ocAnswer' = [d \in Client |-> ocAnswer'[d]]
  BY DEF OCCallsInv, OC!Returns
<1>2. ASSUME NEW d \in Client, ocCall'[d] # None PROVE ocCall[d] # None /\ ocCall'[d] = ocCall[d]
  BY <1>2 DEF OCCallsInv, OC!Returns
<1>3. ASSUME NEW d \in Client PROVE OCCallOK(d)'
  BY <1>2 DEF OCCallsInv, OCCallOK
<1>4. QED BY <1>1, <1>3 DEF OCCallsInv

\* Answers: what another call had stays as it is, unless the chain goes on.
LEMMA OCAnswered ==
  ASSUME OCIInv, NEW c \in Client, NEW v, ocAnswer' = [ocAnswer EXCEPT ![c] = v],
         ocActive' = ocActive \/ ocActive = None \/ ~OC!Terminal(ocActive),
         v # None => /\ ocActive' = ocActive
                     /\ IF "committed" \in DOMAIN v THEN ~v.committed
                        ELSE /\ v.errors = {}
                             /\ v.projection.semantic \in OC!Results =>
                                  /\ ~v.projection.superseded
                                  /\ ocActive # None /\ OC!Status(ocActive) = v.projection.semantic
  PROVE  OCAnswersInv'
<1> SUFFICES ASSUME NEW d \in Client, ocAnswer'[d] # None
             PROVE  IF "committed" \in DOMAIN ocAnswer'[d] THEN ~ocAnswer'[d].committed
                    ELSE /\ ocAnswer'[d].errors = {}
                         /\ ocAnswer'[d].projection.semantic \in OC!Results =>
                              /\ ~ocAnswer'[d].projection.superseded
                              /\ ocActive' # None
                              /\ OC!Status(ocActive') = ocAnswer'[d].projection.semantic
  BY DEF OCAnswersInv
<1>1. CASE d = c
  <2>1. ocAnswer'[d] = v
    BY <1>1 DEF OCIInv, OCCallsInv
  <2>2. QED BY <2>1
<1>2. CASE d # c
  <2>1. ocAnswer'[d] = ocAnswer[d]
    BY <1>2 DEF OCIInv, OCCallsInv
  <2>2. IF "committed" \in DOMAIN ocAnswer[d] THEN ~ocAnswer[d].committed
        ELSE /\ ocAnswer[d].errors = {}
             /\ ocAnswer[d].projection.semantic \in OC!Results =>
                  /\ ~ocAnswer[d].projection.superseded
                  /\ ocActive # None /\ OC!Status(ocActive) = ocAnswer[d].projection.semantic
    BY <2>1 DEF OCIInv, OCAnswersInv
  <2>3. CASE ocActive' = ocActive
    BY <2>1, <2>2, <2>3
  <2>4. CASE ocActive = None \/ ~OC!Terminal(ocActive)
    BY <2>1, <2>2, <2>4 DEF OC!Terminal
  <2>5. QED BY <2>3, <2>4
<1>3. QED BY <1>1, <1>2

\* Historical: one more record that is no attempt.
LEMMA OCHistoricalIInv ==
  ASSUME OCIInv, NEW c \in Client, OC!Historical(c)
  PROVE  OCIInv'
<1>1. /\ ocTokens' = ocTokens \cup {OC!Record("EVIDENCE", <<>>)} /\ ocRecorded' = ocRecorded
      /\ ocActive' = ocActive /\ ocCall' = ocCall /\ ocAnswer' = ocAnswer
  BY DEF OC!Historical
<1>2. OC!Attempts' = OC!Attempts
  BY <1>1 DEF OC!Attempts, OC!Record
<1>3. OC!Record("EVIDENCE", <<>>) \in OCEntry
  <2>1. <<>> \in Seq(OC!Step)
    BY EmptySeq
  <2>2. QED BY <2>1 DEF OC!Record, OCEntry, OCKinds
<1>4. OCTypeOK'
  BY <1>1, <1>3 DEF OCIInv, OCTypeOK
<1>5. OCCallsInv'
  BY <1>1 DEF OCIInv, OCCallsInv, OCCallOK
<1>6. OCLineInv'
  BY <1>1, <1>2 DEF OCIInv, OCLineInv
<1>7. OCAnswersInv'
  BY <1>1 DEF OCIInv, OCAnswersInv
<1>8. QED BY <1>4, <1>5, <1>6, <1>7 DEF OCIInv

\* Resolves: the record is one that was issued, of the type asked for.
LEMMA OCResolvesIInv ==
  ASSUME OCIInv, NEW c \in Client, NEW op, NEW type, NEW input, OC!Resolves(c, op, type, input),
         op = "record_source" => type = "ATTEMPT" /\ input \in OC!Step
  PROVE  OCIInv'
<1>1. PICK record \in ocTokens :
        /\ record.type = type
        /\ ocCall' = [ocCall EXCEPT ![c] = [op |-> op, record |-> record, input |-> input]]
  BY DEF OC!Resolves
<1>2. /\ ocTokens' = ocTokens /\ ocRecorded' = ocRecorded /\ ocActive' = ocActive
      /\ ocAnswer' = [ocAnswer EXCEPT ![c] = None]
  BY DEF OC!Resolves
<1>3. OCTypeOK' /\ OCLineInv'
  <2>1. OC!Attempts' = OC!Attempts
    BY <1>2 DEF OC!Attempts
  <2>2. QED BY <1>2, <2>1 DEF OCIInv, OCTypeOK, OCLineInv
<1>4. OCAnswersInv'
  <2>1. QED BY <1>2, OCAnswered
<1>5. OCCallsInv'
  <2>1. ASSUME NEW d \in Client PROVE OCCallOK(d)'
    <3>1. CASE d = c
      <4>1. ocCall'[d] = [op |-> op, record |-> record, input |-> input]
        BY <1>1, <3>1 DEF OCIInv, OCCallsInv
      <4>2. QED BY <1>1, <1>2, <4>1 DEF OCCallOK
    <3>2. CASE d # c
      <4>1. ocCall'[d] = ocCall[d]
        BY <1>1, <3>2 DEF OCIInv, OCCallsInv
      <4>2. QED BY <1>2, <4>1 DEF OCCallOK, OCIInv, OCCallsInv
    <3>3. QED BY <3>1, <3>2
  <2>2. ocCall' = [d \in Client |-> ocCall'[d]] /\ ocAnswer' = [d \in Client |-> ocAnswer'[d]]
    BY <1>1, <1>2 DEF OCIInv, OCCallsInv
  <2>3. QED BY <2>1, <2>2 DEF OCCallsInv
<1>6. QED BY <1>3, <1>4, <1>5 DEF OCIInv

LEMMA OCCallIInv ==
  ASSUME OCIInv, NEW c \in Client, OC!Call(c)
  PROVE  OCIInv'
<1>1. CASE \E issued \in DOMAIN OC!IssuedFrom : OC!Resolves(c, issued, OC!IssuedFrom[issued], None)
  <2>1. PICK issued \in DOMAIN OC!IssuedFrom : OC!Resolves(c, issued, OC!IssuedFrom[issued], None)
    BY <1>1
  <2>2. issued # "record_source"
    BY DEF OC!IssuedFrom
  <2>3. QED BY <2>1, <2>2, OCResolvesIInv
<1>2. CASE \E step \in OC!Step : OC!Resolves(c, "record_source", "ATTEMPT", step)
  <2>1. PICK step \in OC!Step : OC!Resolves(c, "record_source", "ATTEMPT", step)
    BY <1>2
  <2>2. QED BY <2>1, OCResolvesIInv
<1>3. CASE OC!Resolves(c, "commit_result", "ATTEMPT", None)
  BY <1>3, OCResolvesIInv
<1>4. CASE \E type \in {"EVIDENCE"} \cup DOMAIN OC!IssuedFrom : OC!Resolves(c, "project", type, None)
  <2>1. PICK type \in {"EVIDENCE"} \cup DOMAIN OC!IssuedFrom : OC!Resolves(c, "project", type, None)
    BY <1>4
  <2>2. QED BY <2>1, OCResolvesIInv
<1>5. QED BY <1>1, <1>2, <1>3, <1>4 DEF OC!Call

\* Issue: an attempt begins only where there was none.
LEMMA OCIssueIInv ==
  ASSUME None \notin Seq(OC!Step), OCIInv, NEW c \in Client, OC!Issue(c)
  PROVE  OCIInv'
<1> DEFINE type == ocCall[c].op
<1>1. /\ type \in DOMAIN OC!IssuedFrom /\ type \notin ocRecorded
      /\ ocRecorded' = ocRecorded \cup {type}
      /\ ocTokens' = ocTokens \cup {OC!Record(type, <<>>)}
      /\ ocActive' = IF type = "ATTEMPT" THEN <<>> ELSE ocActive
      /\ OC!Returns(c, None)
  BY DEF OC!Issue, OC!Calling
<1>2. /\ <<>> \in Seq(OC!Step) /\ <<>> # None
      /\ type \in {"MIGRATION", "PLAN", "REVIEW", "ATTEMPT"}
      /\ OC!Record(type, <<>>).type = type /\ OC!Record(type, <<>>).chain = <<>>
  BY <1>1, EmptySeq DEF OC!IssuedFrom, OC!Record
<1>3. OC!Record(type, <<>>) \in OCEntry
  BY <1>2 DEF OC!Record, OCEntry, OCKinds
<1> HIDE DEF type
<1>4. type = "ATTEMPT" => ocActive = None /\ OC!Attempts = {}
  BY <1>1 DEF OCIInv, OCTypeOK, OCLineInv
<1>5. OCTypeOK'
  BY <1>1, <1>2, <1>3 DEF OCIInv, OCTypeOK, OC!IssuedFrom
<1>6. OCCallsInv'
  <2>1. ocTokens \subseteq ocTokens'
    BY <1>1
  <2>2. QED BY <1>1, <2>1, OCReturned DEF OCIInv
<1>7. OCAnswersInv'
  <2>1. ocActive' = ocActive \/ ocActive = None
    BY <1>1, <1>4
  <2>2. ocAnswer' = [ocAnswer EXCEPT ![c] = None]
    BY <1>1 DEF OC!Returns
  <2>3. QED BY <2>1, <2>2, OCAnswered
<1>8. OCLineInv'
  <2>1. CASE type = "ATTEMPT"
    <3>1. ocActive' = <<>> /\ Len(<<>>) = 0
      BY <1>1, <2>1, EmptySeq
    <3>2. OCStraight(<<>>) /\ OCStartOf(<<>>, <<>>)
      BY <3>1 DEF OCStraight, OCStartOf
    <3>3. ASSUME NEW r \in OC!Attempts' PROVE r.chain = <<>>
      <4>1. r \in ocTokens' /\ r.type = "ATTEMPT"
        BY DEF OC!Attempts
      <4>2. r \notin ocTokens
        BY <1>4, <2>1, <4>1 DEF OC!Attempts
      <4>3. QED BY <1>1, <1>2, <4>1, <4>2
    <3>4. QED BY <1>2, <3>1, <3>2, <3>3 DEF OCLineInv
  <2>2. CASE type # "ATTEMPT"
    <3>1. OC!Attempts' = OC!Attempts /\ ocActive' = ocActive
      BY <1>1, <1>2, <2>2 DEF OC!Attempts
    <3>2. QED BY <3>1 DEF OCIInv, OCLineInv
  <2>3. QED BY <2>1, <2>2
<1>9. QED BY <1>5, <1>6, <1>7, <1>8 DEF OCIInv

\* RecordSource: the active chain, which had not ended, goes on by one.
LEMMA OCRecordSourceIInv ==
  ASSUME None \notin Seq(OC!Step), OCIInv, NEW c \in Client, OC!RecordSource(c)
  PROVE  OCIInv'
<1> DEFINE chain == ocCall[c].record.chain
           step == ocCall[c].input
           next == Append(chain, step)
<1>1. /\ ocActive = chain /\ ~OC!Terminal(chain) /\ step.source \notin OC!SourcesOf(chain)
      /\ ocActive' = next /\ ocTokens' = ocTokens \cup {OC!Attempt(next)}
      /\ OC!Returns(c, None) /\ ocRecorded' = ocRecorded
  BY DEF OC!RecordSource, OC!Continues
<1>2. ocCall[c].record \in OC!Attempts /\ step \in OC!Step
  BY DEF OC!RecordSource, OC!Calling, OCIInv, OCCallsInv, OCCallOK, OC!Attempts
<1>3. chain \in Seq(OC!Step)
  BY <1>2 DEF OC!Attempts, OCIInv, OCTypeOK, OCEntry
<1> HIDE DEF chain, step
<1>4. ocActive # None /\ OCStraight(chain) /\ \A r \in OC!Attempts : OCStartOf(r.chain, chain)
  BY <1>1, <1>2 DEF OCIInv, OCLineInv
<1>5. /\ next \in Seq(OC!Step) /\ OCStraight(next) /\ OCStartOf(chain, next)
      /\ \A shorter \in Seq(OC!Step) : OCStartOf(shorter, chain) => OCStartOf(shorter, next)
  BY <1>1, <1>2, <1>3, <1>4, OCExtended
<1> HIDE DEF next
<1>6. /\ OC!Attempt(next) \in OCEntry /\ OC!Attempt(next).type = "ATTEMPT"
      /\ OC!Attempt(next).chain = next
  BY <1>5 DEF OC!Attempt, OC!Record, OCEntry, OCKinds
<1>7. next # None
  BY <1>5
<1>8. OCTypeOK'
  BY <1>1, <1>4, <1>5, <1>6, <1>7 DEF OCIInv, OCTypeOK
<1>9. OCCallsInv'
  <2>1. ocTokens \subseteq ocTokens'
    BY <1>1
  <2>2. QED BY <1>1, <2>1, OCReturned DEF OCIInv
<1>10. OCAnswersInv'
  <2>1. ~OC!Terminal(ocActive)
    BY <1>1
  <2>2. ocAnswer' = [ocAnswer EXCEPT ![c] = None]
    BY <1>1 DEF OC!Returns
  <2>3. QED BY <2>1, <2>2, OCAnswered
<1>11. OCLineInv'
  <2>1. OCStartOf(next, next)
    <3>1. Len(next) \in Nat
      BY <1>5, LenProperties
    <3>2. QED BY <3>1 DEF OCStartOf
  <2>2. \A r \in OC!Attempts : r.chain \in Seq(OC!Step)
    BY DEF OC!Attempts, OCIInv, OCTypeOK, OCEntry
  <2>3. \A r \in OC!Attempts : OCStartOf(r.chain, next)
    BY <1>4, <1>5, <2>2
  <2>4. OC!Attempts' = OC!Attempts \cup {OC!Attempt(next)}
    BY <1>1, <1>6 DEF OC!Attempts
  <2>5. \A r \in OC!Attempts' : OCStartOf(r.chain, next)
    BY <1>6, <2>1, <2>3, <2>4
  <2>6. QED BY <1>1, <1>5, <1>7, <2>5 DEF OCLineInv
<1>12. QED BY <1>8, <1>9, <1>10, <1>11 DEF OCIInv

\* Refused and CommitResult: nothing is issued, nothing committed.
LEMMA OCRefusedIInv ==
  ASSUME OCIInv, NEW c \in Client, OC!Refused(c)
  PROVE  OCIInv'
<1>1. OC!Returns(c, None) /\ ocTokens' = ocTokens /\ ocRecorded' = ocRecorded /\ ocActive' = ocActive
  BY DEF OC!Refused
<1>2. OCTypeOK' /\ OCLineInv'
  <2>1. OC!Attempts' = OC!Attempts
    BY <1>1 DEF OC!Attempts
  <2>2. QED BY <1>1, <2>1 DEF OCIInv, OCTypeOK, OCLineInv
<1>3. OCCallsInv'
  BY <1>1, OCReturned DEF OCIInv
<1>4. OCAnswersInv'
  <2>1. ocAnswer' = [ocAnswer EXCEPT ![c] = None]
    BY <1>1 DEF OC!Returns
  <2>2. QED BY <1>1, <2>1, OCAnswered
<1>5. QED BY <1>2, <1>3, <1>4 DEF OCIInv

LEMMA OCCommitResultIInv ==
  ASSUME OCIInv, NEW c \in Client, OC!CommitResult(c)
  PROVE  OCIInv'
<1> DEFINE done == \E r \in ocTokens : r.type = "EVIDENCE" /\ OC!Projection(r, TRUE).policy = "V2"
           v == [committed |-> OC!Status(ocCall[c].record.chain) = "COMPLETED" /\ done]
<1>1. OC!Returns(c, v) /\ ocTokens' = ocTokens /\ ocRecorded' = ocRecorded /\ ocActive' = ocActive
  BY DEF OC!CommitResult
<1>2. ~done
  BY DEF OC!Projection
<1>3. "committed" \in DOMAIN v /\ ~v.committed
  BY <1>2
<1> HIDE DEF v
<1>4. OCTypeOK' /\ OCLineInv'
  <2>1. OC!Attempts' = OC!Attempts
    BY <1>1 DEF OC!Attempts
  <2>2. QED BY <1>1, <2>1 DEF OCIInv, OCTypeOK, OCLineInv
<1>5. OCCallsInv'
  BY <1>1, OCReturned DEF OCIInv
<1>6. OCAnswersInv'
  <2>1. ocAnswer' = [ocAnswer EXCEPT ![c] = v]
    BY <1>1 DEF OC!Returns
  <2>2. QED BY <1>1, <1>3, <2>1, OCAnswered
<1>7. QED BY <1>4, <1>5, <1>6 DEF OCIInv

\* Project: an attempt that has ended is the active one, so it is not superseded.
LEMMA OCProjectIInv ==
  ASSUME IsFiniteSet(Source), OCIInv, NEW c \in Client, OC!Project(c)
  PROVE  OCIInv'
<1> DEFINE r == ocCall[c].record
           superseded == ocActive # r.chain
           p == OC!Projection(r, superseded)
           v == [projection |-> p, errors |-> OC!Errors(p)]
<1>1. OC!Returns(c, v) /\ ocTokens' = ocTokens /\ ocRecorded' = ocRecorded /\ ocActive' = ocActive
  BY DEF OC!Project
<1>2. r \in ocTokens
  BY DEF OC!Project, OC!Calling, OCIInv, OCCallsInv, OCCallOK
<1>3. r \in OCEntry
  BY <1>2 DEF OCIInv, OCTypeOK
<1>4. superseded \in BOOLEAN
  OBVIOUS
<1>5. r.type = "ATTEMPT" =>
        r.chain \in Seq(OC!Step) /\ ocActive \in Seq(OC!Step) /\ ocActive # None /\ OCStraight(ocActive)
        /\ OCStartOf(r.chain, ocActive)
  BY <1>2, <1>3 DEF OC!Attempts, OCEntry, OCIInv, OCTypeOK, OCLineInv
<1>6. "committed" \notin DOMAIN v /\ v.errors = OC!Errors(p) /\ v.projection = p
  OBVIOUS
<1>7. OC!Errors(p) = {}
  <2>1. r.type = "ATTEMPT" => OCStraight(r.chain)
    BY <1>5, OCStartStraight
  <2> HIDE DEF r, superseded
  <2>2. QED BY <1>3, <1>4, <2>1, OCNoErrors
<1>8. ASSUME p.semantic \in OC!Results
      PROVE  ~p.superseded /\ ocActive # None /\ OC!Status(ocActive) = p.semantic
  <2>1. r.type = "ATTEMPT"
    <3>1. CASE r.type = "EVIDENCE"
      BY <1>8, <3>1 DEF OC!Projection, OC!Results
    <3>2. CASE r.type = "MIGRATION"
      BY <1>8, <3>2 DEF OC!Projection, OC!Results
    <3>3. CASE r.type = "PLAN"
      BY <1>8, <3>3 DEF OC!Projection, OC!Results
    <3>4. CASE r.type = "REVIEW"
      BY <1>8, <3>4 DEF OC!Projection, OC!Results
    <3>5. QED BY <1>3, <3>1, <3>2, <3>3, <3>4 DEF OCEntry, OCKinds
  <2>2. p.semantic = OC!Status(r.chain) /\ p.superseded = superseded
    BY <2>1 DEF OC!Projection
  <2>3. OC!Terminal(r.chain)
    BY <1>8, <2>2 DEF OC!Terminal
  <2>4. r.chain = ocActive
    BY <1>5, <2>1, <2>3, OCEndedIsActive
  <2>5. QED BY <1>5, <2>1, <2>2, <2>4
<1> HIDE DEF v, p, superseded, r
<1>9. OCTypeOK' /\ OCLineInv'
  <2>1. OC!Attempts' = OC!Attempts
    BY <1>1 DEF OC!Attempts
  <2>2. QED BY <1>1, <2>1 DEF OCIInv, OCTypeOK, OCLineInv
<1>10. OCCallsInv'
  BY <1>1, OCReturned DEF OCIInv
<1>11. OCAnswersInv'
  <2>1. ocAnswer' = [ocAnswer EXCEPT ![c] = v]
    BY <1>1 DEF OC!Returns
  <2>2. QED BY <1>1, <1>6, <1>7, <1>8, <2>1, OCAnswered
<1>12. QED BY <1>9, <1>10, <1>11 DEF OCIInv

\* Every call, and a step of nobody.
LEMMA OCStepIInv ==
  ASSUME IsFiniteSet(Source), None \notin Seq(OC!Step), OCIInv, [OC!Next]_ocVars
  PROVE  OCIInv'
<1>1. CASE UNCHANGED ocVars
  <2>1. OC!Attempts' = OC!Attempts
    BY <1>1 DEF ocVars, OC!Attempts
  <2>2. OCTypeOK' /\ OCLineInv'
    BY <1>1, <2>1 DEF ocVars, OCIInv, OCTypeOK, OCLineInv
  <2>3. OCCallsInv'
    BY <1>1 DEF ocVars, OCIInv, OCCallsInv, OCCallOK
  <2>4. OCAnswersInv'
    BY <1>1 DEF ocVars, OCIInv, OCAnswersInv
  <2>5. QED BY <2>2, <2>3, <2>4 DEF OCIInv
<1>2. ASSUME NEW c \in Client,
             OC!Historical(c) \/ OC!Call(c) \/ OC!Issue(c) \/ OC!RecordSource(c) \/ OC!Refused(c)
               \/ OC!CommitResult(c) \/ OC!Project(c)
      PROVE  OCIInv'
  BY <1>2, OCHistoricalIInv, OCCallIInv, OCIssueIInv, OCRecordSourceIInv, OCRefusedIInv,
     OCCommitResultIInv, OCProjectIInv
<1>3. QED BY <1>1, <1>2 DEF OC!Next

\* The invariant says what the two properties say.
LEMMA OCLineHolds ==
  ASSUME IsFiniteSet(Source), OCIInv
  PROVE  OC!OneLine /\ OC!ProjectionsHold
<1>1. OC!ProjectionsHold
  BY DEF OCIInv, OCAnswersInv, OC!ProjectionsHold
<1>2. ASSUME NEW r \in OC!Attempts PROVE ocActive # None /\ OC!IsPrefix(r.chain, ocActive)
  <2>1. /\ ocActive # None /\ ocActive \in Seq(OC!Step) /\ r.chain \in Seq(OC!Step)
        /\ OCStartOf(r.chain, ocActive)
    BY DEF OCIInv, OCTypeOK, OCLineInv, OC!Attempts, OCEntry
  <2>2. QED BY <2>1, OCStartIsPrefix
<1>3. ASSUME ocActive # None
      PROVE  /\ OC!Cardinality(OC!SourcesOf(ocActive)) = Len(ocActive)
             /\ \A i \in 1..Len(ocActive) : i < Len(ocActive) => ocActive[i].state = "COMPLETED"
  <2>1. ocActive \in Seq(OC!Step) /\ OCStraight(ocActive)
    BY <1>3 DEF OCIInv, OCTypeOK, OCLineInv
  <2>2. OC!Cardinality(OC!SourcesOf(ocActive)) = Len(ocActive)
    BY <2>1, OCSourcesCount DEF OC!Cardinality, Cardinality
  <2>3. QED BY <2>1, <2>2 DEF OCStraight
<1>4. QED BY <1>1, <1>2, <1>3 DEF OC!OneLine

\* Every token issued is a start of the one active chain of records
\* (observation_retention.py).
THEOREM OCInvariance == Spec => [](machine = "ObservationCeremony" => OCIInv)
<1>1. None \notin Seq(OC!Step)
  BY NoneAssumption DEF OC!Step, OC!Results
<1>2. Init => (machine = "ObservationCeremony" => OCIInv)
  BY OCInitIInv DEF Init
<1>3. (machine = "ObservationCeremony" => OCIInv) /\ [Next]_vars
         => (machine = "ObservationCeremony" => OCIInv)'
  BY <1>1, SourceAssumption, OCStepIInv DEF Next, vars
<1>4. QED BY <1>2, <1>3, PTL DEF Spec

\* Whichever thread presents which token when, the attempt is one line of
\* records, no source twice and nothing after a failure, and a projection that
\* says it has ended stays true and passes its validator (begin, record_source,
\* project and validate_projection of observation_retention.py).
THEOREM OneCeremony == Spec => []CeremonyIsOneLine
<1>1. (machine = "ObservationCeremony" => OCIInv) => CeremonyIsOneLine
  BY SourceAssumption, OCLineHolds DEF CeremonyIsOneLine
<1>2. QED BY <1>1, OCInvariance, PTL

-----------------------------------------------------------------------------
(* The engagement launcher.                                                *)

ELShapes ==
  /\ elPc = [l \in Client |-> elPc[l]] /\ elAt = [l \in Client |-> elAt[l]]
  /\ elDid = [l \in Client |-> elDid[l]] /\ elResult = [l \in Client |-> elResult[l]]

\* What a launch has behind it: its row before the scheduler, and a scheduler
\* that is over before the result.
ELOnRecord(l) ==
  /\ (elDid[l] # "nothing" \/ elPc[l] \in {"invoke", "running", "append outcome", "report"}
        \/ elActive = l) => l \in elReady
  /\ elActive = l => elPc[l] \in {"running", "done"}
  /\ elResult[l] # None =>
       /\ elPc[l] = "done"
       /\ elResult[l].success =>
            /\ elActive # l /\ elDid[l] \in {"disabled", "succeeded"}
            /\ (elResult[l].outcome = "OK_DISABLED") = (elDid[l] = "disabled")
            /\ elResult[l].persisted

\* append_log is one launch's at a time.
ELLockInv == \A l \in Client : elAt[l] # "out" => elHolder = l /\ EL!Appends(l)

\* The files hold the latest rows in order; a file that was renamed is full, and
\* so is the one that is about to be.
ELRows(file, last) == \A i \in 1..Len(file) : file[i] = last - Len(file) + i
ELKept == Len(elLog[1]) + Len(elLog[2]) + Len(elLog[3])
ELFilesInv ==
  /\ elWritten \in Nat /\ elLog \in [1..3 -> Seq(Nat)]
  /\ ELKept <= elWritten
  /\ ELRows(elLog[3], elWritten) /\ ELRows(elLog[2], elWritten - Len(elLog[3]))
  /\ ELRows(elLog[1], elWritten - Len(elLog[3]) - Len(elLog[2]))
  /\ elLog[2] # <<>> => Len(elLog[2]) >= MaxRows
  /\ ELKept >= 2 * MaxRows \/ ELKept = elWritten
ELFullInv ==
  \A l \in Client :
    /\ elAt[l] \in {"rotate old", "rotate new"} => Len(elLog[3]) >= MaxRows
    /\ elAt[l] = "rotate new" => elLog[2] = <<>>

ELIInv == ELShapes /\ (\A l \in Client : ELOnRecord(l)) /\ ELLockInv /\ ELFilesInv /\ ELFullInv

LEMMA ELInitIInv ==
  ASSUME None \notin Client, MaxRows \in Nat, EL!Init
  PROVE  ELIInv
<1>1. ELShapes
  BY DEF EL!Init, ELShapes
<1>2. \A l \in Client : ELOnRecord(l)
  BY DEF EL!Init, ELOnRecord
<1>3. ELLockInv /\ ELFullInv
  BY DEF EL!Init, ELLockInv, ELFullInv
<1>4. /\ elLog \in [1..3 -> Seq(Nat)] /\ elWritten = 0
      /\ elLog[1] = <<>> /\ elLog[2] = <<>> /\ elLog[3] = <<>>
  <2>1. elLog = <<<<>>, <<>>, <<>>>> /\ elWritten = 0
    BY DEF EL!Init
  <2>2. elLog \in Seq(Seq(Nat)) /\ Len(elLog) = 3 /\ \A k \in 1..3 : elLog[k] = <<>>
    BY <2>1
  <2>3. elLog \in [1..3 -> Seq(Nat)]
    BY <2>2, LenProperties
  <2>4. QED BY <2>1, <2>2, <2>3
<1>5. Len(elLog[1]) = 0 /\ Len(elLog[2]) = 0 /\ Len(elLog[3]) = 0
  BY <1>4, EmptySeq
<1>6. ELFilesInv
  BY <1>4, <1>5 DEF ELFilesInv, ELKept, ELRows
<1>7. QED BY <1>1, <1>2, <1>3, <1>6 DEF ELIInv

-----------------------------------------------------------------------------
(* The other launches.                                                     *)

\* What a step of one launch leaves of another.
LEMMA ELOthers ==
  ASSUME ELIInv, NEW l \in Client, NEW m \in Client, m # l,
         elPc'[m] = elPc[m], elDid'[m] = elDid[m], elResult'[m] = elResult[m],
         m \in elReady => m \in elReady', elActive' = m => elActive = m
  PROVE  ELOnRecord(m)'
<1>1. ELOnRecord(m)
  BY DEF ELIInv
<1>2. (elDid[m] # "nothing" \/ elPc[m] \in {"invoke", "running", "append outcome", "report"}
         \/ elActive = m) => m \in elReady
  BY <1>1 DEF ELOnRecord
<1>3. elActive = m => elPc[m] \in {"running", "done"}
  BY <1>1 DEF ELOnRecord
<1>4. elResult[m] # None =>
       /\ elPc[m] = "done"
       /\ elResult[m].success =>
            /\ elActive # m /\ elDid[m] \in {"disabled", "succeeded"}
            /\ (elResult[m].outcome = "OK_DISABLED") = (elDid[m] = "disabled")
            /\ elResult[m].persisted
  BY <1>1 DEF ELOnRecord
<1>5. (elDid'[m] # "nothing" \/ elPc'[m] \in {"invoke", "running", "append outcome", "report"}
         \/ elActive' = m) => m \in elReady'
  BY <1>2
<1>6. elActive' = m => elPc'[m] \in {"running", "done"}
  BY <1>3
<1>7. elResult'[m] # None =>
       /\ elPc'[m] = "done"
       /\ elResult'[m].success =>
            /\ elActive' # m /\ elDid'[m] \in {"disabled", "succeeded"}
            /\ (elResult'[m].outcome = "OK_DISABLED") = (elDid'[m] = "disabled")
            /\ elResult'[m].persisted
  BY <1>4
<1>8. QED BY <1>5, <1>6, <1>7 DEF ELOnRecord

\* A launch that is not in append_log does not disturb it.
LEMMA ELLogUntouched ==
  ASSUME ELIInv, NEW l \in Client, NEW place, ~EL!Appends(l),
         elPc' = [elPc EXCEPT ![l] = place],
         UNCHANGED <<elAt, elHolder, elLog, elWritten>>
  PROVE  ELLockInv' /\ ELFilesInv' /\ ELFullInv'
<1>1. ELFilesInv' /\ ELFullInv'
  BY DEF ELIInv, ELFilesInv, ELFullInv, ELKept
<1>2. ASSUME NEW m \in Client, elAt'[m] # "out" PROVE elHolder' = m /\ EL!Appends(m)'
  <2>1. elHolder = m /\ EL!Appends(m)
    BY <1>2 DEF ELIInv, ELLockInv
  <2>2. m # l
    BY <2>1
  <2>3. elPc'[m] = elPc[m]
    BY <2>2 DEF ELIInv, ELShapes
  <2>4. QED BY <2>1, <2>3 DEF EL!Appends
<1>3. QED BY <1>1, <1>2 DEF ELLockInv

-----------------------------------------------------------------------------
(* Preflight.                                                              *)

\* A step of the preflight: it goes on, or prints that it failed.
ELChecks(l, place) ==
  /\ elPc[l] \in {"start", "status", "compare", "status again", "judge"}
  /\ elPc' = [elPc EXCEPT ![l] = place]
  /\ \/ /\ place \in {"status", "compare", "status again", "judge", "append ready"}
        /\ elResult' = elResult
     \/ /\ place = "done" /\ elResult'[l].success = FALSE
        /\ elResult' = [elResult EXCEPT ![l] = elResult'[l]]
  /\ UNCHANGED <<elActive, elDid, EL!LogVars>>

\* Nothing was run yet, and a result is none of success.
LEMMA ELPreflightIInv ==
  ASSUME None \notin Client, ELIInv, NEW l \in Client, NEW place,
         ELChecks(l, place)
  PROVE  ELIInv'
<1>1. /\ elAt' = elAt /\ elHolder' = elHolder /\ elLog' = elLog /\ elWritten' = elWritten
      /\ elReady' = elReady /\ elDid' = elDid /\ elActive' = elActive
  BY DEF ELChecks, EL!LogVars
<1>2. ELShapes'
  BY <1>1 DEF ELIInv, ELShapes, ELChecks
<1>3. elPc'[l] = place /\ elActive # l
  BY DEF ELIInv, ELShapes, ELOnRecord, ELChecks
<1>4. ASSUME NEW m \in Client PROVE ELOnRecord(m)'
  <2>1. CASE m = l
    <3>1. ELOnRecord(l)
      BY DEF ELIInv
    <3>2. elDid[l] # "nothing" => l \in elReady
      BY <3>1 DEF ELOnRecord
    <3>3. elResult[l] = None
      BY <3>1 DEF ELOnRecord, ELChecks
    <3>4. elResult'[l] = None \/ (place = "done" /\ elResult'[l].success = FALSE)
      BY <3>3 DEF ELChecks
    <3>5. QED BY <1>1, <1>3, <2>1, <3>2, <3>4 DEF ELOnRecord, ELChecks
  <2>2. CASE m # l
    <3>1. elPc'[m] = elPc[m] /\ elResult'[m] = elResult[m]
      BY <2>2 DEF ELIInv, ELShapes, ELChecks
    <3>2. QED BY <1>1, <2>2, <3>1, ELOthers
  <2>3. QED BY <2>1, <2>2
<1>5. ELLockInv' /\ ELFilesInv' /\ ELFullInv'
  <2>1. ~EL!Appends(l) /\ elPc' = [elPc EXCEPT ![l] = place]
    BY DEF ELChecks, EL!Appends
  <2>2. QED BY <1>1, <2>1, ELLogUntouched
<1>6. QED BY <1>2, <1>4, <1>5 DEF ELIInv

\* The two ways a step of the preflight ends.
LEMMA ELGoesOnIInv ==
  ASSUME None \notin Client, ELIInv, NEW l \in Client, NEW place,
         elPc[l] \in {"start", "status", "compare", "status again", "judge"},
         place \in {"status", "compare", "status again", "judge", "append ready"},
         EL!Goes(l, place), elResult' = elResult, UNCHANGED <<elActive, elDid, EL!LogVars>>
  PROVE  ELIInv'
<1>1. ELChecks(l, place)
  BY DEF EL!Goes, ELChecks
<1>2. QED BY <1>1, ELPreflightIInv

LEMMA ELStopsIInv ==
  ASSUME None \notin Client, ELIInv, NEW l \in Client,
         EL!NotReady(l) \/ EL!CheckFails(l) \/ (EL!Judge(l) /\ ~elArmed[l])
  PROVE  ELIInv'
<1>1. PICK outcome : elResult' = [elResult EXCEPT ![l] =
                         [outcome |-> outcome, success |-> FALSE, persisted |-> FALSE]]
  BY DEF EL!NotReady, EL!CheckFails, EL!Judge, EL!Prints
<1>2. /\ elPc[l] \in {"start", "status", "compare", "status again", "judge"}
      /\ elPc' = [elPc EXCEPT ![l] = "done"] /\ UNCHANGED <<elActive, elDid, EL!LogVars>>
  BY DEF EL!NotReady, EL!CheckFails, EL!Judge, EL!Prints, EL!Goes, EL!SchedVars
<1>3. elResult'[l] = [outcome |-> outcome, success |-> FALSE, persisted |-> FALSE]
  BY <1>1 DEF ELIInv, ELShapes
<1>4. elResult'[l].success = FALSE
  BY <1>3
<1>5. ELChecks(l, "done")
  BY <1>1, <1>2, <1>3, <1>4 DEF ELChecks
<1>6. QED BY <1>5, ELPreflightIInv

LEMMA ELChecksIInv ==
  ASSUME None \notin Client, ELIInv, NEW l \in Client,
         EL!Hash(l) \/ EL!Status(l) \/ EL!Compare(l) \/ EL!NotReady(l) \/ EL!CheckFails(l) \/ EL!Judge(l)
  PROVE  ELIInv'
<1>1. CASE EL!Hash(l)
  BY <1>1, ELGoesOnIInv DEF EL!Hash
<1>2. CASE EL!Status(l)
  BY <1>2, ELGoesOnIInv DEF EL!Status, EL!SchedVars
<1>3. CASE EL!Compare(l)
  BY <1>3, ELGoesOnIInv DEF EL!Compare, EL!SchedVars
<1>4. CASE EL!Judge(l) /\ elArmed[l]
  <2>1. /\ elPc[l] = "judge" /\ EL!Goes(l, "append ready") /\ elResult' = elResult
        /\ UNCHANGED <<elActive, elDid, EL!LogVars>>
    BY <1>4 DEF EL!Judge, EL!SchedVars
  <2>2. ELChecks(l, "append ready")
    BY <2>1 DEF EL!Goes, ELChecks
  <2>3. QED BY <2>2, ELPreflightIInv
<1>5. QED BY <1>1, <1>2, <1>3, <1>4, ELStopsIInv

-----------------------------------------------------------------------------
(* append_log.                                                             *)

\* The lock is one launch's.
LEMMA ELAlone ==
  ASSUME ELIInv, NEW l \in Client, elAt[l] # "out"
  PROVE  /\ elHolder = l /\ EL!Appends(l)
         /\ \A m \in Client : elAt[m] # "out" => m = l
  BY DEF ELIInv, ELLockInv

\* A step of append_log that is not its last keeps everything but the files.
LEMMA ELInsideLock ==
  ASSUME ELIInv, NEW l \in Client, NEW step, EL!Appends(l),
         elAt' = [elAt EXCEPT ![l] = step], elHolder' = l, elHolder = l \/ elHolder = None,
         None \notin Client, UNCHANGED <<elPc, elDid, elActive, elResult, elReady>>
  PROVE  /\ ELShapes' /\ (\A m \in Client : ELOnRecord(m)') /\ ELLockInv'
         /\ elAt'[l] = step /\ \A m \in Client : m # l => elAt'[m] = "out"
<1>1. \A m \in Client : m # l => elAt[m] = "out"
  BY DEF ELIInv, ELLockInv
<1>2. elAt'[l] = step /\ \A m \in Client : m # l => elAt'[m] = "out"
  BY <1>1 DEF ELIInv, ELShapes
<1>3. ELShapes'
  BY DEF ELIInv, ELShapes
<1>4. \A m \in Client : ELOnRecord(m)'
  BY DEF ELIInv, ELOnRecord
<1>5. ELLockInv'
  BY <1>2 DEF ELLockInv, EL!Appends
<1>6. QED BY <1>2, <1>3, <1>4, <1>5

\* Lock and Measure: the size of the newest file decides.
LEMMA ELLockIInv ==
  ASSUME None \notin Client, ELIInv, NEW l \in Client, EL!Lock(l)
  PROVE  ELIInv'
<1>1. /\ EL!Appends(l) /\ elHolder = None /\ elHolder' = l /\ elAt' = [elAt EXCEPT ![l] = "measure"]
      /\ UNCHANGED <<elPc, elDid, elActive, elResult, elReady, elLog, elWritten>>
  BY DEF EL!Lock, EL!Continue, EL!Rest, EL!SchedVars
<1>2. /\ ELShapes' /\ (\A m \in Client : ELOnRecord(m)') /\ ELLockInv'
      /\ elAt'[l] = "measure" /\ \A m \in Client : m # l => elAt'[m] = "out"
  BY <1>1, ELInsideLock
<1>3. ELFilesInv' /\ ELFullInv'
  BY <1>1, <1>2 DEF ELIInv, ELFilesInv, ELFullInv, ELKept
<1>4. QED BY <1>2, <1>3 DEF ELIInv

LEMMA ELMeasureIInv ==
  ASSUME None \notin Client, MaxRows \in Nat, ELIInv, NEW l \in Client, EL!Measure(l)
  PROVE  ELIInv'
<1> DEFINE step == IF Len(elLog[3]) + 1 > MaxRows THEN "rotate old" ELSE "write"
<1>1. /\ elAt[l] = "measure" /\ elAt' = [elAt EXCEPT ![l] = step]
      /\ UNCHANGED <<elHolder, elPc, elDid, elActive, elResult, elReady, elLog, elWritten>>
  BY DEF EL!Measure, EL!Continue, EL!Rest, EL!SchedVars
<1>2. EL!Appends(l) /\ elHolder = l
  BY <1>1, ELAlone
<1> HIDE DEF step
<1>3. /\ ELShapes' /\ (\A m \in Client : ELOnRecord(m)') /\ ELLockInv'
      /\ elAt'[l] = step /\ \A m \in Client : m # l => elAt'[m] = "out"
  BY <1>1, <1>2, ELInsideLock
<1>4. step \in {"rotate old", "write"} /\ (step = "rotate old" => Len(elLog[3]) >= MaxRows)
  <2>1. Len(elLog[3]) \in Nat
    BY LenProperties DEF ELIInv, ELFilesInv
  <2>2. QED BY <2>1 DEF step
<1>5. ELFilesInv' /\ ELFullInv'
  BY <1>1, <1>3, <1>4 DEF ELIInv, ELFilesInv, ELFullInv, ELKept
<1>6. QED BY <1>3, <1>5 DEF ELIInv

\* The lengths of the files are numbers.
LEMMA ELLengths ==
  ASSUME ELIInv
  PROVE  /\ elLog[1] \in Seq(Nat) /\ elLog[2] \in Seq(Nat) /\ elLog[3] \in Seq(Nat)
         /\ Len(elLog[1]) \in Nat /\ Len(elLog[2]) \in Nat /\ Len(elLog[3]) \in Nat
         /\ Len(elLog[1]) + Len(elLog[2]) + Len(elLog[3]) <= elWritten /\ elWritten \in Nat
         /\ elLog[2] = <<>> <=> Len(elLog[2]) = 0
         /\ elLog[3] = <<>> <=> Len(elLog[3]) = 0
<1>1. elLog[1] \in Seq(Nat) /\ elLog[2] \in Seq(Nat) /\ elLog[3] \in Seq(Nat)
  BY DEF ELIInv, ELFilesInv
<1>2. Len(elLog[1]) \in Nat /\ Len(elLog[2]) \in Nat /\ Len(elLog[3]) \in Nat
  BY <1>1, LenProperties
<1>3. (elLog[2] = <<>> <=> Len(elLog[2]) = 0) /\ (elLog[3] = <<>> <=> Len(elLog[3]) = 0)
  BY <1>1, EmptySeq
<1>4. QED BY <1>1, <1>2, <1>3 DEF ELIInv, ELFilesInv, ELKept

\* RotateOld: the oldest file is given up, and two full ones stay.
LEMMA ELRotateOldIInv ==
  ASSUME None \notin Client, MaxRows \in Nat, ELIInv, NEW l \in Client, EL!RotateOld(l)
  PROVE  ELIInv'
<1>1. /\ elAt[l] = "rotate old" /\ elAt' = [elAt EXCEPT ![l] = "rotate new"]
      /\ elLog' = EL!Replaced(2, 1)
      /\ UNCHANGED <<elHolder, elPc, elDid, elActive, elResult, elReady, elWritten>>
  BY DEF EL!RotateOld, EL!Continue, EL!Rest, EL!SchedVars
<1>2. EL!Appends(l) /\ elHolder = l
  BY <1>1, ELAlone
<1>3. /\ ELShapes' /\ (\A m \in Client : ELOnRecord(m)') /\ ELLockInv'
      /\ elAt'[l] = "rotate new" /\ \A m \in Client : m # l => elAt'[m] = "out"
  BY <1>1, <1>2, ELInsideLock
<1>4. Len(elLog[3]) >= MaxRows
  BY <1>1 DEF ELIInv, ELFullInv
<1>5. ELFilesInv' /\ elLog'[3] = elLog[3] /\ elLog'[2] = <<>>
  <2>1. CASE elLog[2] = <<>>
    <3>1. elLog' = elLog
      BY <1>1, <2>1 DEF EL!Replaced
    <3>2. QED BY <1>1, <2>1, <3>1 DEF ELIInv, ELFilesInv, ELKept
  <2>2. CASE elLog[2] # <<>>
    <3>1. elLog' = [elLog EXCEPT ![1] = elLog[2], ![2] = <<>>]
      BY <1>1, <2>2 DEF EL!Replaced
    <3>2. elLog \in [1..3 -> Seq(Nat)] /\ <<>> \in Seq(Nat) /\ elLog[2] \in Seq(Nat)
      BY ELLengths, EmptySeq DEF ELIInv, ELFilesInv
    <3>3. /\ elLog'[1] = elLog[2] /\ elLog'[2] = <<>> /\ elLog'[3] = elLog[3]
          /\ elLog' \in [1..3 -> Seq(Nat)]
      BY <3>1, <3>2
    <3> DEFINE n1 == Len(elLog[1])
               n2 == Len(elLog[2])
               n3 == Len(elLog[3])
    <3>4. /\ n1 \in Nat /\ n2 \in Nat /\ n3 \in Nat /\ elWritten \in Nat
          /\ n1 + n2 + n3 <= elWritten /\ n2 >= MaxRows /\ n3 >= MaxRows
      BY <1>4, <2>2, ELLengths DEF ELIInv, ELFilesInv
    <3>5. Len(elLog'[1]) = n2 /\ Len(elLog'[2]) = 0 /\ Len(elLog'[3]) = n3
      BY <3>3, EmptySeq
    <3>6. ELRows(elLog[2], elWritten - n3) /\ ELRows(elLog[3], elWritten)
      BY DEF ELIInv, ELFilesInv
    <3> HIDE DEF n1, n2, n3
    <3>7. ELKept' = n2 + n3
      BY <3>4, <3>5 DEF ELKept
    <3>8. ELKept' <= elWritten' /\ ELKept' >= 2 * MaxRows
      <4>1. n2 + n3 <= elWritten /\ n2 + n3 >= 2 * MaxRows
        BY <3>4
      <4>2. QED BY <1>1, <3>7, <4>1
    <3>9. elWritten - n3 - 0 = elWritten - n3
      BY <3>4
    <3>10. ELRows(elLog'[1], elWritten' - Len(elLog'[3]) - Len(elLog'[2])) /\ ELRows(elLog'[3], elWritten')
      BY <1>1, <3>3, <3>5, <3>6, <3>9
    <3>11. ELRows(elLog'[2], elWritten' - Len(elLog'[3]))
      BY <3>3, <3>5 DEF ELRows
    <3>12. QED BY <1>1, <3>3, <3>4, <3>8, <3>10, <3>11 DEF ELFilesInv
  <2>3. QED BY <2>1, <2>2
<1>6. ELFullInv'
  BY <1>3, <1>4, <1>5 DEF ELFullInv
<1>7. QED BY <1>3, <1>5, <1>6 DEF ELIInv

\* RotateNew: the newest file, which is full, takes a place that is empty.
LEMMA ELRotateNewIInv ==
  ASSUME None \notin Client, MaxRows \in Nat, ELIInv, NEW l \in Client, EL!RotateNew(l)
  PROVE  ELIInv'
<1>1. /\ elAt[l] = "rotate new" /\ elAt' = [elAt EXCEPT ![l] = "write"]
      /\ elLog' = EL!Replaced(3, 2)
      /\ UNCHANGED <<elHolder, elPc, elDid, elActive, elResult, elReady, elWritten>>
  BY DEF EL!RotateNew, EL!Continue, EL!Rest, EL!SchedVars
<1>2. EL!Appends(l) /\ elHolder = l
  BY <1>1, ELAlone
<1>3. /\ ELShapes' /\ (\A m \in Client : ELOnRecord(m)') /\ ELLockInv'
      /\ elAt'[l] = "write" /\ \A m \in Client : m # l => elAt'[m] = "out"
  BY <1>1, <1>2, ELInsideLock
<1>4. Len(elLog[3]) >= MaxRows /\ elLog[2] = <<>>
  BY <1>1 DEF ELIInv, ELFullInv
<1>5. ELFullInv'
  BY <1>3 DEF ELFullInv
<1>6. ELFilesInv'
  <2>1. CASE elLog[3] = <<>>
    <3>1. elLog' = elLog
      BY <1>1, <2>1 DEF EL!Replaced
    <3>2. QED BY <1>1, <3>1 DEF ELIInv, ELFilesInv, ELKept
  <2>2. CASE elLog[3] # <<>>
    <3>1. elLog' = [elLog EXCEPT ![2] = elLog[3], ![3] = <<>>]
      BY <1>1, <2>2 DEF EL!Replaced
    <3>2. elLog \in [1..3 -> Seq(Nat)] /\ <<>> \in Seq(Nat) /\ elLog[3] \in Seq(Nat)
      BY ELLengths, EmptySeq DEF ELIInv, ELFilesInv
    <3>3. /\ elLog'[1] = elLog[1] /\ elLog'[2] = elLog[3] /\ elLog'[3] = <<>>
          /\ elLog' \in [1..3 -> Seq(Nat)]
      <4>1. elLog'[1] = elLog[1]
        BY <3>1, <3>2
      <4>2. elLog'[2] = elLog[3]
        BY <3>1, <3>2
      <4>3. elLog'[3] = <<>>
        BY <3>1, <3>2
      <4>4. elLog' \in [1..3 -> Seq(Nat)]
        BY <3>1, <3>2
      <4>5. QED BY <4>1, <4>2, <4>3, <4>4
    <3> DEFINE n1 == Len(elLog[1])
               n2 == Len(elLog[2])
               n3 == Len(elLog[3])
    <3>4. /\ n1 \in Nat /\ n2 \in Nat /\ n3 \in Nat /\ elWritten \in Nat
          /\ n1 + n2 + n3 <= elWritten /\ n2 = 0 /\ n3 >= MaxRows
      BY <1>4, ELLengths
    <3>5. Len(elLog'[1]) = n1 /\ Len(elLog'[2]) = n3 /\ Len(elLog'[3]) = 0
      BY <3>3, EmptySeq
    <3>6. /\ ELRows(elLog[3], elWritten) /\ ELRows(elLog[1], elWritten - n3 - n2)
          /\ n1 + n2 + n3 >= 2 * MaxRows \/ n1 + n2 + n3 = elWritten
      BY DEF ELIInv, ELFilesInv, ELKept
    <3> HIDE DEF n1, n2, n3
    <3>7. ELKept' = n1 + n3
      BY <3>4, <3>5 DEF ELKept
    <3>8. ELKept' <= elWritten' /\ (ELKept' >= 2 * MaxRows \/ ELKept' = elWritten')
      <4>1. /\ n1 + n3 <= elWritten
            /\ n1 + n3 >= 2 * MaxRows \/ n1 + n3 = elWritten
        BY <3>4, <3>6
      <4>2. QED BY <1>1, <3>7, <4>1
    <3>9. elWritten - 0 = elWritten /\ elWritten - 0 - n3 = elWritten - n3 - n2
      BY <3>4
    <3>10. /\ ELRows(elLog'[1], elWritten' - Len(elLog'[3]) - Len(elLog'[2]))
           /\ ELRows(elLog'[2], elWritten' - Len(elLog'[3]))
      BY <1>1, <3>3, <3>5, <3>6, <3>9
    <3>11. ELRows(elLog'[3], elWritten')
      BY <3>3, <3>5 DEF ELRows
    <3>12. elLog'[2] # <<>> => Len(elLog'[2]) >= MaxRows
      BY <3>4, <3>5
    <3>13. QED BY <1>1, <3>3, <3>4, <3>8, <3>10, <3>11, <3>12 DEF ELFilesInv
  <2>3. QED BY <2>1, <2>2
<1>7. QED BY <1>3, <1>5, <1>6 DEF ELIInv

\* A row more.
LEMMA ELRowWritten ==
  ASSUME MaxRows \in Nat, ELIInv, EL!WriteRow
  PROVE  ELFilesInv'
<1> DEFINE n1 == Len(elLog[1])
           n2 == Len(elLog[2])
           n3 == Len(elLog[3])
<1>1. /\ elLog[1] \in Seq(Nat) /\ elLog[2] \in Seq(Nat) /\ elLog[3] \in Seq(Nat)
      /\ n1 \in Nat /\ n2 \in Nat /\ n3 \in Nat /\ elWritten \in Nat
      /\ n1 + n2 + n3 <= elWritten
  BY ELLengths
<1>2. elWritten' = elWritten + 1 /\ elWritten' \in Nat
  BY <1>1 DEF EL!WriteRow
<1> DEFINE file == Append(elLog[3], elWritten')
<1>3. /\ elLog' = [elLog EXCEPT ![3] = file] /\ elLog \in [1..3 -> Seq(Nat)]
  BY DEF EL!WriteRow, ELIInv, ELFilesInv
<1>4. /\ file \in Seq(Nat) /\ Len(file) = n3 + 1 /\ file[n3 + 1] = elWritten'
      /\ \A i \in 1..n3 : file[i] = elLog[3][i]
  BY <1>1, <1>2, AppendProperties
<1> HIDE DEF file
<1>5. elLog'[1] = elLog[1] /\ elLog'[2] = elLog[2] /\ elLog'[3] = file /\ elLog' \in [1..3 -> Seq(Nat)]
  BY <1>3, <1>4
<1>6. /\ ELRows(elLog[3], elWritten) /\ ELRows(elLog[2], elWritten - n3)
      /\ ELRows(elLog[1], elWritten - n3 - n2)
      /\ elLog[2] # <<>> => n2 >= MaxRows
      /\ n1 + n2 + n3 >= 2 * MaxRows \/ n1 + n2 + n3 = elWritten
  BY DEF ELIInv, ELFilesInv, ELKept
<1>7. Len(elLog'[1]) = n1 /\ Len(elLog'[2]) = n2 /\ Len(elLog'[3]) = n3 + 1
  BY <1>4, <1>5
<1>8. \A i \in 1..n3 : elLog[3][i] = elWritten - n3 + i
  BY <1>6 DEF ELRows
<1> HIDE DEF n1, n2, n3
<1>9. ELRows(file, elWritten')
  <2>1. ASSUME NEW i \in 1..(n3 + 1) PROVE file[i] = elWritten' - (n3 + 1) + i
    <3>1. CASE i = n3 + 1
      BY <1>1, <1>2, <1>4, <3>1
    <3>2. CASE i # n3 + 1
      <4>1. i \in 1..n3
        BY <1>1, <3>2
      <4>2. file[i] = elWritten - n3 + i
        BY <1>4, <1>8, <4>1
      <4>3. elWritten - n3 + i = elWritten' - (n3 + 1) + i
        BY <1>1, <1>2, <4>1
      <4>4. QED BY <4>2, <4>3
    <3>3. QED BY <3>1, <3>2
  <2>2. QED BY <1>4, <2>1 DEF ELRows
<1>10. ELKept' = n1 + n2 + n3 + 1
  BY <1>1, <1>7 DEF ELKept
<1>11. elWritten' - (n3 + 1) = elWritten - n3 /\ elWritten' - (n3 + 1) - n2 = elWritten - n3 - n2
  BY <1>1, <1>2
<1>12. /\ ELRows(elLog'[1], elWritten' - Len(elLog'[3]) - Len(elLog'[2]))
       /\ ELRows(elLog'[2], elWritten' - Len(elLog'[3])) /\ ELRows(elLog'[3], elWritten')
  BY <1>5, <1>6, <1>7, <1>9, <1>11
<1>13. ELKept' <= elWritten' /\ (ELKept' >= 2 * MaxRows \/ ELKept' = elWritten')
  BY <1>1, <1>2, <1>6, <1>10
<1>14. elLog'[2] # <<>> => Len(elLog'[2]) >= MaxRows
  BY <1>5, <1>6, <1>7
<1>15. QED BY <1>2, <1>5, <1>12, <1>13, <1>14 DEF ELFilesInv

LEMMA ELWriteIInv ==
  ASSUME None \notin Client, MaxRows \in Nat, ELIInv, NEW l \in Client, EL!Write(l)
  PROVE  ELIInv'
<1>1. /\ elAt[l] = "write" /\ elAt' = [elAt EXCEPT ![l] = "sync"] /\ EL!WriteRow
      /\ UNCHANGED <<elHolder, elPc, elDid, elActive, elResult, elReady>>
  BY DEF EL!Write, EL!Continue, EL!Rest, EL!SchedVars
<1>2. EL!Appends(l) /\ elHolder = l
  BY <1>1, ELAlone
<1>3. /\ ELShapes' /\ (\A m \in Client : ELOnRecord(m)') /\ ELLockInv'
      /\ elAt'[l] = "sync" /\ \A m \in Client : m # l => elAt'[m] = "out"
  BY <1>1, <1>2, ELInsideLock
<1>4. ELFullInv'
  BY <1>3 DEF ELFullInv
<1>5. ELFilesInv'
  BY <1>1, ELRowWritten
<1>6. QED BY <1>3, <1>4, <1>5 DEF ELIInv

-----------------------------------------------------------------------------
(* The end of append_log.                                                  *)

\* Whoever leaves the lock leaves it for all; a row it had begun is a row.
LEMMA ELLeft ==
  ASSUME None \notin Client, MaxRows \in Nat, ELIInv, NEW l \in Client, NEW place,
         elPc' = [elPc EXCEPT ![l] = place], EL!Leave(l),
         (elAt[l] = "write" /\ EL!WriteRow) \/ UNCHANGED <<elLog, elWritten>>
  PROVE  /\ ELLockInv' /\ ELFilesInv' /\ ELFullInv'
         /\ elAt' = [m \in Client |-> elAt'[m]]
<1>1. elAt' = [elAt EXCEPT ![l] = "out"] /\ elHolder' = IF elHolder = l THEN None ELSE elHolder
  BY DEF EL!Leave, EL!Continue
<1>2. elAt' = [m \in Client |-> elAt'[m]] /\ elAt'[l] = "out"
  BY <1>1 DEF ELIInv, ELShapes
<1>3. \A m \in Client : m # l => elAt'[m] = elAt[m] /\ elPc'[m] = elPc[m]
  BY <1>1 DEF ELIInv, ELShapes
<1>4. ASSUME NEW m \in Client, elAt'[m] # "out" PROVE elHolder' = m /\ EL!Appends(m)'
  <2>1. m # l /\ elAt[m] # "out"
    BY <1>2, <1>3, <1>4
  <2>2. elHolder = m /\ EL!Appends(m)
    BY <2>1 DEF ELIInv, ELLockInv
  <2>3. QED BY <1>1, <1>3, <2>1, <2>2 DEF EL!Appends
<1>5. ELFilesInv' /\ ELFullInv'
  <2>1. CASE elAt[l] = "write" /\ EL!WriteRow
    <3>1. \A m \in Client : elAt'[m] = "out"
      BY <1>2, <1>3, <2>1, ELAlone
    <3>2. QED BY <2>1, <3>1, ELRowWritten DEF ELFullInv
  <2>2. CASE UNCHANGED <<elLog, elWritten>>
    <3>1. \A m \in Client : elAt'[m] # "out" => elAt'[m] = elAt[m]
      BY <1>2, <1>3
    <3>2. QED BY <2>2, <3>1 DEF ELIInv, ELFilesInv, ELFullInv, ELKept
  <2>3. QED BY <2>1, <2>2
<1>6. QED BY <1>2, <1>4, <1>5 DEF ELLockInv

LEMMA ELSyncIInv ==
  ASSUME None \notin Client, MaxRows \in Nat, ELIInv, NEW l \in Client, EL!Sync(l)
  PROVE  ELIInv'
<1> DEFINE place == IF elPc[l] = "append ready" THEN "invoke" ELSE "report"
<1>1. /\ elAt[l] = "sync" /\ elPc' = [elPc EXCEPT ![l] = place] /\ EL!Leave(l)
      /\ elReady' = IF elPc[l] = "append ready" THEN elReady \cup {l} ELSE elReady
      /\ UNCHANGED <<elLog, elWritten, elDid, elActive, elResult>>
  BY DEF EL!Sync, EL!Goes, EL!Rest, EL!SchedVars
<1>2. EL!Appends(l)
  BY <1>1, ELAlone
<1>3. ELOnRecord(l) /\ place \in {"invoke", "report"}
  BY DEF ELIInv
<1>4. elActive # l /\ l \in elReady' /\ elResult[l] = None
  BY <1>1, <1>2, <1>3 DEF EL!Appends, ELOnRecord
<1> HIDE DEF place
<1>5. ELLockInv' /\ ELFilesInv' /\ ELFullInv' /\ elAt' = [m \in Client |-> elAt'[m]]
  BY <1>1, ELLeft
<1>6. ELShapes' /\ elPc'[l] = place
  BY <1>1, <1>5 DEF ELIInv, ELShapes
<1>7. ASSUME NEW m \in Client PROVE ELOnRecord(m)'
  <2>1. CASE m = l
    BY <1>1, <1>3, <1>4, <1>6, <2>1 DEF ELOnRecord
  <2>2. CASE m # l
    <3>1. /\ elPc'[m] = elPc[m] /\ elDid'[m] = elDid[m] /\ elResult'[m] = elResult[m]
          /\ (m \in elReady => m \in elReady') /\ (elActive' = m => elActive = m)
      BY <1>1, <2>2 DEF ELIInv, ELShapes
    <3>2. QED BY <2>2, <3>1, ELOthers
  <2>3. QED BY <2>1, <2>2
<1>8. QED BY <1>5, <1>6, <1>7 DEF ELIInv

\* AppendFails: a result, and none of success.
LEMMA ELAppendFailsIInv ==
  ASSUME None \notin Client, MaxRows \in Nat, ELIInv, NEW l \in Client, EL!AppendFails(l)
  PROVE  ELIInv'
<1>1. /\ EL!Appends(l) /\ ((elAt[l] = "write" /\ EL!WriteRow) \/ UNCHANGED <<elLog, elWritten>>)
      /\ EL!Leave(l) /\ UNCHANGED <<elReady, elActive, elDid>> /\ elPc' = [elPc EXCEPT ![l] = "done"]
  BY DEF EL!AppendFails, EL!Breaks, EL!Prints, EL!Goes, EL!SchedVars
<1>2. PICK outcome : elResult' = [elResult EXCEPT ![l] =
                        [outcome |-> outcome, success |-> FALSE, persisted |-> FALSE]]
  BY DEF EL!AppendFails, EL!Prints
<1>3. ELLockInv' /\ ELFilesInv' /\ ELFullInv' /\ elAt' = [m \in Client |-> elAt'[m]]
  BY <1>1, ELLeft
<1>4. ELShapes' /\ elPc'[l] = "done" /\ elResult'[l].success = FALSE
  BY <1>1, <1>2, <1>3 DEF ELIInv, ELShapes
<1>5. ASSUME NEW m \in Client PROVE ELOnRecord(m)'
  <2>1. CASE m = l
    <3>1. l \in elReady \/ (elDid[l] = "nothing" /\ elActive # l)
      BY DEF ELIInv, ELOnRecord
    <3>2. QED BY <1>1, <1>4, <2>1, <3>1 DEF ELOnRecord
  <2>2. CASE m # l
    <3>1. /\ elPc'[m] = elPc[m] /\ elDid'[m] = elDid[m] /\ elResult'[m] = elResult[m]
          /\ (m \in elReady => m \in elReady') /\ (elActive' = m => elActive = m)
      BY <1>1, <1>2, <2>2 DEF ELIInv, ELShapes
    <3>2. QED BY <2>2, <3>1, ELOthers
  <2>3. QED BY <2>1, <2>2
<1>6. QED BY <1>3, <1>4, <1>5 DEF ELIInv

\* Dies: no result.
LEMMA ELDiesIInv ==
  ASSUME None \notin Client, MaxRows \in Nat, ELIInv, NEW l \in Client, EL!Dies(l)
  PROVE  ELIInv'
<1>1. /\ elPc[l] \notin {"start", "done"} /\ elPc' = [elPc EXCEPT ![l] = "done"] /\ EL!Leave(l)
      /\ ((elAt[l] = "write" /\ EL!WriteRow) \/ UNCHANGED <<elLog, elWritten>>)
      /\ UNCHANGED <<elReady, elActive, elDid, elResult>>
  BY DEF EL!Dies, EL!Goes, EL!SchedVars
<1>2. ELLockInv' /\ ELFilesInv' /\ ELFullInv' /\ elAt' = [m \in Client |-> elAt'[m]]
  BY <1>1, ELLeft
<1>3. ELShapes' /\ elPc'[l] = "done"
  BY <1>1, <1>2 DEF ELIInv, ELShapes
<1>4. ASSUME NEW m \in Client PROVE ELOnRecord(m)'
  <2>1. CASE m = l
    <3>1. elResult[l] = None /\ (l \in elReady \/ (elDid[l] = "nothing" /\ elActive # l))
      BY <1>1 DEF ELIInv, ELOnRecord
    <3>2. QED BY <1>1, <1>3, <2>1, <3>1 DEF ELOnRecord
  <2>2. CASE m # l
    <3>1. /\ elPc'[m] = elPc[m] /\ elDid'[m] = elDid[m] /\ elResult'[m] = elResult[m]
          /\ (m \in elReady => m \in elReady') /\ (elActive' = m => elActive = m)
      BY <1>1, <2>2 DEF ELIInv, ELShapes
    <3>2. QED BY <2>2, <3>1, ELOthers
  <2>3. QED BY <2>1, <2>2
<1>5. QED BY <1>2, <1>3, <1>4 DEF ELIInv

-----------------------------------------------------------------------------
(* run-once.                                                               *)

\* A step outside append_log: what is left to show is its own launch's record.
LEMMA ELRunStep ==
  ASSUME ELIInv, NEW l \in Client, NEW place, ~EL!Appends(l),
         elPc' = [elPc EXCEPT ![l] = place], UNCHANGED <<elAt, elHolder, elLog, elWritten>>,
         elDid' = [elDid EXCEPT ![l] = elDid'[l]], elResult' = [elResult EXCEPT ![l] = elResult'[l]],
         \A m \in Client : m # l => (m \in elReady => m \in elReady'),
         \A m \in Client : m # l => (elActive' = m => elActive = m),
         ELOnRecord(l)'
  PROVE  ELIInv'
<1>1. ELShapes'
  BY DEF ELIInv, ELShapes
<1>2. ASSUME NEW m \in Client PROVE ELOnRecord(m)'
  <2>1. CASE m = l
    BY <2>1
  <2>2. CASE m # l
    <3>1. elPc'[m] = elPc[m] /\ elDid'[m] = elDid[m] /\ elResult'[m] = elResult[m]
      BY <2>2 DEF ELIInv, ELShapes
    <3>2. (m \in elReady => m \in elReady') /\ (elActive' = m => elActive = m)
      BY <2>2
    <3>3. QED BY <2>2, <3>1, <3>2, ELOthers
  <2>3. QED BY <2>1, <2>2
<1>3. ELLockInv' /\ ELFilesInv' /\ ELFullInv'
  BY ELLogUntouched
<1>4. QED BY <1>1, <1>2, <1>3 DEF ELIInv

\* Decide: the launch has its row.
LEMMA ELDecideIInv ==
  ASSUME None \notin Client, ELIInv, NEW l \in Client, EL!Decide(l)
  PROVE  ELIInv'
<1>1. /\ elPc[l] = "invoke" /\ elActive = None /\ elResult' = elResult
      /\ UNCHANGED <<elAt, elHolder, elLog, elWritten, elReady>>
  BY DEF EL!Decide, EL!LogVars
<1>2. PICK what, place :
        /\ elDid' = [elDid EXCEPT ![l] = what] /\ elPc' = [elPc EXCEPT ![l] = place]
        /\ \/ place = "append outcome" /\ elActive' = elActive
           \/ place = "running" /\ elActive' = l
  BY DEF EL!Decide, EL!Does, EL!Goes
<1>3. elPc'[l] = place /\ elDid' = [elDid EXCEPT ![l] = elDid'[l]]
      /\ elResult' = [elResult EXCEPT ![l] = elResult'[l]]
  BY <1>1, <1>2 DEF ELIInv, ELShapes
<1>4. ELOnRecord(l)'
  <2>1. l \in elReady /\ elResult[l] = None
    BY <1>1 DEF ELIInv, ELOnRecord
  <2>2. QED BY <1>1, <1>2, <1>3, <2>1 DEF ELOnRecord
<1>5. \A m \in Client : m # l => (m \in elReady => m \in elReady') /\ (elActive' = m => elActive = m)
  BY <1>1, <1>2
<1>6. ~EL!Appends(l)
  BY <1>1 DEF EL!Appends
<1>7. QED BY <1>1, <1>2, <1>3, <1>4, <1>5, <1>6, ELRunStep

LEMMA ELRefusesIInv ==
  ASSUME None \notin Client, ELIInv, NEW l \in Client, EL!Refuses(l)
  PROVE  ELIInv'
<1>1. /\ elPc[l] = "invoke" /\ elResult' = elResult /\ elActive' = elActive
      /\ elPc' = [elPc EXCEPT ![l] = "append outcome"]
      /\ UNCHANGED <<elAt, elHolder, elLog, elWritten, elReady>>
  BY DEF EL!Refuses, EL!Goes, EL!LogVars
<1>2. PICK what \in {"refused", "invalid"} : elDid' = [elDid EXCEPT ![l] = what]
  BY DEF EL!Refuses, EL!Does
<1>3. elPc'[l] = "append outcome" /\ elDid' = [elDid EXCEPT ![l] = elDid'[l]]
      /\ elResult' = [elResult EXCEPT ![l] = elResult'[l]]
  BY <1>1, <1>2 DEF ELIInv, ELShapes
<1>4. ELOnRecord(l)'
  <2>1. l \in elReady /\ elResult[l] = None /\ elActive # l
    BY <1>1 DEF ELIInv, ELOnRecord
  <2>2. QED BY <1>1, <1>3, <2>1 DEF ELOnRecord
<1>5. ~EL!Appends(l)
  BY <1>1 DEF EL!Appends
<1>6. QED BY <1>1, <1>3, <1>4, <1>5, ELRunStep

\* Collected and SchedulerDies: a launch whose scheduler runs prints no success.
LEMMA ELOverIInv ==
  ASSUME None \notin Client, ELIInv, NEW l \in Client, EL!Collected(l) \/ EL!SchedulerDies(l)
  PROVE  ELIInv'
<1>1. /\ elActive = l /\ elActive' = None /\ elResult' = elResult
      /\ UNCHANGED <<elAt, elHolder, elLog, elWritten, elReady>>
  BY DEF EL!Collected, EL!SchedulerDies, EL!LogVars
<1>2. l \in elReady /\ elPc[l] \in {"running", "done"}
      /\ (elResult[l] # None => elPc[l] = "done" /\ ~elResult[l].success)
  BY <1>1 DEF ELIInv, ELOnRecord
<1>3. PICK what : elDid' = [elDid EXCEPT ![l] = what]
  BY DEF EL!Collected, EL!SchedulerDies, EL!Does
<1>4. elPc' = [elPc EXCEPT ![l] = IF elPc[l] = "running" THEN "append outcome" ELSE elPc[l]]
  <2>1. CASE EL!Collected(l)
    BY <2>1 DEF EL!Collected, EL!Goes
  <2>2. CASE EL!SchedulerDies(l)
    BY <2>2 DEF EL!SchedulerDies, EL!Goes, ELIInv, ELShapes
  <2>3. QED BY <2>1, <2>2
<1>5. /\ elPc'[l] = IF elPc[l] = "running" THEN "append outcome" ELSE elPc[l]
      /\ elDid' = [elDid EXCEPT ![l] = elDid'[l]] /\ elResult' = [elResult EXCEPT ![l] = elResult'[l]]
  BY <1>1, <1>3, <1>4 DEF ELIInv, ELShapes
<1>6. ELOnRecord(l)'
  BY <1>1, <1>2, <1>5 DEF ELOnRecord
<1>7. ~EL!Appends(l)
  BY <1>2 DEF EL!Appends
<1>8. \A m \in Client : m # l => (m \in elReady => m \in elReady') /\ (elActive' = m => elActive = m)
  BY <1>1
<1>9. QED BY <1>1, <1>4, <1>5, <1>6, <1>7, <1>8, ELRunStep

LEMMA ELRunFailsIInv ==
  ASSUME None \notin Client, ELIInv, NEW l \in Client, EL!RunFails(l)
  PROVE  ELIInv'
<1>1. /\ elPc[l] \in {"invoke", "running"} /\ elDid' = elDid
      /\ elActive' = (IF elActive = l THEN None ELSE elActive) /\ elPc' = [elPc EXCEPT ![l] = "done"]
      /\ elResult' = [elResult EXCEPT ![l] = [outcome |-> "LAUNCHER_INTERNAL_ERROR",
                                          success |-> FALSE, persisted |-> FALSE]]
      /\ UNCHANGED <<elAt, elHolder, elLog, elWritten, elReady>>
  BY DEF EL!RunFails, EL!Prints, EL!Goes, EL!LogVars
<1>2. /\ elPc'[l] = "done" /\ elDid' = [elDid EXCEPT ![l] = elDid'[l]]
      /\ elResult'[l] = [outcome |-> "LAUNCHER_INTERNAL_ERROR",
                       success |-> FALSE, persisted |-> FALSE]
  BY <1>1 DEF ELIInv, ELShapes
<1>3. elResult' = [elResult EXCEPT ![l] = elResult'[l]]
  <2> DEFINE r == [outcome |-> "LAUNCHER_INTERNAL_ERROR", success |-> FALSE,
                   persisted |-> FALSE]
  <2>1. elResult' = [elResult EXCEPT ![l] = r] /\ elResult'[l] = r
    BY <1>1, <1>2
  <2> HIDE DEF r
  <2>2. QED BY <2>1
<1>4. ELOnRecord(l)'
  <2>1. l \in elReady
    BY <1>1 DEF ELIInv, ELOnRecord
  <2>2. elResult'[l].success = FALSE
    BY <1>2
  <2>3. QED BY <1>1, <1>2, <2>1, <2>2 DEF ELOnRecord
<1>5. ~EL!Appends(l)
  BY <1>1 DEF EL!Appends
<1>6. \A m \in Client : m # l => (m \in elReady => m \in elReady') /\ (elActive' = m => elActive = m)
  BY <1>1
<1>7. QED BY <1>1, <1>2, <1>3, <1>4, <1>5, <1>6, ELRunStep

\* Report: success is what the scheduler did.
LEMMA ELReportIInv ==
  ASSUME None \notin Client, ELIInv, NEW l \in Client, EL!Report(l)
  PROVE  ELIInv'
<1> DEFINE good == elDid[l] \in {"disabled", "succeeded"}
           r == [outcome |-> EL!Outcome(l), success |-> good, persisted |-> TRUE]
<1>1. /\ elPc[l] = "report" /\ elDid' = elDid /\ elActive' = elActive
      /\ elPc' = [elPc EXCEPT ![l] = "done"] /\ elResult' = [elResult EXCEPT ![l] = r]
      /\ UNCHANGED <<elAt, elHolder, elLog, elWritten, elReady>>
  BY DEF EL!Report, EL!Prints, EL!Goes, EL!LogVars, EL!SchedVars
<1>2. r.outcome = EL!Outcome(l) /\ (r.success <=> good) /\ r.persisted
  OBVIOUS
<1> HIDE DEF r
<1>3. /\ elPc'[l] = "done" /\ elDid' = [elDid EXCEPT ![l] = elDid'[l]] /\ elResult'[l] = r
      /\ elResult' = [elResult EXCEPT ![l] = elResult'[l]]
  BY <1>1 DEF ELIInv, ELShapes
<1>4. ELOnRecord(l)'
  <2>1. l \in elReady /\ elActive # l
    BY <1>1 DEF ELIInv, ELOnRecord
  <2>2. elDid'[l] = elDid[l] /\ elActive' # l
    BY <1>1, <2>1
  <2>3. (EL!Outcome(l) = "OK_DISABLED") = (elDid[l] = "disabled")
    BY DEF EL!Outcome
  <2>4. elResult'[l].success =>
          /\ elActive' # l /\ elDid'[l] \in {"disabled", "succeeded"}
          /\ (elResult'[l].outcome = "OK_DISABLED") = (elDid'[l] = "disabled")
          /\ elResult'[l].persisted
    BY <1>2, <1>3, <2>2, <2>3
  <2>5. l \in elReady' /\ elActive' # l /\ elPc'[l] = "done"
    BY <1>1, <1>3, <2>1
  <2>6. QED BY <2>4, <2>5 DEF ELOnRecord
<1>5. ~EL!Appends(l)
  BY <1>1 DEF EL!Appends
<1>6. QED BY <1>1, <1>3, <1>4, <1>5, ELRunStep

LEMMA ELAgainIInv ==
  ASSUME None \notin Client, ELIInv, NEW l \in Client, EL!Again(l)
  PROVE  ELIInv'
<1>1. /\ elPc[l] = "done" /\ elActive # l /\ elActive' = elActive /\ elReady' = elReady \ {l}
      /\ elPc' = [elPc EXCEPT ![l] = "start"] /\ elDid' = [elDid EXCEPT ![l] = "nothing"]
      /\ elResult' = [elResult EXCEPT ![l] = None]
      /\ UNCHANGED <<elAt, elHolder, elLog, elWritten>>
  BY DEF EL!Again, EL!Goes
<1>2. elPc'[l] = "start" /\ elDid'[l] = "nothing" /\ elResult'[l] = None
  BY <1>1 DEF ELIInv, ELShapes
<1>3. elDid' = [elDid EXCEPT ![l] = elDid'[l]] /\ elResult' = [elResult EXCEPT ![l] = elResult'[l]]
  BY <1>1, <1>2
<1>4. ELOnRecord(l)'
  BY <1>1, <1>2 DEF ELOnRecord
<1>5. ~EL!Appends(l)
  BY <1>1 DEF EL!Appends
<1>6. \A m \in Client : m # l => (m \in elReady => m \in elReady') /\ (elActive' = m => elActive = m)
  BY <1>1
<1>7. QED BY <1>1, <1>3, <1>4, <1>5, <1>6, ELRunStep

LEMMA ELStepIInv ==
  ASSUME None \notin Client, MaxRows \in Nat, ELIInv, [EL!Next]_elVars
  PROVE  ELIInv'
<1>1. CASE UNCHANGED elVars
  <2>1. /\ elAt' = elAt /\ elHolder' = elHolder /\ elLog' = elLog /\ elWritten' = elWritten /\ elPc' = elPc
        /\ elReady' = elReady /\ elDid' = elDid /\ elActive' = elActive /\ elResult' = elResult
    BY <1>1 DEF elVars
  <2>2. ELShapes' /\ \A l \in Client : ELOnRecord(l)'
    BY <2>1 DEF ELIInv, ELShapes, ELOnRecord
  <2>3. ELLockInv' /\ ELFilesInv' /\ ELFullInv'
    BY <2>1 DEF ELIInv, ELLockInv, EL!Appends, ELFilesInv, ELFullInv, ELKept
  <2>4. QED BY <2>2, <2>3 DEF ELIInv
<1>2. CASE EL!Operator
  <2>1. /\ elAt' = elAt /\ elHolder' = elHolder /\ elLog' = elLog /\ elWritten' = elWritten /\ elPc' = elPc
        /\ elReady' = elReady /\ elDid' = elDid /\ elActive' = elActive /\ elResult' = elResult
    BY <1>2 DEF EL!Operator, EL!LogVars
  <2>2. ELShapes' /\ \A l \in Client : ELOnRecord(l)'
    BY <2>1 DEF ELIInv, ELShapes, ELOnRecord
  <2>3. ELLockInv' /\ ELFilesInv' /\ ELFullInv'
    BY <2>1 DEF ELIInv, ELLockInv, EL!Appends, ELFilesInv, ELFullInv, ELKept
  <2>4. QED BY <2>2, <2>3 DEF ELIInv
<1>3. ASSUME NEW l \in Client,
             \/ EL!Hash(l) \/ EL!Status(l) \/ EL!Compare(l) \/ EL!NotReady(l) \/ EL!CheckFails(l) \/ EL!Judge(l)
      PROVE  ELIInv'
  BY <1>3, ELChecksIInv
<1>4. ASSUME NEW l \in Client,
             \/ EL!Lock(l) \/ EL!Measure(l) \/ EL!RotateOld(l) \/ EL!RotateNew(l) \/ EL!Write(l) \/ EL!Sync(l)
             \/ EL!AppendFails(l)
      PROVE  ELIInv'
  BY <1>4, ELLockIInv, ELMeasureIInv, ELRotateOldIInv, ELRotateNewIInv, ELWriteIInv, ELSyncIInv,
     ELAppendFailsIInv
<1>5. ASSUME NEW l \in Client,
             \/ EL!Decide(l) \/ EL!Refuses(l) \/ EL!Collected(l) \/ EL!RunFails(l) \/ EL!Report(l) \/ EL!Dies(l)
             \/ EL!SchedulerDies(l) \/ EL!Again(l)
      PROVE  ELIInv'
  BY <1>5, ELDecideIInv, ELRefusesIInv, ELOverIInv, ELRunFailsIInv, ELReportIInv, ELDiesIInv, ELAgainIInv
<1>6. QED BY <1>1, <1>2, <1>3, <1>4, <1>5 DEF EL!Next

\* The invariant says what the two properties say.
LEMMA ELLogHolds ==
  ASSUME MaxRows \in Nat, ELIInv
  PROVE  EL!LogIsRecent /\ EL!LaunchIsOnRecord
<1>1. EL!LaunchIsOnRecord
  BY DEF ELIInv, ELOnRecord, EL!LaunchIsOnRecord
<1> DEFINE n1 == Len(elLog[1])
           n2 == Len(elLog[2])
           n3 == Len(elLog[3])
           old == elLog[1] \o elLog[2]
           rows == old \o elLog[3]
<1>2. /\ elLog[1] \in Seq(Nat) /\ elLog[2] \in Seq(Nat) /\ elLog[3] \in Seq(Nat)
      /\ n1 \in Nat /\ n2 \in Nat /\ n3 \in Nat /\ elWritten \in Nat
      /\ n1 + n2 + n3 <= elWritten
  BY ELLengths
<1>3. /\ old \in Seq(Nat) /\ Len(old) = n1 + n2
      /\ \A i \in 1..(n1 + n2) : old[i] = IF i <= n1 THEN elLog[1][i] ELSE elLog[2][i - n1]
  BY <1>2, ConcatProperties
<1>4. /\ Len(rows) = n1 + n2 + n3
      /\ \A i \in 1..(n1 + n2 + n3) :
           rows[i] = IF i <= n1 + n2 THEN old[i] ELSE elLog[3][i - (n1 + n2)]
  <2> HIDE DEF old
  <2>1. /\ Len(rows) = Len(old) + n3
        /\ \A i \in 1..(Len(old) + n3) :
             rows[i] = IF i <= Len(old) THEN old[i] ELSE elLog[3][i - Len(old)]
    <3>1. old \in Seq(Nat) /\ elLog[3] \in Seq(Nat)
      BY <1>2, <1>3
    <3>2. /\ Len(old \o elLog[3]) = Len(old) + Len(elLog[3])
          /\ \A i \in 1..(Len(old) + Len(elLog[3])) :
               (old \o elLog[3])[i] = IF i <= Len(old) THEN old[i] ELSE elLog[3][i - Len(old)]
      BY <3>1, ConcatProperties
    <3>3. QED BY <3>2
  <2> HIDE DEF rows, n1, n2, n3
  <2>2. QED BY <1>2, <1>3, <2>1
<1>5. /\ \A i \in 1..n3 : elLog[3][i] = elWritten - n3 + i
      /\ \A i \in 1..n2 : elLog[2][i] = elWritten - n3 - n2 + i
      /\ \A i \in 1..n1 : elLog[1][i] = elWritten - n3 - n2 - n1 + i
      /\ n1 + n2 + n3 >= 2 * MaxRows \/ n1 + n2 + n3 = elWritten
  BY DEF ELIInv, ELFilesInv, ELRows, ELKept
<1> HIDE DEF n1, n2, n3, old, rows
<1>6. ASSUME NEW i \in 1..Len(rows) PROVE rows[i] = elWritten - Len(rows) + i
  <2>1. CASE i <= n1
    <3>1. i \in 1..n1 /\ i \in 1..(n1 + n2) /\ i \in 1..(n1 + n2 + n3) /\ i <= n1 + n2
      BY <1>2, <1>4, <2>1
    <3>2. rows[i] = elLog[1][i]
      BY <1>3, <1>4, <2>1, <3>1
    <3>3. elLog[1][i] = elWritten - n3 - n2 - n1 + i
      BY <1>5, <3>1
    <3>4. elWritten - n3 - n2 - n1 + i = elWritten - Len(rows) + i
      BY <1>2, <1>4, <3>1
    <3>5. QED BY <3>2, <3>3, <3>4
  <2>2. CASE i > n1 /\ i <= n1 + n2
    <3>1. /\ i - n1 \in 1..n2 /\ i \in 1..(n1 + n2) /\ i \in 1..(n1 + n2 + n3)
          /\ ~(i <= n1)
      BY <1>2, <1>4, <2>2
    <3>2. rows[i] = elLog[2][i - n1]
      BY <1>3, <1>4, <2>2, <3>1
    <3>3. elLog[2][i - n1] = elWritten - n3 - n2 + (i - n1)
      BY <1>5, <3>1
    <3>4. elWritten - n3 - n2 + (i - n1) = elWritten - Len(rows) + i
      BY <1>2, <1>4, <3>1
    <3>5. QED BY <3>2, <3>3, <3>4
  <2>3. CASE i > n1 + n2
    <3>1. /\ i - (n1 + n2) \in 1..n3 /\ i \in 1..(n1 + n2 + n3) /\ ~(i <= n1 + n2)
      BY <1>2, <1>4, <2>3
    <3>2. rows[i] = elLog[3][i - (n1 + n2)]
      BY <1>4, <3>1
    <3>3. elLog[3][i - (n1 + n2)] = elWritten - n3 + (i - (n1 + n2))
      BY <1>5, <3>1
    <3>4. elWritten - n3 + (i - (n1 + n2)) = elWritten - Len(rows) + i
      BY <1>2, <1>4, <3>1
    <3>5. QED BY <3>2, <3>3, <3>4
  <2>4. i \in Nat
    BY <1>2, <1>4
  <2>5. QED BY <1>2, <2>1, <2>2, <2>3, <2>4
<1>7. Len(rows) >= 2 * MaxRows \/ Len(rows) = elWritten
  BY <1>4, <1>5
<1>8. EL!LogIsRecent
  BY <1>6, <1>7 DEF EL!LogIsRecent, rows, old
<1>9. QED BY <1>1, <1>8

\* The log files are consecutive intervals of what was written, and each launch
\* stands in them as far as it has come (engagement_scheduler_launcher.py).
THEOREM ELInvariance == Spec => [](machine = "EngagementLauncher" => ELIInv)
<1>1. Init => (machine = "EngagementLauncher" => ELIInv)
  BY NoneAssumption, RowsAssumption, ELInitIInv DEF Init
<1>2. (machine = "EngagementLauncher" => ELIInv) /\ [Next]_vars
         => (machine = "EngagementLauncher" => ELIInv)'
  BY NoneAssumption, RowsAssumption, ELStepIInv DEF Next, vars
<1>3. QED BY <1>1, <1>2, PTL DEF Spec

\* However many launches overlap and whichever dies, no scheduler runs before
\* its launch's row is synced, no success is printed that was none, and the
\* rotated files hold the latest rows in order (launch and append_log).
THEOREM OnRecord == Spec => []LaunchesAreOnRecord
<1>1. (machine = "EngagementLauncher" => ELIInv) => LaunchesAreOnRecord
  BY RowsAssumption, ELLogHolds DEF LaunchesAreOnRecord
<1>2. QED BY <1>1, ELInvariance, PTL

-----------------------------------------------------------------------------
(* The remote content policy.                                              *)

RCIInv == RC!ConfirmedByTwo /\ RC!PagesAreWhole /\ RC!PublicAllTheWay

\* Two that differ in one respect and two that differ in another give two that
\* differ in both.
LEMMA RCTwoDiffer ==
  ASSUME NEW S, NEW i \in S, NEW j \in S, i.root # j.root,
         NEW k \in S, NEW l \in S, k.artifact # l.artifact
  PROVE  \E x, y \in S : x.root # y.root /\ x.artifact # y.artifact
<1>1. CASE i.artifact # j.artifact
  BY <1>1
<1>2. CASE i.artifact = j.artifact
  <2>1. PICK m \in S : m.artifact # i.artifact
    OBVIOUS
  <2>2. m.root # i.root \/ m.root # j.root
    OBVIOUS
  <2>3. QED BY <1>2, <2>1, <2>2
<1>3. QED BY <1>1, <1>2

\* Unless a set has two members it has fewer than two.
LEMMA RCNotTwo ==
  ASSUME NEW S, \A x, y \in S : x = y
  PROVE  Cardinality(S) < 2
<1>1. CASE S = {}
  BY <1>1, FS_EmptySet
<1>2. CASE S # {}
  <2>1. PICK x : S = {x}
    BY <1>2
  <2>2. Cardinality(S) = 1
    BY <2>1, FS_Singleton
  <2>3. QED BY <2>2
<1>3. QED BY <1>1, <1>2

LEMMA RCReadIInv ==
  ASSUME NEW r, NEW source, NEW asked,
         Bound \subseteq Nat, r.length \in Nat, source \in Bound, asked \in Bound,
         RC!Read(r, source, asked)
  PROVE  RCIInv'
<1>1. asked \in Nat /\ source \in Nat /\ asked <= source
  BY DEF RC!Read
<1>2. PICK gets :
                  /\ gets = IF RC!Accepted(r, asked) THEN {RC!Received(r, asked)} ELSE {}
                  /\ rcAnswer' = [asked |-> "page", response |-> r, source |-> source,
                                gets |-> gets]
  BY DEF RC!Read
<1>3. \A size \in gets : size = r.length /\ size <= source
  <2>1. CASE RC!Accepted(r, asked)
    <3>1. RC!Received(r, asked) = r.length /\ r.length <= source
      BY <1>1, <2>1 DEF RC!Accepted, RC!Received, RC!Least
    <3>2. QED BY <1>2, <2>1, <3>1
  <2>2. QED BY <1>2, <2>1
<1>4. QED BY <1>2, <1>3 DEF RCIInv, RC!ConfirmedByTwo, RC!PagesAreWhole, RC!PublicAllTheWay

LEMMA RCEvaluateIInv ==
  ASSUME NEW items, NEW contract, NEW approval, RC!Evaluate(items, contract, approval)
  PROVE  RCIInv'
<1>1. rcAnswer' = [asked |-> "contract", items |-> items, contract |-> contract,
                 is |-> RC!Derived(items, contract, approval)]
  BY DEF RC!Evaluate
<1>2. ASSUME RC!Derived(items, contract, approval) \in RC!Confirmed
      PROVE  \E i, j \in items :
                                 /\ i.contract = contract /\ j.contract = contract
                                 /\ i.root # j.root /\ i.artifact # j.artifact
  <2>1. /\ \A i \in items : i.contract = contract
        /\ ~(RC!Cardinality(RC!Roots(items)) < 2) /\ ~(RC!Cardinality(RC!Artifacts(items)) < 2)
    BY <1>2 DEF RC!Derived, RC!Confirmed
  <2>2. PICK x, y \in RC!Roots(items) : x # y
    BY <2>1, RCNotTwo DEF RC!Cardinality, Cardinality
  <2>3. PICK u, v \in RC!Artifacts(items) : u # v
    BY <2>1, RCNotTwo DEF RC!Cardinality, Cardinality
  <2>4. PICK i \in items, j \in items : i.root # j.root
    BY <2>2 DEF RC!Roots
  <2>5. PICK k \in items, l \in items : k.artifact # l.artifact
    BY <2>3 DEF RC!Artifacts
  <2>6. PICK m \in items, n \in items : m.root # n.root /\ m.artifact # n.artifact
    BY <2>4, <2>5, RCTwoDiffer
  <2>7. QED BY <2>1, <2>6
<1>3. RC!ConfirmedByTwo'
  BY <1>1, <1>2 DEF RC!ConfirmedByTwo
<1>4. QED BY <1>1, <1>3 DEF RCIInv, RC!PagesAreWhole, RC!PublicAllTheWay

LEMMA RCOfferIInv ==
  ASSUME NEW p, \A q \in p.inner : "evidence" \in p.fields /\ p.inner = {q}, RC!Offer(p)
  PROVE  RCIInv'
<1>1. PICK d :
               /\ d = IF RC!Public(p) THEN "REQUIRE_HUMAN_APPROVAL" ELSE "DENY_MCP_CUSTODY"
               /\ rcAnswer' = [asked |-> "tool", offer |-> p, decision |-> d]
  BY DEF RC!Offer
<1>2. ASSUME RC!Public(p), NEW q \in {p} \cup p.inner
      PROVE  q.fields \subseteq RC!PublicFields /\ ("public_key" \in q.fields => q.key)
  <2>1. RC!Sound(q)
    BY <1>2 DEF RC!Public
  <2>2. QED BY <2>1 DEF RC!Sound
<1>3. RC!PublicAllTheWay'
  BY <1>1, <1>2 DEF RC!PublicAllTheWay
<1>4. QED BY <1>1, <1>3 DEF RCIInv, RC!ConfirmedByTwo, RC!PagesAreWhole

LEMMA RCStepIInv ==
  ASSUME Bound \subseteq Nat, \A r \in Response : r.length \in Nat,
         \A p \in Payload : \A q \in p.inner : "evidence" \in p.fields /\ p.inner = {q},
         RCIInv, [RC!Next]_rcVars
  PROVE  RCIInv'
<1>1. CASE UNCHANGED rcVars
  BY <1>1 DEF rcVars, RCIInv, RC!ConfirmedByTwo, RC!PagesAreWhole, RC!PublicAllTheWay
<1>2. ASSUME NEW r \in Response, NEW source \in Bound, NEW asked \in Bound,
             RC!Read(r, source, asked)
      PROVE  RCIInv'
  BY <1>2, RCReadIInv
<1>3. ASSUME NEW sink, RC!Dispatch(sink) PROVE RCIInv'
  <2>1. rcAnswer' = [asked |-> "sink", sink |-> sink, ran |-> RC!Allowed(sink)]
    BY <1>3 DEF RC!Dispatch
  <2>2. QED BY <2>1 DEF RCIInv, RC!ConfirmedByTwo, RC!PagesAreWhole, RC!PublicAllTheWay
<1>4. QED BY <1>1, <1>2, <1>3, RCEvaluateIInv, RCOfferIInv DEF RC!Next

LEMMA RCInitIInv == RC!Init => RCIInv
BY DEF RC!Init, RCIInv, RC!ConfirmedByTwo, RC!PagesAreWhole, RC!PublicAllTheWay

\* What the policy has answered keeps its bounds (remote_content_policy.py).
THEOREM RCInvariance == Spec => [](machine = "RemoteContent" => RCIInv)
<1>1. Init => (machine = "RemoteContent" => RCIInv)
  BY RCInitIInv DEF Init
<1>2. (machine = "RemoteContent" => RCIInv) /\ [Next]_vars
         => (machine = "RemoteContent" => RCIInv)'
  BY PolicyAssumption, RCStepIInv DEF Next, vars
<1>3. QED BY <1>1, <1>2, PTL DEF Spec

\* A contract is confirmed only by two pieces of evidence that differ in origin
\* and artifact at once, a page handed on was not cut by its own bound, and what
\* a person is asked to let out is public at every level
\* (remote_content_policy.py and sensitive_action_router.py).
THEOREM PolicyHolds == Spec => []PolicyIsKept
<1>1. (machine = "RemoteContent" => RCIInv) => PolicyIsKept
  BY DEF PolicyIsKept, RCIInv
<1>2. QED BY <1>1, RCInvariance, PTL

-----------------------------------------------------------------------------
(* The runtime capability model.                                           *)

\* A manifest as it was published, or with its summary or its value rewritten.
RTShapeOf(m) ==
    m = [action |-> m.action, overall |-> m.overall, ready |-> m.ready,
         blockers |-> m.blockers, rows |-> m.rows, value |-> m.value, given |-> m.given]

\* What the assessor was given, and what it made of it.
RTInputs(given) == \E n \in Nat : given \in [1..n -> Issuable]
RTMade(m) ==
    /\ RTShapeOf(m) /\ RTInputs(m.given) /\ m.value.at \subseteq Nat
    /\ \E t : m.rows = {RT!RowOf(c, m.given, m.action, t) : c \in rtCatalog}

\* The rows are the assessor's; a verdict is about the manifest that stands.
RTIInv ==
    /\ rtIssued \subseteq Issuable /\ IsFiniteSet(rtIssued) /\ rtCatalog \in Catalogs /\ rtNow \in Nat
    /\ rtManifest # None => RTMade(rtManifest)
    /\ rtVerdict # None =>
          /\ rtManifest # None /\ rtVerdict.at \in Nat
          /\ rtVerdict.accepted <=> RT!Errors(rtManifest, rtVerdict.at) = {}

\* The inputs: a capability is known by its id, an observation says one of two
\* things, times are numbers.
RTKnown ==
    /\ \A cat \in Catalogs : \A c, d \in cat : c.id = d.id => c = d
    /\ \A v \in Values : v.at \subseteq Nat
    /\ \A f \in Issuable : f.at \in Nat /\ f.response \in {"AVAILABLE", "UNAVAILABLE"}

LEMMA RTInitIInv == RT!Init => RTIInv
BY FS_EmptySet DEF RT!Init, RTIInv

RTSeen(given, c) == {given[i] : i \in RT!Deciding(given, c)}

\* Only one observation of a capability decides.
LEMMA RTOneDecides ==
  ASSUME RTKnown, NEW given, RTInputs(given), NEW c,
         NEW i \in RT!Deciding(given, c), NEW j \in RT!Deciding(given, c)
  PROVE  i = j
<1>1. PICK n \in Nat : given \in [1..n -> Issuable]
  BY DEF RTInputs
<1>2. i \in 1..n /\ j \in 1..n
  BY <1>1 DEF RT!Deciding
<1>3. given[i].at \in Nat /\ given[j].at \in Nat
  BY <1>1, <1>2 DEF RTKnown
<1>4. /\ given[j].at < given[i].at \/ (given[j].at = given[i].at /\ i <= j)
      /\ given[i].at < given[j].at \/ (given[i].at = given[j].at /\ j <= i)
  BY DEF RT!Deciding
<1>5. QED BY <1>2, <1>3, <1>4

\* A row that says the runtime was observed rests on the newest observation.
LEMMA RTObservedRow ==
  ASSUME RTKnown, NEW given, RTInputs(given), NEW c, c.runtime, NEW t,
         NEW seen, seen = RTSeen(given, c),
         RT!RuntimeStatus(c, seen, t) = "RUNTIME_OBSERVED"
  PROVE  \E o \in RT!ToSet(given) :
           /\ seen = {o} /\ o.cap = c.id /\ o.response = "AVAILABLE"
           /\ c.domain = "TESTNET_NETWORK" => o.network = c.network
           /\ o.at \in Nat
           /\ \A p \in RT!ToSet(given) : p.cap = c.id => p.at <= o.at
<1>1. seen # {}
  BY DEF RT!RuntimeStatus
<1>2. PICK i \in RT!Deciding(given, c) : TRUE
  BY <1>1 DEF RTSeen
<1>3. seen = {given[i]}
  BY <1>2, RTOneDecides DEF RTSeen
<1>4. PICK o : o = given[i]
  OBVIOUS
<1>5. PICK n \in Nat : given \in [1..n -> Issuable]
  BY DEF RTInputs
<1>6. i \in 1..n /\ o \in Issuable /\ o \in RT!ToSet(given) /\ o.cap = c.id
  BY <1>2, <1>4, <1>5 DEF RT!Deciding, RT!ToSet
<1>7. o.at \in Nat /\ o.response \in {"AVAILABLE", "UNAVAILABLE"}
  BY <1>6 DEF RTKnown
<1>8. RT!Fresh(o.at, t)
  BY <1>3, <1>4 DEF RT!RuntimeStatus
<1>9. o.response # "UNAVAILABLE"
  <2>1. SUFFICES ASSUME o.response = "UNAVAILABLE" PROVE FALSE
    OBVIOUS
  <2>2. ~\E s \in seen : ~RT!Fresh(s.at, t)
    BY <1>3, <1>4, <1>8
  <2>3. \E s \in seen : RT!Fresh(s.at, t) /\ s.response = "UNAVAILABLE"
    BY <1>3, <1>4, <1>8, <2>1
  <2>4. ~\E s \in seen : s.response = "AVAILABLE"
    BY <1>3, <1>4, <2>1
  <2>5. QED BY <1>1, <2>2, <2>3, <2>4 DEF RT!RuntimeStatus
<1>10. c.domain = "TESTNET_NETWORK" => o.network = c.network
  <2>1. SUFFICES ASSUME c.domain = "TESTNET_NETWORK", o.network # c.network PROVE FALSE
    OBVIOUS
  <2>2. ~\E s \in seen : ~RT!Fresh(s.at, t)
    BY <1>3, <1>4, <1>8
  <2>3. ~\E s \in seen : RT!Fresh(s.at, t) /\ s.response = "UNAVAILABLE"
    BY <1>3, <1>4, <1>9
  <2>4. \E s \in seen :
                        /\ RT!Fresh(s.at, t) /\ s.response = "AVAILABLE"
                        /\ c.domain = "TESTNET_NETWORK" /\ s.network # c.network
    BY <1>3, <1>4, <1>7, <1>8, <1>9, <2>1
  <2>5. QED BY <1>1, <2>2, <2>3, <2>4 DEF RT!RuntimeStatus
<1>11. \A p \in RT!ToSet(given) : p.cap = c.id => p.at <= o.at
  <2>1. SUFFICES ASSUME NEW j \in DOMAIN given, given[j].cap = c.id PROVE given[j].at <= o.at
    BY DEF RT!ToSet
  <2>2. given[j].at \in Nat
    BY <1>5 DEF RTKnown
  <2>3. given[j].at < given[i].at \/ given[j].at = given[i].at
    BY <1>2, <2>1 DEF RT!Deciding
  <2>4. QED BY <1>4, <1>7, <2>2, <2>3
<1>12. QED BY <1>3, <1>4, <1>6, <1>7, <1>9, <1>10, <1>11

\* The row of a capability of the catalogue.
LEMMA RTRowIs ==
  ASSUME NEW c, NEW given, NEW action, NEW t, NEW r, r = RT!RowOf(c, given, action, t),
         NEW seen, seen = RTSeen(given, c)
  PROVE  /\ r.id = c.id /\ r.domain = c.domain
         /\ r.runtime = RT!RuntimeStatus(c, seen, t)
         /\ r.observed = {o.at : o \in {s \in seen : c.runtime}}
         /\ r.blockers = RT!Blockers(c, RT!RuntimeStatus(c, seen, t))
         /\ r.required = (c.domain \in RT!Dependencies[action])
         /\ r.journal = c.journal
BY DEF RT!RowOf, RTSeen

\* A manifest without errors has a sound row for each required capability.
LEMMA RTNoErrors ==
  ASSUME NEW m, NEW t, RT!Errors(m, t) = {}, m.overall = "ACTION_READY",
         NEW r \in m.rows, NEW c \in rtCatalog, r.required, r.id = c.id
  PROVE  /\ r.blockers = {}
         /\ r.runtime = IF c.runtime THEN "RUNTIME_OBSERVED" ELSE "NOT_REQUIRED"
         /\ c.runtime => \A at \in r.observed : ~(at > t) /\ ~(RT!Age(at, t) > TTL)
         /\ r.domain = "REPLAY_SAFETY" =>
              r.journal = {"IMPLEMENTED", "CORE", "IPC", "CONFIRM", "RECONCILE"}
<1>1. RT!ReadyErrors(m, t) = {}
  BY DEF RT!Errors
<1>2. RT!ChildErrors(r, c, t) = {}
  <2>1. <<r, c>> \in {q \in m.rows \X rtCatalog : q[1].required /\ q[1].id = q[2].id}
    OBVIOUS
  <2>2. RT!ChildErrors(r, c, t) \in {RT!ChildErrors(p[1], p[2], t) :
            p \in {q \in m.rows \X rtCatalog : q[1].required /\ q[1].id = q[2].id}}
    BY <2>1
  <2>3. QED BY <1>1, <2>2 DEF RT!ReadyErrors
<1>3. r.domain = "REPLAY_SAFETY" =>
        r.journal = {"IMPLEMENTED", "CORE", "IPC", "CONFIRM", "RECONCILE"}
  <2>1. SUFFICES ASSUME r.domain = "REPLAY_SAFETY",
                        r.journal # {"IMPLEMENTED", "CORE", "IPC", "CONFIRM", "RECONCILE"}
                 PROVE  "REPLAY" \in RT!ReadyErrors(m, t)
    BY <1>1
  <2> DEFINE Unsafe == {s \in m.rows :
                 /\ s.domain = "REPLAY_SAFETY" /\ s.required
                 /\ \/ s.ledger # {"IMPLEMENTED", "CORE", "IPC"}
                    \/ s.journal # {"IMPLEMENTED", "CORE", "IPC", "CONFIRM", "RECONCILE"}}
             Flaws == {"REPLAY" : s \in Unsafe}
             Others == {"ACTION_STATE" : x \in {y \in {1} : ~m.ready \/ m.blockers # {}}}
                 \union (UNION {RT!ChildErrors(p[1], p[2], t) :
                          p \in {q \in m.rows \X rtCatalog :
                                    q[1].required /\ q[1].id = q[2].id}})
  <2>2. RT!ReadyErrors(m, t) = Others \union Flaws
    BY DEF RT!ReadyErrors
  <2>3. r \in Unsafe
    BY <2>1
  <2>4. "REPLAY" \in Flaws
    BY <2>3
  <2> HIDE DEF Flaws, Others
  <2>5. QED BY <2>2, <2>4
<1>4. QED BY <1>2, <1>3 DEF RT!ChildErrors

LEMMA RTReadyRests ==
  ASSUME RTKnown, RTIInv, TTL \in Nat
  PROVE  RT!AcceptedIsReady
<1> SUFFICES ASSUME RT!Accepted, rtManifest.overall = "ACTION_READY",
                    NEW c \in rtCatalog, c.domain \in RT!Dependencies[rtManifest.action]
             PROVE  /\ c.blockers = {}
                    /\ c.domain = "REPLAY_SAFETY" => "IMPLEMENTED" \in c.journal
                    /\ c.runtime => \E o \in RT!ToSet(rtManifest.given) :
                         /\ o.cap = c.id /\ o.response = "AVAILABLE"
                         /\ RT!Fresh(o.at, rtVerdict.at)
                         /\ c.domain = "TESTNET_NETWORK" => o.network = c.network
                         /\ \A p \in RT!ToSet(rtManifest.given) : p.cap = c.id => p.at <= o.at
  BY DEF RT!AcceptedIsReady
<1>0. PICK given, seen :
                         /\ given = rtManifest.given
                         /\ seen = RTSeen(given, c)
  OBVIOUS
<1>1. RTMade(rtManifest) /\ RT!Errors(rtManifest, rtVerdict.at) = {}
  BY DEF RTIInv, RT!Accepted
<1>2. PICK t : rtManifest.rows = {RT!RowOf(d, rtManifest.given, rtManifest.action, t) : d \in rtCatalog}
  BY <1>1 DEF RTMade
<1>3. PICK r \in rtManifest.rows : r = RT!RowOf(c, given, rtManifest.action, t)
  BY <1>0, <1>2
<1>4. /\ r.id = c.id /\ r.domain = c.domain /\ r.required /\ r.journal = c.journal
      /\ r.runtime = RT!RuntimeStatus(c, seen, t)
      /\ r.observed = {o.at : o \in {s \in seen : c.runtime}}
      /\ r.blockers = RT!Blockers(c, RT!RuntimeStatus(c, seen, t))
  <2>1. r.required = (c.domain \in RT!Dependencies[rtManifest.action])
    BY <1>3 DEF RT!RowOf
  <2>2. r.required
    BY <2>1
  <2>3. QED BY <1>0, <1>3, <2>2, RTRowIs
<1>5. /\ r.blockers = {}
      /\ r.runtime = IF c.runtime THEN "RUNTIME_OBSERVED" ELSE "NOT_REQUIRED"
      /\ c.runtime => \A at \in r.observed : ~(at > rtVerdict.at) /\ ~(RT!Age(at, rtVerdict.at) > TTL)
      /\ r.domain = "REPLAY_SAFETY" =>
           r.journal = {"IMPLEMENTED", "CORE", "IPC", "CONFIRM", "RECONCILE"}
  BY <1>1, <1>4, RTNoErrors
<1>6. c.blockers = {}
  BY <1>4, <1>5 DEF RT!Blockers
<1>7. ASSUME c.runtime
      PROVE  \E o \in RT!ToSet(given) :
               /\ o.cap = c.id /\ o.response = "AVAILABLE" /\ RT!Fresh(o.at, rtVerdict.at)
               /\ c.domain = "TESTNET_NETWORK" => o.network = c.network
               /\ \A p \in RT!ToSet(given) : p.cap = c.id => p.at <= o.at
  <2>1. RTInputs(given)
    BY <1>0, <1>1 DEF RTMade
  <2>2. RT!RuntimeStatus(c, seen, t) = "RUNTIME_OBSERVED"
    BY <1>4, <1>5, <1>7
  <2>3. PICK o \in RT!ToSet(given) :
           /\ seen = {o} /\ o.cap = c.id /\ o.response = "AVAILABLE"
           /\ c.domain = "TESTNET_NETWORK" => o.network = c.network
           /\ o.at \in Nat
           /\ \A p \in RT!ToSet(given) : p.cap = c.id => p.at <= o.at
    BY <1>0, <1>7, <2>1, <2>2, RTObservedRow
  <2>4. o.at \in r.observed
    BY <1>4, <1>7, <2>3
  <2>5. ~(o.at > rtVerdict.at) /\ ~(RT!Age(o.at, rtVerdict.at) > TTL)
    BY <1>5, <1>7, <2>4
  <2>8. rtVerdict.at \in Nat
    BY DEF RTIInv, RT!Accepted
  <2>6. RT!Fresh(o.at, rtVerdict.at)
    <3>1. RT!Age(o.at, rtVerdict.at) \in Nat
      BY <2>3, <2>5, <2>8 DEF RT!Age
    <3>2. QED BY <2>3, <2>5, <2>8, <3>1 DEF RT!Fresh
  <2>7. QED BY <2>3, <2>6
<1>8. QED BY <1>0, <1>4, <1>5, <1>6, <1>7

LEMMA RTValuesRest ==
  ASSUME RTIInv, TTL \in Nat
  PROVE  RT!ReadyValuesAreFresh
<1> SUFFICES ASSUME RT!Accepted, rtManifest.value.ready
             PROVE  /\ \E at \in rtManifest.value.at : RT!Fresh(at, rtVerdict.at)
                    /\ rtManifest.value.observed # {}
                    /\ rtManifest.value.documented \in {{}, rtManifest.value.observed}
  BY DEF RT!ReadyValuesAreFresh
<1>1. RT!Errors(rtManifest, rtVerdict.at) = {}
  BY DEF RTIInv, RT!Accepted
<1>2. PICK v : v = rtManifest.value
  OBVIOUS
<1>3. RT!ValueErrors(v, rtVerdict.at) = {}
  BY <1>1, <1>2 DEF RT!Errors
<1>4. v.status = "RUNTIME_OBSERVED_VALUE"
  BY <1>2, <1>3 DEF RT!ValueErrors
<1>5. v.observed # {} /\ v.at # {}
  BY <1>3, <1>4 DEF RT!ValueErrors
<1>6. \A at \in v.at : ~(at > rtVerdict.at) /\ ~(RT!Age(at, rtVerdict.at) > TTL)
  BY <1>3, <1>4 DEF RT!ValueErrors, RT!Observed
<1>7. v.documented \in {{}, v.observed}
  BY <1>3, <1>4, <1>5 DEF RT!ValueErrors
<1>8. v.at \subseteq Nat /\ rtVerdict.at \in Nat
  BY <1>2 DEF RTIInv, RTMade, RT!Accepted
<1>9. \A at \in v.at : RT!Fresh(at, rtVerdict.at)
  <2>1. TAKE at \in v.at
  <2>2. at \in Nat /\ ~(at > rtVerdict.at) /\ ~(RT!Age(at, rtVerdict.at) > TTL)
    BY <1>6, <1>8
  <2>3. RT!Age(at, rtVerdict.at) \in Nat
    BY <1>8, <2>2 DEF RT!Age
  <2>4. QED BY <1>8, <2>2, <2>3 DEF RT!Fresh
<1>10. QED BY <1>2, <1>5, <1>7, <1>9

LEMMA RTManifestIsMade ==
  ASSUME NEW given, RTInputs(given), NEW action, NEW t
  PROVE  RTMade(RT!ManifestOf(given, action, t))
BY DEF RTMade, RTShapeOf, RT!ManifestOf, RT!NotObserved

\* What an assessor is given is a sequence of what was issued.
LEMMA RTGivenIs ==
  ASSUME NEW S, S \subseteq Issuable, IsFiniteSet(S), NEW given \in RT!SetToSeqs(S)
  PROVE  RTInputs(given)
<1>1. RT!Cardinality(S) \in Nat
  BY FS_CardinalityType DEF RT!Cardinality, Cardinality
<1>2. given \in [1..RT!Cardinality(S) -> S]
  BY DEF RT!SetToSeqs
<1>3. given \in [1..RT!Cardinality(S) -> Issuable]
  BY <1>2
<1>4. QED BY <1>1, <1>3 DEF RTInputs

LEMMA RTSameCatalog ==
  ASSUME rtCatalog' = rtCatalog
  PROVE  /\ \A m, t : RT!Errors(m, t)' = RT!Errors(m, t)
         /\ \A m : RTMade(m)' <=> RTMade(m)
BY DEF RT!Errors, RT!ReadyErrors, RTMade

LEMMA RTStepIInv ==
  ASSUME RTKnown, RTIInv, [RT!Next]_rtVars
  PROVE  RTIInv'
<1>0. rtCatalog' = rtCatalog
  BY DEF RT!Next, RT!Issue, RT!Assess, RT!Relabel, RT!Annotate, RT!Validate, RT!Tick, rtVars
<1>1. CASE RT!Issue
  <2>1. UNCHANGED <<rtNow, rtManifest, rtVerdict>>
    BY <1>1 DEF RT!Issue
  <2>2. PICK f \in Issuable : rtIssued' = rtIssued \union {f}
    BY <1>1 DEF RT!Issue
  <2>3. rtIssued' \subseteq Issuable /\ IsFiniteSet(rtIssued')
    BY <2>2, FS_AddElement DEF RTIInv
  <2>4. QED BY <1>0, <2>1, <2>3, RTSameCatalog DEF RTIInv
<1>2. CASE RT!Assess
  <2>1. PICK action \in Asked, given \in RT!SetToSeqs(rtIssued) : rtManifest' = RT!ManifestOf(given, action, rtNow)
    BY <1>2 DEF RT!Assess
  <2>2. UNCHANGED <<rtNow, rtIssued, rtVerdict>> /\ rtVerdict = None
    BY <1>2 DEF RT!Assess, RTIInv
  <2>3. RTMade(rtManifest')
    BY <2>1, RTGivenIs, RTManifestIsMade DEF RTIInv
  <2>4. QED BY <1>0, <2>2, <2>3, RTSameCatalog DEF RTIInv
<1>3. CASE RT!Relabel \/ RT!Annotate
  <2>1. UNCHANGED <<rtNow, rtIssued>> /\ rtVerdict' = None
    BY <1>3 DEF RT!Relabel, RT!Annotate
  <2>2. RTMade(rtManifest) /\ rtManifest # None
    BY <1>3 DEF RT!Relabel, RT!Annotate, RTIInv
  <2>3. ASSUME RT!Relabel PROVE RTMade(rtManifest')
    <3>1. PICK m : m = [rtManifest EXCEPT !.overall = "ACTION_READY"]
      OBVIOUS
    <3>2. PICK n : n = [m EXCEPT !.ready = TRUE]
      OBVIOUS
    <3>3. rtManifest' = [n EXCEPT !.blockers = {}]
      BY <2>3, <3>1, <3>2 DEF RT!Relabel
    <3>4. m = [action |-> rtManifest.action, overall |-> "ACTION_READY", ready |-> rtManifest.ready,
               blockers |-> rtManifest.blockers, rows |-> rtManifest.rows,
               value |-> rtManifest.value, given |-> rtManifest.given]
      BY <2>2, <3>1 DEF RTMade, RTShapeOf
    <3>5. n = [action |-> rtManifest.action, overall |-> "ACTION_READY", ready |-> TRUE,
               blockers |-> rtManifest.blockers, rows |-> rtManifest.rows,
               value |-> rtManifest.value, given |-> rtManifest.given]
      BY <3>2, <3>4
    <3>6. rtManifest' = [action |-> rtManifest.action, overall |-> "ACTION_READY", ready |-> TRUE,
                       blockers |-> {}, rows |-> rtManifest.rows,
                       value |-> rtManifest.value, given |-> rtManifest.given]
      BY <3>3, <3>5
    <3>7. RTShapeOf(rtManifest') /\ rtManifest'.given = rtManifest.given /\ rtManifest'.rows = rtManifest.rows
          /\ rtManifest'.action = rtManifest.action /\ rtManifest'.value = rtManifest.value
      BY <3>6 DEF RTShapeOf
    <3>8. QED BY <2>2, <3>7 DEF RTMade
  <2>4. ASSUME RT!Annotate PROVE RTMade(rtManifest')
    <3>1. PICK v \in Values : rtManifest' = [rtManifest EXCEPT !.value = v]
      BY <2>4 DEF RT!Annotate
    <3>2. rtManifest' = [action |-> rtManifest.action, overall |-> rtManifest.overall,
                       ready |-> rtManifest.ready, blockers |-> rtManifest.blockers,
                       rows |-> rtManifest.rows, value |-> v, given |-> rtManifest.given]
      BY <2>2, <3>1 DEF RTMade, RTShapeOf
    <3>3. RTShapeOf(rtManifest') /\ rtManifest'.given = rtManifest.given /\ rtManifest'.rows = rtManifest.rows
          /\ rtManifest'.action = rtManifest.action /\ rtManifest'.value = v
      BY <3>2 DEF RTShapeOf
    <3>4. v.at \subseteq Nat
      BY DEF RTKnown
    <3>5. QED BY <2>2, <3>3, <3>4 DEF RTMade
  <2>5. RTMade(rtManifest')
    BY <1>3, <2>3, <2>4
  <2>6. QED BY <1>0, <2>1, <2>5, RTSameCatalog DEF RTIInv
<1>5. CASE RT!Validate
  <2>1. /\ rtManifest # None /\ UNCHANGED <<rtNow, rtIssued, rtManifest>>
        /\ rtVerdict' = [accepted |-> RT!Errors(rtManifest, rtNow) = {}, at |-> rtNow]
    BY <1>5 DEF RT!Validate
  <2>2. rtVerdict'.at = rtNow /\ (rtVerdict'.accepted <=> RT!Errors(rtManifest, rtNow) = {})
    BY <2>1
  <2>3. QED BY <1>0, <2>1, <2>2, RTSameCatalog DEF RTIInv
<1>6. CASE RT!Tick
  <2>1. rtNow' \in Nat /\ UNCHANGED <<rtIssued, rtManifest, rtVerdict>>
    BY <1>6 DEF RT!Tick, RTIInv
  <2>2. QED BY <1>0, <2>1, RTSameCatalog DEF RTIInv
<1>7. CASE UNCHANGED rtVars
  <2>1. UNCHANGED <<rtNow, rtIssued, rtManifest, rtVerdict>>
    BY <1>7 DEF rtVars
  <2>2. QED BY <1>0, <2>1, RTSameCatalog DEF RTIInv
<1>8. QED BY <1>1, <1>2, <1>3, <1>5, <1>6, <1>7 DEF RT!Next

\* The manifest's rows are the assessor's and a verdict is about the manifest that
\* stands (runtime_capability.py).
THEOREM RTInvariance == Spec => [](machine = "RuntimeCapability" => RTIInv)
<1>1. Init => (machine = "RuntimeCapability" => RTIInv)
  BY RTInitIInv DEF Init
<1>2. RTKnown
  BY ReadinessAssumption DEF RTKnown
<1>3. (machine = "RuntimeCapability" => RTIInv) /\ [Next]_vars
         => (machine = "RuntimeCapability" => RTIInv)'
  BY <1>2, RTStepIInv DEF Next, vars
<1>4. QED BY <1>1, <1>3, PTL DEF Spec

\* A manifest that the validator accepts as ready rests on sound capabilities
\* and on the newest observations, fresh when it is read, whoever rewrote its
\* summary or values (validate_capability_manifest of runtime_capability.py).
THEOREM ReadyIsSound == Spec => []AcceptedIsReady
<1>1. (machine = "RuntimeCapability" => RTIInv) => AcceptedIsReady
  <2>1. RTKnown /\ TTL \in Nat
    BY ReadinessAssumption DEF RTKnown
  <2>2. QED BY <2>1, RTReadyRests, RTValuesRest DEF AcceptedIsReady
<1>2. QED BY <1>1, RTInvariance, PTL

-----------------------------------------------------------------------------
(* The monitor.                                                            *)

MOBad == {"REVIEW_REQUIRED", "ERROR", "UNKNOWN", "CHANGED"}

\* What exit code 0 says.
MOVerified ==
    /\ \A e \in MO!Endpoints \ {"did_note"} : MO!Read(e) /\ ~MO!Alarming(e)
    /\ moGot["did_note"] \in {"expected", "gone"}
    /\ moGot["contribution"] \in {"live", "evicted"}
    /\ moGot["capacity_manifest"] # "malformed"
    /\ moGot["rooms_summary"] = moGot["capacity_manifest"]
    /\ moLocal /\ (moMode = "public" => moGot["public_evidence"] = "expected")
    /\ \A s \in Request : moSpecs[s] = "same"

\* A run that has its exit code has read everything, and nothing is read again.
MOIInv ==
    /\ MO!OutageHidesNothing
    /\ MO!ZeroIsVerified
    /\ moCode \in 0..3 => MO!Endpoints = DOMAIN moGot /\ Request = DOMAIN moSpecs

LEMMA MOChecksAre ==
  /\ DOMAIN MO!Checks =
        {"technocore", "did_note", "contribution", "repo", "original_commit",
         "dashboard_commit", "dashboard", "public_evidence", "official_repo", "flop_site",
         "teaser", "yellow_paper", "capacity_manifest", "rooms_summary",
         "capacity_contract", "engagement", "mailbox_migration", "receipts"}
  /\ \A e \in {"technocore", "original_commit", "dashboard_commit", "public_evidence",
               "official_repo", "capacity_manifest", "rooms_summary"} : MO!Checks[e] = MO!Plain(e)
  /\ MO!Checks["did_note"] = MO!DidNote /\ MO!Checks["contribution"] = MO!Contribution
  /\ MO!Checks["repo"] = MO!Repo /\ MO!Checks["dashboard"] = MO!Marked("dashboard", {"marked"})
  /\ MO!Checks["flop_site"] = MO!Marked("flop_site", {"reviewed", "reworded", "new_term"})
  /\ MO!Checks["teaser"] = MO!Teaser /\ MO!Checks["yellow_paper"] = MO!YellowPaper
  /\ MO!Checks["capacity_contract"] = MO!Capacity
  /\ MO!Checks["engagement"] = MO!Engagement
  /\ MO!Checks["receipts"] = IF MO!Evidence THEN "READY" ELSE "ERROR"
BY DEF MO!Checks

LEMMA MOExitCodeIs ==
  /\ MO!ExitCode \in 0..3
  /\ MO!Meaningful => MO!ExitCode = 3
  /\ MO!ExitCode = 0 => MO!Overall = "READY"
BY DEF MO!ExitCode

\* Whatever is alarming makes one of the checks that count.
LEMMA MOAlarmsCount ==
  ASSUME NEW e, MO!Alarming(e)
  PROVE  MO!Meaningful
<1>1. CASE e = "did_note"
  <2>1. moGot["did_note"] = "changed"
    BY <1>1 DEF MO!Alarming
  <2>2. MO!DidNote = "REVIEW_REQUIRED"
    BY <2>1 DEF MO!DidNote
  <2>3. QED BY <2>2, MOChecksAre DEF MO!Meaningful
<1>2. CASE e = "contribution"
  <2>1. moGot["contribution"] \in {"forged", "missing"}
    BY <1>2 DEF MO!Alarming
  <2>2. MO!Contribution = "REVIEW_REQUIRED"
    BY <2>1 DEF MO!Contribution
  <2>3. QED BY <2>2, MOChecksAre DEF MO!Meaningful
<1>3. CASE e = "repo"
  <2>1. moGot["repo"] \in {"private", "malformed"}
    BY <1>3 DEF MO!Alarming
  <2>2. MO!Repo \in {"REVIEW_REQUIRED", "ERROR"}
    BY <2>1 DEF MO!Repo
  <2>3. QED BY <2>2, MOChecksAre DEF MO!Meaningful
<1>4. CASE e = "dashboard"
  <2>1. moGot["dashboard"] = "unmarked"
    BY <1>4 DEF MO!Alarming
  <2>2. MO!Marked("dashboard", {"marked"}) = "REVIEW_REQUIRED"
    BY <2>1 DEF MO!Marked, MO!Read, MO!Failed
  <2>3. QED BY <2>2, MOChecksAre DEF MO!Meaningful
<1>5. CASE e = "flop_site"
  <2>1. moGot["flop_site"] = "new_term"
    BY <1>5 DEF MO!Alarming
  <2>2. QED BY <2>1 DEF MO!Meaningful, MO!Signals
<1>6. CASE e = "teaser"
  <2>1. moGot["teaser"] = "changed"
    BY <1>6 DEF MO!Alarming
  <2>2. MO!Teaser = "REVIEW_REQUIRED"
    BY <2>1 DEF MO!Teaser, MO!Marked, MO!Read, MO!Failed
  <2>3. QED BY <2>2 DEF MO!Meaningful
<1>7. CASE e = "yellow_paper"
  <2>1. moGot["yellow_paper"] \in {"changed", "malformed"}
    BY <1>7 DEF MO!Alarming
  <2>2. MO!YellowPaper = "REVIEW_REQUIRED"
    BY <2>1 DEF MO!YellowPaper, MO!Marked, MO!Read, MO!Failed
  <2>3. QED BY <2>2 DEF MO!Meaningful
<1>8. CASE e \notin {"did_note", "contribution", "repo", "dashboard", "flop_site", "teaser",
                     "yellow_paper"}
  BY <1>8 DEF MO!Alarming
<1>9. QED BY <1>1, <1>2, <1>3, <1>4, <1>5, <1>6, <1>7, <1>8

\* The fold says READY only if no status is a bad one.
LEMMA MOReadyIsClean ==
  ASSUME MO!Overall = "READY"
  PROVE  \A x \in MO!Statuses : x \notin MOBad
<1> DEFINE order == <<"REVIEW_REQUIRED", "ERROR", "UNKNOWN", "CHANGED", "READY">>
           IsWorst(i) == order[i] \in MO!Statuses
                         /\ \A j \in DOMAIN order : order[j] \in MO!Statuses => i <= j
           said == <<"REVIEW_REQUIRED", "ERROR", "DEGRADED", "CHANGED", "READY">>
<1>1. DOMAIN order = 1..5 /\ MO!Signals \in MO!Statuses
      /\ MO!Signals \in {"REVIEW_REQUIRED", "CHANGED", "READY"}
  BY DEF MO!Statuses, MO!Signals
<1>2. /\ order[1] = "REVIEW_REQUIRED" /\ order[2] = "ERROR" /\ order[3] = "UNKNOWN"
      /\ order[4] = "CHANGED" /\ order[5] = "READY"
      /\ said[1] = "REVIEW_REQUIRED" /\ said[2] = "ERROR" /\ said[3] = "DEGRADED"
      /\ said[4] = "CHANGED" /\ said[5] = "READY"
  OBVIOUS
<1>3. MO!Overall = said[CHOOSE i \in DOMAIN order : IsWorst(i)]
  BY DEF MO!Overall
<1> HIDE DEF order, said
<1>4. \E i \in DOMAIN order : IsWorst(i)
  <2>1. \/ order[1] \in MO!Statuses \/ order[2] \in MO!Statuses \/ order[3] \in MO!Statuses
        \/ order[4] \in MO!Statuses \/ order[5] \in MO!Statuses
    BY <1>1, <1>2
  <2>2. \A j \in DOMAIN order : j \in 1..5
    BY <1>1
  <2>3. CASE order[1] \in MO!Statuses
    BY <1>1, <2>3
  <2>4. CASE order[1] \notin MO!Statuses /\ order[2] \in MO!Statuses
    BY <1>1, <2>4
  <2>5. CASE order[1] \notin MO!Statuses /\ order[2] \notin MO!Statuses /\ order[3] \in MO!Statuses
    BY <1>1, <2>5
  <2>6. CASE order[1] \notin MO!Statuses /\ order[2] \notin MO!Statuses /\ order[3] \notin MO!Statuses
             /\ order[4] \in MO!Statuses
    BY <1>1, <2>6
  <2>7. CASE order[1] \notin MO!Statuses /\ order[2] \notin MO!Statuses /\ order[3] \notin MO!Statuses
             /\ order[4] \notin MO!Statuses /\ order[5] \in MO!Statuses
    BY <1>1, <2>7
  <2>8. QED BY <2>1, <2>3, <2>4, <2>5, <2>6, <2>7
<1>5. PICK i \in DOMAIN order : IsWorst(i) /\ MO!Overall = said[i]
  BY <1>3, <1>4
<1>6. i = 5
  BY <1>1, <1>2, <1>5
<1>7. \A j \in 1..4 : order[j] \notin MO!Statuses
  BY <1>1, <1>5, <1>6
<1>8. QED BY <1>2, <1>7 DEF MOBad

LEMMA MOCleanIsVerified ==
  ASSUME \A x \in MO!Statuses : x \notin MOBad
  PROVE  MOVerified
<1>1. \A c \in DOMAIN MO!Checks : MO!Checks[c] \notin MOBad
  BY DEF MO!Statuses
<1>2. \A s \in Request : MO!SpecStatus(s) \notin MOBad
  BY DEF MO!Statuses
<1>3. MO!Signals \notin MOBad
  BY DEF MO!Statuses
<1>4. \A e \in {"technocore", "original_commit", "dashboard_commit", "public_evidence",
                "official_repo", "capacity_manifest", "rooms_summary"} : MO!Read(e) /\ ~MO!Alarming(e)
  <2>1. TAKE e \in {"technocore", "original_commit", "dashboard_commit", "public_evidence",
                    "official_repo", "capacity_manifest", "rooms_summary"}
  <2>2. MO!Plain(e) \notin MOBad
    BY <1>1, MOChecksAre
  <2>3. MO!Read(e)
    BY <2>2 DEF MO!Plain, MOBad
  <2>4. ~MO!Alarming(e)
    BY DEF MO!Alarming
  <2>5. QED BY <2>3, <2>4
<1>5. MO!Contribution \notin MOBad /\ MO!DidNote \notin MOBad /\ MO!Repo \notin MOBad
      /\ MO!Teaser \notin MOBad /\ MO!YellowPaper \notin MOBad /\ MO!Capacity \notin MOBad
      /\ MO!Engagement \notin MOBad
  BY <1>1, MOChecksAre
<1>6. MO!Evidence
  BY <1>1, MOChecksAre DEF MOBad
<1>7. moGot["contribution"] \in {"live", "evicted"}
  BY <1>5 DEF MO!Contribution, MOBad
<1>8. moGot["did_note"] \in {"expected", "gone"}
  BY <1>5 DEF MO!DidNote, MOBad
<1>9. moGot["repo"] = "public"
  BY <1>5 DEF MO!Repo, MOBad
<1>10. moGot["dashboard"] = "marked" /\ MO!Read("dashboard")
  <2>1. MO!Marked("dashboard", {"marked"}) \notin MOBad
    BY <1>1, MOChecksAre
  <2>2. QED BY <2>1 DEF MO!Marked, MOBad
<1>11. moGot["flop_site"] = "reviewed" /\ MO!Read("flop_site")
  <2>1. MO!Marked("flop_site", {"reviewed", "reworded", "new_term"}) \notin MOBad
    BY <1>1, MOChecksAre
  <2>2. moGot["flop_site"] \in {"reviewed", "reworded", "new_term"} /\ MO!Read("flop_site")
    BY <2>1 DEF MO!Marked, MOBad
  <2>3. QED BY <1>3, <2>2 DEF MO!Signals, MOBad
<1>12. moGot["teaser"] = "reviewed" /\ MO!Read("teaser")
  BY <1>5 DEF MO!Teaser, MO!Marked, MOBad
<1>13. moGot["yellow_paper"] \in {"reviewed", "transport"} /\ MO!Read("yellow_paper")
  BY <1>5 DEF MO!YellowPaper, MO!Marked, MOBad
<1>14. moGot["capacity_manifest"] # "malformed" /\ moGot["rooms_summary"] = moGot["capacity_manifest"]
  <2>1. moGot["rooms_summary"] \in {"small", "large"}
    BY <1>5 DEF MO!Engagement, MOBad
  <2>2. QED BY <1>5, <2>1 DEF MO!Capacity, MOBad
<1>15. \A s \in Request : moSpecs[s] = "same"
  BY <1>2 DEF MO!SpecStatus, MOBad
<1>16. moLocal /\ (moMode = "public" => moGot["public_evidence"] = "expected")
  BY <1>6 DEF MO!Evidence
<1>17. MO!Read("contribution") /\ MO!Read("repo")
  BY <1>7, <1>9 DEF MO!Read, MO!Failed
<1>18. ~MO!Alarming("contribution") /\ ~MO!Alarming("repo") /\ ~MO!Alarming("dashboard")
       /\ ~MO!Alarming("flop_site") /\ ~MO!Alarming("teaser") /\ ~MO!Alarming("yellow_paper")
  BY <1>7, <1>9, <1>10, <1>11, <1>12, <1>13 DEF MO!Alarming
<1>19. MO!Endpoints \ {"did_note"} =
         {"technocore", "original_commit", "dashboard_commit", "public_evidence",
          "official_repo", "capacity_manifest", "rooms_summary", "contribution", "repo",
          "dashboard", "flop_site", "teaser", "yellow_paper"}
  BY DEF MO!Endpoints, MO!Contents
<1>20. \A e \in MO!Endpoints \ {"did_note"} : MO!Read(e) /\ ~MO!Alarming(e)
  BY <1>4, <1>10, <1>11, <1>12, <1>13, <1>17, <1>18, <1>19
<1>21. QED BY <1>7, <1>8, <1>14, <1>15, <1>16, <1>20 DEF MOVerified

LEMMA MOStepIInv ==
  ASSUME Aborted \notin 0..3, MOIInv, [MO!Next]_moVars
  PROVE  MOIInv'
<1>1. CASE MO!Fetch \/ MO!FetchSpec
  <2>1. moCode' = moCode /\ moCode \notin 0..3
    BY <1>1 DEF MO!Fetch, MO!FetchSpec, MOIInv
  <2>2. moCode # 0
    BY <2>1
  <2>3. QED BY <2>1, <2>2 DEF MOIInv, MO!OutageHidesNothing, MO!ZeroIsVerified
<1>2. CASE MO!Abort
  <2>1. moCode' \notin 0..3 /\ moCode' # 0
    BY <1>2 DEF MO!Abort
  <2>2. QED BY <2>1 DEF MOIInv, MO!OutageHidesNothing, MO!ZeroIsVerified
<1>3. CASE MO!Judge
  <2>1. /\ moCode' = MO!ExitCode /\ UNCHANGED <<moMode, moLocal, moGot, moSpecs>>
        /\ MO!Endpoints = DOMAIN moGot /\ Request = DOMAIN moSpecs
    BY <1>3 DEF MO!Judge
  <2>2. \A e : MO!Alarming(e)' => MO!Alarming(e)
    BY <2>1 DEF MO!Alarming
  <2>3. MO!OutageHidesNothing'
    BY <2>1, <2>2, MOAlarmsCount, MOExitCodeIs DEF MO!OutageHidesNothing, MO!Meaningful
  <2>4. moCode' = 0 => MOVerified
    BY <2>1, MOExitCodeIs, MOReadyIsClean, MOCleanIsVerified
  <2>5. MO!ZeroIsVerified'
    BY <2>1, <2>2, <2>4 DEF MO!ZeroIsVerified, MOVerified, MO!Read
  <2>6. QED BY <2>1, <2>3, <2>5 DEF MOIInv
<1>4. CASE UNCHANGED moVars
  <2>1. UNCHANGED <<moMode, moLocal, moGot, moSpecs, moCode>>
    BY <1>4 DEF moVars
  <2>2. QED BY <2>1 DEF MOIInv, MO!OutageHidesNothing, MO!ZeroIsVerified, MO!Alarming, MO!Read
<1>5. QED BY <1>1, <1>2, <1>3, <1>4 DEF MO!Next

LEMMA MOInitIInv ==
  ASSUME None \notin 0..3, MO!Init
  PROVE  MOIInv
<1>1. moCode \notin 0..3 /\ moCode # 0
  BY DEF MO!Init
<1>2. QED BY <1>1 DEF MOIInv, MO!OutageHidesNothing, MO!ZeroIsVerified

\* A run with an exit code has read everything, and the code says what it read
\* (monitor.py, _run_monitor).
THEOREM MOInvariance == Spec => [](machine = "Monitor" => MOIInv)
<1>1. Init => (machine = "Monitor" => MOIInv)
  BY CodeAssumption, MOInitIInv DEF Init
<1>2. (machine = "Monitor" => MOIInv) /\ [Next]_vars => (machine = "Monitor" => MOIInv)'
  BY CodeAssumption, MOStepIInv DEF Next, vars
<1>3. QED BY <1>1, <1>2, PTL DEF Spec

\* Whatever fails beside it, a run that saw a meaningful change says so, and a
\* run that says zero has read and verified everything (_run_monitor, exit_code
\* and the evaluators of monitor.py).
THEOREM ExitCodesAreTrue == Spec => []ExitCodeIsTrue
<1>1. (machine = "Monitor" => MOIInv) => ExitCodeIsTrue
  BY DEF ExitCodeIsTrue, MOIInv
<1>2. QED BY <1>1, MOInvariance, PTL

-----------------------------------------------------------------------------
(* The evidence transport service: a snapshot is never changed, and what a *)
(* proof says of one it says for good.                                     *)

ETSays == [response : Responses,
           gap : {"GAP_UNRESOLVED", "HISTORY_GAP", "NO_GAP_OBSERVED", "RETENTION_LOSS_CONFIRMED"},
           completeness : {"PARTIAL", "UNKNOWN", "COMPLETE_VERIFIED"},
           retention : {"RETENTION_FLOOR_UNKNOWN", "RETENTION_FLOOR_OBSERVED"},
           whole : BOOLEAN, known : BOOLEAN]

ETTypeOK ==
    /\ etSnapshots \in Seq([says : ETSays, from : Nat, reviewed : SUBSET ET!Kinds])
    /\ etProofs \subseteq [of : DOMAIN etSnapshots, kind : ET!Kinds]

\* Snapshot j of those is an unbroken export that the review found complete.
ETWhole(snaps, j) ==
    LET r == snaps[j].says.response IN
    /\ r.export /\ r.truncated = "no" /\ r.direct /\ r.generation
    /\ "COMPLETE_EXPORT" \in snaps[j].reviewed
    /\ snaps[j].says.gap = "NO_GAP_OBSERVED"

\* Snapshot j of those is an export whose loss the review lists.
ETLost(snaps, j) ==
    LET r == snaps[j].says.response IN
    /\ r.export /\ r.truncated = "no" /\ r.direct /\ r.generation
    /\ "REVIEWED_RETENTION_LOSS" \in snaps[j].reviewed

\* What may be said of a snapshot made from number j of those.
ETSupported(snaps, s, j) ==
    /\ s.completeness = "COMPLETE_VERIFIED" =>
          s.gap \in {"NO_GAP_OBSERVED", "RETENTION_LOSS_CONFIRMED"}
    /\ s.completeness = "COMPLETE_VERIFIED" /\ s.gap = "NO_GAP_OBSERVED" => ETWhole(snaps, j)
    /\ s.gap = "RETENTION_LOSS_CONFIRMED" =>
          /\ ETLost(snaps, j)
          /\ s.response = snaps[j].says.response
          /\ s.completeness = snaps[j].says.completeness

ETClaiming(s) == s.completeness = "COMPLETE_VERIFIED" \/ s.gap = "RETENTION_LOSS_CONFIRMED"

\* A snapshot that is complete and has no gap was made from an export found
\* complete, one whose loss is confirmed from an export whose loss is listed; the
\* loss leaves alone what was found of its completeness.
ETClaims(snaps, i) ==
    LET s == snaps[i].says
        j == snaps[i].from
    IN  /\ ET!Valid(s)
        /\ ETClaiming(s) => j \in 1 .. i - 1 /\ ETSupported(snaps, s, j)

\* Only such exports have a proof.
ETProven(snaps) ==
    \A p \in etProofs :
        /\ p.kind = "COMPLETE_EXPORT" => ETWhole(snaps, p.of)
        /\ p.kind = "REVIEWED_RETENTION_LOSS" => ETLost(snaps, p.of)

ETIInv ==
    /\ ETTypeOK
    /\ ETProven(etSnapshots)
    /\ \A i \in DOMAIN etSnapshots : ETClaims(etSnapshots, i)

LEMMA ETInitIInv == ET!Init => ETIInv
BY DEF ET!Init, ETIInv, ETTypeOK, ETProven

\* A snapshot that is added leaves the others as they are, and the proofs of them.
LEMMA ETRememberIInv ==
  ASSUME ETIInv, NEW says \in ETSays, NEW from \in 0 .. Len(etSnapshots),
         ET!Remember(says, from), UNCHANGED etProofs, ET!Valid(says),
         ETClaiming(says) => from # 0 /\ ETSupported(etSnapshots, says, from)
  PROVE  ETIInv'
<1> DEFINE n == Len(etSnapshots)
           new == etSnapshots'
<1>1. PICK reviewed \in SUBSET ET!Kinds :
         new = Append(etSnapshots, [says |-> says, from |-> from, reviewed |-> reviewed])
  BY DEF ET!Remember
<1>2. etSnapshots \in Seq([says : ETSays, from : Nat, reviewed : SUBSET ET!Kinds])
  BY DEF ETIInv, ETTypeOK
<1>3. /\ n \in Nat /\ DOMAIN etSnapshots = 1 .. n /\ DOMAIN new = 1 .. n + 1
      /\ \A j \in 1 .. n : new[j] = etSnapshots[j]
      /\ new[n + 1] = [says |-> says, from |-> from, reviewed |-> reviewed]
      /\ new \in Seq([says : ETSays, from : Nat, reviewed : SUBSET ET!Kinds])
  BY <1>1, <1>2
<1>4. ASSUME NEW j \in 1 .. n
      PROVE  /\ ETWhole(etSnapshots, j) => ETWhole(new, j)
             /\ ETLost(etSnapshots, j) => ETLost(new, j)
             /\ \A s : ETSupported(etSnapshots, s, j) => ETSupported(new, s, j)
  BY <1>3 DEF ETWhole, ETLost, ETSupported
<1>5. ETTypeOK'
  BY <1>3 DEF ETIInv, ETTypeOK
<1>6. ETProven(etSnapshots)'
  BY <1>3, <1>4 DEF ETIInv, ETTypeOK, ETProven
<1>7. ASSUME NEW i \in 1 .. n PROVE ETClaims(new, i)
  <2>1. new[i] = etSnapshots[i] /\ ETClaims(etSnapshots, i)
    BY <1>3 DEF ETIInv
  <2>2. etSnapshots[i].from \in 1 .. i - 1 => etSnapshots[i].from \in 1 .. n
    BY <1>3
  <2> QED  BY <1>4, <2>1, <2>2 DEF ETClaims
<1>8. ETClaims(new, n + 1)
  <2>1. from # 0 => from \in 1 .. n /\ from \in 1 .. (n + 1) - 1
    BY <1>3
  <2> QED  BY <1>3, <1>4, <2>1 DEF ETClaims
<1>9. \A i \in 1 .. n + 1 : ETClaims(new, i)
  <2> SUFFICES ASSUME NEW i \in 1 .. n + 1 PROVE ETClaims(new, i)  OBVIOUS
  <2>1. i \in 1 .. n \/ i = n + 1  BY <1>3
  <2> QED  BY <2>1, <1>7, <1>8
<1> QED  BY <1>3, <1>5, <1>6, <1>9 DEF ETIInv

\* What a proof of snapshot i shows.
LEMMA ETShown ==
  ASSUME ETIInv, NEW i, NEW kind, ET!Proven(i, kind)
  PROVE  /\ kind = "COMPLETE_EXPORT" => ETWhole(etSnapshots, i)
         /\ kind = "REVIEWED_RETENTION_LOSS" => ETLost(etSnapshots, i)
<1> DEFINE p == [of |-> i, kind |-> kind]
<1>1. p \in etProofs /\ p.of = i /\ p.kind = kind
  BY DEF ET!Proven
<1>2. ETProven(etSnapshots)
  BY DEF ETIInv
<1> HIDE DEF p
<1> QED  BY <1>1, <1>2 DEF ETProven

LEMMA ETElevatesIInv ==
  ASSUME ETIInv, NEW i \in DOMAIN etSnapshots, ET!ApplyComplete(i) \/ ET!ConfirmLoss(i)
  PROVE  ETIInv'
<1> DEFINE s == etSnapshots[i].says
<1>1. i \in 1 .. Len(etSnapshots) /\ s \in ETSays /\ ET!Valid(s)
  <2> DEFINE Snapshot == [says : ETSays, from : Nat, reviewed : SUBSET ET!Kinds]
  <2>0. etSnapshots \in Seq(Snapshot)  BY DEF ETIInv, ETTypeOK
  <2> HIDE DEF Snapshot
  <2>3. i \in 1 .. Len(etSnapshots) /\ etSnapshots[i] \in Snapshot  BY <2>0
  <2> USE DEF Snapshot
  <2>1. i \in 1 .. Len(etSnapshots) /\ etSnapshots[i].says \in ETSays  BY <2>3
  <2>2. ETClaims(etSnapshots, i)  BY DEF ETIInv
  <2> QED  BY <2>1, <2>2 DEF ETClaims
<1>2. CASE ET!ApplyComplete(i)
  <2> DEFINE t == [s EXCEPT !.completeness = "COMPLETE_VERIFIED", !.whole = TRUE,
                     !.known = TRUE, !.retention = "RETENTION_FLOOR_OBSERVED"]
  <2>1. ETWhole(etSnapshots, i)
    BY <1>2, ETShown DEF ET!ApplyComplete
  <2>2. ET!Remember(t, i) /\ UNCHANGED etProofs
    BY <1>2 DEF ET!ApplyComplete
  <2>3. t \in ETSays /\ ET!Valid(t)
    BY <1>1, <2>1 DEF ETSays, ET!Valid, ETWhole
  <2>4. ETSupported(etSnapshots, t, i)
    BY <1>1, <2>1 DEF ETSays, ETSupported, ETWhole
  <2> HIDE DEF t
  <2> QED  BY <1>1, <2>2, <2>3, <2>4, ETRememberIInv
<1>3. CASE ET!ConfirmLoss(i)
  <2> DEFINE t == [s EXCEPT !.gap = "RETENTION_LOSS_CONFIRMED", !.known = TRUE,
                     !.retention = "RETENTION_FLOOR_OBSERVED"]
  <2>1. ET!Remember(t, i) /\ UNCHANGED etProofs
    BY <1>3 DEF ET!ConfirmLoss
  <2>2. ETLost(etSnapshots, i)
    BY <1>3, ETShown DEF ET!ConfirmLoss
  <2>3. t \in ETSays /\ ET!Valid(t)
    BY <1>1 DEF ETSays, ET!Valid
  <2>4. ETSupported(etSnapshots, t, i)
    BY <1>1, <2>2 DEF ETSays, ETSupported
  <2> HIDE DEF t
  <2> QED  BY <1>1, <2>1, <2>3, <2>4, ETRememberIInv
<1> QED  BY <1>2, <1>3

LEMMA ETAcquireIInv == ASSUME ETIInv, ET!Acquire PROVE ETIInv'
<1>1. PICK r \in Responses :
         ET!Remember([response |-> r, gap |-> ET!Gap(r.page, r.since),
                      completeness |-> IF r.truncated = "yes" THEN "PARTIAL" ELSE "UNKNOWN",
                      retention |-> "RETENTION_FLOOR_UNKNOWN", whole |-> FALSE, known |-> FALSE], 0)
  BY DEF ET!Acquire
<1> DEFINE t == [response |-> r, gap |-> ET!Gap(r.page, r.since),
                 completeness |-> IF r.truncated = "yes" THEN "PARTIAL" ELSE "UNKNOWN",
                 retention |-> "RETENTION_FLOOR_UNKNOWN", whole |-> FALSE, known |-> FALSE]
<1>2. t \in ETSays /\ ET!Valid(t) /\ ~ETClaiming(t)
  BY DEF ETSays, ET!Valid, ET!Gap, ETClaiming
<1>3. UNCHANGED etProofs  BY DEF ET!Acquire
<1>4. Len(etSnapshots) \in Nat  BY DEF ETIInv, ETTypeOK
<1>5. ET!Remember(t, 0)  BY <1>1
<1> HIDE DEF t
<1> QED  BY <1>2, <1>3, <1>4, <1>5, ETRememberIInv

\* Proofs and tokens come and go; the snapshots stay.
LEMMA ETProvesIInv ==
  ASSUME ETIInv, NEW i \in DOMAIN etSnapshots,
         ET!Attest(i) \/ ET!Drop(i) \/ ET!IssueComplete(i) \/ ET!IssueRetention(i)
  PROVE  ETIInv'
<1>1. UNCHANGED etSnapshots
  BY DEF ET!Attest, ET!Drop, ET!IssueComplete, ET!IssueRetention
<1>2. etProofs' \subseteq etProofs \cup {[of |-> i, kind |-> "COMPLETE_EXPORT"],
                                         [of |-> i, kind |-> "REVIEWED_RETENTION_LOSS"]}
  BY DEF ET!Attest, ET!Drop, ET!IssueComplete, ET!IssueRetention
<1>3. [of |-> i, kind |-> "COMPLETE_EXPORT"] \in etProofs' \ etProofs => ETWhole(etSnapshots, i)
  BY DEF ET!Attest, ET!Drop, ET!IssueComplete, ET!IssueRetention, ETWhole, ET!Exported
<1>4. [of |-> i, kind |-> "REVIEWED_RETENTION_LOSS"] \in etProofs' \ etProofs => ETLost(etSnapshots, i)
  BY DEF ET!Attest, ET!Drop, ET!IssueComplete, ET!IssueRetention, ETLost, ET!Exported
<1>5. ETTypeOK'
  BY <1>1, <1>2 DEF ETIInv, ETTypeOK, ET!Kinds
<1>6. ETProven(etSnapshots)'
  BY <1>1, <1>2, <1>3, <1>4 DEF ETIInv, ETProven
<1> QED  BY <1>1, <1>5, <1>6 DEF ETIInv

LEMMA ETStepIInv == ASSUME ETIInv, [ET!Next]_etVars PROVE ETIInv'
<1>1. CASE UNCHANGED etVars
  <2>1. UNCHANGED <<etSnapshots, etProofs>>  BY <1>1 DEF etVars
  <2> QED  BY <2>1 DEF ETIInv, ETTypeOK, ETProven
<1>2. CASE ET!Next
  BY <1>2, ETAcquireIInv, ETProvesIInv, ETElevatesIInv DEF ET!Next
<1> QED  BY <1>1, <1>2

\* The evidence transport of the sum keeps its invariant.
THEOREM ETInvariance == Spec => [](machine = "EvidenceTransport" => ETIInv)
<1> DEFINE Inv == machine = "EvidenceTransport" => ETIInv
<1>1. Init => Inv
  BY ETInitIInv DEF Init
<1>2. Inv /\ [Next]_vars => Inv'
  <2> SUFFICES ASSUME Inv, [Next]_vars, machine' = "EvidenceTransport" PROVE ETIInv'
    OBVIOUS
  <2>1. machine = "EvidenceTransport" /\ [ET!Next]_etVars
    BY DEF Next, vars
  <2> QED  BY <2>1, ETStepIInv
<1>3. QED BY <1>1, <1>2, PTL DEF Spec

\* Absence is confirmed from a reviewed, unbroken and whole export alone, and
\* only a retention loss confirmed later leaves it standing; a loss is confirmed
\* from an export whose loss the review lists; no snapshot contradicts itself
\* (search, apply_completeness and confirm_retention_loss).
THEOREM Absence == Spec => []AbsenceIsReviewed
<1>1. (machine = "EvidenceTransport" => ETIInv) => AbsenceIsReviewed
  <2> SUFFICES ASSUME machine = "EvidenceTransport", ETIInv
               PROVE  ET!AbsenceIsReviewed /\ ET!LossIsReviewed /\ ET!ProjectionsAreValid
    BY DEF AbsenceIsReviewed
  <2>0. DOMAIN etSnapshots = 1 .. Len(etSnapshots) /\ Len(etSnapshots) \in Nat
    BY DEF ETIInv, ETTypeOK
  <2>1. ASSUME NEW i \in DOMAIN etSnapshots, NEW q,
               ET!Finding(etSnapshots[i].says, q) = "NOT_FOUND_CONFIRMED"
        PROVE  \E j \in 1 .. i - 1 :
                  /\ etSnapshots[i].from = j
                  /\ \/ ETWhole(etSnapshots, j)
                     \/ /\ etSnapshots[i].says.gap = "RETENTION_LOSS_CONFIRMED"
                        /\ ET!Finding(etSnapshots[j].says, q) = "NOT_FOUND_CONFIRMED"
    <3> DEFINE s == etSnapshots[i].says
               j == etSnapshots[i].from
               t == etSnapshots[j].says
    <3>1. s.completeness = "COMPLETE_VERIFIED" /\ s.gap \notin ET!Unresolved
          /\ ~\E n \in DOMAIN s.response.page : s.response.page[n] = q
      BY <2>1 DEF ET!Finding
    <3>2. j \in 1 .. i - 1 /\ ETSupported(etSnapshots, s, j)
      BY <3>1 DEF ETIInv, ETClaims, ETClaiming
    <3>3. CASE s.gap = "NO_GAP_OBSERVED"
      BY <3>1, <3>2, <3>3 DEF ETSupported
    <3>4. CASE s.gap = "RETENTION_LOSS_CONFIRMED"
      <4>1. t.response = s.response /\ t.completeness = "COMPLETE_VERIFIED"
        BY <3>1, <3>2, <3>4 DEF ETSupported
      <4>2. j \in DOMAIN etSnapshots
        BY <2>0, <3>2
      <4>3. t.gap \in {"NO_GAP_OBSERVED", "RETENTION_LOSS_CONFIRMED"}
        BY <4>1, <4>2 DEF ETIInv, ETClaims, ETClaiming, ETSupported
      <4>4. ET!Finding(t, q) = "NOT_FOUND_CONFIRMED"
        BY <3>1, <4>1, <4>3 DEF ET!Finding, ET!Unresolved
      <4> QED  BY <3>2, <3>4, <4>4
    <3>5. s.gap \in {"NO_GAP_OBSERVED", "RETENTION_LOSS_CONFIRMED"}
      BY <3>1, <3>2 DEF ETSupported
    <3> QED  BY <3>3, <3>4, <3>5
  <2>2. ET!AbsenceIsReviewed
    BY <2>1 DEF ET!AbsenceIsReviewed, ETWhole, ET!Exported
  <2>3. ASSUME NEW i \in DOMAIN etSnapshots, etSnapshots[i].says.gap = "RETENTION_LOSS_CONFIRMED"
        PROVE  \E j \in 1 .. i - 1 : etSnapshots[i].from = j /\ ETLost(etSnapshots, j)
    BY <2>3 DEF ETIInv, ETClaims, ETClaiming, ETSupported
  <2>4. ET!LossIsReviewed
    BY <2>3 DEF ET!LossIsReviewed, ETLost, ET!Exported
  <2>5. ET!ProjectionsAreValid
    BY DEF ET!ProjectionsAreValid, ETIInv, ETClaims
  <2> QED  BY <2>2, <2>4, <2>5
<1>2. QED BY <1>1, ETInvariance, PTL

-----------------------------------------------------------------------------
(* The evidence authority: what an issued record is made of, and what the  *)
(* two assessors of an export can make of the same lines.                  *)

\* The lines of an export, in order, and the positions of those that count.
LEMMA ExportLines ==
  ASSUME NEW raw \in Exports
  PROVE  /\ Len(raw) \in Nat /\ DOMAIN raw = 1 .. Len(raw)
         /\ \A i \in DOMAIN raw : raw[i].seq \in Int
<1> DEFINE Lines == UNION {{r[i] : i \in DOMAIN r} : r \in Exports}
<1>1. raw \in Seq(Lines) /\ \A line \in Lines : line.seq \in Int
  BY ExportAssumption
<1>2. \A i \in DOMAIN raw : raw[i] \in Lines
  OBVIOUS
<1> HIDE DEF Lines
<1> QED  BY <1>1, <1>2

\* A sequence of numbers each of which is below the next is in order.
LEMMA StepsAscend ==
  ASSUME NEW n \in Nat, NEW f, \A i \in 1 .. n : f[i] \in Int,
         \A i \in 1 .. n : i + 1 \in 1 .. n => f[i] < f[i + 1],
         NEW i \in 1 .. n, NEW j \in 1 .. n, i < j
  PROVE  f[i] < f[j]
<1> DEFINE Bad == {d \in Nat : d > 0 /\ i + d <= n /\ ~(f[i] < f[i + d])}
<1>1. SUFFICES ASSUME Bad # {} PROVE FALSE
  <2>1. j - i \in Nat /\ j - i > 0 /\ i + (j - i) = j /\ j <= n  OBVIOUS
  <2>2. j - i \notin Bad => f[i] < f[i + (j - i)]  BY <2>1
  <2> QED  BY <2>1, <2>2
<1>2. PICK d \in Bad : \A e \in Bad : d <= e
  BY <1>1, LeastNat
<1>3. d \in Nat /\ d > 0 /\ i + d <= n /\ ~(f[i] < f[i + d])
  BY <1>2
<1>4. d - 1 \notin Bad
  BY <1>2, <1>3
<1>5. CASE d = 1
  BY <1>3, <1>5
<1>6. CASE d > 1
  <2>1. f[i] < f[i + (d - 1)]
    BY <1>3, <1>4, <1>6
  <2>2. /\ i + (d - 1) \in 1 .. n /\ i + d \in 1 .. n /\ (i + (d - 1)) + 1 = i + d
    BY <1>3, <1>6
  <2>3. f[i + (d - 1)] < f[i + d]
    BY <2>2
  <2>4. f[i] \in Int /\ f[i + (d - 1)] \in Int /\ f[i + d] \in Int
    BY <2>2
  <2> QED  BY <1>3, <2>1, <2>3, <2>4
<1> QED  BY <1>3, <1>5, <1>6

\* Neighbours among the numbers up to n are one apart.
LEMMA AdjacentNumbers ==
  ASSUME NEW n \in Nat, NEW i \in 1 .. n, NEW j \in 1 .. n
  PROVE  EA!Adjacent(1 .. n, i, j) <=> j = i + 1
<1>1. ASSUME EA!Adjacent(1 .. n, i, j) PROVE j = i + 1
  <2>1. i < j /\ \A k \in 1 .. n : k <= i \/ j <= k
    BY <1>1 DEF EA!Adjacent
  <2>2. i + 1 \in 1 .. n  BY <2>1
  <2> QED  BY <2>1, <2>2
<1>2. ASSUME j = i + 1 PROVE EA!Adjacent(1 .. n, i, j)
  BY <1>2 DEF EA!Adjacent
<1> QED  BY <1>1, <1>2

\* An assessor that finds nothing wrong with the lines has counted them all.
LEMMA NoLineIssues ==
  ASSUME NEW raw, NEW at, at \subseteq DOMAIN raw, EA!LineIssues(raw, at) = {}
  PROVE  at = DOMAIN raw
BY DEF EA!LineIssues, EA!When

\* Where no number is repeated or reversed, all lines counted, each is above
\* the one before.
LEMMA LinesAscend ==
  ASSUME NEW raw \in Exports, ~EA!Repeats(raw, DOMAIN raw), ~EA!Reversed(raw, DOMAIN raw),
         NEW i \in 1 .. Len(raw), i + 1 \in 1 .. Len(raw)
  PROVE  raw[i].seq < raw[i + 1].seq
<1>1. /\ Len(raw) \in Nat /\ DOMAIN raw = 1 .. Len(raw)
      /\ raw[i].seq \in Int /\ raw[i + 1].seq \in Int
  BY ExportLines
<1>2. EA!Adjacent(DOMAIN raw, i, i + 1)
  BY <1>1, AdjacentNumbers
<1>3. ~(raw[i + 1].seq < raw[i].seq)
  BY <1>1, <1>2 DEF EA!Reversed
<1>4. raw[i].seq # raw[i + 1].seq
  BY <1>1 DEF EA!Repeats
<1> QED  BY <1>1, <1>3, <1>4

\* There, a gap between neighbouring lines is one between neighbouring numbers.
LEMMA SameGaps ==
  ASSUME NEW raw \in Exports, ~EA!Repeats(raw, DOMAIN raw), ~EA!Reversed(raw, DOMAIN raw)
  PROVE  LET numbers == {raw[i].seq : i \in DOMAIN raw} IN
         (\E i, j \in DOMAIN raw : EA!Adjacent(DOMAIN raw, i, j) /\ raw[j].seq - raw[i].seq > 1)
            <=> (\E m, n \in numbers : EA!Adjacent(numbers, m, n) /\ n - m > 1)
<1> DEFINE n == Len(raw)
           f == [i \in 1 .. n |-> raw[i].seq]
           numbers == {raw[i].seq : i \in DOMAIN raw}
<1>1. n \in Nat /\ DOMAIN raw = 1 .. n /\ \A i \in 1 .. n : f[i] = raw[i].seq /\ f[i] \in Int
  BY ExportLines
<1>2. \A i \in 1 .. n : i + 1 \in 1 .. n => f[i] < f[i + 1]
  BY <1>1, LinesAscend
<1>3. numbers = {f[i] : i \in 1 .. n}
  BY <1>1
<1> HIDE DEF n, f, numbers
<1>4. \A i, j \in 1 .. n : i < j => f[i] < f[j]
  BY <1>1, <1>2, StepsAscend
<1>5. ASSUME NEW i \in 1 .. n, NEW j \in 1 .. n, EA!Adjacent(1 .. n, i, j), f[j] - f[i] > 1
      PROVE  EA!Adjacent(numbers, f[i], f[j])
  <2>1. j = i + 1  BY <1>1, <1>5, AdjacentNumbers
  <2>2. f[i] < f[j]  BY <1>2, <2>1
  <2>3. ASSUME NEW k \in 1 .. n PROVE f[k] <= f[i] \/ f[j] <= f[k]
    <3>1. k < i \/ k = i \/ k = j \/ k > j  BY <1>1, <2>1
    <3>2. k < i => f[k] < f[i]  BY <1>4
    <3>3. k > j => f[j] < f[k]  BY <1>4
    <3> QED  BY <1>1, <3>1, <3>2, <3>3
  <2> QED  BY <1>3, <2>2, <2>3 DEF EA!Adjacent
<1>6. ASSUME NEW a \in 1 .. n, NEW b \in 1 .. n, EA!Adjacent(numbers, f[a], f[b]), f[b] - f[a] > 1
      PROVE  \E i, j \in 1 .. n : EA!Adjacent(1 .. n, i, j) /\ f[j] - f[i] > 1
  <2>1. f[a] < f[b] /\ \A k \in 1 .. n : f[k] <= f[a] \/ f[b] <= f[k]
    BY <1>3, <1>6 DEF EA!Adjacent
  <2>2. a < b
    <3>1. a = b \/ b < a \/ a < b  BY <1>1
    <3>2. b < a => f[b] < f[a]  BY <1>4
    <3> QED  BY <1>1, <2>1, <3>1, <3>2
  <2>3. a + 1 \in 1 .. n  BY <1>1, <2>2
  <2>4. f[a] < f[a + 1]  BY <1>2, <2>3
  <2>5. f[b] <= f[a + 1]  BY <1>1, <2>1, <2>3, <2>4
  <2>6. f[a + 1] - f[a] > 1  BY <1>1, <1>6, <2>3, <2>5
  <2>7. EA!Adjacent(1 .. n, a, a + 1)  BY <1>1, <2>3, AdjacentNumbers
  <2> QED  BY <2>3, <2>6, <2>7
<1>7. (\E i, j \in 1 .. n : EA!Adjacent(1 .. n, i, j) /\ f[j] - f[i] > 1)
        <=> (\E x, y \in numbers : EA!Adjacent(numbers, x, y) /\ y - x > 1)
  BY <1>3, <1>5, <1>6
<1>8. (\E i, j \in DOMAIN raw : EA!Adjacent(DOMAIN raw, i, j) /\ raw[j].seq - raw[i].seq > 1)
        <=> (\E i, j \in 1 .. n : EA!Adjacent(1 .. n, i, j) /\ f[j] - f[i] > 1)
  BY <1>1
<1> QED  BY <1>7, <1>8 DEF numbers

\* On lines whose numbers are all strings the two assessors agree whether
\* anything is wrong, and whether the structure is.
LEMMA AssessorsAgree ==
  ASSUME NEW raw \in Exports, NEW generation, \A i \in DOMAIN raw : raw[i].text
  PROVE  LET sealed == EA!Sealed(raw, generation).issues
             public == EA!Public(raw, generation).issues
         IN /\ (sealed = {}) = (public = {})
            /\ EA!Structure(sealed) = EA!Structure(public)
<1> DEFINE at == {i \in DOMAIN raw : EA!Numbered(raw[i])}
           numbers == {raw[i].seq : i \in at}
           Lines == EA!LineIssues(raw, at)
           Before == EA!When(EA!Repeats(raw, at), "DUPLICATE_SEQUENCE")
                       \cup EA!When(EA!Reversed(raw, at), "SEQUENCE_REVERSAL")
           After == EA!When(EA!Mixed(raw, at, generation), "GENERATION_INCONSISTENT")
           GapS == \E i, j \in at : EA!Adjacent(at, i, j) /\ raw[j].seq - raw[i].seq > 1
           GapP == \E m, n \in numbers : EA!Adjacent(numbers, m, n) /\ n - m > 1
           sealed == EA!Sealed(raw, generation).issues
           public == EA!Public(raw, generation).issues
           Others == (Lines \cup Before) \cup After
<1>1. {i \in DOMAIN raw : EA!Numbered(raw[i]) /\ raw[i].text} = at
  OBVIOUS
<1>2. public = ((Lines \cup Before) \cup EA!When(GapP, "SEQUENCE_GAP")) \cup After
  BY DEF EA!Public
<1>3. sealed = ((Lines \cup Before) \cup EA!When(GapS, "SEQUENCE_GAP")) \cup After
  BY <1>1 DEF EA!Sealed
<1>4. Others = {} => GapS <=> GapP
  <2> SUFFICES ASSUME Others = {} PROVE GapS <=> GapP  OBVIOUS
  <2>1. Lines = {} /\ Before = {}  OBVIOUS
  <2>2. at = DOMAIN raw  BY <2>1, NoLineIssues
  <2>3. ~EA!Repeats(raw, at) /\ ~EA!Reversed(raw, at)  BY <2>1 DEF EA!When
  <2> QED  BY <2>2, <2>3, SameGaps
<1> HIDE DEF Lines, Before, After, GapS, GapP, sealed, public, at, numbers
<1>5. sealed = Others \cup EA!When(GapS, "SEQUENCE_GAP")
      /\ public = Others \cup EA!When(GapP, "SEQUENCE_GAP")
  BY <1>2, <1>3
<1>6. (sealed = {}) = (public = {})
  <2> HIDE DEF Others
  <2> QED  BY <1>4, <1>5 DEF EA!When
<1>7. EA!Structure(sealed) = EA!Structure(public)
  <2> HIDE DEF Others
  <2>1. (sealed \subseteq {"SEQUENCE_GAP"}) <=> (public \subseteq {"SEQUENCE_GAP"})
    BY <1>5 DEF EA!When
  <2> QED  BY <2>1 DEF EA!Structure
<1> QED  BY <1>6, <1>7 DEF sealed, public

\* The descriptive report is all true of exactly the agreements the authority
\* would accept.
LEMMA ReportIsVerdict ==
  ASSUME NEW p, NEW a
  PROVE  (\A status \in DOMAIN EA!Report(p, a) : EA!Report(p, a)[status])
            <=> EA!OfferVerified(p) /\ EA!AcceptanceVerified(p, a)
<1> DEFINE S == EA!Encodes(p) /\ p.signed /\ EA!AcceptanceEncodes(a) /\ a.signed
           I == EA!Encodes(p) /\ p.own /\ EA!AcceptanceEncodes(a) /\ a.own
           C == /\ p.proposer # p.counterparty
                /\ a.accepter = p.counterparty /\ a.proposer = p.proposer
                /\ a.offer = (IF p.own THEN EA!OfferId(p) ELSE None)
                /\ a.protocol = p.protocol
           T == p.locked /\ a.statement = "ACCEPT"
<1>1. EA!Report(p, a) = [signatures |-> S, ids |-> I, counterparty |-> C, semantics |-> T]
  BY DEF EA!Report
<1>2. (S /\ I /\ C /\ T) <=> EA!OfferVerified(p) /\ EA!AcceptanceVerified(p, a)
  <2>1. EA!Encodes(p) => p.proposer # p.counterparty  BY DEF EA!Encodes
  <2> QED  BY <2>1 DEF EA!OfferVerified, EA!AcceptanceVerified
<1> HIDE DEF S, I, C, T
<1>3. (\A status \in DOMAIN EA!Report(p, a) : EA!Report(p, a)[status]) <=> S /\ I /\ C /\ T
  BY <1>1
<1> QED  BY <1>2, <1>3

\* A transcript in which the sealed assessor finds nothing wrong is consecutive.
LEMMA SealedIsWhole ==
  ASSUME NEW p, p.raw \in Exports, EA!Complete(p)
  PROVE  /\ p.raw # <<>> => p.last - p.first + 1 = Len(p.raw)
         /\ \A i \in DOMAIN p.raw :
               p.raw[i].seq = p.first + i - 1 /\ p.raw[i].generation \in {p.generation, None}
<1> DEFINE raw == p.raw
           at == {i \in DOMAIN raw : EA!Numbered(raw[i]) /\ raw[i].text}
           issues == EA!Sealed(raw, p.generation).issues
           n == Len(raw)
<1>1. n \in Nat /\ DOMAIN raw = 1 .. n /\ \A i \in 1 .. n : raw[i].seq \in Int
  BY ExportLines
<1>2. /\ issues = {} /\ p.generation # None
      /\ EA!Sealed(raw, p.generation).at = at
      /\ \A i \in at : (\A k \in at : i <= k) => p.first = raw[i].seq
      /\ \A i \in at : (\A k \in at : k <= i) => p.last = raw[i].seq
  BY DEF EA!Complete, EA!Sealed
<1>3. /\ EA!LineIssues(raw, at) = {}
      /\ ~EA!Repeats(raw, at) /\ ~EA!Reversed(raw, at)
      /\ ~\E i, j \in at : EA!Adjacent(at, i, j) /\ raw[j].seq - raw[i].seq > 1
      /\ ~EA!Mixed(raw, at, p.generation)
  BY <1>2 DEF EA!Sealed, EA!When
<1>4. at = DOMAIN raw
  BY <1>3, NoLineIssues
<1> HIDE DEF at, issues, n, raw
<1>5. \A i \in 1 .. n : i + 1 \in 1 .. n => raw[i + 1].seq = raw[i].seq + 1
  <2> SUFFICES ASSUME NEW i \in 1 .. n, i + 1 \in 1 .. n PROVE raw[i + 1].seq = raw[i].seq + 1
    OBVIOUS
  <2>1. raw[i].seq < raw[i + 1].seq
    BY <1>1, <1>3, <1>4, LinesAscend DEF raw, n
  <2>2. EA!Adjacent(1 .. n, i, i + 1)
    BY <1>1, AdjacentNumbers
  <2>3. ~(raw[i + 1].seq - raw[i].seq > 1)
    BY <1>1, <1>3, <1>4, <2>2
  <2> QED  BY <1>1, <2>1, <2>3
<1>6. n > 0 => p.first = raw[1].seq /\ p.last = raw[n].seq
  <2> SUFFICES ASSUME n > 0 PROVE p.first = raw[1].seq /\ p.last = raw[n].seq  OBVIOUS
  <2>1. 1 \in at /\ n \in at /\ \A k \in at : 1 <= k /\ k <= n  BY <1>1, <1>4
  <2> QED  BY <1>2, <2>1
<1>7. \A i \in 1 .. n : raw[i].seq = p.first + i - 1
  <2> DEFINE Bad == {i \in Nat : i \in 1 .. n /\ raw[i].seq # p.first + i - 1}
  <2>1. SUFFICES ASSUME Bad # {} PROVE FALSE  BY <1>1
  <2>2. PICK i \in Bad : \A k \in Bad : i <= k  BY <2>1, LeastNat
  <2>3. i \in 1 .. n /\ n > 0 /\ raw[i].seq # p.first + i - 1  BY <1>1, <2>2
  <2>4. i # 1  BY <1>1, <1>6, <2>3
  <2>5. i - 1 \in 1 .. n /\ (i - 1) + 1 = i  BY <1>1, <2>3, <2>4
  <2>6. raw[i - 1].seq = p.first + (i - 1) - 1  BY <2>2, <2>5
  <2>7. raw[i].seq = raw[i - 1].seq + 1  BY <1>5, <2>3, <2>5
  <2>8. p.first \in Int  BY <1>1, <1>6, <2>3
  <2> QED  BY <2>3, <2>6, <2>7, <2>8
<1>8. \A i \in 1 .. n : raw[i].generation \in {p.generation, None}
  <2>1. EA!Generations(raw, at) \in {{}, {p.generation}}
    BY <1>2, <1>3 DEF EA!Mixed
  <2> QED  BY <1>1, <1>4, <2>1 DEF EA!Generations
<1>9. raw # <<>> => p.last - p.first + 1 = n
  <2> SUFFICES ASSUME raw # <<>> PROVE p.last - p.first + 1 = n  OBVIOUS
  <2>1. n > 0
    <3> DEFINE Lines == UNION {{r[i] : i \in DOMAIN r} : r \in Exports}
    <3>1. raw \in Seq(Lines)  BY ExportAssumption DEF raw
    <3> HIDE DEF Lines
    <3> QED  BY <3>1 DEF n
  <2>2. p.first \in Int /\ p.last = p.first + n - 1  BY <1>1, <1>6, <1>7, <2>1
  <2> QED  BY <1>1, <2>2
<1> QED  BY <1>1, <1>7, <1>8, <1>9 DEF raw, n

\* What is acquired was exported, what is complete is whole, and the records of
\* an agreement and a settlement say what their identifiers say.
EARecords ==
    /\ \A p \in eaAcquired : p.raw \in Exports
    /\ \A a \in eaAgreements :
          /\ a.id[1] = EA!OfferId(a.offer)
          /\ a.rail = EA!Canonical(a.offer.rail) /\ a.reference = a.offer.reference
    /\ \A f \in eaFinality :
          /\ f.agreement[1][5] = EA!Canonical(f.of.rail) /\ f.agreement[1][6] = f.of.reference
          /\ EA!Canonical(f.of.rail) # "PAPER"
          /\ f.artifact[5] = f.of

EAIInv == EARecords /\ EA!CompleteMeansWhole /\ EA!BundlesHangTogether

LEMMA EAInitIInv == EA!Init => EAIInv
BY DEF EA!Init, EA!NoBundle, EAIInv, EARecords, EA!CompleteMeansWhole, EA!BundlesHangTogether

\* A transcript is acquired as it was exported, and found complete if it is whole.
LEMMA EATranscriptsIInv ==
  ASSUME EAIInv, NEW p \in Policy, EA!Acquire(p) \/ EA!Complete(p)
  PROVE  EAIInv'
<1>1. CASE EA!Acquire(p)
  BY <1>1 DEF EA!Acquire, EAIInv, EARecords, EA!CompleteMeansWhole, EA!BundlesHangTogether
<1>2. CASE EA!Complete(p)
  <2>1. /\ p \in eaAcquired /\ eaComplete' = eaComplete \cup {p}
        /\ UNCHANGED <<eaAcquired, eaAgreements, eaFinality, eaBundle>>
    BY <1>2 DEF EA!Complete
  <2>2. p.raw \in Exports
    BY <2>1 DEF EAIInv, EARecords
  <2>3. EA!CompleteMeansWhole'
    BY <1>2, <2>1, <2>2, SealedIsWhole DEF EAIInv, EA!CompleteMeansWhole
  <2> QED  BY <2>1, <2>3 DEF EAIInv, EARecords, EA!BundlesHangTogether
<1> QED  BY <1>1, <1>2

\* The id of an agreement keeps the rail and the reference of its offer.
LEMMA EAAgreeIInv ==
  ASSUME EAIInv, NEW p \in Proposals, NEW a \in Acceptances, EA!Agree(p, a)
  PROVE  EAIInv'
<1> DEFINE new == [id |-> EA!AgreementId(a), rail |-> EA!Canonical(p.rail),
                   reference |-> p.reference, offer |-> p]
<1>1. /\ eaAgreements' = eaAgreements \cup {new}
      /\ UNCHANGED <<eaAcquired, eaComplete, eaFinality, eaBundle>>
      /\ a.offer = EA!OfferId(p)
  BY DEF EA!Agree, EA!AcceptanceVerified
<1>2. new.id[1] = EA!OfferId(new.offer) /\ new.rail = EA!Canonical(new.offer.rail)
      /\ new.reference = new.offer.reference
  BY <1>1 DEF EA!AgreementId
<1> HIDE DEF new
<1>3. EARecords'
  BY <1>1, <1>2 DEF EAIInv, EARecords
<1> QED  BY <1>1, <1>3 DEF EAIInv, EA!CompleteMeansWhole, EA!BundlesHangTogether

\* A settlement is of the agreement's rail and reference, which its id keeps.
LEMMA EAFinalizeIInv ==
  ASSUME EAIInv, NEW agreement \in eaAgreements, NEW o \in Observations,
         EA!Finalize(agreement, o)
  PROVE  EAIInv'
<1> DEFINE new == [agreement |-> agreement.id, rail |-> EA!Canonical(o.rail),
                   reference |-> o.reference, of |-> o,
                   artifact |-> EA!Artifact(agreement, o)]
<1>1. /\ eaFinality' = eaFinality \cup {new}
      /\ UNCHANGED <<eaAcquired, eaComplete, eaAgreements, eaBundle>>
  BY DEF EA!Finalize
<1>2. /\ EA!Canonical(o.rail) # "PAPER"
      /\ agreement.rail = EA!Canonical(o.rail) /\ agreement.reference = o.reference
  BY DEF EA!Finalize, EA!Settles
<1>3. /\ agreement.id[1] = EA!OfferId(agreement.offer)
      /\ agreement.rail = EA!Canonical(agreement.offer.rail)
      /\ agreement.reference = agreement.offer.reference
  BY DEF EAIInv, EARecords
<1>4. agreement.id[1][5] = EA!Canonical(o.rail) /\ agreement.id[1][6] = o.reference
  BY <1>2, <1>3 DEF EA!OfferId
<1>5. /\ new.agreement[1][5] = EA!Canonical(new.of.rail)
      /\ new.agreement[1][6] = new.of.reference
      /\ EA!Canonical(new.of.rail) # "PAPER" /\ new.artifact[5] = new.of
  BY <1>2, <1>4 DEF EA!Artifact
<1> HIDE DEF new
<1>6. EARecords'
  BY <1>1, <1>5 DEF EAIInv, EARecords
<1> QED  BY <1>1, <1>6 DEF EAIInv, EA!CompleteMeansWhole, EA!BundlesHangTogether

\* Parts that fit are of one agreement, whose id tells what was settled.
LEMMA EAIssueIInv == ASSUME EAIInv, EA!Issue PROVE EAIInv'
<1>1. PICK c \in eaComplete \cup {None}, a \in eaAgreements \cup {None},
           f \in eaFinality \cup {None}, r \in eaReadbacks \cup {None} :
         /\ EA!Fits(c, a, f, r)
         /\ eaBundle' = [complete |-> c, agreement |-> a, finality |-> f, readback |-> r]
         /\ UNCHANGED <<eaAcquired, eaComplete, eaAgreements, eaFinality, eaReadbacks>>
  BY DEF EA!Issue
<1>2. f # None =>
        /\ a # None /\ f.agreement = a.id /\ f.of.reference = a.offer.reference
        /\ EA!Canonical(f.of.rail) = EA!Canonical(a.offer.rail)
        /\ EA!Canonical(f.of.rail) # "PAPER" /\ f.artifact[5] = f.of
  <2> SUFFICES ASSUME f # None
               PROVE  /\ a # None /\ f.agreement = a.id /\ f.of.reference = a.offer.reference
                      /\ EA!Canonical(f.of.rail) = EA!Canonical(a.offer.rail)
                      /\ EA!Canonical(f.of.rail) # "PAPER" /\ f.artifact[5] = f.of
    OBVIOUS
  <2>1. a # None /\ f.agreement = a.id
    BY <1>1 DEF EA!Fits
  <2>2. /\ f.agreement[1][5] = EA!Canonical(f.of.rail) /\ f.agreement[1][6] = f.of.reference
        /\ EA!Canonical(f.of.rail) # "PAPER" /\ f.artifact[5] = f.of
    BY DEF EAIInv, EARecords
  <2>3. a.id[1] = EA!OfferId(a.offer)
    BY <2>1 DEF EAIInv, EARecords
  <2>4. a.id[1][5] = EA!Canonical(a.offer.rail) /\ a.id[1][6] = a.offer.reference
    BY <2>3 DEF EA!OfferId
  <2> QED  BY <2>1, <2>2, <2>4
<1>3. r # None => f # None /\ r.artifact[5] = f.of /\ r.agreement = a.id
  BY <1>1, <1>2 DEF EA!Fits
<1>4. EA!BundlesHangTogether'
  BY <1>1, <1>2, <1>3 DEF EA!BundlesHangTogether
<1> QED  BY <1>1, <1>4 DEF EAIInv, EARecords, EA!CompleteMeansWhole

LEMMA EAStepIInv == ASSUME EAIInv, [EA!Next]_eaVars PROVE EAIInv'
<1>1. CASE UNCHANGED eaVars
  BY <1>1 DEF eaVars, EAIInv, EARecords, EA!CompleteMeansWhole, EA!BundlesHangTogether
<1>2. ASSUME NEW f \in eaFinality, NEW artifact, NEW events, EA!ReadBack(f, artifact, events)
      PROVE  EAIInv'
  BY <1>2 DEF EA!ReadBack, EAIInv, EARecords, EA!CompleteMeansWhole, EA!BundlesHangTogether
<1>3. CASE EA!Next
  BY <1>2, <1>3, EATranscriptsIInv, EAAgreeIInv, EAFinalizeIInv, EAIssueIInv DEF EA!Next
<1> QED  BY <1>1, <1>3

\* The evidence authority of the sum keeps its invariant.
THEOREM EAInvariance == Spec => [](machine = "EvidenceAuthority" => EAIInv)
<1> DEFINE Inv == machine = "EvidenceAuthority" => EAIInv
<1>1. Init => Inv
  BY EAInitIInv DEF Init
<1>2. Inv /\ [Next]_vars => Inv'
  <2> SUFFICES ASSUME Inv, [Next]_vars, machine' = "EvidenceAuthority" PROVE EAIInv'
    OBVIOUS
  <2>1. machine = "EvidenceAuthority" /\ [EA!Next]_eaVars
    BY DEF Next, vars
  <2> QED  BY <2>1, EAStepIInv
<1>3. QED BY <1>1, <1>2, PTL DEF Spec

\* A bundle shows the agreement it settles and the settlement it read back, a
\* complete transcript is whole, and the two checkers of each kind agree.
THEOREM Bundles == Spec => []BundlesHangTogether
<1>1. (machine = "EvidenceAuthority" => EAIInv) => BundlesHangTogether
  <2> SUFFICES ASSUME EAIInv
               PROVE  EA!BundlesHangTogether /\ EA!CompleteMeansWhole /\ EA!ReportsMatch
    BY DEF BundlesHangTogether
  <2>1. EA!ReportsMatch
    <3>1. \A p \in eaAcquired : p.raw \in Exports
      BY DEF EAIInv, EARecords
    <3> QED  BY <3>1, ReportIsVerdict, AssessorsAgree DEF EA!ReportsMatch
  <2> QED  BY <2>1 DEF EAIInv
<1>2. QED BY <1>1, EAInvariance, PTL
==============================================================================
