---------------------- MODULE RegistrationHandoffProofs ----------------------
(***************************************************************************)
(* Proofs about the registration hand-off, for any number of processes and *)
(* approvals.  IInv is the inductive invariant: who holds the lock, what   *)
(* the lock holder is appending, that the durable journal is a prefix of   *)
(* the visible one, and what the counters say about the durable journal.   *)
(***************************************************************************)
EXTENDS RegistrationHandoff, SequenceTheorems, TLAPS

-----------------------------------------------------------------------------
(* Lemmas on prefixes.                                                     *)

\* IsPrefix, element by element.
LEMMA PrefixDef ==
    ASSUME NEW S, NEW s \in Seq(S), NEW t \in Seq(S)
    PROVE  IsPrefix(s, t) <=> Len(s) <= Len(t) /\ \A i \in 1..Len(s) : s[i] = t[i]
<1>1. CASE Len(s) <= Len(t)
  <2>1. SubSeq(s, 1, Len(s)) = s
    BY SubSeqFull
  <2>2. /\ SubSeq(t, 1, Len(s)) \in Seq(S)
        /\ Len(SubSeq(t, 1, Len(s))) = Len(s)
        /\ \A i \in 1..Len(s) : SubSeq(t, 1, Len(s))[i] = t[i]
    BY <1>1, LenProperties, SubSeqProperties
  <2>3. SubSeq(t, 1, Len(s)) = s <=> \A i \in 1..Len(s) : s[i] = t[i]
    BY <2>2, SeqEqual, LenProperties
  <2> QED BY <1>1, <2>1, <2>3 DEF IsPrefix
<1>2. CASE ~(Len(s) <= Len(t))
  BY <1>2 DEF IsPrefix
<1> QED BY <1>1, <1>2

\* A sequence is a prefix of itself and of its extension by one element.
LEMMA PrefixAppend ==
    ASSUME NEW S, NEW s \in Seq(S), NEW t \in Seq(S), NEW e \in S,
           IsPrefix(s, t)
    PROVE  IsPrefix(s, Append(t, e))
<1>1. /\ Append(t, e) \in Seq(S)
      /\ Len(Append(t, e)) = Len(t) + 1
      /\ \A i \in 1..Len(t) : Append(t, e)[i] = t[i]
  BY AppendProperties
<1>2. Len(s) <= Len(t) /\ \A i \in 1..Len(s) : s[i] = t[i]
  BY PrefixDef
<1>3. Len(s) \in Nat /\ Len(t) \in Nat
  BY LenProperties
<1>4. Len(s) <= Len(Append(t, e)) /\ \A i \in 1..Len(s) : s[i] = Append(t, e)[i]
  BY <1>1, <1>2, <1>3
<1> QED BY <1>1, <1>4, PrefixDef

LEMMA PrefixReflexive ==
    ASSUME NEW S, NEW s \in Seq(S)
    PROVE  IsPrefix(s, s)
BY PrefixDef, LenProperties

\* What a power loss leaves, cut anywhere after a prefix, still has the prefix.
LEMMA PrefixCut ==
    ASSUME NEW S, NEW s \in Seq(S), NEW t \in Seq(S), IsPrefix(s, t),
           NEW n \in Len(s)..Len(t)
    PROVE  /\ SubSeq(t, 1, n) \in Seq(S)
           /\ IsPrefix(s, SubSeq(t, 1, n))
<1>1. Len(s) <= Len(t) /\ \A i \in 1..Len(s) : s[i] = t[i]
  BY PrefixDef
<1>2. Len(s) \in Nat /\ Len(t) \in Nat /\ n \in Nat
  BY LenProperties
<1>3. /\ SubSeq(t, 1, n) \in Seq(S)
      /\ Len(SubSeq(t, 1, n)) = n
      /\ \A i \in 1..n : SubSeq(t, 1, n)[i] = t[i]
  BY <1>2, SubSeqProperties
<1>4. Len(s) <= n /\ \A i \in 1..Len(s) : s[i] = SubSeq(t, 1, n)[i]
  BY <1>1, <1>2, <1>3
<1> QED BY <1>3, <1>4, PrefixDef

\* A state recorded in a prefix is recorded in the longer journal.
LEMMA HoldsMonotone ==
    ASSUME NEW j \in Seq(Record), NEW k \in Seq(Record), IsPrefix(j, k),
           NEW s, Holds(j, s)
    PROVE  Holds(k, s)
<1>1. Len(j) <= Len(k) /\ \A i \in 1..Len(j) : j[i] = k[i]
  BY PrefixDef
<1>2. DOMAIN j = 1..Len(j) /\ DOMAIN k = 1..Len(k) /\ Len(j) \in Nat /\ Len(k) \in Nat
  BY LenProperties
<1>3. PICK i \in DOMAIN j : j[i].state = s
  BY DEF Holds
<1>4. i \in DOMAIN k /\ k[i].state = s
  BY <1>1, <1>2, <1>3
<1> QED BY <1>4 DEF Holds

-----------------------------------------------------------------------------
(* Lemmas on what the decoder accepts.                                     *)

\* A record that follows the last state under the same approval is accepted.
LEMMA DecodesAppend ==
    ASSUME NEW j \in Seq(Record), NEW r \in Record, Decodes(j),
           r.state \in NextStates(StateOf(j)),
           j # <<>> => r.approval = j[1].approval
    PROVE  Decodes(Append(j, r))
<1> DEFINE k == Append(j, r)
<1>1. /\ k \in Seq(Record)
      /\ Len(k) = Len(j) + 1
      /\ \A i \in 1..Len(j) : k[i] = j[i]
      /\ k[Len(j) + 1] = r
  BY AppendProperties
<1>2. /\ DOMAIN k = 1..Len(k) /\ DOMAIN j = 1..Len(j) /\ Len(j) \in Nat
      /\ (j = <<>> <=> Len(j) = 0)
  BY <1>1, LenProperties, EmptySeq
<1> HIDE DEF k
<1>3. ASSUME NEW i \in 1..Len(j)
      PROVE  k[i].state \in NextStates(StateBefore(k, i)) /\ k[i].approval = k[1].approval
  <2>1. StateBefore(k, i) = StateBefore(j, i)
    BY <1>1, <1>2 DEF StateBefore
  <2>2. k[i] = j[i] /\ k[1] = j[1] /\ i \in DOMAIN j
    BY <1>1, <1>2
  <2> QED BY <2>1, <2>2 DEF Decodes
<1>4. StateBefore(k, Len(k)) = StateOf(j)
  BY <1>1, <1>2 DEF StateBefore, StateOf
<1>5. k[Len(k)].state \in NextStates(StateBefore(k, Len(k)))
  BY <1>1, <1>4
<1>6. k[Len(k)].approval = k[1].approval
  BY <1>1, <1>2
<1>7. \A i \in DOMAIN k : i \in 1..Len(j) \/ i = Len(k)
  BY <1>1, <1>2
<1>8. Decodes(k)
  BY <1>3, <1>5, <1>6, <1>7 DEF Decodes
<1> QED BY <1>8 DEF k

\* What a power loss leaves of an accepted journal is accepted.
LEMMA DecodesCut ==
    ASSUME NEW j \in Seq(Record), Decodes(j), NEW n \in 0..Len(j)
    PROVE  Decodes(SubSeq(j, 1, n))
<1> DEFINE k == SubSeq(j, 1, n)
<1>1. /\ Len(j) \in Nat /\ n \in Nat /\ DOMAIN j = 1..Len(j)
  BY LenProperties
<1>2. /\ k \in Seq(Record)
      /\ Len(k) = n
      /\ \A i \in 1..n : k[i] = j[i]
  BY <1>1, SubSeqProperties, ElementOfSeq
<1>3. DOMAIN k = 1..n
  BY <1>2, LenProperties
<1> HIDE DEF k
<1>4. Decodes(k)
  <2>1. \A i \in 1..n : StateBefore(k, i) = StateBefore(j, i)
    BY <1>1, <1>2 DEF StateBefore
  <2>2. \A i \in 1..n : i \in DOMAIN j /\ k[i] = j[i] /\ k[1] = j[1]
    BY <1>1, <1>2
  <2> QED BY <1>3, <2>1, <2>2 DEF Decodes
<1> QED BY <1>4 DEF k

-----------------------------------------------------------------------------
\* The records a step appends are records.
LEMMA OwnRecordType ==
    ASSUME NEW p \in Process, target[p] \in JournalState, appr[p] \in Approval
    PROVE  OwnRecord(p) \in Record
BY DEF OwnRecord, Record

\* Initially the invariant holds.
LEMMA InitIInv == Init => IInv
<1> SUFFICES ASSUME Init PROVE IInv
  OBVIOUS
<1> USE ConstantsAssumption DEF Init
<1>1. TypeOK
  BY EmptySeq DEF TypeOK, Nothing
<1>2. LockInv
  BY DEF LockInv, Busy
<1>3. CallInv
  BY DEF CallInv, CallOK, Busy
<1>4. JournalInv
  <2>1. journal \in Seq(Record) /\ durable = journal /\ DOMAIN journal = {}
    BY EmptySeq
  <2>2. IsPrefix(durable, journal)
    BY <2>1, PrefixReflexive
  <2> QED BY <2>1, <2>2 DEF JournalInv, Decodes
<1>5. CountInv /\ ReplyIsDurable
  BY DEF CountInv, WriteIsRecorded, AtMostOnePost, BeforePost, Nothing, ReplyIsDurable
<1> QED BY <1>1, <1>2, <1>3, <1>4, <1>5 DEF IInv

-----------------------------------------------------------------------------
\* Every step keeps the types.  Publish needs the invariant: what it makes
\* visible is the candidate its temporary file holds.
LEMMA TypeStep == IInv /\ [Next]_vars => TypeOK'
<1> SUFFICES ASSUME IInv, [Next]_vars PROVE TypeOK'
  OBVIOUS
<1> USE ConstantsAssumption
<1>1. TypeOK /\ LockInv /\ CallInv /\ Stale \in Seq(Record)
  BY EmptySeq DEF IInv, Stale
<1>2. CASE UNCHANGED vars
  BY <1>1, <1>2 DEF vars, TypeOK
<1>3. ASSUME NEW p \in Process, NEW a \in Approval, Execute(p, a)
      PROVE  TypeOK'
  BY <1>1, <1>3 DEF Execute, Enter, GoAppend, TypeOK, JournalState, Nothing
<1>4. ASSUME NEW p \in Process, Reconcile(p)
      PROVE  TypeOK'
  <2>1. journal[1].approval \in Approval
    <3>1. journal \in Seq(Record) /\ journal # <<>>
      BY <1>1, <1>4 DEF Reconcile, TypeOK, StateOf
    <3>2. journal[1] \in Record
      BY <3>1, LenProperties, EmptySeq, ElementOfSeq
    <3> QED BY <3>2 DEF Record
  <2> QED
    BY <1>1, <1>4, <2>1 DEF Reconcile, Enter, GoAppend, TypeOK, JournalState, Nothing
<1>5. ASSUME NEW p \in Process, WriteTemp(p)
      PROVE  TypeOK'
  <2>1. Candidate(p) \in Seq(Record)
    BY <1>1, <1>5, OwnRecordType, AppendProperties
       DEF WriteTemp, TypeOK, CallInv, CallOK, Busy, Candidate
  <2> QED
    BY <1>1, <1>5, <2>1 DEF WriteTemp, TypeOK
<1>6. ASSUME NEW p \in Process, AppendFails(p)
      PROVE  TypeOK'
  <2>1. temp' \in [Process -> Seq(Record) \cup {NoFile}]
    BY <1>1, <1>6 DEF AppendFails, TypeOK
  <2> QED BY <1>1, <1>6, <2>1 DEF AppendFails, Leave, TypeOK
<1>7. ASSUME NEW p \in Process, Publish(p)
      PROVE  TypeOK'
  <2>1. Candidate(p) \in Seq(Record)
    BY <1>1, <1>7, OwnRecordType, AppendProperties
       DEF Publish, TypeOK, CallInv, CallOK, Busy, Candidate
  <2> QED
    BY <1>1, <1>7, <2>1 DEF Publish, TypeOK, CallInv, CallOK
<1>8. ASSUME NEW p \in Process,
             SyncFails(p) \/ SignRefused(p) \/ Trip(p) \/ TransportEscapes(p)
      PROVE  TypeOK'
  <2>1. CASE SyncFails(p)
    BY <1>1, <2>1 DEF SyncFails, Leave, TypeOK
  <2>2. CASE SignRefused(p)
    BY <1>1, <2>2 DEF SignRefused, Leave, TypeOK
  <2>3. CASE Trip(p)
    BY <1>1, <2>3 DEF Trip, Leave, TypeOK
  <2>4. CASE TransportEscapes(p)
    BY <1>1, <2>4 DEF TransportEscapes, Leave, TypeOK
  <2> QED BY <1>8, <2>1, <2>2, <2>3, <2>4
<1>9. ASSUME NEW p \in Process, Sync(p)
      PROVE  TypeOK'
  <2>1. appr[p] \in Approval /\ target[p] \in JournalState
    BY <1>1, <1>9 DEF Sync, CallInv, CallOK, Busy
  <2>2. journal' \in Seq(Record) /\ durable' \in Seq(Record) /\ used' \in [Process -> SUBSET Approval]
    BY <1>1, <1>9, <2>1 DEF Sync, Continue, TypeOK
  <2>3. temp' = temp /\ signs' = signs /\ posts' = posts /\ verdict' = verdict
    BY <1>9 DEF Sync, Continue
  <2>4. /\ pc' \in [Process -> {"idle", "append", "replace", "sync", "sign",
                           "transport", "wait", "down"}]
        /\ lock' \in Process \cup {NoProcess}
        /\ target' \in [Process -> JournalState \cup {Nothing}]
        /\ appr' \in [Process -> Approval \cup {NoApproval}]
        /\ reply' \in [Process -> JournalState \cup {Nothing}]
    BY <1>1, <1>9, <2>1 DEF Sync, Continue, GoAppend, Leave, TypeOK, JournalState, Nothing
  <2> QED BY <1>1, <2>2, <2>3, <2>4 DEF TypeOK
<1>10. ASSUME NEW p \in Process, Sign(p) \/ Transport(p) \/ OutcomeUnknown(p) \/ Response(p)
       PROVE  TypeOK'
  <2>1. CASE Sign(p)
    BY <1>1, <2>1 DEF Sign, GoAppend, TypeOK, JournalState
  <2>2. CASE Transport(p)
    BY <1>1, <2>2 DEF Transport, TypeOK
  <2>3. CASE OutcomeUnknown(p)
    BY <1>1, <2>3 DEF OutcomeUnknown, GoAppend, TypeOK, JournalState
  <2>4. CASE Response(p)
    BY <1>1, <2>4 DEF Response, GoAppend, TypeOK, JournalState
  <2> QED BY <1>10, <2>1, <2>2, <2>3, <2>4
<1>11. ASSUME NEW p \in Process, Crash(p)
       PROVE  TypeOK'
  <2>1. temp' \in [Process -> Seq(Record) \cup {NoFile}]
    BY <1>1, <1>11 DEF Crash, TypeOK
  <2> QED BY <1>1, <1>11, <2>1 DEF Crash, TypeOK
<1>12. ASSUME NEW p \in Process, Restart(p)
       PROVE  TypeOK'
  BY <1>1, <1>12 DEF Restart, TypeOK
<1>13. CASE PowerLoss
  <2>1. \A n \in Len(durable)..Len(journal) : SubSeq(journal, 1, n) \in Seq(Record)
    BY <1>1, PrefixCut DEF TypeOK, IInv, JournalInv
  <2>2. journal' \in Seq(Record) /\ durable' \in Seq(Record)
    BY <1>13, <2>1 DEF PowerLoss
  <2>3. temp' \in [Process -> Seq(Record) \cup {NoFile}]
    BY <1>1, <1>13 DEF PowerLoss
  <2> QED BY <1>1, <1>13, <2>2, <2>3 DEF PowerLoss, TypeOK
<1>14. CASE RefereeDecides
  BY <1>1, <1>14 DEF RefereeDecides, TypeOK
<1> QED
  BY <1>2, <1>3, <1>4, <1>5, <1>6, <1>7, <1>8, <1>9, <1>10, <1>11, <1>12, <1>13,
     <1>14 DEF Next, Step

-----------------------------------------------------------------------------
\* A process that runs no call satisfies the call invariant.
LEMMA IdleCall ==
    ASSUME NEW q \in Process, pc[q] \notin Busy, target[q] = Nothing
    PROVE  CallOK(q)
BY DEF CallOK, Busy

\* Every step keeps the lock with the one process that runs a call.
LEMMA LockStep == IInv /\ [Next]_vars => LockInv'
<1> SUFFICES ASSUME IInv, [Next]_vars PROVE LockInv'
  OBVIOUS
<1> USE ConstantsAssumption DEF Busy
<1>1. TypeOK /\ LockInv
  BY DEF IInv
<1>2. CASE UNCHANGED vars
  BY <1>1, <1>2 DEF vars, LockInv
<1>3. ASSUME NEW p \in Process, NEW a \in Approval, Execute(p, a)
      PROVE  LockInv'
  BY <1>1, <1>3 DEF Execute, Enter, GoAppend, TypeOK, LockInv
<1>4. ASSUME NEW p \in Process, Reconcile(p)
      PROVE  LockInv'
  BY <1>1, <1>4 DEF Reconcile, Enter, GoAppend, TypeOK, LockInv
<1>5. ASSUME NEW p \in Process, WriteTemp(p) \/ Publish(p)
      PROVE  LockInv'
  BY <1>1, <1>5 DEF WriteTemp, Publish, TypeOK, LockInv
<1>6. ASSUME NEW p \in Process,
             AppendFails(p) \/ SyncFails(p) \/ SignRefused(p) \/ Trip(p) \/ TransportEscapes(p)
      PROVE  LockInv'
  <2>1. pc[p] \in Busy /\ lock = p /\ lock' = NoProcess /\ pc' = [pc EXCEPT ![p] = "idle"]
    BY <1>1, <1>6
       DEF AppendFails, SyncFails, SignRefused, Trip, TransportEscapes, Leave, LockInv
  <2> QED BY <1>1, <2>1 DEF TypeOK, LockInv
<1>7. ASSUME NEW p \in Process, Sync(p)
      PROVE  LockInv'
  <2>1. lock = p
    BY <1>1, <1>7 DEF Sync, LockInv
  <2> QED BY <1>1, <1>7, <2>1 DEF Sync, Continue, Leave, GoAppend, TypeOK, LockInv
<1>8. ASSUME NEW p \in Process, Sign(p) \/ Transport(p) \/ OutcomeUnknown(p) \/ Response(p)
      PROVE  LockInv'
  BY <1>1, <1>8
     DEF Sign, Transport, OutcomeUnknown, Response, GoAppend, TypeOK, LockInv
<1>9. ASSUME NEW p \in Process, Crash(p) \/ Restart(p)
      PROVE  LockInv'
  BY <1>1, <1>9 DEF Crash, Restart, TypeOK, LockInv
<1>10. CASE PowerLoss
  BY <1>10 DEF PowerLoss, LockInv
<1>11. CASE RefereeDecides
  BY <1>1, <1>11 DEF RefereeDecides, LockInv
<1> QED
  BY <1>2, <1>3, <1>4, <1>5, <1>6, <1>7, <1>8, <1>9, <1>10, <1>11 DEF Next, Step

\* Every step keeps the durable journal a prefix of the visible one, and the
\* visible one acceptable to the decoder.
LEMMA JournalStep == IInv /\ [Next]_vars => JournalInv'
<1> SUFFICES ASSUME IInv, [Next]_vars PROVE JournalInv'
  OBVIOUS
<1>1. TypeOK /\ CallInv /\ JournalInv /\ TypeOK'
  BY TypeStep DEF IInv
<1>2. CASE UNCHANGED <<journal, durable>>
  BY <1>1, <1>2 DEF JournalInv
<1>3. ASSUME NEW p \in Process, Publish(p)
      PROVE  JournalInv'
  <2>1. journal' = Candidate(p) /\ Decodes(Candidate(p)) /\ durable' = durable
    BY <1>1, <1>3 DEF Publish, CallInv, CallOK
  <2>2. OwnRecord(p) \in Record
    BY <1>1, <1>3, OwnRecordType DEF Publish, CallInv, CallOK, Busy
  <2>3. IsPrefix(durable, Candidate(p))
    BY <1>1, <2>2, PrefixAppend DEF Candidate, JournalInv, TypeOK
  <2> QED BY <2>1, <2>3 DEF JournalInv
<1>4. ASSUME NEW p \in Process, Sync(p) \/ SyncFails(p)
      PROVE  JournalInv'
  <2>1. durable' \in {durable, journal} /\ journal' = journal
    BY <1>4 DEF Sync, SyncFails
  <2> QED BY <1>1, <2>1, PrefixReflexive DEF JournalInv, TypeOK
<1>5. CASE PowerLoss
  <2>1. PICK n \in Len(durable)..Len(journal) :
           journal' = SubSeq(journal, 1, n) /\ durable' = SubSeq(journal, 1, n)
    BY <1>5 DEF PowerLoss
  <2>2. n \in 0..Len(journal)
    BY <1>1, LenProperties DEF TypeOK
  <2>3. Decodes(journal')
    BY <1>1, <2>1, <2>2, DecodesCut DEF JournalInv, TypeOK
  <2>4. IsPrefix(durable', journal')
    BY <1>1, <2>1, PrefixReflexive DEF TypeOK
  <2> QED BY <2>3, <2>4 DEF JournalInv
<1>6. [Next]_vars => \/ UNCHANGED <<journal, durable>>
                     \/ \E p \in Process : Publish(p) \/ Sync(p) \/ SyncFails(p)
                     \/ PowerLoss
  BY DEF Next, Step, vars, Execute, Reconcile, WriteTemp, AppendFails, Sign, SignRefused,
         Trip, Transport, OutcomeUnknown, Response, TransportEscapes,
         Crash, Restart, RefereeDecides
<1> QED
  BY <1>2, <1>3, <1>4, <1>5, <1>6

-----------------------------------------------------------------------------
\* A step of the lock holder p that leaves the other processes alone keeps their
\* part of the call invariant, for they run no call.
LEMMA OtherCalls ==
    ASSUME TypeOK, LockInv, CallInv, NEW p \in Process,
           lock \in {p, NoProcess},
           \A q \in Process \ {p} : pc'[q] = pc[q] /\ target'[q] = target[q],
           CallOK(p)'
    PROVE  CallInv'
<1> USE ConstantsAssumption
<1>1. ASSUME NEW q \in Process, q # p
      PROVE  CallOK(q)'
  <2>1. pc[q] \notin Busy /\ target[q] = Nothing
    BY <1>1 DEF LockInv, CallInv, CallOK
  <2>2. pc'[q] \notin Busy /\ target'[q] = Nothing
    BY <1>1, <2>1
  <2> QED BY <2>2 DEF CallOK, Busy
<1> QED BY <1>1 DEF CallInv

\* A record whose state may follow the last one, under the approval the journal
\* already names, makes an acceptable candidate.
LEMMA CandidateDecodes ==
    ASSUME NEW j \in Seq(Record), NEW r \in Record, Decodes(j), j # <<>>,
           NEW s \in JournalState, s \in NextStates(j[Len(j)].state),
           r.approval = j[1].approval, r.state = s
    PROVE  Decodes(Append(j, r))
BY DecodesAppend DEF StateOf

\* A process that goes on to append, with the last record its own.
LEMMA NextAppend ==
    ASSUME TypeOK, JournalInv, NEW p \in Process, CallOK(p), pc[p] \in Busy, LastIsOwn(p),
           NEW s \in JournalState, s \in NextStates(target[p]),
           GoAppend(p, s), appr'[p] = appr[p], journal' = journal
    PROVE  CallOK(p)'
<1>1. journal \in Seq(Record) /\ journal # <<>> /\ Decodes(journal)
  BY DEF TypeOK, JournalInv, LastIsOwn
<1>2. journal[Len(journal)].state = target[p] /\ journal[Len(journal)].approval = appr[p]
  BY DEF LastIsOwn, OwnRecord
<1>3. Len(journal) \in DOMAIN journal
  BY <1>1, LenProperties, EmptySeq
<1>4. appr[p] = journal[1].approval
  BY <1>1, <1>2, <1>3 DEF Decodes
<1>5. pc'[p] = "append" /\ target'[p] = s /\ appr[p] \in Approval
  BY DEF GoAppend, TypeOK, CallOK
<1>6. OwnRecord(p)' \in Record /\ OwnRecord(p)'.state = s /\ OwnRecord(p)'.approval = appr[p]
  BY <1>5 DEF OwnRecord, Record
<1>7. Decodes(Candidate(p))'
  BY <1>1, <1>2, <1>4, <1>6, CandidateDecodes DEF Candidate
<1> QED BY <1>5, <1>7 DEF CallOK, Busy

\* Every step keeps the call invariant.
LEMMA CallStep == IInv /\ [Next]_vars => CallInv'
<1> SUFFICES ASSUME IInv, [Next]_vars PROVE CallInv'
  OBVIOUS
<1> USE ConstantsAssumption
<1>1. TypeOK /\ LockInv /\ CallInv /\ JournalInv
  BY DEF IInv
<1>2. CASE UNCHANGED vars
  BY <1>1, <1>2 DEF vars, CallInv, CallOK, Candidate, LastIsOwn, OwnRecord
<1>3. ASSUME NEW p \in Process, NEW a \in Approval, Execute(p, a)
      PROVE  CallInv'
  <2>1. journal = <<>> /\ journal' = journal
    <3>1. journal' = journal /\ StateOf(journal) = "NOT_STARTED"
      BY <1>3 DEF Execute
    <3>2. journal # <<>> => journal[Len(journal)] \in Record
      BY <1>1, LenProperties, EmptySeq, ElementOfSeq DEF TypeOK
    <3> QED BY <3>1, <3>2 DEF StateOf, Record, JournalState, Verdict
  <2>2. pc'[p] = "append" /\ target'[p] = "INTENT_RECORDED" /\ appr'[p] = a
    BY <1>1, <1>3 DEF Execute, Enter, GoAppend, TypeOK
  <2>3. OwnRecord(p)' \in Record /\ OwnRecord(p)'.state = "INTENT_RECORDED"
    BY <2>2 DEF OwnRecord, Record, JournalState
  <2>4. Decodes(Append(<<>>, OwnRecord(p)'))
    BY <1>1, <2>1, <2>3, DecodesAppend DEF JournalInv, TypeOK, StateOf, NextStates
  <2>5. Decodes(Candidate(p))'
    BY <2>1, <2>4 DEF Candidate
  <2>6. CallOK(p)'
    BY <2>2, <2>5 DEF CallOK, Busy, JournalState
  <2> QED BY <1>1, <1>3, <2>6, OtherCalls DEF Execute, Enter, GoAppend, TypeOK
<1>4. ASSUME NEW p \in Process, Reconcile(p)
      PROVE  CallInv'
  <2>1. journal \in Seq(Record) /\ journal # <<>> /\ Decodes(journal) /\ journal' = journal
    BY <1>1, <1>4 DEF Reconcile, TypeOK, JournalInv, StateOf
  <2>2. journal[1] \in Record /\ journal[Len(journal)] \in Record
    BY <2>1, LenProperties, EmptySeq, ElementOfSeq
  <2>3. /\ pc'[p] = "append" /\ target'[p] = verdict /\ appr'[p] = journal[1].approval
        /\ verdict \in Verdict
    BY <1>1, <1>4 DEF Reconcile, Enter, GoAppend, TypeOK
  <2>4. verdict \in NextStates(journal[Len(journal)].state)
    BY <1>4, <2>1, <2>2, <2>3 DEF Reconcile, StateOf, NextStates, Record, JournalState
  <2>5. /\ OwnRecord(p)' \in Record /\ OwnRecord(p)'.state = verdict
        /\ OwnRecord(p)'.approval = journal[1].approval
    BY <2>2, <2>3 DEF OwnRecord, Record, JournalState
  <2>6. Decodes(Candidate(p))'
    BY <2>1, <2>3, <2>4, <2>5, CandidateDecodes DEF Candidate, JournalState
  <2>7. CallOK(p)'
    BY <2>2, <2>3, <2>6 DEF CallOK, Busy, JournalState, Record
  <2> QED BY <1>1, <1>4, <2>7, OtherCalls DEF Reconcile, Enter, GoAppend, TypeOK
<1>5. ASSUME NEW p \in Process, WriteTemp(p)
      PROVE  CallInv'
  <2>1. lock = p /\ CallOK(p)
    BY <1>1, <1>5 DEF WriteTemp, LockInv, CallInv, Busy
  <2>2. /\ pc[p] = "append" /\ pc'[p] = "replace" /\ temp'[p] = Candidate(p)
        /\ Candidate(p)' = Candidate(p) /\ target' = target /\ appr' = appr
    BY <1>1, <1>5 DEF WriteTemp, TypeOK, Candidate, OwnRecord
  <2>3. CallOK(p)'
    BY <2>1, <2>2 DEF CallOK, Busy
  <2> QED BY <1>1, <1>5, <2>1, <2>3, OtherCalls DEF WriteTemp, TypeOK
<1>6. ASSUME NEW p \in Process, Publish(p)
      PROVE  CallInv'
  <2>1. lock = p /\ CallOK(p) /\ pc[p] = "replace"
    BY <1>1, <1>6 DEF Publish, LockInv, CallInv, Busy
  <2>2. /\ pc'[p] = "sync" /\ target' = target /\ appr' = appr
        /\ journal' = Append(journal, OwnRecord(p))
    BY <1>1, <1>6, <2>1 DEF Publish, TypeOK, CallOK, Candidate
  <2>3. OwnRecord(p) \in Record /\ OwnRecord(p)' = OwnRecord(p)
    BY <2>1, <2>2, OwnRecordType DEF CallOK, Busy, OwnRecord
  <2>4. LastIsOwn(p)'
    BY <1>1, <2>2, <2>3, AppendProperties DEF LastIsOwn, TypeOK
  <2>5. CallOK(p)'
    BY <2>1, <2>2, <2>4 DEF CallOK, Busy
  <2> QED BY <1>1, <1>6, <2>1, <2>5, OtherCalls DEF Publish, TypeOK
<1>7. ASSUME NEW p \in Process,
             AppendFails(p) \/ SyncFails(p) \/ SignRefused(p) \/ Trip(p) \/ TransportEscapes(p)
      PROVE  CallInv'
  <2>1. pc[p] \in Busy /\ Leave(p, Nothing)
    BY <1>7 DEF AppendFails, SyncFails, SignRefused, Trip, TransportEscapes, Busy
  <2>2. lock = p /\ pc'[p] = "idle" /\ target'[p] = Nothing
    BY <1>1, <2>1 DEF Leave, LockInv, TypeOK
  <2>3. CallOK(p)'
    BY <2>2 DEF CallOK, Busy
  <2> QED BY <1>1, <2>1, <2>2, <2>3, OtherCalls DEF Leave, TypeOK
<1>8. ASSUME NEW p \in Process, Sync(p)
      PROVE  CallInv'
  <2>1. lock = p /\ CallOK(p) /\ pc[p] = "sync" /\ LastIsOwn(p) /\ pc[p] \in Busy
    BY <1>1, <1>8 DEF Sync, LockInv, CallInv, CallOK, Busy
  <2>2. journal' = journal /\ durable' = journal
    BY <1>8 DEF Sync
  <2>3. CASE target[p] \in {"INTENT_RECORDED", "POST_ATTEMPT_RECORDED"}
    <3>1. /\ target' = target /\ appr' = appr
          /\ pc' = [pc EXCEPT ![p] = IF target[p] = "INTENT_RECORDED" THEN "sign" ELSE "transport"]
      BY <1>8, <2>3 DEF Sync, Continue, Verdict
    <3>2. CallOK(p)'
      BY <1>1, <2>1, <2>2, <2>3, <3>1 DEF CallOK, Busy, TypeOK, LastIsOwn, OwnRecord
    <3> QED BY <1>1, <2>1, <3>1, <3>2, OtherCalls DEF TypeOK
  <2>4. CASE target[p] = "LOCAL_SIGNATURE_CREATED"
    <3>1. GoAppend(p, "POST_ATTEMPT_RECORDED") /\ appr' = appr
      BY <1>8, <2>4 DEF Sync, Continue, Verdict
    <3>2. CallOK(p)'
      BY <1>1, <2>1, <2>2, <2>4, <3>1, NextAppend DEF NextStates, JournalState
    <3> QED BY <1>1, <2>1, <3>1, <3>2, OtherCalls DEF GoAppend, TypeOK
  <2>5. CASE target[p] = "POST_RESPONSE_OBSERVED"
    <3>1. GoAppend(p, "AWAITING_REFEREE_RECEIPT") /\ appr' = appr
      BY <1>8, <2>5 DEF Sync, Continue, Verdict
    <3>2. CallOK(p)'
      BY <1>1, <2>1, <2>2, <2>5, <3>1, NextAppend DEF NextStates, JournalState
    <3> QED BY <1>1, <2>1, <3>1, <3>2, OtherCalls DEF GoAppend, TypeOK
  <2>6. CASE target[p] \notin {"INTENT_RECORDED", "POST_ATTEMPT_RECORDED",
                               "LOCAL_SIGNATURE_CREATED", "POST_RESPONSE_OBSERVED"}
    <3>1. Leave(p, target[p])
      BY <1>8, <2>6 DEF Sync, Continue
    <3>2. pc'[p] = "idle" /\ target'[p] = Nothing
      BY <1>1, <3>1 DEF Leave, TypeOK
    <3>3. CallOK(p)'
      BY <3>2 DEF CallOK, Busy
    <3> QED BY <1>1, <2>1, <3>1, <3>3, OtherCalls DEF Leave, TypeOK
  <2> QED BY <2>3, <2>4, <2>5, <2>6
<1>9. ASSUME NEW p \in Process, NEW s \in JournalState, GoAppend(p, s),
             pc[p] \in {"sign", "transport", "wait"}, s \in NextStates(target[p]),
             appr' = appr, journal' = journal
      PROVE  CallInv'
  <2>1. lock = p /\ CallOK(p) /\ LastIsOwn(p) /\ pc[p] \in Busy
    BY <1>1, <1>9 DEF LockInv, CallInv, CallOK, Busy
  <2>2. CallOK(p)'
    BY <1>1, <1>9, <2>1, NextAppend
  <2> QED BY <1>1, <1>9, <2>1, <2>2, OtherCalls DEF GoAppend, TypeOK
<1>10. ASSUME NEW p \in Process, Sign(p) \/ OutcomeUnknown(p) \/ Response(p)
       PROVE  CallInv'
  <2>1. CallOK(p)
    BY <1>1 DEF CallInv
  <2>2. CASE Sign(p)
    BY <1>9, <2>1, <2>2 DEF Sign, CallOK, NextStates, JournalState
  <2>3. CASE OutcomeUnknown(p)
    BY <1>9, <2>1, <2>3 DEF OutcomeUnknown, CallOK, NextStates, JournalState
  <2>4. CASE Response(p)
    BY <1>9, <2>1, <2>4 DEF Response, CallOK, NextStates, JournalState
  <2> QED BY <1>10, <2>2, <2>3, <2>4
<1>11. ASSUME NEW p \in Process, Transport(p)
       PROVE  CallInv'
  <2>1. lock = p /\ CallOK(p) /\ pc[p] = "transport" /\ pc'[p] = "wait"
    BY <1>1, <1>11 DEF Transport, LockInv, CallInv, Busy, TypeOK
  <2>2. CallOK(p)'
    BY <1>11, <2>1 DEF Transport, CallOK, Busy, LastIsOwn, OwnRecord
  <2> QED BY <1>1, <1>11, <2>1, <2>2, OtherCalls DEF Transport, TypeOK
<1>12. ASSUME NEW p \in Process, Crash(p)
       PROVE  CallInv'
  <2>1. pc'[p] = "down" /\ target'[p] = Nothing
    BY <1>1, <1>12 DEF Crash, TypeOK
  <2>2. CallOK(p)'
    BY <2>1 DEF CallOK, Busy
  <2>3. ASSUME NEW q \in Process, q # p
        PROVE  CallOK(q)'
    BY <1>1, <1>12, <2>3
       DEF Crash, CallInv, CallOK, TypeOK, Candidate, LastIsOwn, OwnRecord
  <2> QED BY <2>2, <2>3 DEF CallInv
<1>13. ASSUME NEW p \in Process, Restart(p)
       PROVE  CallInv'
  <2>1. ASSUME NEW q \in Process
        PROVE  CallOK(q)'
    BY <1>1, <1>13, <2>1
       DEF Restart, CallInv, CallOK, Busy, TypeOK, Candidate, LastIsOwn, OwnRecord
  <2> QED BY <2>1 DEF CallInv
<1>14. CASE PowerLoss
  BY <1>14 DEF PowerLoss, CallInv, CallOK, Busy
<1>15. CASE RefereeDecides
  BY <1>1, <1>15 DEF RefereeDecides, CallInv, CallOK, Candidate, LastIsOwn, OwnRecord
<1> QED
  BY <1>2, <1>3, <1>4, <1>5, <1>6, <1>7, <1>8, <1>10, <1>11, <1>12, <1>13, <1>14,
     <1>15 DEF Next, Step

-----------------------------------------------------------------------------
\* Every step leaves the durable journal a prefix of the next one.
LEMMA DurableStep == IInv /\ [Next]_vars => IsPrefix(durable, durable')
<1> SUFFICES ASSUME IInv, [Next]_vars PROVE IsPrefix(durable, durable')
  OBVIOUS
<1>1. TypeOK /\ JournalInv
  BY DEF IInv
<1>2. CASE durable' = durable
  BY <1>1, <1>2, PrefixReflexive DEF TypeOK
<1>3. ASSUME NEW p \in Process, Sync(p) \/ SyncFails(p)
      PROVE  IsPrefix(durable, durable')
  BY <1>1, <1>3, PrefixReflexive DEF Sync, SyncFails, JournalInv, TypeOK
<1>4. CASE PowerLoss
  BY <1>1, <1>4, PrefixCut DEF PowerLoss, JournalInv, TypeOK
<1>5. [Next]_vars => durable' = durable \/ PowerLoss
                     \/ \E p \in Process : Sync(p) \/ SyncFails(p)
  BY DEF Next, Step, vars, Execute, Reconcile, WriteTemp, AppendFails, Publish, Sign,
         SignRefused, Trip, Transport, OutcomeUnknown, Response, TransportEscapes,
         Crash, Restart, RefereeDecides
<1> QED BY <1>2, <1>3, <1>4, <1>5

\* A state the durable journal holds is still held after any step.
LEMMA HoldsStep ==
    ASSUME IInv, [Next]_vars, NEW s, Holds(durable, s)
    PROVE  Holds(durable', s)
<1>1. durable \in Seq(Record) /\ durable' \in Seq(Record)
  BY TypeStep DEF IInv, TypeOK
<1> QED BY <1>1, DurableStep, HoldsMonotone

\* Once the record of a call is the last one of a durable journal, the journal
\* holds its state.
LEMMA OwnIsHeld ==
    ASSUME TypeOK, NEW p \in Process, LastIsOwn(p)
    PROVE  Holds(journal, target[p])
<1>1. Len(journal) \in DOMAIN journal
  BY LenProperties, EmptySeq DEF TypeOK, LastIsOwn
<1> QED BY <1>1 DEF Holds, LastIsOwn, OwnRecord

\* Every step keeps what was replied to a caller in the durable journal.
LEMMA ReplyStep == IInv /\ [Next]_vars => ReplyIsDurable'
<1> SUFFICES ASSUME IInv, [Next]_vars, NEW q \in Process, reply'[q] # Nothing
             PROVE  Holds(durable', reply'[q])
  BY DEF ReplyIsDurable
<1>1. TypeOK /\ CallInv /\ ReplyIsDurable
  BY DEF IInv
<1>2. CASE reply'[q] = reply[q]
  BY <1>1, <1>2, HoldsStep DEF ReplyIsDurable
<1>3. ASSUME NEW p \in Process, Sync(p), reply'[q] # reply[q]
      PROVE  q = p /\ reply'[q] = target[p] /\ durable' = journal
  BY <1>1, <1>3 DEF Sync, Continue, Leave, GoAppend, TypeOK
<1>4. ASSUME NEW p \in Process, Sync(p), reply'[q] # reply[q]
      PROVE  Holds(durable', reply'[q])
  <2>1. LastIsOwn(p)
    BY <1>1, <1>4 DEF Sync, CallInv, CallOK
  <2> QED BY <1>1, <1>3, <1>4, <2>1, OwnIsHeld
<1>5. [Next]_vars => reply'[q] = reply[q] \/ \E p \in Process : Sync(p)
  BY <1>1 DEF Next, Step, vars, Execute, Reconcile, Enter, Leave, GoAppend, TypeOK, WriteTemp,
         AppendFails, Publish, SyncFails, Sign, SignRefused, Trip, Transport,
         OutcomeUnknown, Response, TransportEscapes, Crash, Restart, PowerLoss,
         RefereeDecides
<1> QED BY <1>2, <1>4, <1>5

\* Every step keeps the counters in line with the durable journal.
LEMMA CountStep == IInv /\ [Next]_vars => CountInv'
<1> SUFFICES ASSUME IInv, [Next]_vars PROVE CountInv'
  OBVIOUS
<1> USE ConstantsAssumption
<1>1. TypeOK /\ LockInv /\ CallInv /\ JournalInv /\ CountInv
  BY DEF IInv
<1>2. \A s : Holds(durable, s) => Holds(durable', s)
  BY HoldsStep
<1>3. ASSUME NEW p \in Process, NEW a \in Approval, Execute(p, a)
      PROVE  CountInv'
  <2>1. signs' = signs /\ posts' = posts /\ durable' = durable
        /\ StateOf(journal) = "NOT_STARTED"
    BY <1>3 DEF Execute
  <2>2. journal = <<>>
    <3>1. journal # <<>> => journal[Len(journal)] \in Record
      BY <1>1, LenProperties, EmptySeq, ElementOfSeq DEF TypeOK
    <3> QED BY <2>1, <3>1 DEF StateOf, Record, JournalState, Verdict
  <2>3. DOMAIN durable = {}
    <3>1. Len(durable) = 0
      <4>1. Len(durable) <= Len(journal) /\ Len(durable) \in Nat
        BY <1>1, LenProperties DEF JournalInv, IsPrefix, TypeOK
      <4> QED BY <2>2, <4>1
    <3> QED BY <1>1, <3>1, LenProperties DEF TypeOK
  <2>4. signs = 0 /\ posts = 0
    BY <1>1, <2>3 DEF CountInv, WriteIsRecorded, Holds, TypeOK
  <2> QED BY <1>1, <1>2, <2>1, <2>4 DEF CountInv, WriteIsRecorded, AtMostOnePost
<1>4. ASSUME NEW p \in Process, Sign(p)
      PROVE  CountInv'
  <2>1. CallOK(p) /\ pc[p] = "sign" /\ signs = 0 /\ posts = 0
    BY <1>1, <1>4 DEF Sign, CallInv, CallOK, CountInv, BeforePost
  <2>2. \A q \in Process : q # p => pc[q] \notin Busy /\ target[q] = Nothing
    BY <1>1, <2>1 DEF LockInv, CallInv, CallOK, Busy
  <2>3. /\ signs' = 1 /\ posts' = 0
        /\ target' = [target EXCEPT ![p] = "LOCAL_SIGNATURE_CREATED"]
    BY <1>4, <2>1 DEF Sign, GoAppend
  <2>4. Holds(durable', "INTENT_RECORDED")
    BY <1>1, <1>2, <2>1, OwnIsHeld DEF CallOK
  <2> QED BY <1>1, <2>2, <2>3, <2>4
          DEF CountInv, WriteIsRecorded, AtMostOnePost, TypeOK, Nothing
<1>5. ASSUME NEW p \in Process, SignRefused(p)
      PROVE  CountInv'
  <2>1. CallOK(p) /\ pc[p] = "sign" /\ signs = 0 /\ posts = 0
    BY <1>1, <1>5 DEF SignRefused, CallInv, CallOK, CountInv, BeforePost
  <2>2. \A q \in Process : q # p => target[q] = Nothing
    BY <1>1, <2>1 DEF LockInv, CallInv, CallOK, Busy
  <2>3. /\ signs' \in {0, 1} /\ posts' = 0
        /\ target' = [target EXCEPT ![p] = Nothing]
    BY <1>5, <2>1 DEF SignRefused, Leave
  <2>4. Holds(durable', "INTENT_RECORDED")
    BY <1>1, <1>2, <2>1, OwnIsHeld DEF CallOK
  <2> QED BY <1>1, <2>2, <2>3, <2>4
          DEF CountInv, WriteIsRecorded, AtMostOnePost, BeforePost, TypeOK, Nothing
<1>6. ASSUME NEW p \in Process, Transport(p)
      PROVE  CountInv'
  <2>1. CallOK(p) /\ pc[p] = "transport" /\ target[p] = "POST_ATTEMPT_RECORDED" /\ posts = 0
    BY <1>1, <1>6 DEF Transport, CallInv, CallOK, CountInv, BeforePost
  <2>2. \A q \in Process : q # p => target[q] = Nothing
    BY <1>1, <2>1 DEF LockInv, CallInv, CallOK, Busy
  <2>3. signs' = signs /\ posts' = 1 /\ target' = target /\ pc' = [pc EXCEPT ![p] = "wait"]
    BY <1>6, <2>1 DEF Transport
  <2>4. Holds(durable', "POST_ATTEMPT_RECORDED")
    BY <1>1, <1>2, <2>1, OwnIsHeld DEF CallOK
  <2> QED BY <1>1, <1>2, <2>1, <2>2, <2>3, <2>4
          DEF CountInv, WriteIsRecorded, AtMostOnePost, BeforePost, TypeOK, Nothing
<1>7. ASSUME NEW p \in Process, Sync(p)
      PROVE  CountInv'
  <2>1. signs' = signs /\ posts' = posts /\ pc[p] = "sync"
    BY <1>7 DEF Sync
  <2>2. \A q \in Process : /\ target'[q] = "INTENT_RECORDED" => target[q] = "INTENT_RECORDED"
                           /\ target'[q] \in BeforePost /\ pc'[q] # "wait" =>
                                 target[q] \in BeforePost /\ pc[q] # "wait"
    BY <1>1, <1>7, <2>1 DEF Sync, Continue, GoAppend, Leave, TypeOK, BeforePost, Nothing, Verdict
  <2> QED BY <1>1, <1>2, <2>1, <2>2 DEF CountInv, WriteIsRecorded, AtMostOnePost
<1>8. ASSUME signs' = signs, posts' = posts,
             \A q \in Process : \/ target'[q] \notin BeforePost
                                \/ target'[q] = target[q] /\ (pc[q] = "wait" => pc'[q] = "wait")
      PROVE  CountInv'
  BY <1>1, <1>2, <1>8 DEF CountInv, WriteIsRecorded, AtMostOnePost, BeforePost
<1>9. CASE UNCHANGED vars
  BY <1>8, <1>9 DEF vars
<1>10. ASSUME NEW p \in Process, Reconcile(p)
       PROVE  CountInv'
  BY <1>1, <1>8, <1>10 DEF Reconcile, Enter, GoAppend, TypeOK, BeforePost, Verdict, Nothing
<1>11. ASSUME NEW p \in Process, WriteTemp(p) \/ Publish(p)
       PROVE  CountInv'
  BY <1>1, <1>8, <1>11 DEF WriteTemp, Publish, TypeOK
<1>12. ASSUME NEW p \in Process, AppendFails(p) \/ SyncFails(p) \/ Trip(p) \/ TransportEscapes(p)
       PROVE  CountInv'
  <2>1. Leave(p, Nothing) /\ signs' = signs /\ posts' = posts
    BY <1>12 DEF AppendFails, SyncFails, Trip, TransportEscapes
  <2> QED BY <1>1, <1>8, <2>1 DEF Leave, TypeOK, BeforePost, Nothing
<1>13. ASSUME NEW p \in Process, OutcomeUnknown(p) \/ Response(p)
       PROVE  CountInv'
  BY <1>1, <1>8, <1>13 DEF OutcomeUnknown, Response, GoAppend, TypeOK, BeforePost
<1>14. ASSUME NEW p \in Process, Crash(p)
       PROVE  CountInv'
  BY <1>1, <1>8, <1>14 DEF Crash, TypeOK, BeforePost, Nothing
<1>15. ASSUME NEW p \in Process, Restart(p)
       PROVE  CountInv'
  BY <1>1, <1>8, <1>15 DEF Restart, TypeOK
<1>16. CASE PowerLoss
  BY <1>8, <1>16 DEF PowerLoss, BeforePost, Nothing
<1>17. CASE RefereeDecides
  BY <1>8, <1>17 DEF RefereeDecides
<1> QED
  BY <1>3, <1>4, <1>5, <1>6, <1>7, <1>9, <1>10, <1>11, <1>12, <1>13, <1>14, <1>15,
     <1>16, <1>17 DEF Next, Step

-----------------------------------------------------------------------------
\* The invariant holds in every reachable state, for any processes and approvals.
THEOREM Invariance == Spec => []IInv
<1>1. IInv /\ [Next]_vars => IInv'
  BY TypeStep, LockStep, CallStep, JournalStep, CountStep, ReplyStep DEF IInv
<1> QED BY InitIInv, <1>1, PTL DEF Spec

\* Every variable keeps its type.
THEOREM TypeCorrect == Spec => []TypeOK
<1>1. IInv => TypeOK
  BY DEF IInv
<1> QED BY Invariance, <1>1, PTL

\* The registration is signed at most once and posted at most once, whatever
\* processes run, crash, restart or lose power (the promise of
\* docs/SONNET2_REGISTRATION_SIGNER_BOUNDARY.md about `execute`).
THEOREM OnePost == Spec => []AtMostOnePost
<1>1. IInv => AtMostOnePost
  BY DEF IInv, CountInv
<1> QED BY Invariance, <1>1, PTL

\* A signature and a POST are never made before their record is durable.
THEOREM WritesAreRecorded == Spec => []WriteIsRecorded
<1>1. IInv => WriteIsRecorded
  BY DEF IInv, CountInv
<1> QED BY Invariance, <1>1, PTL

\* The transition table and the decoder never refuse what execute and reconcile
\* append.
THEOREM AppendsAreAccepted == Spec => []AppendNeverRefused
<1>1. IInv => AppendNeverRefused
  BY DEF IInv, LockInv, CallInv, CallOK, Busy, AppendNeverRefused
<1> QED BY Invariance, <1>1, PTL

\* What a call returned to its caller survives every power loss.
THEOREM RepliesAreDurable == Spec => []ReplyIsDurable
<1>1. IInv => ReplyIsDurable
  BY DEF IInv
<1> QED BY Invariance, <1>1, PTL

\* The durable journal only ever grows at its end.
THEOREM DurablePrefix == Spec => DurableGrows
<1>1. IInv /\ [Next]_vars => [IsPrefix(durable, durable')]_vars
  BY DurableStep
<1> QED BY Invariance, <1>1, PTL DEF Spec, DurableGrows
-----------------------------------------------------------------------------
(***************************************************************************)
(* The registration hand-off implements OneShotPost, for any number of     *)
(* processes and approvals.  Two steps of the hand-off are steps of its    *)
(* own of the abstract registration: the fsync after which the transport   *)
(* may be called arms it, and the transport sends.  Every other step       *)
(* leaves it alone, spends it or records the verdict.                      *)
(***************************************************************************)
Armed == \E p \in Process : pc[p] = "transport"

-----------------------------------------------------------------------------
(* Lemmas on journals.                                                     *)

\* A verdict is the end of a journal: nothing accepted goes beyond it.
LEMMA VerdictIsLast ==
    ASSUME NEW d \in Seq(Record), NEW j \in Seq(Record), IsPrefix(d, j), Decodes(j),
           StateOf(d) \in Verdict
    PROVE  d = j
<1>1. Len(d) <= Len(j) /\ \A i \in 1..Len(d) : d[i] = j[i]
  BY PrefixDef
<1>2. /\ Len(d) \in Nat /\ Len(j) \in Nat /\ DOMAIN j = 1..Len(j)
      /\ DOMAIN d = 1..Len(d)
  BY LenProperties
<1>3. d # <<>> /\ StateOf(d) = d[Len(d)].state
  BY DEF StateOf, Verdict
<1>4. Len(d) \in 1..Len(d)
  BY <1>2, <1>3, EmptySeq
<1>5. CASE Len(d) < Len(j)
  <2>1. Len(d) + 1 \in DOMAIN j
    BY <1>2, <1>5
  <2>2. StateBefore(j, Len(d) + 1) = j[Len(d)].state
    BY <1>2, <1>4 DEF StateBefore
  <2>3. j[Len(d) + 1].state \in NextStates(StateOf(d))
    BY <1>1, <1>3, <1>4, <2>1, <2>2 DEF Decodes
  <2> QED BY <2>3 DEF NextStates, Verdict
<1>6. CASE Len(d) = Len(j)
  BY <1>1, <1>2, <1>6, SeqEqual
<1>7. Len(d) < Len(j) \/ Len(d) = Len(j)
  <2>1. Len(d) <= Len(j)
    BY <1>1
  <2>2. Len(d) \in Nat /\ Len(j) \in Nat
    BY LenProperties
  <2> QED BY <2>1, <2>2
<1> QED BY <1>5, <1>6, <1>7

\* Only the empty journal is not started.
LEMMA NotStartedIsEmpty ==
    ASSUME NEW j \in Seq(Record), StateOf(j) = "NOT_STARTED"
    PROVE  j = <<>>
<1>1. CASE j # <<>>
  <2>1. j[Len(j)] \in Record
    BY <1>1, LenProperties, EmptySeq, ElementOfSeq
  <2> QED BY <1>1, <2>1 DEF StateOf, Record, JournalState, Verdict
<1> QED BY <1>1

\* A prefix of the empty journal is empty, and a journal with a nonempty prefix is
\* not.
LEMMA EmptyPrefix ==
    ASSUME NEW d \in Seq(Record), NEW j \in Seq(Record), IsPrefix(d, j), d # <<>>
    PROVE  j # <<>>
BY PrefixDef, LenProperties, EmptySeq

-----------------------------------------------------------------------------
(* Who is running.                                                         *)

\* Beside a process inside a call no process is.
LEMMA OthersIdle ==
    ASSUME IInv, NEW p \in Process, lock \in {p, NoProcess}
    PROVE  \A q \in Process \ {p} : pc[q] \notin Busy /\ target[q] = Nothing
BY ConstantsAssumption DEF IInv, LockInv, CallInv, CallOK

\* A process inside a call holds the lock.
LEMMA BusyHolds ==
    ASSUME IInv, NEW p \in Process, pc[p] \in Busy
    PROVE  lock = p
BY DEF IInv, LockInv

\* An armed registration has a durable record.
LEMMA ArmedIsRecorded ==
    ASSUME IInv, Armed
    PROVE  durable # <<>> /\ durable = journal
BY DEF IInv, CallInv, CallOK, LastIsOwn, Armed

\* A registration nobody has a record of has not been posted.
LEMMA FreshIsUnsent ==
    ASSUME IInv, journal = <<>>
    PROVE  durable = <<>> /\ posts = 0
<1>1. durable = <<>>
  BY EmptyPrefix DEF IInv, TypeOK, JournalInv
<1>2. ~Holds(durable, "POST_ATTEMPT_RECORDED")
  BY <1>1 DEF Holds
<1> QED BY <1>1, <1>2 DEF IInv, CountInv, WriteIsRecorded, TypeOK

-----------------------------------------------------------------------------
\* Initially the registration is fresh.
LEMMA InitMaps == Init => OneShot!Init
BY DEF Init, OneShot!Init, Stage, Recorded, ExecutionUnderWay, StateOf, Verdict, Nothing,
       BeforePost

\* A recorded verdict is final.
LEMMA RecordedStep ==
    ASSUME IInv, [Next]_vars
    PROVE  \/ Recorded' = Recorded
           \/ Recorded = Nothing /\ Recorded' \in Verdict /\ durable' # <<>>
<1>1. /\ durable \in Seq(Record) /\ durable' \in Seq(Record) /\ journal' \in Seq(Record)
      /\ IsPrefix(durable, durable') /\ IsPrefix(durable', journal') /\ Decodes(journal')
  BY TypeStep, DurableStep, JournalStep DEF IInv, TypeOK, JournalInv
<1>2. CASE Recorded # Nothing
  <2>1. StateOf(durable) \in Verdict
    BY <1>2 DEF Recorded
  <2>2. Decodes(durable')
    <3>1. /\ Len(durable') <= Len(journal') /\ Len(durable') \in Nat /\ Len(journal') \in Nat
          /\ \A i \in 1..Len(durable') : durable'[i] = journal'[i]
      BY <1>1, PrefixDef, LenProperties
    <3>2. \A i \in DOMAIN durable' : i \in DOMAIN journal'
      BY <1>1, <3>1, LenProperties
    <3>3. \A i \in DOMAIN durable' : StateBefore(durable', i) = StateBefore(journal', i)
      BY <1>1, <3>1, LenProperties DEF StateBefore
    <3>4. \A i \in DOMAIN durable' : durable'[i] = journal'[i] /\ durable'[1] = journal'[1]
      BY <1>1, <3>1, LenProperties
    <3> QED BY <1>1, <3>2, <3>3, <3>4 DEF Decodes
  <2>3. durable = durable'
    BY <1>1, <2>1, <2>2, VerdictIsLast
  <2> QED BY <2>3 DEF Recorded
<1>3. CASE Recorded = Nothing
  <2>1. Recorded' = Nothing \/ (Recorded' \in Verdict /\ Recorded' = StateOf(durable'))
    BY DEF Recorded
  <2>2. StateOf(durable') \in Verdict => durable' # <<>>
    BY DEF StateOf, Verdict
  <2> QED BY <1>3, <2>1, <2>2
<1> QED BY <1>2, <1>3

\* A step that neither arms nor sends: it leaves the registration alone, spends it
\* or records the verdict.
LEMMA QuietStep ==
    ASSUME IInv, [Next]_vars, posts' = posts, ~Armed',
           Armed => durable' # <<>> /\ ~ExecutionUnderWay',
           ExecutionUnderWay' => ExecutionUnderWay \/ (durable' = <<>> /\ posts = 0),
           Recorded' # Recorded => ~Armed /\ ~ExecutionUnderWay'
    PROVE  [OneShot!Next]_(OneShot!vars)
<1>1. durable # <<>> => durable' # <<>>
  BY DurableStep, TypeStep, EmptyPrefix DEF IInv, TypeOK
<1>2. posts \in Nat
  BY DEF IInv, TypeOK
<1>3. Stage' \in {"fresh", "spent"}
  BY DEF Stage, Armed
<1>4. Stage = "spent" => Stage' = "spent"
  BY <1>1, <1>2 DEF Stage, Armed
<1>5. Stage = "armed" => Stage' = "spent"
  BY DEF Stage, Armed
<1>6. Stage \in {"fresh", "armed", "spent"}
  BY DEF Stage
<1>7. Recorded' # Recorded =>
         Recorded = Nothing /\ Recorded' \in Verdict /\ Stage # "armed" /\ Stage' = "spent"
  BY RecordedStep DEF Stage, Armed
<1>8. CASE Recorded' # Recorded
  BY <1>7, <1>8 DEF OneShot!Next, OneShot!RecordVerdict
<1>9. CASE Recorded' = Recorded /\ Stage' # Stage
  BY <1>3, <1>4, <1>5, <1>6, <1>9 DEF OneShot!Next, OneShot!GiveUp
<1>10. CASE Recorded' = Recorded /\ Stage' = Stage
  BY <1>10 DEF OneShot!vars
<1> QED BY <1>8, <1>9, <1>10

-----------------------------------------------------------------------------
(* The steps of the hand-off.                                              *)

\* The fsync of the POST attempt arms the registration.
LEMMA ArmStep ==
    ASSUME IInv, [Next]_vars, NEW p \in Process, Sync(p),
           target[p] = "POST_ATTEMPT_RECORDED"
    PROVE  OneShot!Next
<1>1. pc[p] = "sync" /\ pc'[p] = "transport" /\ durable' = journal /\ posts' = posts
  BY DEF Sync, Continue, Leave, GoAppend, IInv, TypeOK, Verdict
<1>2. lock = p
  BY <1>1, BusyHolds DEF Busy
<1>3. ~Armed
  BY <1>1, <1>2, OthersIdle DEF Armed, Busy
<1>4. posts = 0
  BY <1>1 DEF IInv, CountInv, BeforePost
<1>5. ExecutionUnderWay
  BY DEF ExecutionUnderWay, BeforePost
<1>6. Stage = "fresh" /\ Stage' = "armed"
  BY <1>1, <1>3, <1>4, <1>5 DEF Stage, Armed
<1>7. StateOf(durable') = "POST_ATTEMPT_RECORDED"
  <2>1. LastIsOwn(p)
    BY <1>1 DEF IInv, CallInv, CallOK
  <2> QED BY <1>1, <2>1 DEF LastIsOwn, OwnRecord, StateOf
<1>8. Recorded' = Recorded
  BY <1>7, RecordedStep DEF Recorded, Verdict, Nothing
<1> QED BY <1>1, <1>6, <1>8 DEF OneShot!Next, OneShot!Arm

\* The transport sends the armed registration.
LEMMA SendStep ==
    ASSUME IInv, [Next]_vars, NEW p \in Process, Transport(p)
    PROVE  OneShot!Next
<1>1. /\ pc[p] = "transport" /\ pc' = [pc EXCEPT ![p] = "wait"] /\ posts' = posts + 1
      /\ durable' = durable
  BY DEF Transport
<1>2. \A q \in Process \ {p} : pc[q] \notin Busy
  BY <1>1, BusyHolds, OthersIdle DEF Busy
<1>3. Stage = "armed" /\ posts \in Nat
  BY <1>1 DEF Stage, IInv, TypeOK
<1>4. ~Armed'
  BY <1>1, <1>2 DEF Armed, Busy, IInv, TypeOK
<1>5. Stage' = "spent"
  BY <1>1, <1>3, <1>4 DEF Stage, Armed
<1>6. Recorded' = Recorded
  BY <1>1 DEF Recorded
<1> QED BY <1>1, <1>3, <1>5, <1>6 DEF OneShot!Next, OneShot!Send

\* A process that starts an execution finds nothing recorded and nothing sent.
LEMMA ExecuteMaps ==
    ASSUME IInv, [Next]_vars, NEW p \in Process, NEW a \in Approval, Execute(p, a)
    PROVE  [OneShot!Next]_(OneShot!vars)
<1>1. /\ lock = NoProcess /\ pc' = [pc EXCEPT ![p] = "append"]
      /\ durable' = durable /\ posts' = posts /\ StateOf(journal) = "NOT_STARTED"
  BY DEF Execute, Enter, GoAppend
<1>2. journal = <<>>
  BY <1>1, NotStartedIsEmpty DEF IInv, TypeOK
<1>3. durable' = <<>> /\ posts = 0
  BY <1>1, <1>2, FreshIsUnsent
<1>4. ~Armed /\ ~Armed'
  BY <1>1, ConstantsAssumption DEF Armed, Busy, IInv, TypeOK, LockInv
<1>5. Recorded' = Recorded
  BY <1>1 DEF Recorded
<1> QED BY <1>1, <1>3, <1>4, <1>5, QuietStep

\* A call that takes a step to where it is not about to send, towards a record
\* that comes after the POST or none at all.
LEMMA SpendingStep ==
    ASSUME IInv, [Next]_vars, NEW p \in Process, lock \in {p, NoProcess},
           NEW x, NEW y, pc' = [pc EXCEPT ![p] = x], target' = [target EXCEPT ![p] = y],
           x # "transport", y \notin BeforePost, posts' = posts,
           durable' \in {durable, journal}, Armed => durable' = durable
    PROVE  [OneShot!Next]_(OneShot!vars)
<1>1. \A q \in Process \ {p} : pc'[q] \notin Busy /\ target'[q] = Nothing
  BY OthersIdle DEF IInv, TypeOK
<1>2. ~Armed'
  BY <1>1 DEF Armed, Busy, IInv, TypeOK
<1>3. ~ExecutionUnderWay'
  BY <1>1 DEF ExecutionUnderWay, BeforePost, Nothing, IInv, TypeOK
<1>4. Armed => durable' # <<>> /\ Recorded' = Recorded
  BY ArmedIsRecorded DEF Recorded
<1> QED BY <1>2, <1>3, <1>4, QuietStep

\* A step of an execution that is not at its POST yet.
LEMMA WorkingStep ==
    ASSUME IInv, [Next]_vars, NEW p \in Process, pc[p] \in Busy \ {"transport"},
           NEW x, NEW y, pc' = [pc EXCEPT ![p] = x], target' = [target EXCEPT ![p] = y],
           x # "transport", y \in BeforePost => target[p] \in BeforePost,
           posts' = posts, Recorded' = Recorded
    PROVE  [OneShot!Next]_(OneShot!vars)
<1>1. \A q \in Process \ {p} : /\ pc[q] \notin Busy /\ target[q] = Nothing
                               /\ pc'[q] = pc[q] /\ target'[q] = target[q]
  BY BusyHolds, OthersIdle DEF IInv, TypeOK
<1>2. ~Armed /\ ~Armed'
  BY <1>1 DEF Armed, Busy, IInv, TypeOK
<1>3. ExecutionUnderWay' => ExecutionUnderWay
  BY <1>1 DEF ExecutionUnderWay, BeforePost, Nothing, IInv, TypeOK
<1> QED BY <1>2, <1>3, QuietStep

\* A step that changes neither what is recorded nor who is about to send.
LEMMA StillStep ==
    ASSUME posts' = posts, durable' = durable, Armed' = Armed,
           ExecutionUnderWay' = ExecutionUnderWay
    PROVE  [OneShot!Next]_(OneShot!vars)
BY DEF Armed, Stage, Recorded, OneShot!vars

\* The process that dies outside a call leaves the registration as it is, the one
\* inside a call spends it.
LEMMA CrashMaps ==
    ASSUME IInv, [Next]_vars, NEW p \in Process, Crash(p)
    PROVE  [OneShot!Next]_(OneShot!vars)
<1>1. /\ pc' = [pc EXCEPT ![p] = "down"] /\ target' = [target EXCEPT ![p] = Nothing]
      /\ posts' = posts /\ durable' = durable
  BY DEF Crash
<1>2. CASE lock = p
  BY <1>1, <1>2, SpendingStep DEF BeforePost, Nothing
<1>3. CASE lock # p
  <2>1. pc[p] \notin Busy /\ target[p] = Nothing
    BY <1>3 DEF IInv, LockInv, CallInv, CallOK
  <2>2. Armed' = Armed
    BY <1>1, <2>1 DEF Armed, Busy, IInv, TypeOK
  <2>3. target' = target
    BY <1>1, <2>1 DEF IInv, TypeOK
  <2>4. ExecutionUnderWay' = ExecutionUnderWay
    BY <2>3 DEF ExecutionUnderWay
  <2> QED BY <1>1, <2>2, <2>4, StillStep
<1> QED BY <1>2, <1>3

\* A power loss spends an armed registration, and may make a verdict durable.
LEMMA PowerLossMaps ==
    ASSUME IInv, [Next]_vars, PowerLoss
    PROVE  [OneShot!Next]_(OneShot!vars)
<1>1. ~Armed' /\ ~ExecutionUnderWay' /\ posts' = posts
  BY DEF PowerLoss, Armed, ExecutionUnderWay, BeforePost, Nothing
<1>2. ASSUME Armed
      PROVE  durable' = durable
  <2>1. durable = journal
    BY <1>2, ArmedIsRecorded
  <2>2. PICK n \in Len(durable)..Len(journal) : durable' = SubSeq(journal, 1, n)
    BY DEF PowerLoss
  <2>3. Len(journal) \in Nat
    BY LenProperties DEF IInv, TypeOK
  <2>4. n = Len(journal)
    BY <2>1, <2>2, <2>3
  <2> QED BY <2>1, <2>2, <2>4, SubSeqFull DEF IInv, TypeOK
<1>3. Armed => durable' # <<>> /\ Recorded' = Recorded
  BY <1>2, ArmedIsRecorded DEF Recorded
<1> QED BY <1>1, <1>3, QuietStep

\* The end of an append that is not the one before the POST.
LEMMA SyncMaps ==
    ASSUME IInv, [Next]_vars, NEW p \in Process, Sync(p),
           target[p] # "POST_ATTEMPT_RECORDED"
    PROVE  [OneShot!Next]_(OneShot!vars)
<1>1. /\ pc[p] = "sync" /\ pc[p] \in Busy /\ durable' = journal /\ posts' = posts
      /\ LastIsOwn(p) /\ target \in [Process -> JournalState \cup {Nothing}]
  BY DEF Sync, Busy, IInv, CallInv, CallOK, TypeOK
<1>2. lock = p
  BY <1>1, BusyHolds
<1>3. Armed => durable' = durable
  BY <1>1, ArmedIsRecorded
<1>4. StateOf(durable') = target[p]
  BY <1>1 DEF LastIsOwn, OwnRecord, StateOf
<1>5. target[p] \notin Verdict => Recorded' = Recorded
  BY <1>4, RecordedStep DEF Recorded, Verdict, Nothing
<1>6. CASE target[p] = "INTENT_RECORDED"
  <2>1. pc' = [pc EXCEPT ![p] = "sign"] /\ target' = [target EXCEPT ![p] = target[p]]
    BY <1>1, <1>6 DEF Sync, Continue, Verdict
  <2> QED BY <1>1, <1>5, <1>6, <2>1, WorkingStep DEF Verdict
<1>7. CASE target[p] = "LOCAL_SIGNATURE_CREATED"
  <2>1. /\ pc' = [pc EXCEPT ![p] = "append"]
        /\ target' = [target EXCEPT ![p] = "POST_ATTEMPT_RECORDED"]
    BY <1>7 DEF Sync, Continue, GoAppend, Verdict
  <2> QED BY <1>1, <1>5, <1>7, <2>1, WorkingStep DEF Verdict, BeforePost
<1>8. CASE target[p] = "POST_RESPONSE_OBSERVED"
  <2>1. /\ pc' = [pc EXCEPT ![p] = "append"]
        /\ target' = [target EXCEPT ![p] = "AWAITING_REFEREE_RECEIPT"]
    BY <1>8 DEF Sync, Continue, GoAppend, Verdict
  <2> QED BY <1>1, <1>2, <1>3, <2>1, SpendingStep DEF BeforePost
<1>9. CASE Leave(p, target[p])
  BY <1>1, <1>2, <1>3, <1>9, SpendingStep DEF Leave, BeforePost, Nothing
<1> QED BY <1>6, <1>7, <1>8, <1>9 DEF Sync, Continue

\* Every step of the hand-off is a step of the one-shot registration or leaves it
\* unchanged.
LEMMA StepMaps == IInv /\ [Next]_vars => [OneShot!Next]_(OneShot!vars)
<1> SUFFICES ASSUME IInv, [Next]_vars PROVE [OneShot!Next]_(OneShot!vars)
  OBVIOUS
<1>1. CASE UNCHANGED vars
  BY <1>1, StillStep DEF vars, Armed, ExecutionUnderWay
<1>2. ASSUME NEW p \in Process, NEW a \in Approval, Execute(p, a)
      PROVE  [OneShot!Next]_(OneShot!vars)
  BY <1>2, ExecuteMaps
<1>3. ASSUME NEW p \in Process, Reconcile(p)
      PROVE  [OneShot!Next]_(OneShot!vars)
  <2>1. /\ lock = NoProcess /\ posts' = posts /\ durable' = durable
        /\ pc' = [pc EXCEPT ![p] = "append"] /\ target' = [target EXCEPT ![p] = verdict]
    BY <1>3 DEF Reconcile, Enter, GoAppend
  <2>2. verdict \notin BeforePost
    BY <1>3 DEF Reconcile, IInv, TypeOK, BeforePost, Verdict
  <2> QED BY <2>1, <2>2, SpendingStep
<1>4. ASSUME NEW p \in Process, WriteTemp(p) \/ Publish(p) \/ Sign(p)
      PROVE  [OneShot!Next]_(OneShot!vars)
  <2>1. /\ pc[p] \in Busy \ {"transport"} /\ posts' = posts /\ durable' = durable
        /\ target \in [Process -> JournalState \cup {Nothing}]
    BY <1>4 DEF WriteTemp, Publish, Sign, Busy, IInv, TypeOK
  <2>2. Recorded' = Recorded
    BY <2>1 DEF Recorded
  <2>3. CASE WriteTemp(p) \/ Publish(p)
    <3>1. PICK x \in {"replace", "sync"} : pc' = [pc EXCEPT ![p] = x]
      BY <2>3 DEF WriteTemp, Publish
    <3>2. target' = [target EXCEPT ![p] = target[p]]
      BY <2>1, <2>3 DEF WriteTemp, Publish
    <3> QED BY <2>1, <2>2, <3>1, <3>2, WorkingStep
  <2>4. CASE Sign(p)
    <3>1. /\ pc' = [pc EXCEPT ![p] = "append"]
          /\ target' = [target EXCEPT ![p] = "LOCAL_SIGNATURE_CREATED"]
          /\ target[p] = "INTENT_RECORDED"
      BY <2>4 DEF Sign, GoAppend, IInv, CallInv, CallOK
    <3> QED BY <2>1, <2>2, <3>1, WorkingStep DEF BeforePost
  <2> QED BY <1>4, <2>3, <2>4
<1>5. ASSUME NEW p \in Process,
             AppendFails(p) \/ SyncFails(p) \/ SignRefused(p) \/ Trip(p) \/ TransportEscapes(p)
      PROVE  [OneShot!Next]_(OneShot!vars)
  <2>1. pc[p] \in Busy
    BY <1>5 DEF AppendFails, SyncFails, SignRefused, Trip, TransportEscapes, Busy
  <2>2. lock = p
    BY <2>1, BusyHolds
  <2>3. /\ pc' = [pc EXCEPT ![p] = "idle"] /\ target' = [target EXCEPT ![p] = Nothing]
        /\ posts' = posts /\ durable' \in {durable, journal}
    BY <1>5 DEF AppendFails, SyncFails, SignRefused, Trip, TransportEscapes, Leave
  <2>4. Armed => durable' = durable
    BY <2>3, ArmedIsRecorded
  <2> QED BY <2>2, <2>3, <2>4, SpendingStep DEF BeforePost, Nothing
<1>6. ASSUME NEW p \in Process, Sync(p)
      PROVE  [OneShot!Next]_(OneShot!vars)
  BY <1>6, ArmStep, SyncMaps
<1>7. ASSUME NEW p \in Process, Transport(p)
      PROVE  [OneShot!Next]_(OneShot!vars)
  BY <1>7, SendStep
<1>8. ASSUME NEW p \in Process, OutcomeUnknown(p) \/ Response(p)
      PROVE  [OneShot!Next]_(OneShot!vars)
  <2>1. pc[p] \in Busy
    BY <1>8 DEF OutcomeUnknown, Response, Busy
  <2>2. lock = p
    BY <2>1, BusyHolds
  <2>3. PICK y \in {"WRITE_OUTCOME_UNKNOWN", "POST_RESPONSE_OBSERVED"} :
           /\ pc' = [pc EXCEPT ![p] = "append"] /\ target' = [target EXCEPT ![p] = y]
           /\ posts' = posts /\ durable' = durable
    BY <1>8 DEF OutcomeUnknown, Response, GoAppend
  <2> QED BY <2>2, <2>3, SpendingStep DEF BeforePost
<1>9. ASSUME NEW p \in Process, Crash(p)
      PROVE  [OneShot!Next]_(OneShot!vars)
  BY <1>9, CrashMaps
<1>10. ASSUME NEW p \in Process, Restart(p)
       PROVE  [OneShot!Next]_(OneShot!vars)
  <2>1. Armed' = Armed
    BY <1>10 DEF Restart, Armed, IInv, TypeOK
  <2> QED BY <1>10, <2>1, StillStep DEF Restart, ExecutionUnderWay
<1>11. CASE PowerLoss
  BY <1>11, PowerLossMaps
<1>12. CASE RefereeDecides
  BY <1>12, StillStep DEF RefereeDecides, Armed, ExecutionUnderWay
<1> QED
  BY <1>1, <1>2, <1>3, <1>4, <1>5, <1>6, <1>7, <1>8, <1>9, <1>10, <1>11, <1>12
  DEF Next, Step

\* However processes, files and failures interleave, the journalled hand-off is a
\* one-shot registration: armed once, sent at most once, one final verdict.
THEOREM Refinement == Spec => ImplementsOneShotPost
<1> QED BY InitMaps, StepMaps, Invariance, PTL DEF Spec, ImplementsOneShotPost, OneShot!Spec

\* A step that is one of the one-shot registration, or none, neither revives what
\* is spent nor changes a verdict that no power loss can take back.
SpentForGood ==
    [][/\ Stage = "spent" => Stage' = "spent"
       /\ Recorded # Nothing => Recorded' = Recorded]_vars

\* What follows from the refinement for a reader of the journal: whatever crashes,
\* fails or loses power, a registration that was sent or given up is never armed
\* again by another process or approval, and its durable verdict stays.
THEOREM StaysSpent == Spec => SpentForGood
<1>1. IInv /\ [Next]_vars => /\ Stage = "spent" => Stage' = "spent"
                             /\ Recorded # Nothing => Recorded' = Recorded
  <2> SUFFICES ASSUME [OneShot!Next]_(OneShot!vars)
               PROVE  /\ Stage = "spent" => Stage' = "spent"
                      /\ Recorded # Nothing => Recorded' = Recorded
    BY StepMaps
  <2> QED
    BY DEF OneShot!Next, OneShot!vars, OneShot!Arm, OneShot!Send, OneShot!GiveUp,
       OneShot!RecordVerdict
<1> QED BY <1>1, Invariance, PTL DEF Spec, SpentForGood
================================================================================
