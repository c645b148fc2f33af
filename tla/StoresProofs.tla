----------------------------- MODULE StoresProofs -----------------------------
(***************************************************************************)
(* Proofs about the systems of Stores that keep something on this host.    *)
(* Each part has the inductive invariant of one system over its own        *)
(* variables, the lemmas of its steps, and the theorems of the sum: a      *)
(* behaviour of another system never makes the premise true.               *)
(***************************************************************************)
EXTENDS Stores, SequenceFacts

-----------------------------------------------------------------------------
(* The write to Technocore (SignedWrite): what goes out is reserved in the *)
(* fence before, and a confirmed write stands in the room.                 *)

SWPlaces == {"off", "reserve", "sync", "send", "read"}
SWStages == {"NOT_STARTED", "DUPLICATE_SUPPRESSED", "FAILED", "ATTEMPT_RECORDED",
           "WRITE_ACCEPTED", "EFFECT_UNKNOWN", "REDIRECT_REJECTED",
           "READBACK_MISMATCH", "SIGNATURE_INVALID", "EVIDENCE_CONFIRMED"}
SWProc == [pc : SWPlaces, write : SW!Writes \cup {Other}, stage : SWStages]

SWTypeOK ==
    /\ swRows \subseteq SW!Writes
    /\ swLinked \in BOOLEAN
    /\ swProc \in [Process -> SWProc]
    /\ \A p \in Process : swProc[p].pc # "off" => swProc[p].write \in SW!Writes
    /\ swSent \in [SW!Writes -> Nat]

\* The primary key and the unique column of the table.
SWRowsDiffer ==
    \A r, s \in swRows :
        r.kind = s.kind /\ (r.nonce = s.nonce \/ r.text = s.text) => r = s

\* A process between its reservation and its request.
SWReserved(p) == swProc[p].pc \in {"sync", "send"}
SWRowIsItsOwn ==
    /\ \A p \in Process : SWReserved(p) =>
          /\ swProc[p].write \in swRows
          /\ swSent[swProc[p].write] = 0
          /\ swProc[p].pc = "send" => swLinked
    /\ \A p, q \in Process :
          SWReserved(p) /\ SWReserved(q) /\ swProc[p].write = swProc[q].write => p = q

\* Each write that was sent was sent once.
SWNeverTwice == \A w \in SW!Writes : swSent[w] \in {0, 1}

SWIInv == SWTypeOK /\ SWRowsDiffer /\ SWRowIsItsOwn /\ SW!SentIsFenced /\ SWNeverTwice

\* Nothing is reserved and nothing sent.
LEMMA SWInitIInv == SW!Init => SWIInv
<1> SUFFICES ASSUME SW!Init PROVE SWIInv
  OBVIOUS
<1>1. SW!Off \in SWProc /\ SW!Off.pc = "off"
  BY DEF SW!Off, SWProc, SWPlaces, SWStages
<1>2. SWTypeOK
  BY <1>1 DEF SW!Init, SWTypeOK
<1>3. SWRowsDiffer /\ SWRowIsItsOwn /\ SW!SentIsFenced /\ SWNeverTwice
  BY <1>1 DEF SW!Init, SWRowsDiffer, SWRowIsItsOwn, SWReserved, SW!SentIsFenced, SWNeverTwice
<1>4. QED BY <1>2, <1>3 DEF SWIInv

\* What the steps of a call write to their process.
LEMMA SWEndsType ==
  ASSUME SWTypeOK, NEW p \in Process, NEW s \in SWStages, SW!Ends(p, s)
  PROVE  /\ swProc' \in [Process -> SWProc]
         /\ swProc'[p].pc = "off"
         /\ \A q \in Process : q # p => swProc'[q] = swProc[q]
  BY DEF SW!Ends, SWTypeOK, SWProc, SWPlaces

LEMMA SWGoesType ==
  ASSUME SWTypeOK, NEW p \in Process, NEW s \in SWStages, NEW c \in SWPlaces, SW!Goes(p, c, s)
  PROVE  /\ swProc' \in [Process -> SWProc]
         /\ swProc'[p].pc = c /\ swProc'[p].write = swProc[p].write
         /\ \A q \in Process : q # p => swProc'[q] = swProc[q]
  BY DEF SW!Goes, SWTypeOK, SWProc

\* A row is inserted only where it takes nobody's nonce and nobody's text; so
\* the write was not sent, and nobody else is about to send it.
LEMMA SWReserveIInv == ASSUME SWIInv, NEW p \in Process, SW!Reserve(p) PROVE SWIInv'
<1> USE DEF SWIInv
<1> DEFINE w == swProc[p].write
<1>1. w \in SW!Writes /\ swProc[p].pc = "reserve"
  BY DEF SW!Reserve, SWTypeOK
<1>2. UNCHANGED <<swLinked, swSent>>
  BY DEF SW!Reserve
<1>3. CASE ~SW!Taken(w) /\ swRows' = swRows \cup {w} /\ SW!Goes(p, "sync", "NOT_STARTED")
  <2>1. w \notin swRows /\ swSent[w] = 0
    BY <1>1, <1>3 DEF SW!Taken, SWTypeOK, SW!SentIsFenced
  <2>2. SWTypeOK'
    BY <1>1, <1>2, <1>3, SWGoesType DEF SWTypeOK, SWPlaces, SWStages
  <2>3. SWRowsDiffer'
    BY <1>3 DEF SWRowsDiffer, SW!Taken
  <2>4. /\ swProc'[p].pc = "sync" /\ swProc'[p].write = w
        /\ \A q \in Process : q # p => swProc'[q] = swProc[q]
    BY <1>3 DEF SW!Goes, SWTypeOK
  <2>5. SWRowIsItsOwn'
    BY <1>2, <1>3, <2>1, <2>4 DEF SWRowIsItsOwn, SWReserved
  <2>6. SW!SentIsFenced' /\ SWNeverTwice'
    BY <1>2, <1>3 DEF SW!SentIsFenced, SWNeverTwice
  <2>7. QED BY <2>2, <2>3, <2>5, <2>6
<1>4. CASE UNCHANGED swRows /\ \E s \in {"DUPLICATE_SUPPRESSED", "FAILED"} : SW!Ends(p, s)
  <2>1. /\ swProc' \in [Process -> SWProc] /\ swProc'[p].pc = "off"
        /\ \A q \in Process : q # p => swProc'[q] = swProc[q]
    BY <1>4, SWEndsType DEF SWStages
  <2>2. SWTypeOK'
    BY <1>2, <1>4, <2>1 DEF SWTypeOK
  <2>3. QED
    BY <1>2, <1>4, <2>1, <2>2
    DEF SWRowsDiffer, SWRowIsItsOwn, SWReserved, SW!SentIsFenced, SWNeverTwice
<1>5. QED BY <1>3, <1>4 DEF SW!Reserve

\* The one who sends had the row for itself, and nobody else is about to.
LEMMA SWSendIInv == ASSUME SWIInv, NEW p \in Process, SW!Send(p) PROVE SWIInv'
<1> USE DEF SWIInv
<1> DEFINE w == swProc[p].write
<1>1. /\ w \in SW!Writes /\ w \in swRows /\ swSent[w] = 0 /\ swLinked
      /\ swProc[p].pc = "send"
  BY DEF SW!Send, SWTypeOK, SWRowIsItsOwn, SWReserved
<1>2. swSent' = [swSent EXCEPT ![w] = 1] /\ UNCHANGED <<swRows, swLinked>>
  BY <1>1 DEF SW!Send
<1>3. /\ swProc'[p].pc \in {"read", "off"}
      /\ \A q \in Process : q # p => swProc'[q] = swProc[q]
      /\ swProc' \in [Process -> SWProc]
      /\ swProc'[p].write = w
  BY DEF SW!Send, SW!Lost, SW!Ends, SW!Goes, SWTypeOK, SWProc, SWPlaces, SWStages
<1>4. SWTypeOK'
  BY <1>1, <1>2, <1>3 DEF SWTypeOK
<1>5. SWRowIsItsOwn'
  BY <1>1, <1>2, <1>3 DEF SWRowIsItsOwn, SWReserved, SWTypeOK
<1>6. SW!SentIsFenced' /\ SWNeverTwice' /\ SWRowsDiffer'
  BY <1>1, <1>2 DEF SW!SentIsFenced, SWNeverTwice, SWRowsDiffer, SWTypeOK
<1>7. QED BY <1>4, <1>5, <1>6

\* The other steps of a process neither insert a row nor send: they end, go on
\* after the directory was synced, or start anew.
LEMMA SWOtherIInv ==
  ASSUME SWIInv, NEW p \in Process,
         \/ SW!Begin(p) \/ SW!SyncDirectory(p) \/ SW!SyncDirectoryFails(p)
         \/ SW!ReadBackPost(p) \/ SW!ReadBackNote(p) \/ SW!Crash(p)
  PROVE  SWIInv'
<1> USE DEF SWIInv
<1>1. UNCHANGED <<swRows, swSent>> /\ (swLinked => swLinked')
  BY DEF SW!Begin, SW!SyncDirectory, SW!SyncDirectoryFails, SW!ReadBackPost, SW!ReadBackNote,
         SW!Crash
<1>2. /\ swProc' \in [Process -> SWProc]
      /\ \A q \in Process : q # p => swProc'[q] = swProc[q]
      /\ \/ swProc'[p].pc = "off"
         \/ swProc'[p].pc = "reserve" /\ swProc'[p].write \in SW!Writes
         \/ /\ swProc[p].pc = "sync" /\ swProc'[p].pc = "send" /\ swLinked'
            /\ swProc'[p].write = swProc[p].write
  <2>1. CASE SW!Begin(p)
    <3>1. PICK w \in SW!Writes : swProc' = [swProc EXCEPT ![p] =
             [pc |-> "reserve", write |-> w, stage |-> "NOT_STARTED"]]
      BY <2>1 DEF SW!Begin
    <3>2. [pc |-> "reserve", write |-> w, stage |-> "NOT_STARTED"] \in SWProc
      BY DEF SWProc, SWPlaces, SWStages
    <3>3. QED BY <3>1, <3>2 DEF SWTypeOK
  <2>2. CASE SW!SyncDirectory(p)
    BY <2>2, SWGoesType DEF SW!SyncDirectory, SWPlaces, SWStages
  <2>3. CASE SW!SyncDirectoryFails(p) \/ SW!ReadBackPost(p) \/ SW!ReadBackNote(p)
    <3>1. \E s \in SWStages : SW!Ends(p, s)
      BY <2>3 DEF SW!SyncDirectoryFails, SW!ReadBackPost, SW!ReadBackNote, SW!Lost, SWStages
    <3>2. QED BY <3>1, SWEndsType
  <2>4. CASE SW!Crash(p)
    <3>1. SW!Off \in SWProc /\ SW!Off.pc = "off"
      BY DEF SW!Off, SWProc, SWPlaces, SWStages
    <3>2. QED BY <2>4, <3>1 DEF SW!Crash, SWTypeOK
  <2>5. QED BY <2>1, <2>2, <2>3, <2>4
<1>3. SWTypeOK'
  BY <1>1, <1>2 DEF SWTypeOK, SW!SyncDirectory, SW!Begin, SW!SyncDirectoryFails,
     SW!ReadBackPost, SW!ReadBackNote, SW!Crash
<1>4. SWRowIsItsOwn'
  BY <1>1, <1>2 DEF SWRowIsItsOwn, SWReserved
<1>5. QED
  BY <1>1, <1>3, <1>4 DEF SWRowsDiffer, SW!SentIsFenced, SWNeverTwice

\* Before the directory was synced the table may vanish, and with it nothing
\* that was sent.
LEMMA SWPowerLossIInv == ASSUME SWIInv, SW!PowerLoss PROVE SWIInv'
<1>1. \A p \in Process : swProc'[p] = SW!Off
  BY DEF SW!PowerLoss
<1>2. swRows' = swRows \/ (swRows' = {} /\ ~swLinked)
  BY DEF SW!PowerLoss, SWIInv, SWTypeOK
<1>3. UNCHANGED <<swLinked, swSent>> /\ swProc' = [p \in Process |-> SW!Off]
  BY DEF SW!PowerLoss
<1>4. SWTypeOK'
  BY <1>1, <1>2, <1>3 DEF SWIInv, SWTypeOK, SW!Off, SWProc, SWPlaces, SWStages
<1>5. QED
  BY <1>1, <1>2, <1>3, <1>4
  DEF SWIInv, SWTypeOK, SW!Off, SWRowsDiffer, SWRowIsItsOwn, SWReserved, SW!SentIsFenced, SWNeverTwice

\* What is confirmed stands in the room as it was signed, and the room only grows.
SWMessage == [write : SW!Writes \cup {Other}, altered : BOOLEAN]
SWRoomInv == swFlying \subseteq SW!Writes /\ swRoom \in Seq(SWMessage) /\ SW!ConfirmedIsReal

\* A page is a part of the room.
LEMMA SWPageDef ==
  ASSUME PageLimit \in Nat, swRoom \in Seq(SWMessage)
  PROVE  /\ Len(SW!Page) \in Nat
         /\ \A j \in 1..Len(SW!Page) : \E k \in 1..Len(swRoom) : SW!Page[j] = swRoom[k]
<1> DEFINE m == IF Len(swRoom) > PageLimit THEN Len(swRoom) - PageLimit + 1 ELSE 1
<1>1. Len(swRoom) \in Nat /\ m \in Nat /\ m >= 1 /\ m <= Len(swRoom) + 1
  <2>1. Len(swRoom) \in Nat
    BY LenProperties
  <2>2. QED BY <2>1
<1>2. SW!Page = SubSeq(swRoom, m, Len(swRoom))
  BY DEF SW!Page
<1> HIDE DEF m
<1>3. /\ Len(SW!Page) = IF m <= Len(swRoom) THEN Len(swRoom) - m + 1 ELSE 0
      /\ \A j \in 1..(Len(swRoom) - m + 1) : SW!Page[j] = swRoom[m + j - 1]
  BY <1>1, <1>2
<1>4. ASSUME NEW j \in 1..Len(SW!Page) PROVE \E k \in 1..Len(swRoom) : SW!Page[j] = swRoom[k]
  <2>1. m + j - 1 \in 1..Len(swRoom) /\ j \in 1..(Len(swRoom) - m + 1)
    BY <1>1, <1>3
  <2>2. QED BY <1>3, <2>1
<1>5. QED BY <1>1, <1>3, <1>4

\* A read-back confirms only what stands in the room once, with our signature.
LEMMA SWConfirmedDef ==
  ASSUME PageLimit \in Nat, SWRoomInv, NEW w \in SW!Writes, SW!MatchCount(w) = 1,
         ~\E r \in SW!Matches(w) : r.altered
  PROVE  \E k \in 1..Len(swRoom) : swRoom[k] = [write |-> w, altered |-> FALSE]
<1> DEFINE J == {j \in 1..Len(SW!Page) : SW!Page[j].write = w}
<1>1. J # {}
  <2>1. SW!MatchCount(w) = Cardinality(J)
    BY DEF SW!MatchCount, SW!Cardinality, Cardinality
  <2> HIDE DEF J
  <2>2. QED BY <2>1, FS_EmptySet
<1>2. PICK j \in 1..Len(SW!Page) : SW!Page[j].write = w
  BY <1>1
<1>3. PICK k \in 1..Len(swRoom) : SW!Page[j] = swRoom[k]
  BY SWPageDef DEF SWRoomInv
<1>4. SW!Page[j] \in SW!Matches(w)
  BY <1>2 DEF SW!Matches
<1>5. swRoom[k] \in SWMessage
  BY ElementOfSeq DEF SWRoomInv
<1>6. swRoom[k].write = w /\ swRoom[k].altered = FALSE
  BY <1>2, <1>3, <1>4, <1>5 DEF SWMessage
<1>7. swRoom[k] = [write |-> w, altered |-> FALSE]
  BY <1>5, <1>6 DEF SWMessage
<1>8. QED BY <1>7

\* A message more in the room leaves the others where they are.
LEMMA SWAppendRoom ==
  ASSUME SWRoomInv, NEW m \in SWMessage, swRoom' = Append(swRoom, m)
  PROVE  /\ swRoom' \in Seq(SWMessage) /\ Len(swRoom) \in Nat /\ Len(swRoom') = Len(swRoom) + 1
         /\ \A k \in 1..Len(swRoom) : k \in 1..Len(swRoom') /\ swRoom'[k] = swRoom[k]
<1>1. Len(swRoom) \in Nat
  BY LenProperties DEF SWRoomInv
<1>2. QED BY <1>1, AppendProperties DEF SWRoomInv

LEMMA SWInitRoomInv == SW!Init => SWRoomInv
<1> SUFFICES ASSUME SW!Init PROVE SWRoomInv
  OBVIOUS
<1>1. \A p \in Process : swProc[p].stage = "NOT_STARTED"
  BY DEF SW!Init, SW!Off
<1>2. QED BY <1>1 DEF SW!Init, SWRoomInv, SW!ConfirmedIsReal

\* A confirmation never turns false: no other step confirms, and a process that
\* starts on another write forgets the answer of the last one.
LEMMA SWRoomStep ==
  ASSUME PageLimit \in Nat, SWIInv, SWRoomInv, [SW!Next]_swVars
  PROVE  SWRoomInv'
<1> USE DEF SWIInv
<1>1. ASSUME NEW p \in Process, SW!Post(p) PROVE SWRoomInv'
  <2>1. swRoom' = swRoom /\ swFlying' \subseteq SW!Writes
    BY <1>1 DEF SW!Post, SW!Begin, SW!Reserve, SW!SyncDirectory, SW!SyncDirectoryFails, SW!Send, SW!ReadBackPost,
       SW!ReadBackNote, SW!Crash, SWRoomInv, SWTypeOK
  <2>2. SUFFICES ASSUME NEW q \in Process, swProc'[q].stage = "EVIDENCE_CONFIRMED"
                 PROVE  \E k \in 1..Len(swRoom) : swRoom[k] = [write |-> swProc'[q].write, altered |-> FALSE]
    BY <2>1 DEF SWRoomInv, SW!ConfirmedIsReal
  <2>3. CASE swProc'[q] = swProc[q]
    BY <2>2, <2>3 DEF SWRoomInv, SW!ConfirmedIsReal
  <2>4. ASSUME SW!Ends(p, "EVIDENCE_CONFIRMED"), SW!ReadBackPost(p), q = p, SW!MatchCount(swProc[p].write) = 1,
               ~\E r \in SW!Matches(swProc[p].write) : r.altered
        PROVE  \E k \in 1..Len(swRoom) : swRoom[k] = [write |-> swProc'[q].write, altered |-> FALSE]
    <3>1. swProc[p].write \in SW!Writes /\ swProc'[p].write = swProc[p].write
      BY <2>4 DEF SWTypeOK, SW!Ends, SW!ReadBackPost
    <3>2. QED BY <2>4, <3>1, SWConfirmedDef
  <2>5. CASE swProc'[q] # swProc[q]
    <3>1. CASE SW!ReadBackPost(p)
      <4>1. \/ SW!Lost(p) \/ SW!Ends(p, "READBACK_MISMATCH") \/ SW!Ends(p, "SIGNATURE_INVALID")
            \/ /\ SW!Ends(p, "EVIDENCE_CONFIRMED") /\ SW!MatchCount(swProc[p].write) = 1
               /\ ~\E r \in SW!Matches(swProc[p].write) : r.altered
        BY <3>1 DEF SW!ReadBackPost
      <4>2. CASE \E s \in SWStages \ {"EVIDENCE_CONFIRMED"} : SW!Ends(p, s)
        BY <2>2, <2>5, <4>2 DEF SW!Ends, SWTypeOK, SWProc
      <4>3. CASE /\ SW!Ends(p, "EVIDENCE_CONFIRMED") /\ SW!MatchCount(swProc[p].write) = 1
                 /\ ~\E r \in SW!Matches(swProc[p].write) : r.altered
        <5>1. q = p
          BY <2>5, <4>3 DEF SW!Ends, SWTypeOK
        <5>2. QED BY <2>4, <3>1, <4>3, <5>1
      <4>4. QED BY <4>1, <4>2, <4>3 DEF SW!Lost, SWStages
    <3>2. CASE ~SW!ReadBackPost(p)
      <4>1. CASE SW!Begin(p) \/ SW!Crash(p)
        BY <2>2, <2>5, <4>1 DEF SW!Begin, SW!Crash, SW!Off, SWTypeOK
      <4>2. CASE \E s \in SWStages \ {"EVIDENCE_CONFIRMED"} : SW!Ends(p, s) \/ \E c \in SWPlaces : SW!Goes(p, c, s)
        BY <2>2, <2>5, <4>2 DEF SW!Ends, SW!Goes, SWTypeOK, SWProc
      <4>3. \/ SW!Begin(p) \/ SW!Crash(p)
            \/ \E s \in SWStages \ {"EVIDENCE_CONFIRMED"} : SW!Ends(p, s) \/ \E c \in SWPlaces : SW!Goes(p, c, s)
        BY <1>1, <3>2 DEF SW!Post, SW!Reserve, SW!SyncDirectory, SW!SyncDirectoryFails, SW!Send, SW!ReadBackNote,
           SW!Lost, SWStages, SWPlaces
      <4>4. QED BY <4>1, <4>2, <4>3
    <3>3. QED BY <3>1, <3>2
  <2>6. QED BY <2>3, <2>5
<1>2. CASE SW!PowerLoss
  <2>1. swRoom' = swRoom /\ swFlying' = swFlying /\ \A p \in Process : swProc'[p].stage = "NOT_STARTED"
    BY <1>2 DEF SW!PowerLoss, SW!Off
  <2>2. QED BY <2>1 DEF SWRoomInv, SW!ConfirmedIsReal
<1>3. CASE SW!Apply \/ SW!OthersPost
  <2>1. swProc' = swProc /\ swFlying' \subseteq SW!Writes
    BY <1>3 DEF SW!Apply, SW!OthersPost, SWRoomInv
  <2>2. swRoom' = swRoom \/ \E m \in SWMessage : swRoom' = Append(swRoom, m)
    <3>1. CASE SW!Apply
      <4>1. ASSUME NEW w \in swFlying, NEW a \in BOOLEAN PROVE [write |-> w, altered |-> a] \in SWMessage
        BY DEF SWRoomInv, SWMessage
      <4>2. QED BY <3>1, <4>1 DEF SW!Apply
    <3>2. CASE SW!OthersPost
      <4>1. [write |-> Other, altered |-> FALSE] \in SWMessage
        BY DEF SWMessage
      <4>2. QED BY <3>2, <4>1 DEF SW!OthersPost
    <3>3. QED BY <1>3, <3>1, <3>2
  <2>3. CASE swRoom' = swRoom
    BY <2>1, <2>3 DEF SWRoomInv, SW!ConfirmedIsReal
  <2>4. CASE \E m \in SWMessage : swRoom' = Append(swRoom, m)
    <3>1. PICK m \in SWMessage : swRoom' = Append(swRoom, m)
      BY <2>4
    <3>2. /\ swRoom' \in Seq(SWMessage)
          /\ \A k \in 1..Len(swRoom) : k \in 1..Len(swRoom') /\ swRoom'[k] = swRoom[k]
      BY <3>1, SWAppendRoom
    <3>3. SW!ConfirmedIsReal'
      BY <2>1, <3>2 DEF SWRoomInv, SW!ConfirmedIsReal
    <3>4. QED BY <2>1, <3>2, <3>3 DEF SWRoomInv
  <2>5. QED BY <2>2, <2>3, <2>4
<1>4. CASE swVars' = swVars
  BY <1>4 DEF swVars, SWRoomInv, SW!ConfirmedIsReal
<1>5. QED BY <1>1, <1>2, <1>3, <1>4 DEF SW!Next

\* No step of a write to Technocore breaks it.
LEMMA SWStepIInv == ASSUME SWIInv, [SW!Next]_swVars PROVE SWIInv'
<1>1. CASE \E p \in Process : SW!Post(p)
  BY <1>1, SWReserveIInv, SWSendIInv, SWOtherIInv DEF SW!Post
<1>2. CASE SW!PowerLoss
  BY <1>2, SWPowerLossIInv
<1>3. CASE SW!Apply \/ SW!OthersPost \/ UNCHANGED swVars
  BY <1>3 DEF SW!Apply, SW!OthersPost, swVars, SWIInv, SWTypeOK, SWRowsDiffer, SWRowIsItsOwn,
              SWReserved, SW!SentIsFenced, SWNeverTwice
<1>4. QED BY <1>1, <1>2, <1>3 DEF SW!Next

LEMMA SWSentOnceFacts == ASSUME SWIInv, SWRoomInv PROVE SW!SentOnce /\ SW!SentIsFenced /\ SW!ConfirmedIsReal
  BY DEF SWIInv, SWRoomInv, SWTypeOK, SWNeverTwice, SW!SentIsFenced, SWRowsDiffer, SW!SentOnce

\* Whatever is sent has its row, and whatever is confirmed stands in the room, at
\* every moment (write_effect.py; technocore.py, the read-back).
THEOREM SWInvariance == Spec => [](machine = "SignedWrite" => SWIInv /\ SWRoomInv)
<1> DEFINE I == machine = "SignedWrite" => SWIInv /\ SWRoomInv
<1>1. Init => I
  BY SWInitIInv, SWInitRoomInv DEF Init
<1>2. I /\ [Next]_vars => I'
  BY PageAssumption, SWStepIInv, SWRoomStep DEF Next, vars
<1>3. QED BY <1>1, <1>2, PTL DEF Spec

\* A nonce goes out with one text, a text with one nonce, and either once,
\* whoever crashes or tries again; what went out stands in the fence, and what a
\* process was told is confirmed is in the room as it was signed
\* (write_effect.py, reserve; technocore.py, post and update).
THEOREM Once == Spec => []SentOnce
<1>1. (machine = "SignedWrite" => SWIInv /\ SWRoomInv) => SentOnce
  BY SWSentOnceFacts DEF SentOnce
<1>2. QED BY <1>1, SWInvariance, PTL

-----------------------------------------------------------------------------
(* The journal of a manual observation (ObservationJournal): the lock      *)
(* admits one append, whose candidate holds every record before it, and    *)
(* the grammar of the journal refuses a record that is there.              *)

OJPlaces == {"off", "idle", "prepare", "lock", "check", "write", "sync", "next", "request"}
OJProcRec == [pc : OJPlaces, mode : {"runner", "caller"}, token : BOOLEAN, consumed : BOOLEAN,
            unknown : BOOLEAN, todo : OJ!Records]
OJFiles == [integrity : {"ABSENT", "VALID", "TORN_TAIL", "CORRUPT"}, records : Seq(OJ!Records)]

OJTypeOK ==
    /\ ojFile \in OJFiles /\ ojSynced \in OJFiles
    /\ ojCandidate \in Seq(OJ!Records)
    /\ ojLock \in Process \cup {None}
    /\ ojProc \in [Process -> OJProcRec]
    /\ ojRequests \in [OJ!Sources -> {0, 1}]
    /\ ojDamaged \in BOOLEAN

\* What a file may hold: nothing, a history, or one that was cut off.
OJFileOK(f) ==
    /\ f.integrity \in {"ABSENT", "CORRUPT"} => f.records = <<>>
    /\ f.integrity = "VALID" => OJ!HistoryValid(f.records)
    /\ f.integrity = "TORN_TAIL" /\ f.records # <<>> =>
          OJ!HistoryValid(f.records) /\ f.records[Len(f.records)] # OJ!Finalize
    /\ f.integrity \in {"TORN_TAIL", "CORRUPT"} => ojDamaged

OJFilesInv ==
    /\ OJFileOK(ojFile) /\ OJFileOK(ojSynced)
    /\ ojSynced.integrity = "VALID" /\ ~ojDamaged =>
          /\ ojFile.integrity = "VALID" /\ Len(ojSynced.records) <= Len(ojFile.records)
          /\ \A k \in 1..Len(ojSynced.records) : ojSynced.records[k] = ojFile.records[k]
    /\ ojFile.integrity = "ABSENT" => ojSynced.integrity = "ABSENT"

\* The appending process, from its look at the journal to the end of the append.
OJAppendInv ==
    /\ \A p \in Process : ojProc[p].pc \in {"check", "write", "sync"} => ojLock = p
    /\ \A p \in Process : ojProc[p].pc = "write" =>
          /\ OJ!HistoryValid(ojCandidate) /\ ojProc[p].todo \in OJ!ToSet(ojCandidate)
          /\ ~ojDamaged => ojCandidate = Append(ojFile.records, ojProc[p].todo)
    /\ \A p \in Process : ojProc[p].pc = "sync" =>
          /\ ojFile.integrity # "ABSENT"
          /\ ojFile.integrity = "VALID" => ojProc[p].todo \in OJ!ToSet(ojFile.records)
    /\ \A p \in Process : ojProc[p].unknown => ojFile.integrity # "ABSENT"

\* A process that has recorded its request to i and is about to send it.
OJPending(p, i) ==
    ojProc[p].pc \in {"next", "request"} /\ ojProc[p].todo = OJ!Rec("REQUEST_BOUNDARY", i)

\* The request boundary of i is on durable record, and whoever writes keeps it.
OJRecorded(i) ==
    /\ ojFile.integrity # "ABSENT" /\ ojSynced.integrity # "ABSENT"
    /\ ojFile.integrity = "VALID" => OJ!Rec("REQUEST_BOUNDARY", i) \in OJ!ToSet(ojFile.records)
    /\ ojSynced.integrity = "VALID" => OJ!Rec("REQUEST_BOUNDARY", i) \in OJ!ToSet(ojSynced.records)
    /\ \A p \in Process : ojProc[p].pc = "write" =>
          OJ!Rec("REQUEST_BOUNDARY", i) \in OJ!ToSet(ojCandidate)

OJRequestInv ==
    /\ \A p \in Process : ojProc[p].pc = "request" => \E i \in OJ!Sources : OJPending(p, i)
    /\ \A i \in OJ!Sources : ojRequests[i] = 1 => OJRecorded(i)
    /\ \A p \in Process, i \in OJ!Sources : OJPending(p, i) => ojRequests[i] = 0 /\ OJRecorded(i)
    /\ \A p, q \in Process, i \in OJ!Sources : OJPending(p, i) /\ OJPending(q, i) => p = q
    /\ \A p \in Process, i \in OJ!Sources :
          ojProc[p].pc \in {"write", "sync"} /\ ojProc[p].todo = OJ!Rec("REQUEST_BOUNDARY", i) =>
             ojRequests[i] = 0 /\ \A q \in Process : ~OJPending(q, i)

OJIInv == OJTypeOK /\ OJFilesInv /\ OJAppendInv /\ OJRequestInv

-----------------------------------------------------------------------------
(* Records and histories.                                                  *)

LEMMA OJRecordTypes ==
    ASSUME NEW r \in OJ!Records
    PROVE  \/ r \in {OJ!Plan, OJ!Permit, OJ!Intent, OJ!Commit, OJ!Finalize}
           \/ \E i \in OJ!Sources : r \in {OJ!Rec("SOURCE_INTENT", i), OJ!Rec("REQUEST_BOUNDARY", i),
                                        OJ!Rec("SOURCE_RESULT", i)}
  BY DEF OJ!Records, OJ!SourceRecords

LEMMA OJSourceRecord ==
    ASSUME NEW i \in OJ!Sources
    PROVE  /\ OJ!Rec("SOURCE_INTENT", i) \in OJ!Records
           /\ OJ!Rec("REQUEST_BOUNDARY", i) \in OJ!Records
           /\ OJ!Rec("SOURCE_RESULT", i) \in OJ!Records
  BY DEF OJ!Records, OJ!SourceRecords

LEMMA OJOtherRecord ==
    /\ OJ!Plan \in OJ!Records /\ OJ!Permit \in OJ!Records /\ OJ!Intent \in OJ!Records /\ OJ!Commit \in OJ!Records
    /\ OJ!Finalize \in OJ!Records
  BY DEF OJ!Records

\* What may follow what.
LEMMA OJFollowsDef ==
    ASSUME NumSources \in Nat \ {0}, NEW r \in OJ!Records, NEW s \in OJ!Follows(r)
    PROVE  \/ r = OJ!Plan /\ s \in {OJ!Permit, OJ!Intent}
           \/ r = OJ!Permit /\ s = OJ!Intent
           \/ r = OJ!Intent /\ s = OJ!Rec("SOURCE_INTENT", 0)
           \/ \E i \in OJ!Sources :
                 \/ /\ r = OJ!Rec("SOURCE_INTENT", i)
                    /\ s \in {OJ!Rec("REQUEST_BOUNDARY", i), OJ!Rec("SOURCE_RESULT", i)}
                 \/ r = OJ!Rec("REQUEST_BOUNDARY", i) /\ s = OJ!Rec("SOURCE_RESULT", i)
                 \/ r = OJ!Rec("SOURCE_RESULT", i) /\ i = NumSources - 1 /\ s = OJ!Commit
                 \/ /\ r = OJ!Rec("SOURCE_RESULT", i) /\ i + 1 \in OJ!Sources
                    /\ s = OJ!Rec("SOURCE_INTENT", i + 1)
           \/ r = OJ!Commit /\ s = OJ!Finalize
<1>1. CASE r \in {OJ!Plan, OJ!Permit, OJ!Intent, OJ!Commit, OJ!Finalize}
  BY <1>1 DEF OJ!Follows, OJ!Plan, OJ!Permit, OJ!Intent, OJ!Commit, OJ!Finalize, OJ!Rec
<1>2. ASSUME NEW i \in OJ!Sources, r = OJ!Rec("SOURCE_INTENT", i)
      PROVE  s \in {OJ!Rec("REQUEST_BOUNDARY", i), OJ!Rec("SOURCE_RESULT", i)}
  BY <1>2 DEF OJ!Follows, OJ!Plan, OJ!Permit, OJ!Intent, OJ!Commit, OJ!Finalize, OJ!Rec
<1>3. ASSUME NEW i \in OJ!Sources, r = OJ!Rec("REQUEST_BOUNDARY", i)
      PROVE  s = OJ!Rec("SOURCE_RESULT", i)
  BY <1>3 DEF OJ!Follows, OJ!Plan, OJ!Permit, OJ!Intent, OJ!Commit, OJ!Finalize, OJ!Rec
<1>4. ASSUME NEW i \in OJ!Sources, r = OJ!Rec("SOURCE_RESULT", i)
      PROVE  \/ i = NumSources - 1 /\ s = OJ!Commit
             \/ i + 1 \in OJ!Sources /\ s = OJ!Rec("SOURCE_INTENT", i + 1)
  <2>1. OJ!Follows(r) = IF i = NumSources - 1 THEN {OJ!Commit} ELSE {OJ!Rec("SOURCE_INTENT", i + 1)}
    BY <1>4 DEF OJ!Follows, OJ!Plan, OJ!Permit, OJ!Intent, OJ!Commit, OJ!Finalize, OJ!Rec
  <2>2. i # NumSources - 1 => i + 1 \in OJ!Sources
    BY DEF OJ!Sources
  <2>3. QED BY <2>1, <2>2
<1>5. QED BY <1>1, <1>2, <1>3, <1>4, OJRecordTypes

\* Later records of a history rank higher.
OJRank(r) ==
    IF r.type = "PLAN_PREPARED" THEN 0
    ELSE IF r.type = "PERMIT_CONSUMED" THEN 1
    ELSE IF r.type = "ATTEMPT_INTENT" THEN 2
    ELSE IF r.type = "SOURCE_INTENT" THEN 3 + 3 * r.source
    ELSE IF r.type = "REQUEST_BOUNDARY" THEN 4 + 3 * r.source
    ELSE IF r.type = "SOURCE_RESULT" THEN 5 + 3 * r.source
    ELSE IF r.type = "EVIDENCE_COMMIT" THEN 3 + 3 * NumSources
    ELSE 4 + 3 * NumSources

LEMMA OJRanks ==
    ASSUME NumSources \in Nat \ {0}, NEW r \in OJ!Records, NEW s \in OJ!Follows(r)
    PROVE  OJRank(r) \in Nat /\ OJRank(s) \in Nat /\ OJRank(r) < OJRank(s) /\ s \in OJ!Records
<1> USE DEF OJRank, OJ!Plan, OJ!Permit, OJ!Intent, OJ!Commit, OJ!Finalize, OJ!Rec
<1>1. CASE r = OJ!Plan /\ s \in {OJ!Permit, OJ!Intent}
  BY <1>1, OJOtherRecord
<1>2. CASE r = OJ!Permit /\ s = OJ!Intent
  BY <1>2, OJOtherRecord
<1>3. CASE r = OJ!Intent /\ s = OJ!Rec("SOURCE_INTENT", 0)
  <2>1. 0 \in OJ!Sources
    BY DEF OJ!Sources
  <2>2. s \in OJ!Records
    BY <1>3, <2>1, OJSourceRecord
  <2>3. s.type = "SOURCE_INTENT" /\ s.source = 0 /\ r.type = "ATTEMPT_INTENT"
    BY <1>3
  <2>4. QED BY <2>2, <2>3
<1>4. ASSUME NEW i \in OJ!Sources,
             \/ /\ r = OJ!Rec("SOURCE_INTENT", i)
                /\ s \in {OJ!Rec("REQUEST_BOUNDARY", i), OJ!Rec("SOURCE_RESULT", i)}
             \/ r = OJ!Rec("REQUEST_BOUNDARY", i) /\ s = OJ!Rec("SOURCE_RESULT", i)
      PROVE  OJRank(r) \in Nat /\ OJRank(s) \in Nat /\ OJRank(r) < OJRank(s) /\ s \in OJ!Records
  <2>1. i \in Nat
    BY DEF OJ!Sources
  <2>2. s \in OJ!Records
    BY <1>4, OJSourceRecord
  <2>3. QED BY <1>4, <2>1, <2>2
<1>5. ASSUME NEW i \in OJ!Sources, r = OJ!Rec("SOURCE_RESULT", i), i = NumSources - 1, s = OJ!Commit
      PROVE  OJRank(r) \in Nat /\ OJRank(s) \in Nat /\ OJRank(r) < OJRank(s) /\ s \in OJ!Records
  BY <1>5, OJOtherRecord
<1>6. ASSUME NEW i \in OJ!Sources, r = OJ!Rec("SOURCE_RESULT", i), i + 1 \in OJ!Sources,
             s = OJ!Rec("SOURCE_INTENT", i + 1)
      PROVE  OJRank(r) \in Nat /\ OJRank(s) \in Nat /\ OJRank(r) < OJRank(s) /\ s \in OJ!Records
  <2>1. i \in Nat
    BY DEF OJ!Sources
  <2>2. s \in OJ!Records
    BY <1>6, OJSourceRecord
  <2>3. QED BY <1>6, <2>1, <2>2
<1>7. CASE r = OJ!Commit /\ s = OJ!Finalize
  BY <1>7, OJOtherRecord
<1>8. QED BY <1>1, <1>2, <1>3, <1>4, <1>5, <1>6, <1>7, OJFollowsDef

LEMMA OJHistoryRanked ==
    ASSUME NumSources \in Nat \ {0}, NEW rs \in Seq(OJ!Records), OJ!HistoryValid(rs),
           NEW k \in 1..Len(rs), NEW l \in 1..Len(rs), k < l
    PROVE  rs[k] # rs[l]
<1>1. Len(rs) \in Nat /\ \A j \in 1..Len(rs) : rs[j] \in OJ!Records
  BY LenProperties, ElementOfSeq
<1>2. \A j \in 1..(Len(rs) - 1) : rs[j + 1] \in OJ!Follows(rs[j])
  BY DEF OJ!HistoryValid
<1>3. ASSUME NEW j \in 1..(Len(rs) - 1)
      PROVE  /\ OJRank(rs[j]) \in Nat /\ OJRank(rs[j + 1]) \in Nat /\ OJRank(rs[j]) < OJRank(rs[j + 1])
  <2>1. rs[j] \in OJ!Records
    BY <1>1
  <2>2. QED BY <1>2, <2>1, OJRanks
<1> DEFINE T == {j \in 1..Len(rs) : k < j /\ ~(OJRank(rs[k]) < OJRank(rs[j]))}
<1>4. CASE T = {}
  <2>1. OJRank(rs[k]) < OJRank(rs[l])
    BY <1>4
  <2>2. OJRank(rs[k]) \in Nat
    BY <1>1, <1>3
  <2>3. QED BY <2>1, <2>2
<1>5. CASE T # {}
  <2>1. T \subseteq Nat
    BY <1>1
  <2>2. PICK j \in T : \A m \in T : j <= m
    <3> HIDE DEF T
    <3> QED BY <1>5, <2>1, LeastNat
  <2>3. j - 1 \in 1..(Len(rs) - 1) /\ k \in 1..(Len(rs) - 1) /\ (j - 1) + 1 = j
    BY <1>1, <2>2
  <2>4. OJRank(rs[j - 1]) \in Nat /\ OJRank(rs[j]) \in Nat /\ OJRank(rs[j - 1]) < OJRank(rs[j])
        /\ OJRank(rs[k]) \in Nat
    BY <1>3, <2>3
  <2>5. CASE j - 1 = k
    BY <2>2, <2>4, <2>5
  <2>6. CASE j - 1 # k
    <3>1. j - 1 \notin T /\ k < j - 1 /\ j - 1 \in 1..Len(rs)
      BY <1>1, <2>2, <2>3, <2>6
    <3>2. OJRank(rs[k]) < OJRank(rs[j - 1])
      BY <3>1
    <3>3. QED BY <2>2, <2>4, <3>2
  <2>7. QED BY <2>5, <2>6
<1>6. QED BY <1>4, <1>5

\* A history with one record more has a new one.
LEMMA OJNotAgain ==
    ASSUME NumSources \in Nat \ {0}, NEW rs \in Seq(OJ!Records), NEW r \in OJ!Records,
           OJ!HistoryValid(Append(rs, r))
    PROVE  r \notin OJ!ToSet(rs)
<1> DEFINE t == Append(rs, r)
<1>1. /\ t \in Seq(OJ!Records) /\ Len(rs) \in Nat /\ Len(t) = Len(rs) + 1 /\ t[Len(rs) + 1] = r
      /\ \A k \in 1..Len(rs) : t[k] = rs[k]
      /\ DOMAIN rs = 1..Len(rs)
  BY AppendProperties, LenProperties
<1> HIDE DEF t
<1>2. ASSUME NEW k \in 1..Len(rs) PROVE rs[k] # r
  <2>1. k \in 1..Len(t) /\ Len(rs) + 1 \in 1..Len(t) /\ k < Len(rs) + 1
    BY <1>1
  <2>2. t[k] # t[Len(rs) + 1]
    BY <1>1, <2>1, OJHistoryRanked DEF t
  <2>3. QED BY <1>1, <2>2
<1>3. QED BY <1>1, <1>2 DEF OJ!ToSet

\* Every record but the plan follows one that is there too.
LEMMA OJHasBefore ==
    ASSUME NumSources \in Nat \ {0}, NEW rs \in Seq(OJ!Records), OJ!HistoryValid(rs),
           NEW s \in OJ!ToSet(rs), s # OJ!Plan
    PROVE  \E r \in OJ!ToSet(rs) : r \in OJ!Records /\ s \in OJ!Follows(r)
<1>1. Len(rs) \in Nat /\ DOMAIN rs = 1..Len(rs) /\ \A j \in 1..Len(rs) : rs[j] \in OJ!Records
  BY LenProperties, ElementOfSeq
<1>2. PICK k \in 1..Len(rs) : rs[k] = s
  BY <1>1 DEF OJ!ToSet
<1>3. k # 1
  BY <1>2 DEF OJ!HistoryValid
<1>4. k - 1 \in 1..(Len(rs) - 1) /\ k - 1 \in DOMAIN rs /\ (k - 1) + 1 = k
  BY <1>1, <1>3
<1>5. rs[k] \in OJ!Follows(rs[k - 1])
  BY <1>4 DEF OJ!HistoryValid
<1>6. rs[k - 1] \in OJ!ToSet(rs) /\ rs[k - 1] \in OJ!Records
  BY <1>1, <1>4 DEF OJ!ToSet
<1>7. QED BY <1>2, <1>5, <1>6

\* A committed history has the result of every source: the source with the
\* highest number among those without one would be missing its successor's.
LEMMA OJCommitHasAll ==
    ASSUME NumSources \in Nat \ {0}, NEW rs \in Seq(OJ!Records), OJ!HistoryValid(rs),
           OJ!Commit \in OJ!ToSet(rs), NEW i \in OJ!Sources
    PROVE  OJ!Rec("SOURCE_RESULT", i) \in OJ!ToSet(rs)
<1> USE DEF OJ!Plan, OJ!Permit, OJ!Intent, OJ!Commit, OJ!Finalize, OJ!Rec
<1>1. OJ!Rec("SOURCE_RESULT", NumSources - 1) \in OJ!ToSet(rs)
  <2>1. PICK r \in OJ!ToSet(rs) : r \in OJ!Records /\ OJ!Commit \in OJ!Follows(r)
    BY OJHasBefore
  <2>2. r = OJ!Rec("SOURCE_RESULT", NumSources - 1)
    BY <2>1, OJFollowsDef
  <2>3. QED BY <2>1, <2>2
<1>2. ASSUME NEW j \in OJ!Sources, j + 1 \in OJ!Sources, OJ!Rec("SOURCE_RESULT", j + 1) \in OJ!ToSet(rs)
      PROVE  OJ!Rec("SOURCE_RESULT", j) \in OJ!ToSet(rs)
  <2>1. j \in Nat
    BY DEF OJ!Sources
  <2>2. OJ!Rec("SOURCE_INTENT", j + 1) \in OJ!ToSet(rs)
    <3>1. PICK r \in OJ!ToSet(rs) : r \in OJ!Records /\ OJ!Rec("SOURCE_RESULT", j + 1) \in OJ!Follows(r)
      BY <1>2, OJHasBefore
    <3>2. r = OJ!Rec("SOURCE_INTENT", j + 1) \/ r = OJ!Rec("REQUEST_BOUNDARY", j + 1)
      BY <3>1, OJFollowsDef
    <3>3. CASE r = OJ!Rec("REQUEST_BOUNDARY", j + 1)
      <4>1. PICK q \in OJ!ToSet(rs) : q \in OJ!Records /\ r \in OJ!Follows(q)
        BY <3>1, <3>3, OJHasBefore
      <4>2. q = OJ!Rec("SOURCE_INTENT", j + 1)
        BY <3>3, <4>1, OJFollowsDef
      <4>3. QED BY <4>1, <4>2
    <3>4. QED BY <3>1, <3>2, <3>3
  <2>3. PICK r \in OJ!ToSet(rs) : r \in OJ!Records /\ OJ!Rec("SOURCE_INTENT", j + 1) \in OJ!Follows(r)
    BY <2>2, OJHasBefore
  <2>4. r = OJ!Rec("SOURCE_RESULT", j)
    <3>1. \/ r = OJ!Intent /\ j + 1 = 0
          \/ \E m \in OJ!Sources : r = OJ!Rec("SOURCE_RESULT", m) /\ m + 1 = j + 1
      BY <2>3, OJFollowsDef
    <3>2. ASSUME NEW m \in OJ!Sources, m + 1 = j + 1 PROVE m = j
      BY <2>1, <3>2 DEF OJ!Sources
    <3>3. QED BY <2>1, <3>1, <3>2
  <2>5. QED BY <2>3, <2>4
<1> DEFINE T == {j \in OJ!Sources : OJ!Rec("SOURCE_RESULT", j) \notin OJ!ToSet(rs)}
<1>3. CASE T # {}
  <2>1. T \subseteq Nat /\ \A j \in T : j <= NumSources
    BY DEF OJ!Sources
  <2>2. PICK j \in T : \A m \in T : m <= j
    <3> HIDE DEF T
    <3> QED BY <1>3, <2>1, GreatestNat
  <2>3. j # NumSources - 1 /\ j \in Nat
    BY <1>1, <2>2 DEF OJ!Sources
  <2>4. j + 1 \in OJ!Sources /\ j + 1 \notin T
    BY <2>2, <2>3 DEF OJ!Sources
  <2>5. QED BY <1>2, <2>2, <2>4
<1>4. QED BY <1>3

-----------------------------------------------------------------------------
(* What a call does to its own process, and to nothing else.               *)

LEMMA OJGoesDef ==
    ASSUME OJTypeOK, NEW p \in Process, NEW pc \in OJPlaces, OJ!Goes(p, pc)
    PROVE  /\ ojProc' \in [Process -> OJProcRec]
           /\ \A q \in Process : q # p => ojProc'[q] = ojProc[q]
           /\ ojProc'[p].pc = pc /\ ojProc'[p].todo = ojProc[p].todo
           /\ ojProc'[p].unknown = ojProc[p].unknown
  BY DEF OJTypeOK, OJ!Goes, OJProcRec

LEMMA OJRaisesDef ==
    ASSUME OJTypeOK, NEW p \in Process, OJ!Raises(p)
    PROVE  /\ ojProc' \in [Process -> OJProcRec]
           /\ \A q \in Process : q # p => ojProc'[q] = ojProc[q]
           /\ ojProc'[p].pc = "idle" /\ ojProc'[p].todo = ojProc[p].todo
           /\ ojProc'[p].unknown = ojProc[p].unknown
<1> DEFINE t == ojProc[p].token /\ ojProc[p].mode = "caller"
<1>1. ojProc[p] \in OJProcRec /\ ojProc \in [Process -> OJProcRec]
  BY DEF OJTypeOK
<1>2. t \in BOOLEAN
  OBVIOUS
<1>3. ojProc' = [ojProc EXCEPT ![p] = [ojProc[p] EXCEPT !.pc = "idle", !.token = t]]
  BY <1>1 DEF OJ!Raises, OJProcRec
<1> HIDE DEF t
<1>4. [ojProc[p] EXCEPT !.pc = "idle", !.token = t] \in OJProcRec
  BY <1>1, <1>2 DEF OJProcRec, OJPlaces
<1>5. QED BY <1>1, <1>3, <1>4 DEF OJProcRec

LEMMA OJAppendsDef ==
    ASSUME OJTypeOK, NEW p \in Process, NEW r \in OJ!Records, OJ!Appends(p, r)
    PROVE  /\ ojProc' \in [Process -> OJProcRec]
           /\ \A q \in Process : q # p => ojProc'[q] = ojProc[q]
           /\ ojProc'[p].pc = "lock" /\ ojProc'[p].todo = r
           /\ ojProc'[p].unknown = ojProc[p].unknown
  BY DEF OJTypeOK, OJ!Appends, OJProcRec, OJPlaces

LEMMA OJAppendedDef ==
    ASSUME OJTypeOK, NEW p \in Process, OJ!Appended(p)
    PROVE  /\ ojProc' \in [Process -> OJProcRec]
           /\ \A q \in Process : q # p => ojProc'[q] = ojProc[q]
           /\ ojProc'[p].pc \in {"next", "idle"} /\ ojProc'[p].todo = ojProc[p].todo
           /\ ojProc'[p].unknown = ojProc[p].unknown
<1> DEFINE t == IF ojProc[p].mode = "runner" THEN "next" ELSE "idle"
<1>1. ojProc[p] \in OJProcRec /\ ojProc \in [Process -> OJProcRec]
  BY DEF OJTypeOK
<1>2. t \in {"next", "idle"}
  OBVIOUS
<1>3. ojProc' = [ojProc EXCEPT ![p] = [ojProc[p] EXCEPT !.pc = t, !.token = TRUE, !.consumed = TRUE]]
  BY <1>1 DEF OJ!Appended, OJProcRec
<1> HIDE DEF t
<1>4. [ojProc[p] EXCEPT !.pc = t, !.token = TRUE, !.consumed = TRUE] \in OJProcRec
  BY <1>1, <1>2 DEF OJProcRec, OJPlaces
<1>5. QED BY <1>1, <1>2, <1>3, <1>4 DEF OJProcRec

LEMMA OJInitIInv == ASSUME NumSources \in Nat \ {0}, OJ!Init PROVE OJIInv
<1> USE DEF OJ!Init
<1>1. OJ!Off \in OJProcRec
  BY OJOtherRecord DEF OJ!Off, OJProcRec, OJPlaces
<1>2. <<>> \in Seq(OJ!Records) /\ OJ!Absent \in OJFiles /\ OJFileOK(OJ!Absent)
  BY EmptySeq DEF OJ!Absent, OJ!File, OJFiles, OJFileOK
<1>3. OJTypeOK
  BY <1>1, <1>2 DEF OJTypeOK
<1>4. OJFilesInv
  BY <1>2 DEF OJFilesInv, OJ!Absent, OJ!File
<1>5. OJAppendInv /\ OJRequestInv
  BY DEF OJAppendInv, OJRequestInv, OJPending, OJ!Off
<1>6. QED BY <1>3, <1>4, <1>5 DEF OJIInv

-----------------------------------------------------------------------------
(* A process outside the append, or one that leaves it without having put  *)
(* a file in place: nothing that the others rely on changes.               *)
OJAppending == {"check", "write", "sync"}

OJQuiet(p) ==
    /\ UNCHANGED <<ojFile, ojSynced, ojRequests, ojDamaged>>
    /\ ojProc' \in [Process -> OJProcRec]
    /\ \A q \in Process : q # p => ojProc'[q] = ojProc[q]
    /\ ojProc'[p].pc \notin OJAppending /\ (ojProc'[p].unknown => ojProc[p].unknown)
    /\ \/ ojLock' = ojLock /\ ojCandidate' = ojCandidate /\ ojProc[p].pc \notin OJAppending
       \/ ojLock = p /\ ojLock' = None /\ ojCandidate' \in {ojCandidate, <<>>}
    /\ ojProc'[p].pc \in {"next", "request"} => ojProc[p].pc = "next" /\ ojProc'[p].todo = ojProc[p].todo
    /\ ojProc'[p].pc = "request" => ojProc[p].todo.type = "REQUEST_BOUNDARY"

\* The record of a request is the record of some source's request.
LEMMA OJBoundaryOfSource ==
    ASSUME NEW r \in OJ!Records, r.type = "REQUEST_BOUNDARY"
    PROVE  \E i \in OJ!Sources : r = OJ!Rec("REQUEST_BOUNDARY", i)
<1>1. CASE r \in {OJ!Plan, OJ!Permit, OJ!Intent, OJ!Commit, OJ!Finalize}
  BY <1>1 DEF OJ!Plan, OJ!Permit, OJ!Intent, OJ!Commit, OJ!Finalize, OJ!Rec
<1>2. ASSUME NEW i \in OJ!Sources, r \in {OJ!Rec("SOURCE_INTENT", i), OJ!Rec("REQUEST_BOUNDARY", i),
                                        OJ!Rec("SOURCE_RESULT", i)}
      PROVE  r = OJ!Rec("REQUEST_BOUNDARY", i)
  BY <1>2 DEF OJ!Rec
<1>3. QED BY <1>1, <1>2, OJRecordTypes

LEMMA OJQuietStep ==
    ASSUME None \notin Process, OJIInv, NEW p \in Process, OJQuiet(p)
    PROVE  OJIInv'
<1> USE DEF OJIInv
<1>1. OJTypeOK'
  BY EmptySeq DEF OJTypeOK, OJQuiet
<1>2. OJFilesInv'
  BY DEF OJFilesInv, OJFileOK, OJQuiet
<1>3. ASSUME NEW q \in Process, ojProc'[q].pc \in OJAppending
      PROVE  q # p /\ ojProc'[q] = ojProc[q] /\ ojLock' = q /\ ojCandidate' = ojCandidate
  BY <1>3 DEF OJQuiet, OJAppendInv, OJAppending
<1>4. OJAppendInv'
  <2>1. \A q \in Process : ojProc'[q].unknown => ojProc[q].unknown
    BY DEF OJQuiet
  <2>2. QED BY <1>3, <2>1 DEF OJAppendInv, OJAppending, OJQuiet
<1>5. \A q \in Process, i \in OJ!Sources : OJPending(q, i)' => OJPending(q, i)
  BY DEF OJPending, OJQuiet
<1>6. \A i \in OJ!Sources : OJRecorded(i) => OJRecorded(i)'
  BY <1>3 DEF OJRecorded, OJQuiet, OJAppending
<1>7. OJRequestInv'
  <2>1. ASSUME NEW q \in Process, ojProc'[q].pc = "request" PROVE \E i \in OJ!Sources : OJPending(q, i)'
    <3>1. CASE q = p
      <4>1. ojProc[p].todo \in OJ!Records /\ ojProc'[p].todo = ojProc[p].todo
            /\ ojProc[p].todo.type = "REQUEST_BOUNDARY"
        BY <2>1, <3>1 DEF OJTypeOK, OJProcRec, OJQuiet
      <4>2. QED BY <2>1, <3>1, <4>1, OJBoundaryOfSource DEF OJPending
    <3>2. CASE q # p
      BY <2>1, <3>2 DEF OJQuiet, OJRequestInv, OJPending
    <3>3. QED BY <3>1, <3>2
  <2>2. \A q \in Process, i \in OJ!Sources :
           ojProc'[q].pc \in {"write", "sync"} /\ ojProc'[q].todo = OJ!Rec("REQUEST_BOUNDARY", i) =>
              ojRequests'[i] = 0 /\ \A s \in Process : ~OJPending(s, i)'
    BY <1>3, <1>5 DEF OJRequestInv, OJAppending, OJQuiet
  <2>3. ojRequests' = ojRequests
    BY DEF OJQuiet
  <2>4. QED BY <1>5, <1>6, <2>1, <2>2, <2>3 DEF OJRequestInv
<1>8. QED BY <1>1, <1>2, <1>4, <1>7

LEMMA OJOffDef == OJ!Off \in OJProcRec /\ OJ!Off.pc = "off" /\ ~OJ!Off.unknown
  BY OJOtherRecord DEF OJ!Off, OJProcRec, OJPlaces

\* What the runner appends next is a record.
LEMMA OJNextIsRecord ==
    ASSUME NumSources \in Nat \ {0}, NEW r \in OJ!Records, r # OJ!Finalize,
           r.type # "REQUEST_BOUNDARY"
    PROVE  OJ!NextRecord(r) \in OJ!Records
<1> USE DEF OJ!NextRecord
<1>1. CASE r = OJ!Plan
  BY <1>1, OJOtherRecord
<1>2. ASSUME NEW i \in OJ!Sources, r = OJ!Rec("SOURCE_INTENT", i)
      PROVE  OJ!NextRecord(r) \in OJ!Records
  <2>1. r # OJ!Plan /\ r.type = "SOURCE_INTENT" /\ r.source = i
    BY <1>2 DEF OJ!Rec, OJ!Plan
  <2>2. QED BY <2>1, OJSourceRecord
<1>3. ASSUME r # OJ!Plan, r.type # "SOURCE_INTENT", OJ!Follows(r) # {}
      PROVE  OJ!NextRecord(r) \in OJ!Records
  <2>1. PICK n \in OJ!Follows(r) : OJ!NextRecord(r) = n
    BY <1>3
  <2>2. QED BY <2>1, OJRanks
<1>4. ASSUME r \in {OJ!Permit, OJ!Intent, OJ!Commit} PROVE OJ!Follows(r) # {} /\ r.type # "SOURCE_INTENT"
  <2> USE DEF OJ!Follows, OJ!Plan, OJ!Permit, OJ!Intent, OJ!Commit, OJ!Finalize, OJ!Rec
  <2>1. CASE r = OJ!Permit
    <3>1. OJ!Follows(r) = {OJ!Intent}
      BY <2>1
    <3>2. QED BY <2>1, <3>1
  <2>2. CASE r = OJ!Intent
    <3>1. OJ!Follows(r) = {OJ!Rec("SOURCE_INTENT", 0)}
      BY <2>2
    <3>2. QED BY <2>2, <3>1
  <2>3. CASE r = OJ!Commit
    <3>1. OJ!Follows(r) = {OJ!Finalize}
      BY <2>3
    <3>2. QED BY <2>3, <3>1
  <2>4. QED BY <1>4, <2>1, <2>2, <2>3
<1>5. ASSUME NEW i \in OJ!Sources, r = OJ!Rec("SOURCE_RESULT", i)
      PROVE  OJ!Follows(r) # {} /\ r.type # "SOURCE_INTENT" /\ r # OJ!Plan
  <2>1. OJ!Follows(r) = IF i = NumSources - 1 THEN {OJ!Commit} ELSE {OJ!Rec("SOURCE_INTENT", i + 1)}
    BY <1>5 DEF OJ!Follows, OJ!Plan, OJ!Permit, OJ!Intent, OJ!Commit, OJ!Finalize, OJ!Rec
  <2>2. QED BY <1>5, <2>1 DEF OJ!Rec, OJ!Plan
<1>6. ASSUME NEW i \in OJ!Sources, r = OJ!Rec("REQUEST_BOUNDARY", i) PROVE FALSE
  BY <1>6 DEF OJ!Rec
<1>7. QED BY <1>1, <1>2, <1>3, <1>4, <1>5, <1>6, OJRecordTypes

LEMMA OJQuietCalls ==
    ASSUME NumSources \in Nat \ {0}, OJIInv, NEW p \in Process,
           \/ OJ!Start(p) \/ OJ!Execute(p) \/ OJ!CallPrepare(p) \/ OJ!Prepare(p) \/ OJ!Call(p)
           \/ OJ!WriteFails(p) \/ OJ!Continue(p) \/ OJ!Crash(p)
    PROVE  OJQuiet(p)
<1> USE DEF OJIInv
<1>0. /\ OJTypeOK /\ ojProc[p].todo \in OJ!Records
      /\ ojProc[p].pc \in OJAppending => ojLock = p
  BY DEF OJTypeOK, OJProcRec, OJAppendInv, OJAppending
<1>1. CASE OJ!Start(p)
  <2>1. PICK m \in {"runner", "caller"} :
           ojProc' = [ojProc EXCEPT ![p] = [OJ!Off EXCEPT !.pc = "idle", !.mode = m]]
    BY <1>1 DEF OJ!Start
  <2>2. [OJ!Off EXCEPT !.pc = "idle", !.mode = m] \in OJProcRec
    BY OJOffDef DEF OJProcRec, OJPlaces
  <2>3. QED BY <1>1, <2>1, <2>2, OJOffDef DEF OJ!Start, OJQuiet, OJAppending, OJTypeOK, OJProcRec
<1>2. CASE OJ!Execute(p)
  BY <1>2, <1>0, OJGoesDef DEF OJ!Execute, OJQuiet, OJAppending, OJPlaces
<1>3. CASE OJ!CallPrepare(p)
  BY <1>3, <1>0, OJGoesDef DEF OJ!CallPrepare, OJQuiet, OJAppending, OJPlaces
<1>4. CASE OJ!Prepare(p)
  <2>1. OJ!Appends(p, OJ!Plan) \/ OJ!Raises(p)
    BY <1>4 DEF OJ!Prepare
  <2>2. /\ ojProc' \in [Process -> OJProcRec]
        /\ \A q \in Process : q # p => ojProc'[q] = ojProc[q]
        /\ ojProc'[p].pc \in {"lock", "idle"} /\ ojProc'[p].unknown = ojProc[p].unknown
    BY <1>0, <2>1, OJAppendsDef, OJRaisesDef, OJOtherRecord
  <2>3. QED BY <1>4, <2>2 DEF OJ!Prepare, OJQuiet, OJAppending
<1>5. CASE OJ!Call(p)
  BY <1>5, <1>0, OJAppendsDef DEF OJ!Call, OJQuiet, OJAppending
<1>6. CASE OJ!WriteFails(p)
  BY <1>6, <1>0, OJRaisesDef DEF OJ!WriteFails, OJQuiet, OJAppending
<1>7. CASE OJ!Continue(p)
  <2> DEFINE r == ojProc[p].todo
  <2>1. CASE OJ!Raises(p)
    BY <1>7, <1>0, <2>1, OJRaisesDef DEF OJ!Continue, OJQuiet, OJAppending
  <2>2. CASE r.type = "REQUEST_BOUNDARY" /\ OJ!Goes(p, "request")
    BY <1>7, <1>0, <2>2, OJGoesDef DEF OJ!Continue, OJQuiet, OJAppending, OJPlaces
  <2>3. CASE r # OJ!Finalize /\ r.type # "REQUEST_BOUNDARY" /\ OJ!Appends(p, OJ!NextRecord(r))
    <3>1. OJ!NextRecord(r) \in OJ!Records
      BY <1>0, <2>3, OJNextIsRecord
    <3>2. QED BY <1>7, <1>0, <2>3, <3>1, OJAppendsDef DEF OJ!Continue, OJQuiet, OJAppending
  <2>4. QED BY <1>7, <2>1, <2>2, <2>3 DEF OJ!Continue
<1>8. CASE OJ!Crash(p)
  BY <1>8, <1>0, OJOffDef DEF OJ!Crash, OJQuiet, OJAppending, OJTypeOK
<1>9. QED BY <1>1, <1>2, <1>3, <1>4, <1>5, <1>6, <1>7, <1>8

-----------------------------------------------------------------------------
(* The append, step by step.                                               *)
LEMMA OJLockStep ==
    ASSUME None \notin Process, OJIInv, NEW p \in Process, OJ!Lock(p)
    PROVE  OJIInv'
<1> USE DEF OJIInv
<1>1. CASE OJ!Raises(p) /\ UNCHANGED ojLock
  <2>1. OJQuiet(p)
    BY <1>1, OJRaisesDef DEF OJ!Lock, OJQuiet, OJAppending
  <2>2. QED BY <2>1, OJQuietStep
<1>2. CASE ojLock = None /\ ojLock' = p /\ OJ!Goes(p, "check")
  <2>1. /\ ojProc' \in [Process -> OJProcRec]
        /\ \A q \in Process : q # p => ojProc'[q] = ojProc[q]
        /\ ojProc'[p].pc = "check" /\ ojProc'[p].todo = ojProc[p].todo
        /\ ojProc'[p].unknown = ojProc[p].unknown
        /\ UNCHANGED <<ojFile, ojSynced, ojCandidate, ojRequests, ojDamaged>> /\ ojProc[p].pc = "lock"
    BY <1>2, OJGoesDef DEF OJ!Lock, OJPlaces
  <2>2. OJTypeOK' /\ OJFilesInv'
    BY <1>2, <2>1 DEF OJTypeOK, OJFilesInv, OJFileOK
  <2>3. \A q \in Process : q # p => ojProc'[q].pc \notin OJAppending
    BY <1>2, <2>1 DEF OJAppendInv, OJAppending
  <2>4. OJAppendInv'
    BY <1>2, <2>1, <2>3 DEF OJAppendInv, OJAppending
  <2>5. \A q \in Process, i \in OJ!Sources : OJPending(q, i)' <=> OJPending(q, i)
    BY <2>1 DEF OJPending
  <2>6. \A i \in OJ!Sources : OJRecorded(i) => OJRecorded(i)'
    BY <2>1 DEF OJRecorded
  <2>7. OJRequestInv'
    <3>1. ASSUME NEW q \in Process, ojProc'[q].pc = "request" PROVE \E i \in OJ!Sources : OJPending(q, i)'
      BY <2>1, <2>5, <3>1 DEF OJRequestInv
    <3>2. \A q \in Process : ojProc'[q].pc \notin {"write", "sync"}
      BY <2>1, <2>3 DEF OJAppending
    <3>3. QED BY <2>1, <2>5, <2>6, <3>1, <3>2 DEF OJRequestInv
  <2>8. QED BY <2>2, <2>4, <2>7
<1>3. QED BY <1>1, <1>2 DEF OJ!Lock

\* Only the process in the append is there.
LEMMA OJAlone ==
    ASSUME OJIInv, NEW p \in Process, ojProc[p].pc \in OJAppending
    PROVE  ojLock = p /\ \A q \in Process : q # p => ojProc[q].pc \notin OJAppending
  BY DEF OJIInv, OJAppendInv, OJAppending

LEMMA OJCheckStep ==
    ASSUME NumSources \in Nat \ {0}, None \notin Process, OJIInv, NEW p \in Process, OJ!Check(p)
    PROVE  OJIInv'
<1> USE DEF OJIInv
<1> DEFINE r == ojProc[p].todo
<1>0. /\ OJTypeOK /\ r \in OJ!Records /\ ojFile.records \in Seq(OJ!Records)
      /\ ojLock = p /\ \A q \in Process : q # p => ojProc[q].pc \notin OJAppending
  BY OJAlone DEF OJTypeOK, OJProcRec, OJFiles, OJ!Check, OJAppending
<1>1. CASE ojCandidate' = <<>> /\ OJ!Raises(p) /\ ojLock' = None
  <2>1. OJQuiet(p)
    BY <1>0, <1>1, OJRaisesDef DEF OJ!Check, OJQuiet, OJAppending
  <2>2. QED BY <2>1, OJQuietStep
<1>2. CASE OJ!Writable(r) /\ ojCandidate' = Append(ojFile.records, r) /\ OJ!Goes(p, "write") /\ UNCHANGED ojLock
  <2>1. /\ ojProc' \in [Process -> OJProcRec]
        /\ \A q \in Process : q # p => ojProc'[q] = ojProc[q]
        /\ ojProc'[p].pc = "write" /\ ojProc'[p].todo = r /\ ojProc'[p].unknown = ojProc[p].unknown
        /\ UNCHANGED <<ojFile, ojSynced, ojRequests, ojDamaged, ojLock>> /\ ojProc[p].pc = "check"
    BY <1>0, <1>2, OJGoesDef DEF OJ!Check, OJPlaces
  <2>2. /\ ojCandidate' \in Seq(OJ!Records) /\ OJ!HistoryValid(ojCandidate') /\ r \in OJ!ToSet(ojCandidate')
        /\ OJ!ToSet(ojFile.records) \subseteq OJ!ToSet(ojCandidate')
    <3>1. ojCandidate' \in Seq(OJ!Records) /\ OJ!HistoryValid(ojCandidate')
      BY <1>0, <1>2, AppendProperties DEF OJ!Writable
    <3>2. /\ Len(ojCandidate') = Len(ojFile.records) + 1
          /\ \A k \in 1..Len(ojFile.records) : ojCandidate'[k] = ojFile.records[k]
          /\ ojCandidate'[Len(ojFile.records) + 1] = r
          /\ Len(ojFile.records) \in Nat /\ DOMAIN ojFile.records = 1..Len(ojFile.records)
          /\ DOMAIN ojCandidate' = 1..Len(ojCandidate')
      BY <1>0, <1>2, <3>1, AppendProperties, LenProperties
    <3>3. QED BY <3>1, <3>2 DEF OJ!ToSet
  <2>3. OJTypeOK' /\ OJFilesInv'
    BY <2>1, <2>2 DEF OJTypeOK, OJFilesInv, OJFileOK
  <2>4. OJAppendInv'
    BY <1>0, <1>2, <2>1, <2>2 DEF OJAppendInv, OJAppending
  <2>5. \A q \in Process, i \in OJ!Sources : OJPending(q, i)' <=> OJPending(q, i)
    BY <2>1 DEF OJPending
  <2>6. ASSUME NEW i \in OJ!Sources, OJRecorded(i) PROVE OJRecorded(i)'
    <3>1. OJ!Rec("REQUEST_BOUNDARY", i) \in OJ!ToSet(ojFile.records)
      BY <1>2, <2>6 DEF OJRecorded, OJ!Writable
    <3>2. \A q \in Process : ojProc'[q].pc = "write" => q = p
      BY <1>0, <2>1 DEF OJAppending
    <3>3. QED BY <2>1, <2>2, <2>6, <3>1 DEF OJRecorded
  <2>7. ASSUME NEW i \in OJ!Sources, r = OJ!Rec("REQUEST_BOUNDARY", i) PROVE ~OJRecorded(i)
    <3>1. r \notin OJ!ToSet(ojFile.records)
      BY <1>0, <1>2, OJNotAgain DEF OJ!Writable
    <3>2. QED BY <1>2, <2>7, <3>1 DEF OJRecorded, OJ!Writable
  <2>8. OJRequestInv'
    <3>1. ASSUME NEW q \in Process, ojProc'[q].pc = "request" PROVE \E i \in OJ!Sources : OJPending(q, i)'
      BY <2>1, <2>5, <3>1 DEF OJRequestInv
    <3>2. ASSUME NEW q \in Process, NEW i \in OJ!Sources,
                 ojProc'[q].pc \in {"write", "sync"}, ojProc'[q].todo = OJ!Rec("REQUEST_BOUNDARY", i)
          PROVE  ojRequests'[i] = 0 /\ \A s \in Process : ~OJPending(s, i)'
      <4>1. q = p /\ r = OJ!Rec("REQUEST_BOUNDARY", i)
        BY <1>0, <2>1, <3>2 DEF OJAppending
      <4>2. ~OJRecorded(i)
        BY <2>7, <4>1
      <4>3. ojRequests[i] \in {0, 1}
        BY DEF OJTypeOK
      <4>4. QED BY <2>1, <2>5, <4>2, <4>3 DEF OJRequestInv
    <3>3. QED BY <2>1, <2>5, <2>6, <3>1, <3>2 DEF OJRequestInv
  <2>9. QED BY <2>3, <2>4, <2>8
<1>3. QED BY <1>1, <1>2 DEF OJ!Check

LEMMA OJReplaceStep ==
    ASSUME None \notin Process, OJIInv, NEW p \in Process, OJ!Replace(p)
    PROVE  OJIInv'
<1> USE DEF OJIInv
<1>1. ojLock = p /\ \A q \in Process : q # p => ojProc[q].pc \notin OJAppending
  BY OJAlone DEF OJ!Replace, OJAppending
<1>2. /\ ojProc' \in [Process -> OJProcRec]
      /\ \A q \in Process : q # p => ojProc'[q] = ojProc[q]
      /\ ojProc'[p].pc = "sync" /\ ojProc'[p].todo = ojProc[p].todo
      /\ ojProc'[p].unknown = ojProc[p].unknown
      /\ ojFile'.integrity = "VALID" /\ ojFile'.records = ojCandidate /\ ojCandidate' = <<>>
      /\ UNCHANGED <<ojSynced, ojRequests, ojDamaged, ojLock>> /\ ojProc[p].pc = "write"
  BY OJGoesDef DEF OJ!Replace, OJPlaces, OJ!File
<1>3. /\ ojCandidate \in Seq(OJ!Records) /\ OJ!HistoryValid(ojCandidate) /\ ojProc[p].todo \in OJ!ToSet(ojCandidate)
      /\ ~ojDamaged => ojCandidate = Append(ojFile.records, ojProc[p].todo)
  BY <1>2 DEF OJTypeOK, OJAppendInv
<1>4. OJTypeOK'
  BY <1>2, <1>3, EmptySeq DEF OJTypeOK, OJ!Replace, OJ!File, OJFiles
<1>5. OJFilesInv'
  <2>1. OJFileOK(ojFile)' /\ OJFileOK(ojSynced)'
    BY <1>2, <1>3 DEF OJFilesInv, OJFileOK
  <2>2. ASSUME ojSynced.integrity = "VALID", ~ojDamaged
        PROVE  /\ Len(ojSynced.records) <= Len(ojCandidate)
               /\ \A k \in 1..Len(ojSynced.records) : ojSynced.records[k] = ojCandidate[k]
    <3>1. /\ Len(ojSynced.records) <= Len(ojFile.records)
          /\ \A k \in 1..Len(ojSynced.records) : ojSynced.records[k] = ojFile.records[k]
          /\ ojCandidate = Append(ojFile.records, ojProc[p].todo)
      BY <1>3, <2>2 DEF OJFilesInv
    <3>2. ojFile.records \in Seq(OJ!Records) /\ ojProc[p].todo \in OJ!Records /\ ojSynced.records \in Seq(OJ!Records)
      BY DEF OJTypeOK, OJFiles, OJProcRec
    <3>3. /\ Len(ojCandidate) = Len(ojFile.records) + 1
          /\ \A k \in 1..Len(ojFile.records) : ojCandidate[k] = ojFile.records[k]
          /\ Len(ojFile.records) \in Nat /\ Len(ojSynced.records) \in Nat
      BY <3>1, <3>2, AppendProperties, LenProperties
    <3>4. QED BY <3>1, <3>3
  <2>3. QED BY <1>2, <2>1, <2>2 DEF OJFilesInv
<1>6. OJAppendInv'
  BY <1>1, <1>2, <1>3 DEF OJAppendInv, OJAppending
<1>7. \A q \in Process, i \in OJ!Sources : OJPending(q, i)' <=> OJPending(q, i)
  BY <1>2 DEF OJPending
<1>8. \A i \in OJ!Sources : OJRecorded(i) => OJRecorded(i)'
  BY <1>1, <1>2 DEF OJRecorded, OJAppending
<1>9. OJRequestInv'
  <2>1. ASSUME NEW q \in Process, ojProc'[q].pc = "request" PROVE \E i \in OJ!Sources : OJPending(q, i)'
    BY <1>2, <1>7, <2>1 DEF OJRequestInv
  <2>2. ASSUME NEW q \in Process, NEW i \in OJ!Sources,
               ojProc'[q].pc \in {"write", "sync"}, ojProc'[q].todo = OJ!Rec("REQUEST_BOUNDARY", i)
        PROVE  ojRequests'[i] = 0 /\ \A s \in Process : ~OJPending(s, i)'
    <3>1. ojProc[q].pc \in {"write", "sync"} /\ ojProc[q].todo = OJ!Rec("REQUEST_BOUNDARY", i)
      BY <1>2, <2>2
    <3>2. QED BY <1>2, <1>7, <3>1 DEF OJRequestInv
  <2>3. QED BY <1>2, <1>7, <1>8, <2>1, <2>2 DEF OJRequestInv
<1>10. QED BY <1>4, <1>5, <1>6, <1>9

\* The record of a request counts once the directory is synced.
LEMMA OJSyncStep ==
    ASSUME None \notin Process, OJIInv, NEW p \in Process, OJ!Sync(p)
    PROVE  OJIInv'
<1> USE DEF OJIInv
<1>1. ojLock = p /\ \A q \in Process : q # p => ojProc[q].pc \notin OJAppending
  BY OJAlone DEF OJ!Sync, OJAppending
<1>2. /\ ojProc' \in [Process -> OJProcRec]
      /\ \A q \in Process : q # p => ojProc'[q] = ojProc[q]
      /\ ojProc'[p].pc \in {"next", "idle"} /\ ojProc'[p].todo = ojProc[p].todo
      /\ ojProc'[p].unknown = ojProc[p].unknown
      /\ ojSynced' = ojFile /\ ojLock' = None
      /\ UNCHANGED <<ojFile, ojCandidate, ojRequests, ojDamaged>> /\ ojProc[p].pc = "sync"
  BY OJAppendedDef DEF OJ!Sync
<1>3. OJTypeOK'
  BY <1>2 DEF OJTypeOK
<1>4. OJFilesInv'
  <2>1. Len(ojFile.records) \in Nat
    BY LenProperties DEF OJTypeOK, OJFiles
  <2>2. QED BY <1>2, <2>1 DEF OJFilesInv, OJFileOK
<1>5. \A q \in Process : ojProc'[q].pc \notin OJAppending
  BY <1>1, <1>2 DEF OJAppending
<1>6. OJAppendInv'
  BY <1>2, <1>5 DEF OJAppendInv, OJAppending
<1>7. \A q \in Process, i \in OJ!Sources : q # p => (OJPending(q, i)' <=> OJPending(q, i))
  BY <1>2 DEF OJPending
<1>8. \A i \in OJ!Sources : OJRecorded(i) => OJRecorded(i)'
  BY <1>2, <1>5 DEF OJRecorded, OJAppending
<1>9. ASSUME NEW i \in OJ!Sources, OJPending(p, i)'
      PROVE  ojRequests[i] = 0 /\ OJRecorded(i)' /\ \A q \in Process : ~OJPending(q, i)
  <2>1. ojProc[p].todo = OJ!Rec("REQUEST_BOUNDARY", i)
    BY <1>2, <1>9 DEF OJPending
  <2>2. ojRequests[i] = 0 /\ \A q \in Process : ~OJPending(q, i)
    BY <1>2, <2>1 DEF OJRequestInv
  <2>3. /\ ojFile.integrity # "ABSENT"
        /\ ojFile.integrity = "VALID" => OJ!Rec("REQUEST_BOUNDARY", i) \in OJ!ToSet(ojFile.records)
    BY <1>2, <2>1 DEF OJAppendInv
  <2>4. QED BY <1>2, <1>5, <2>2, <2>3 DEF OJRecorded, OJAppending
<1>10. OJRequestInv'
  <2>1. ASSUME NEW q \in Process, ojProc'[q].pc = "request" PROVE \E i \in OJ!Sources : OJPending(q, i)'
    <3>1. q # p
      BY <1>2, <2>1
    <3>2. QED BY <1>2, <1>7, <2>1, <3>1 DEF OJRequestInv
  <2>2. \A q \in Process : ojProc'[q].pc \notin {"write", "sync"}
    BY <1>5 DEF OJAppending
  <2>3. ASSUME NEW q \in Process, NEW i \in OJ!Sources, OJPending(q, i)'
        PROVE  ojRequests'[i] = 0 /\ OJRecorded(i)'
    BY <1>2, <1>7, <1>8, <1>9, <2>3 DEF OJRequestInv
  <2>4. ASSUME NEW q \in Process, NEW s \in Process, NEW i \in OJ!Sources,
               OJPending(q, i)', OJPending(s, i)'
        PROVE  q = s
    BY <1>7, <1>9, <2>4 DEF OJRequestInv
  <2>5. \A i \in OJ!Sources : ojRequests'[i] = 1 => OJRecorded(i)'
    BY <1>2, <1>8 DEF OJRequestInv
  <2>6. QED BY <2>1, <2>2, <2>3, <2>4, <2>5 DEF OJRequestInv
<1>11. QED BY <1>3, <1>4, <1>6, <1>10

LEMMA OJSyncFailsStep ==
    ASSUME None \notin Process, OJIInv, NEW p \in Process, OJ!SyncFails(p)
    PROVE  OJIInv'
<1> USE DEF OJIInv
<1>1. ojLock = p /\ \A q \in Process : q # p => ojProc[q].pc \notin OJAppending
  BY OJAlone DEF OJ!SyncFails, OJAppending
<1>2. /\ ojProc' \in [Process -> OJProcRec]
      /\ \A q \in Process : q # p => ojProc'[q] = ojProc[q]
      /\ ojProc'[p].pc = "idle" /\ ojLock' = None
      /\ UNCHANGED <<ojFile, ojSynced, ojCandidate, ojRequests, ojDamaged>> /\ ojProc[p].pc = "sync"
  <2> DEFINE t == ojProc[p].token /\ ojProc[p].mode = "caller"
  <2>1. ojProc[p] \in OJProcRec /\ ojProc \in [Process -> OJProcRec] /\ t \in BOOLEAN
    BY DEF OJTypeOK
  <2>2. ojProc' = [ojProc EXCEPT ![p] = [ojProc[p] EXCEPT !.pc = "idle", !.unknown = TRUE, !.token = t]]
    BY <2>1 DEF OJ!SyncFails, OJProcRec
  <2> HIDE DEF t
  <2>3. [ojProc[p] EXCEPT !.pc = "idle", !.unknown = TRUE, !.token = t] \in OJProcRec
    BY <2>1 DEF OJProcRec, OJPlaces
  <2>4. /\ ojProc' \in [Process -> OJProcRec] /\ ojProc'[p].pc = "idle"
        /\ \A q \in Process : q # p => ojProc'[q] = ojProc[q]
    BY <2>1, <2>2, <2>3 DEF OJProcRec
  <2>5. QED BY <2>4 DEF OJ!SyncFails
<1>3. OJTypeOK' /\ OJFilesInv'
  BY <1>2 DEF OJTypeOK, OJFilesInv, OJFileOK
<1>4. \A q \in Process : ojProc'[q].pc \notin OJAppending
  BY <1>1, <1>2 DEF OJAppending
<1>5. OJAppendInv'
  BY <1>2, <1>4 DEF OJAppendInv, OJAppending
<1>6. \A q \in Process, i \in OJ!Sources : OJPending(q, i)' => OJPending(q, i)
  BY <1>2 DEF OJPending
<1>7. \A i \in OJ!Sources : OJRecorded(i) => OJRecorded(i)'
  BY <1>2, <1>4 DEF OJRecorded, OJAppending
<1>8. OJRequestInv'
  <2>1. ASSUME NEW q \in Process, ojProc'[q].pc = "request" PROVE \E i \in OJ!Sources : OJPending(q, i)'
    BY <1>2, <2>1 DEF OJRequestInv, OJPending
  <2>2. \A q \in Process : ojProc'[q].pc \notin {"write", "sync"}
    BY <1>4 DEF OJAppending
  <2>3. QED BY <1>2, <1>6, <1>7, <2>1, <2>2 DEF OJRequestInv
<1>9. QED BY <1>3, <1>5, <1>8

\* One request, which the process had on record and nobody else is about to send.
LEMMA OJRequestStep ==
    ASSUME None \notin Process, OJIInv, NEW p \in Process, OJ!Request(p)
    PROVE  OJIInv'
<1> USE DEF OJIInv
<1>1. PICK i \in OJ!Sources : OJPending(p, i) /\ ojProc[p].todo.source = i
  BY DEF OJ!Request, OJRequestInv, OJPending, OJ!Rec
<1>2. ojRequests[i] = 0 /\ OJRecorded(i)
  BY <1>1 DEF OJRequestInv
<1>3. /\ ojRequests' = [ojRequests EXCEPT ![i] = 1]
      /\ UNCHANGED <<ojFile, ojSynced, ojCandidate, ojLock, ojDamaged>> /\ ojProc[p].pc = "request"
  BY <1>1, <1>2 DEF OJ!Request
<1>4. /\ ojProc' \in [Process -> OJProcRec]
      /\ \A q \in Process : q # p => ojProc'[q] = ojProc[q]
      /\ ojProc'[p].pc \in {"lock", "idle"} /\ ojProc'[p].unknown = ojProc[p].unknown
  <2>1. OJ!Appends(p, OJ!Rec("SOURCE_RESULT", i)) \/ OJ!Raises(p)
    BY <1>1 DEF OJ!Request
  <2>2. QED BY <2>1, OJSourceRecord, OJAppendsDef, OJRaisesDef
<1>5. OJTypeOK' /\ OJFilesInv'
  BY <1>3, <1>4 DEF OJTypeOK, OJFilesInv, OJFileOK
<1>6. \A q \in Process : q # p => ojProc'[q] = ojProc[q]
  BY <1>4
<1>7. OJAppendInv'
  BY <1>3, <1>4 DEF OJAppendInv
<1>8. \A q \in Process, j \in OJ!Sources : OJPending(q, j)' => q # p /\ OJPending(q, j)
  BY <1>4 DEF OJPending
<1>9. \A j \in OJ!Sources : OJRecorded(j) => OJRecorded(j)'
  <2>1. \A q \in Process : ojProc'[q].pc = "write" => ojProc[q].pc = "write"
    BY <1>4
  <2>2. QED BY <1>3, <2>1 DEF OJRecorded
<1>10. \A j \in OJ!Sources : j # i => ojRequests'[j] = ojRequests[j]
  BY <1>3 DEF OJTypeOK
<1>11. \A q \in Process : ~OJPending(q, i)'
  BY <1>1, <1>8 DEF OJRequestInv
<1>12. OJRequestInv'
  <2>1. ASSUME NEW q \in Process, ojProc'[q].pc = "request" PROVE \E j \in OJ!Sources : OJPending(q, j)'
    BY <1>4, <2>1 DEF OJRequestInv, OJPending
  <2>2. ASSUME NEW q \in Process, NEW j \in OJ!Sources,
               ojProc'[q].pc \in {"write", "sync"}, ojProc'[q].todo = OJ!Rec("REQUEST_BOUNDARY", j)
        PROVE  ojRequests'[j] = 0 /\ \A s \in Process : ~OJPending(s, j)'
    <3>1. ojProc[q].pc \in {"write", "sync"} /\ ojProc[q].todo = OJ!Rec("REQUEST_BOUNDARY", j)
      BY <1>4, <2>2
    <3>2. ojRequests[j] = 0 /\ \A s \in Process : ~OJPending(s, j)
      BY <3>1 DEF OJRequestInv
    <3>3. j # i
      BY <1>1, <3>2
    <3>4. QED BY <1>8, <1>10, <3>2, <3>3
  <2>3. ASSUME NEW q \in Process, NEW j \in OJ!Sources, OJPending(q, j)'
        PROVE  ojRequests'[j] = 0 /\ OJRecorded(j)'
    BY <1>8, <1>9, <1>10, <1>11, <2>3 DEF OJRequestInv
  <2>4. ASSUME NEW j \in OJ!Sources, ojRequests'[j] = 1 PROVE OJRecorded(j)'
    BY <1>2, <1>9, <1>10, <2>4 DEF OJRequestInv
  <2>5. ASSUME NEW q \in Process, NEW s \in Process, NEW j \in OJ!Sources,
               OJPending(q, j)', OJPending(s, j)'
        PROVE  q = s
    BY <1>8, <2>5 DEF OJRequestInv
  <2>6. QED BY <2>1, <2>2, <2>3, <2>4, <2>5 DEF OJRequestInv
<1>13. QED BY <1>5, <1>7, <1>12

-----------------------------------------------------------------------------
(* Faults.                                                                 *)
LEMMA OJPowerLossStep ==
    ASSUME None \notin Process, OJIInv, OJ!PowerLoss
    PROVE  OJIInv'
<1> USE DEF OJIInv
<1>1. /\ \A q \in Process : ojProc'[q] = OJ!Off
      /\ ojLock' = None /\ ojFile' \in {ojFile, ojSynced} /\ ojSynced' = ojFile'
      /\ ojCandidate' \in {ojCandidate, <<>>} /\ UNCHANGED <<ojRequests, ojDamaged>>
      /\ ojProc' \in [Process -> OJProcRec]
  BY OJOffDef DEF OJ!PowerLoss
<1>2. OJTypeOK'
  BY <1>1, EmptySeq DEF OJTypeOK
<1>3. OJFilesInv'
  <2>1. Len(ojFile'.records) \in Nat
    BY <1>1, LenProperties DEF OJTypeOK, OJFiles
  <2>2. OJFileOK(ojFile)' /\ OJFileOK(ojSynced)'
    BY <1>1 DEF OJFilesInv, OJFileOK
  <2>3. QED BY <1>1, <2>1, <2>2 DEF OJFilesInv
<1>4. \A q \in Process : ojProc'[q].pc = "off" /\ ~ojProc'[q].unknown
  BY <1>1, OJOffDef
<1>5. OJAppendInv'
  BY <1>4 DEF OJAppendInv
<1>6. \A i \in OJ!Sources : OJRecorded(i) => OJRecorded(i)'
  BY <1>1, <1>4 DEF OJRecorded
<1>7. OJRequestInv'
  BY <1>1, <1>4, <1>6 DEF OJRequestInv, OJPending
<1>8. QED BY <1>2, <1>3, <1>5, <1>7

\* A history that is cut off is one, or is empty, and it is not finalized.
LEMMA OJCutHistory ==
    ASSUME NEW rs \in Seq(OJ!Records), OJ!HistoryValid(rs), NEW k \in 0..(Len(rs) - 1)
    PROVE  /\ SubSeq(rs, 1, k) \in Seq(OJ!Records)
           /\ SubSeq(rs, 1, k) # <<>> =>
                 /\ OJ!HistoryValid(SubSeq(rs, 1, k))
                 /\ SubSeq(rs, 1, k)[Len(SubSeq(rs, 1, k))] # OJ!Finalize
<1> DEFINE t == SubSeq(rs, 1, k)
<1>1. Len(rs) \in Nat /\ k \in Nat /\ \A j \in 1..Len(rs) : rs[j] \in OJ!Records
  BY LenProperties, ElementOfSeq
<1>2. t \in Seq(OJ!Records) /\ Len(t) = k /\ \A j \in 1..k : t[j] = rs[j]
  <2>1. \A j \in 1..k : rs[j] \in OJ!Records
    BY <1>1
  <2>2. QED BY <1>1, <2>1, SubSeqProperties
<1> HIDE DEF t
<1>3. ASSUME t # <<>> PROVE OJ!HistoryValid(t) /\ t[k] # OJ!Finalize
  <2>1. k # 0
    BY <1>2, <1>3, EmptySeq
  <2>2. OJ!HistoryValid(t)
    BY <1>1, <1>2, <1>3, <2>1 DEF OJ!HistoryValid
  <2>3. rs[k + 1] \in OJ!Follows(rs[k]) /\ t[k] = rs[k]
    BY <1>1, <1>2, <2>1 DEF OJ!HistoryValid
  <2>4. OJ!Follows(OJ!Finalize) = {}
    BY DEF OJ!Follows, OJ!Plan, OJ!Permit, OJ!Intent, OJ!Commit, OJ!Finalize, OJ!Rec
  <2>5. QED BY <2>2, <2>3, <2>4
<1>4. QED BY <1>2, <1>3 DEF t

LEMMA OJDamageStep ==
    ASSUME None \notin Process, OJIInv, OJ!Damage
    PROVE  OJIInv'
<1> USE DEF OJIInv
<1>1. /\ ojFile'.integrity \in {"TORN_TAIL", "CORRUPT"} /\ ojSynced' = ojFile' /\ ojDamaged'
      /\ ojDamaged' \in BOOLEAN
      /\ UNCHANGED <<ojCandidate, ojLock, ojProc, ojRequests>> /\ ojFile.integrity = "VALID"
  BY DEF OJ!Damage, OJ!File
<1>2. ojFile' \in OJFiles /\ OJFileOK(ojFile)'
  <2>1. ojFile.records \in Seq(OJ!Records) /\ OJ!HistoryValid(ojFile.records)
    BY <1>1 DEF OJTypeOK, OJFiles, OJFilesInv, OJFileOK
  <2>2. CASE \E k \in 0..(Len(ojFile.records) - 1) :
                ojFile' = OJ!File("TORN_TAIL", SubSeq(ojFile.records, 1, k))
    <3>1. PICK k \in 0..(Len(ojFile.records) - 1) :
             ojFile' = OJ!File("TORN_TAIL", SubSeq(ojFile.records, 1, k))
      BY <2>2
    <3>2. /\ ojFile'.integrity = "TORN_TAIL" /\ ojFile'.records = SubSeq(ojFile.records, 1, k)
          /\ ojFile' = [integrity |-> ojFile'.integrity, records |-> ojFile'.records]
      BY <3>1 DEF OJ!File
    <3>3. /\ ojFile'.records \in Seq(OJ!Records)
          /\ ojFile'.records # <<>> =>
                OJ!HistoryValid(ojFile'.records) /\ ojFile'.records[Len(ojFile'.records)] # OJ!Finalize
      BY <2>1, <3>2, OJCutHistory
    <3>4. ojFile' \in OJFiles
      BY <3>2, <3>3 DEF OJFiles
    <3>5. QED BY <1>1, <3>2, <3>3, <3>4 DEF OJFileOK
  <2>3. CASE ojFile' = OJ!File("CORRUPT", <<>>)
    BY <1>1, <2>3, EmptySeq DEF OJ!File, OJFiles, OJFileOK
  <2>4. QED BY <2>2, <2>3 DEF OJ!Damage
<1>3. OJTypeOK'
  BY <1>1, <1>2 DEF OJTypeOK
<1>4. OJFilesInv'
  BY <1>1, <1>2 DEF OJFilesInv, OJFileOK
<1>5. OJAppendInv'
  BY <1>1 DEF OJAppendInv
<1>6. \A i \in OJ!Sources : OJRecorded(i) => OJRecorded(i)'
  BY <1>1 DEF OJRecorded
<1>7. OJRequestInv'
  BY <1>1, <1>6 DEF OJRequestInv, OJPending
<1>8. QED BY <1>3, <1>4, <1>5, <1>7

LEMMA OJStepIInv ==
    ASSUME NumSources \in Nat \ {0}, None \notin Process, OJIInv, [OJ!Next]_ojVars
    PROVE  OJIInv'
<1>1. ASSUME NEW p \in Process, OJ!Step(p) PROVE OJIInv'
  BY <1>1, OJQuietCalls, OJQuietStep, OJLockStep, OJCheckStep, OJReplaceStep, OJSyncStep, OJSyncFailsStep,
     OJRequestStep DEF OJ!Step
<1>2. CASE UNCHANGED ojVars
  BY <1>2 DEF ojVars, OJIInv, OJTypeOK, OJFilesInv, OJFileOK, OJAppendInv, OJRequestInv, OJPending, OJRecorded
<1>3. QED BY <1>1, <1>2, OJPowerLossStep, OJDamageStep DEF OJ!Next

-----------------------------------------------------------------------------
(* What the invariant is for.                                              *)
LEMMA OJAskedOnce == ASSUME OJIInv PROVE OJ!AskedOnceOnRecord
<1>1. ASSUME NEW i \in OJ!Sources PROVE ojRequests[i] \in {0, 1}
  BY DEF OJIInv, OJTypeOK
<1>2. ASSUME NEW i \in OJ!Sources, ojRequests[i] = 1, ~ojDamaged
      PROVE  OJ!Rec("REQUEST_BOUNDARY", i) \in OJ!ToSet(ojSynced.records)
  <2>1. OJRecorded(i)
    BY <1>2 DEF OJIInv, OJRequestInv
  <2>2. ojSynced.integrity = "VALID"
    BY <1>2, <2>1 DEF OJIInv, OJTypeOK, OJFiles, OJFilesInv, OJFileOK, OJRecorded
  <2>3. QED BY <2>1, <2>2 DEF OJRecorded
<1>3. QED BY <1>1, <1>2 DEF OJ!AskedOnceOnRecord

LEMMA OJHistories == ASSUME OJIInv PROVE OJ!JournalIsHistory
<1>1. ASSUME ojSynced.integrity = "VALID", ~ojDamaged
      PROVE  OJ!IsPrefix(ojSynced.records, ojFile.records)
  <2> DEFINE s == ojSynced.records
             f == ojFile.records
             n == Len(s)
  <2>1. /\ s \in Seq(OJ!Records) /\ f \in Seq(OJ!Records) /\ n <= Len(f)
        /\ \A k \in 1..n : s[k] = f[k]
    BY <1>1 DEF OJIInv, OJTypeOK, OJFiles, OJFilesInv
  <2>2. n \in Nat /\ Len(f) \in Nat /\ \A k \in 1..n : s[k] \in OJ!Records
    BY <2>1, LenProperties, ElementOfSeq
  <2>3. \A k \in 1..n : f[k] \in OJ!Records
    BY <2>1, <2>2
  <2>4. /\ SubSeq(s, 1, n) \in Seq(OJ!Records) /\ Len(SubSeq(s, 1, n)) = n
        /\ \A k \in 1..n : SubSeq(s, 1, n)[k] = s[k]
    <3> HIDE DEF n, s, f
    <3> QED BY <2>2, SubSeqProperties
  <2>5. /\ SubSeq(f, 1, n) \in Seq(OJ!Records) /\ Len(SubSeq(f, 1, n)) = n
        /\ \A k \in 1..n : SubSeq(f, 1, n)[k] = f[k]
    <3> HIDE DEF n, s, f
    <3> QED BY <2>2, <2>3, SubSeqProperties
  <2>6. SubSeq(s, 1, n) = SubSeq(f, 1, n)
    <3> HIDE DEF n, s, f
    <3> QED BY <2>1, <2>4, <2>5, SeqEqual
  <2>7. QED BY <2>1, <2>6 DEF OJ!IsPrefix
<1>2. ojFile.integrity = "VALID" => OJ!HistoryValid(ojFile.records)
  BY DEF OJIInv, OJFilesInv, OJFileOK
<1>3. QED BY <1>1, <1>2 DEF OJ!JournalIsHistory

\* A file that holds records holds a history, and one that is committed, or
\* finalized, has every result.
LEMMA OJReported ==
    ASSUME NumSources \in Nat \ {0}, OJIInv
    PROVE  /\ OJ!In(OJ!Commit) => \A i \in OJ!Sources : OJ!SourceState(i) = "RESULT_DURABLE"
           /\ ojFile.records # <<>> /\ OJ!Last(ojFile.records) = OJ!Finalize =>
                 OJ!In(OJ!Commit) /\ ojFile.integrity = "VALID"
           /\ ojFile.records = <<>> => ojFile.integrity # "VALID"
<1> DEFINE rs == ojFile.records
<1>1. rs \in Seq(OJ!Records) /\ ojFile.integrity \in {"ABSENT", "VALID", "TORN_TAIL", "CORRUPT"}
  BY DEF OJIInv, OJTypeOK, OJFiles
<1>2. rs # <<>> => OJ!HistoryValid(rs)
  BY <1>1 DEF OJIInv, OJFilesInv, OJFileOK
<1>3. Len(rs) \in Nat /\ DOMAIN rs = 1..Len(rs) /\ (rs # <<>> => Len(rs) # 0)
  BY <1>1, LenProperties, EmptySeq
<1>4. ASSUME OJ!In(OJ!Commit), NEW i \in OJ!Sources PROVE OJ!SourceState(i) = "RESULT_DURABLE"
  <2>1. OJ!Commit \in OJ!ToSet(rs)
    BY <1>4 DEF OJ!In
  <2>2. rs # <<>>
    BY <1>3, <2>1, EmptySeq DEF OJ!ToSet
  <2>3. OJ!Rec("SOURCE_RESULT", i) \in OJ!ToSet(rs)
    BY <1>1, <1>2, <2>1, <2>2, OJCommitHasAll
  <2>4. QED BY <2>3 DEF OJ!SourceState, OJ!Results, OJ!In
<1>5. ASSUME rs # <<>>, OJ!Last(rs) = OJ!Finalize PROVE OJ!In(OJ!Commit) /\ ojFile.integrity = "VALID"
  <2>1. OJ!Finalize = rs[Len(rs)] /\ Len(rs) \in DOMAIN rs
    BY <1>3, <1>5 DEF OJ!Last
  <2>2. OJ!Finalize \in OJ!ToSet(rs) /\ OJ!Finalize # OJ!Plan
    BY <2>1 DEF OJ!ToSet, OJ!Finalize, OJ!Plan, OJ!Rec
  <2>3. PICK r \in OJ!ToSet(rs) : r \in OJ!Records /\ OJ!Finalize \in OJ!Follows(r)
    BY <1>1, <1>2, <1>5, <2>2, OJHasBefore
  <2>4. r = OJ!Commit
    BY <2>3, OJFollowsDef DEF OJ!Plan, OJ!Permit, OJ!Intent, OJ!Commit, OJ!Finalize, OJ!Rec
  <2>5. ojFile.integrity = "VALID"
    BY <1>1, <1>5, <2>1 DEF OJIInv, OJFilesInv, OJFileOK
  <2>6. QED BY <2>3, <2>4, <2>5 DEF OJ!In
<1>6. ASSUME rs = <<>> PROVE ojFile.integrity # "VALID"
  BY <1>6 DEF OJIInv, OJFilesInv, OJFileOK, OJ!HistoryValid
<1>7. QED BY <1>4, <1>5, <1>6

LEMMA OJToldAll == ASSUME NumSources \in Nat \ {0}, OJIInv PROVE OJ!InspectionTellsAll
<1>1. ASSUME ojFile.integrity = "VALID", NEW i \in OJ!Sources, ojRequests[i] > 0
      PROVE  OJ!SourceState(i) # "NOT_ATTEMPTED"
  <2>1. ojRequests[i] = 1
    BY <1>1 DEF OJIInv, OJTypeOK
  <2>2. OJ!Rec("REQUEST_BOUNDARY", i) \in OJ!ToSet(ojFile.records)
    BY <1>1, <2>1 DEF OJIInv, OJRequestInv, OJRecorded
  <2>3. OJ!Touched(i)
    BY <2>2 DEF OJ!Touched, OJ!Rec
  <2>4. QED BY <2>3 DEF OJ!SourceState
<1>2. ASSUME NEW p \in Process, ~(ojProc[p].unknown /\ OJ!Inspect(p).finalized)
      PROVE  OJ!ProjectionValid(OJ!Inspect(p))
  <2> DEFINE rs == ojFile.records
             v == OJ!Inspect(p)
             fin == rs # <<>> /\ OJ!Last(rs) = OJ!Finalize
             bad == ojFile.integrity \in {"CORRUPT", "TORN_TAIL"}
             unk == \E i \in OJ!Sources : OJ!SourceState(i) = "OUTCOME_UNKNOWN"
             rev == ojProc[p].unknown \/ bad \/ unk \/ ojFile.integrity = "ABSENT"
  <2>1. /\ ojFile.integrity \in {"ABSENT", "VALID", "TORN_TAIL", "CORRUPT"}
        /\ rs \in Seq(OJ!Records) /\ ojProc[p].unknown \in BOOLEAN
        /\ ojFile.integrity = "ABSENT" => rs = <<>> /\ ~ojProc[p].unknown
    BY DEF OJIInv, OJTypeOK, OJFiles, OJProcRec, OJFilesInv, OJFileOK, OJAppendInv
  <2>2. Len(<<>>) = 0
    OBVIOUS
  <2>3. /\ v.found = (ojFile.integrity # "ABSENT") /\ v.integrity = ojFile.integrity
        /\ v.durability = IF ojProc[p].unknown THEN "DURABILITY_UNKNOWN"
                          ELSE IF ojFile.integrity = "ABSENT" THEN "NOT_FOUND" ELSE "CONFIRMED"
        /\ v.state = IF ojProc[p].unknown \/ bad \/ unk \/ rs = <<>>
                     THEN "RECONCILIATION_REQUIRED" ELSE OJ!AttemptState(OJ!Last(rs))
        /\ v.count = Len(rs) /\ v.committed = OJ!In(OJ!Commit) /\ v.finalized = fin
        /\ v.reconcile = (rev \/ (rs # <<>> /\ ~fin)) /\ v.review = rev
        /\ v.investigate = (ojProc[p].unknown \/ bad)
    BY DEF OJ!Inspect
  <2>4. \A i \in OJ!Sources : v.sources[i] = OJ!SourceState(i)
    BY DEF OJ!Inspect
  <2>5. OJ!AttemptState(OJ!Finalize) = "FINALIZED"
    BY DEF OJ!AttemptState, OJ!Plan, OJ!Permit, OJ!Intent, OJ!Commit, OJ!Finalize, OJ!Rec
  <2>6. /\ OJ!In(OJ!Commit) => OJ!AllDurable(v) /\ ~unk
        /\ fin => OJ!In(OJ!Commit) /\ ojFile.integrity = "VALID"
        /\ rs = <<>> => ojFile.integrity # "VALID"
    BY <2>4, OJReported DEF OJ!AllDurable
  <2>7. unk <=> \E i \in OJ!Sources : v.sources[i] = "OUTCOME_UNKNOWN"
    BY <2>4
  <2>8. fin => ~ojProc[p].unknown /\ ~bad
    BY <1>2, <2>3, <2>6
  <2> HIDE DEF v, rs
  <2>9. IF v.count = 0 /\ v.integrity = "ABSENT"
        THEN ~v.found /\ v.durability = "NOT_FOUND"
        ELSE v.found /\ v.durability # "NOT_FOUND"
    BY <2>1, <2>2, <2>3
  <2>10. v.finalized => v.committed /\ v.state = "FINALIZED" /\ OJ!AllDurable(v)
    <3>1. ASSUME fin PROVE v.state = "FINALIZED"
      BY <2>3, <2>5, <2>6, <2>8, <3>1
    <3>2. QED BY <2>3, <2>6, <3>1
  <2>11. v.state # "FINALIZED" => v.reconcile
    BY <2>1, <2>3, <2>5, <2>6
  <2>12. QED BY <2>3, <2>6, <2>7, <2>9, <2>10, <2>11 DEF OJ!ProjectionValid, v
<1>3. ASSUME NEW p \in Process, NEW i \in OJ!Sources PROVE OJ!Inspect(p).sources[i] = OJ!SourceState(i)
  BY DEF OJ!Inspect
<1>4. QED BY <1>1, <1>2, <1>3 DEF OJ!InspectionTellsAll

\* The file, its candidate and what each runner knows fit together at every
\* moment (durable_observation_journal.py).
THEOREM OJInvariance == Spec => [](machine = "ObservationJournal" => OJIInv)
<1>1. Init => (machine = "ObservationJournal" => OJIInv)
  BY SourcesAssumption, OJInitIInv DEF Init
<1>2. (machine = "ObservationJournal" => OJIInv) /\ [Next]_vars
         => (machine = "ObservationJournal" => OJIInv)'
  BY SourcesAssumption, NoneAssumption, OJStepIInv DEF Next, vars
<1>3. QED BY <1>1, <1>2, PTL DEF Spec

\* No source of a manual observation is asked twice, what was asked is on
\* durable record, and the journal only ever holds a history, whoever dies
\* between two appends (durable_observation_journal.py, append;
\* manual_reobservation_runner.py, execute).
THEOREM AskedOnce == Spec => []AskedOnceOnRecord
<1>1. (machine = "ObservationJournal" => OJIInv) => AskedOnceOnRecord
  BY OJAskedOnce, OJHistories DEF AskedOnceOnRecord
<1>2. QED BY <1>1, OJInvariance, PTL

\* An inspection tells of every request that was sent, and passes the validator
\* of its own projection (durable_observation_journal.py, inspect).
THEOREM ToldOfAll == Spec => []InspectionTellsAll
<1>1. (machine = "ObservationJournal" => OJIInv) => InspectionTellsAll
  BY SourcesAssumption, OJToldAll DEF InspectionTellsAll
<1>2. QED BY <1>1, OJInvariance, PTL

-----------------------------------------------------------------------------
(* The presence adapter.                                                   *)

\* A copy of the state file, with the fields it has.
PRShape(f) ==
  f = [status |-> f.status, seen |-> f.seen, published |-> f.published,
       wroteAt |-> f.wroteAt, triedAt |-> f.triedAt, known |-> f.known]

\* What a copy of the state calls published, a read-back has confirmed.
PRConfirms(f) == PRShape(f) /\ (f.published # None => f.published \in prConfirmed)

\* A request replaces nothing, or a confirmed value that is smaller.
PRSmall(p) ==
  /\ p.seq \in PR!Seqs
  /\ p.if # None => p.if \in prConfirmed /\ p.if < p.seq

PRWatchInv ==
  prWatch # PR!Idle =>
    /\ prWatch = [at |-> prWatch.at, mine |-> prWatch.mine, time |-> prWatch.time]
    /\ PRConfirms(prWatch.mine)
    /\ prWatch.at = "note" => prWatch.mine.seen \in PR!Seqs
PRExecInv ==
  prExec # PR!Idle =>
    /\ prExec = [at |-> prExec.at, mine |-> prExec.mine, time |-> prExec.time,
               request |-> prExec.request]
    /\ PRConfirms(prExec.mine) /\ PRSmall(prExec.request)

PRIInv ==
  /\ prRoom \in PR!Seqs /\ prConfirmed \subseteq PR!Seqs
  /\ PRConfirms(prFile) /\ PRWatchInv /\ PRExecInv
  /\ \A p \in prPreviews : PRSmall(p)

LEMMA PRInitIInv == ASSUME MaxSeq \in Nat, PR!Init PROVE PRIInv
<1>1. /\ prRoom = 0 /\ prConfirmed = {} /\ prFile = PR!Blank /\ prWatch = PR!Idle /\ prExec = PR!Idle
      /\ prPreviews = {}
  BY DEF PR!Init
<1>2. PRConfirms(PR!Blank)
  BY DEF PRConfirms, PRShape, PR!Blank
<1>3. QED BY <1>1, <1>2 DEF PRIInv, PRWatchInv, PRExecInv, PR!Seqs, PRConfirms

\* The world moves, and an operation starts or ends with the file it found.
LEMMA PRWorldIInv ==
  ASSUME PRIInv, PR!World \/ PR!StartObserve \/ PR!StartPreview \/ PR!WatchEnds \/ PR!ExecEnds
  PROVE  PRIInv'
<1>1. prConfirmed' = prConfirmed /\ prFile' = prFile /\ prPreviews' = prPreviews
  BY DEF PR!World, PR!Tick, PR!RoomMoves, PR!OthersWrite, PR!server, PR!StartObserve, PR!StartPreview, PR!WatchEnds,
     PR!ExecEnds
<1>2. prRoom' \in PR!Seqs
  BY DEF PR!World, PR!Tick, PR!RoomMoves, PR!OthersWrite, PR!server, PR!StartObserve, PR!StartPreview, PR!WatchEnds,
     PR!ExecEnds, PRIInv
<1>3. \/ prWatch' = prWatch \/ prWatch' = PR!Idle
      \/ prWatch' = [at |-> "observe", mine |-> prFile, time |-> prNow]
      \/ prWatch' = [at |-> "manifest", mine |-> prFile, time |-> prNow]
  BY DEF PR!World, PR!Tick, PR!RoomMoves, PR!OthersWrite, PR!server, PR!StartObserve, PR!StartPreview, PR!WatchEnds,
     PR!ExecEnds
<1>4. prExec' = prExec \/ prExec' = PR!Idle
  BY DEF PR!World, PR!Tick, PR!RoomMoves, PR!OthersWrite, PR!server, PR!StartObserve, PR!StartPreview, PR!WatchEnds,
     PR!ExecEnds
<1>5. PRWatchInv'
  BY <1>1, <1>3 DEF PRIInv, PRWatchInv, PRConfirms
<1>6. PRExecInv'
  BY <1>1, <1>4 DEF PRIInv, PRExecInv, PRConfirms, PRSmall
<1>7. PRConfirms(prFile)' /\ \A p \in prPreviews' : PRSmall(p)'
  BY <1>1 DEF PRIInv, PRConfirms, PRSmall
<1>8. QED BY <1>1, <1>2, <1>5, <1>6, <1>7 DEF PRIInv

\* A copy is saved by the operation that watches.
LEMMA PRWatchSaved ==
  ASSUME PRIInv, NEW f, PRConfirms(f), prFile' = f, prWatch' = PR!Idle,
         UNCHANGED <<prRoom, prExec, prConfirmed>>,
         \A p \in prPreviews' : p \in prPreviews \/ PRSmall(p)
  PROVE  PRIInv'
<1>1. PRWatchInv'
  BY DEF PRWatchInv
<1>2. PRExecInv'
  BY DEF PRIInv, PRExecInv, PRConfirms, PRSmall
<1>3. PRConfirms(prFile)'
  BY DEF PRConfirms
<1>4. \A p \in prPreviews' : PRSmall(p)'
  BY DEF PRIInv, PRSmall
<1>5. prRoom' \in PR!Seqs /\ prConfirmed' \subseteq PR!Seqs
  BY DEF PRIInv
<1>6. QED BY <1>1, <1>2, <1>3, <1>4, <1>5 DEF PRIInv

LEMMA PRWatchIInv ==
  ASSUME PRIInv, PR!FinishObserve \/ PR!ReadManifest \/ PR!PreviewRooms \/ PR!PreviewNote
  PROVE  PRIInv'
<1>1. prWatch # PR!Idle /\ UNCHANGED <<prRoom, prNote, prExec, prConfirmed>>
  BY DEF PR!FinishObserve, PR!ReadManifest, PR!PreviewRooms, PR!PreviewNote, PR!Idle, PR!server
<1> DEFINE f == prWatch.mine
<1>2. /\ prWatch = [at |-> prWatch.at, mine |-> f, time |-> prWatch.time]
      /\ PRConfirms(f) /\ PRShape(f) /\ (prWatch.at = "note" => f.seen \in PR!Seqs)
  BY <1>1 DEF PRIInv, PRWatchInv, PRConfirms
<1> HIDE DEF f
<1>3. ASSUME NEW v, NEW s
      PROVE  /\ PRShape([f EXCEPT !.status = v]) /\ [f EXCEPT !.status = v].published = f.published
             /\ PRShape([f EXCEPT !.seen = s, !.status = v])
             /\ [f EXCEPT !.seen = s, !.status = v].published = f.published
             /\ [f EXCEPT !.seen = s, !.status = v].seen = s
  <2>1. PICK a, b, c, d, e, k : f = [status |-> a, seen |-> b, published |-> c,
                                     wroteAt |-> d, triedAt |-> e, known |-> k]
    BY <1>2 DEF PRShape
  <2>2. [f EXCEPT !.status = v] = [status |-> v, seen |-> b, published |-> c,
                                   wroteAt |-> d, triedAt |-> e, known |-> k]
    BY <2>1
  <2>3. [f EXCEPT !.seen = s, !.status = v] = [status |-> v, seen |-> s, published |-> c,
                                               wroteAt |-> d, triedAt |-> e, known |-> k]
    <3> DEFINE m == [f EXCEPT !.seen = s]
    <3>1. m = [status |-> a, seen |-> s, published |-> c,
               wroteAt |-> d, triedAt |-> e, known |-> k]
      BY <2>1
    <3>2. [f EXCEPT !.seen = s, !.status = v] = [m EXCEPT !.status = v]
      BY <2>1
    <3> HIDE DEF m
    <3>3. QED BY <3>1, <3>2
  <2>4. f.published = c
    BY <2>1
  <2> DEFINE g == [f EXCEPT !.status = v]
             h == [f EXCEPT !.seen = s, !.status = v]
  <2> HIDE DEF g, h
  <2>5. PRShape(g) /\ g.published = f.published
    BY <2>2, <2>4 DEF PRShape, g
  <2>6. PRShape(h) /\ h.published = f.published /\ h.seen = s
    BY <2>3, <2>4 DEF PRShape, h
  <2>7. QED BY <2>5, <2>6 DEF g, h
<1>4. \A v, s : PRConfirms([f EXCEPT !.status = v]) /\ PRConfirms([f EXCEPT !.seen = s, !.status = v])
  BY <1>2, <1>3 DEF PRConfirms
<1>5. CASE PR!FinishObserve
  <2>1. PICK v : prFile' = [f EXCEPT !.seen = prRoom, !.status = v]
    BY <1>5 DEF PR!FinishObserve, PR!Observation, f
  <2>2. prWatch' = PR!Idle /\ prPreviews' = prPreviews
    BY <1>5 DEF PR!FinishObserve
  <2>3. QED BY <1>1, <1>4, <2>1, <2>2, PRWatchSaved
<1>6. CASE PR!ReadManifest
  <2>1. CASE prFile' = [f EXCEPT !.status = "SPEC_CHANGED"] /\ prWatch' = PR!Idle
    <3>1. prPreviews' = prPreviews
      BY <1>6 DEF PR!ReadManifest
    <3>2. QED BY <1>1, <1>4, <2>1, <3>1, PRWatchSaved
  <2>2. CASE prWatch' = [prWatch EXCEPT !.at = "rooms"] /\ prFile' = prFile
    <3>1. prWatch' = [at |-> "rooms", mine |-> f, time |-> prWatch.time] /\ prPreviews' = prPreviews
      BY <1>2, <1>6, <2>2 DEF PR!ReadManifest
    <3>2. PRWatchInv'
      BY <1>1, <1>2, <3>1 DEF PRWatchInv, PRConfirms
    <3>3. QED BY <1>1, <2>2, <3>1, <3>2 DEF PRIInv, PRExecInv, PRConfirms, PRSmall
  <2>3. QED BY <1>6, <2>1, <2>2 DEF PR!ReadManifest, f
<1>7. CASE PR!PreviewRooms
  <2>1. PICK g, v :
          /\ g = [f EXCEPT !.seen = prRoom, !.status = v]
          /\ \/ prFile' = g /\ prWatch' = PR!Idle
             \/ prWatch' = [prWatch EXCEPT !.at = "note", !.mine = g] /\ prFile' = prFile
    BY <1>7 DEF PR!PreviewRooms, f
  <2>2. prPreviews' = prPreviews /\ PRConfirms(g) /\ g.seen = prRoom
    BY <1>3, <1>4, <1>7, <2>1 DEF PR!PreviewRooms
  <2>3. CASE prFile' = g /\ prWatch' = PR!Idle
    BY <1>1, <2>2, <2>3, PRWatchSaved
  <2>4. CASE prWatch' = [prWatch EXCEPT !.at = "note", !.mine = g] /\ prFile' = prFile
    <3>1. prWatch' = [at |-> "note", mine |-> g, time |-> prWatch.time]
      BY <1>2, <2>4
    <3>2. PRWatchInv'
      BY <1>1, <2>2, <3>1 DEF PRIInv, PRWatchInv, PRConfirms
    <3>3. QED BY <1>1, <2>2, <2>4, <3>2 DEF PRIInv, PRExecInv, PRConfirms, PRSmall
  <2>5. QED BY <2>1, <2>3, <2>4
<1>8. CASE PR!PreviewNote
  <2>1. prWatch' = PR!Idle /\ prWatch.at = "note"
    BY <1>8 DEF PR!PreviewNote
  <2> DEFINE verdict == PR!Verdict(f, prWatch.time)
  <2>2. CASE prFile' = [f EXCEPT !.status = verdict] /\ prPreviews' = prPreviews
    BY <1>1, <1>4, <2>1, <2>2, PRWatchSaved
  <2>3. CASE verdict = "READY" /\ prFile' = f /\ prPreviews' = prPreviews \cup {PR!Request(f)}
    <3>1. prNote = None \/ prNote = f.published
      BY <2>3 DEF PR!Verdict, PR!NoteState
    <3>2. PR!Advanced(f)
      BY <2>3 DEF PR!Verdict
    <3>3. PR!Request(f).seq = f.seen /\ PR!Request(f).if = IF prNote = None THEN None ELSE f.published
      BY DEF PR!Request
    <3>4. f.published # None => /\ f.published \in prConfirmed /\ f.published \in Nat
                                /\ f.seen \in Nat /\ f.published < f.seen
      <4>1. f.seen \in Nat
        BY <1>2, <2>1 DEF PR!Seqs
      <4>2. ASSUME f.published # None PROVE f.published \in prConfirmed /\ f.published \in Nat
        BY <1>2, <4>2 DEF PRConfirms, PRIInv, PR!Seqs
      <4>3. f.published # None => f.seen > f.published
        BY <3>2 DEF PR!Advanced
      <4>4. QED BY <4>1, <4>2, <4>3
    <3>5. PRSmall(PR!Request(f))
      BY <1>2, <2>1, <3>3, <3>4 DEF PRSmall
    <3>6. \A p \in prPreviews' : p \in prPreviews \/ PRSmall(p)
      BY <2>3, <3>5
    <3>7. QED BY <1>1, <1>2, <2>1, <2>3, <3>6, PRWatchSaved
  <2>4. QED BY <1>8, <2>2, <2>3 DEF PR!PreviewNote, f
<1>9. QED BY <1>5, <1>6, <1>7, <1>8

\* execute: its copy changes in what it says it tried and how that ended.
LEMMA PRExecGoes ==
  ASSUME PRIInv, prExec' = PR!Idle \/ (/\ prExec' = [at |-> prExec'.at, mine |-> prExec'.mine,
                                          time |-> prExec'.time, request |-> prExec'.request]
                               /\ PRConfirms(prExec'.mine)
                               /\ PRSmall(prExec'.request)),
         PRConfirms(prFile'), UNCHANGED <<prRoom, prWatch, prPreviews, prConfirmed>>
  PROVE  PRIInv'
<1>1. PRWatchInv'
  BY DEF PRIInv, PRWatchInv, PRConfirms
<1>2. PRExecInv'
  BY DEF PRExecInv, PRConfirms, PRSmall
<1>3. PRConfirms(prFile)' /\ \A p \in prPreviews' : PRSmall(p)'
  BY DEF PRIInv, PRConfirms, PRSmall
<1>4. QED BY <1>1, <1>2, <1>3 DEF PRIInv

LEMMA PRStartExecuteIInv ==
  ASSUME PRIInv, PR!Refuse \/ \E p \in prPreviews : PR!StartExecute(p)
  PROVE  PRIInv'
<1>1. UNCHANGED <<prRoom, prWatch, prPreviews, prConfirmed>>
  BY DEF PR!Refuse, PR!StartExecute, PR!server
<1>2. CASE PR!Refuse
  <2>1. prFile' = [prFile EXCEPT !.status = "DISABLED"] /\ prExec' = prExec /\ prExec = PR!Idle
    BY <1>2 DEF PR!Refuse
  <2>2. PRConfirms(prFile')
    BY <2>1 DEF PRIInv, PRConfirms, PRShape
  <2>3. QED BY <1>1, <2>1, <2>2, PRExecGoes
<1>3. ASSUME NEW p \in prPreviews, PR!StartExecute(p) PROVE PRIInv'
  <2>1. prExec' = [at |-> "note", mine |-> prFile, time |-> prNow, request |-> p] /\ prFile' = prFile
    BY <1>3 DEF PR!StartExecute
  <2>2. PRSmall(p) /\ PRConfirms(prFile)
    BY DEF PRIInv
  <2>3. prExec'.mine = prFile /\ prExec'.request = p /\ prExec'.at = "note" /\ prExec'.time = prNow
    BY <2>1
  <2>4. prExec' = [at |-> prExec'.at, mine |-> prExec'.mine, time |-> prExec'.time,
                 request |-> prExec'.request]
    BY <2>1, <2>3
  <2>5. QED BY <1>1, <2>1, <2>2, <2>3, <2>4, PRExecGoes
<1>4. QED BY <1>2, <1>3

\* The copy of the running execute.
LEMMA PRExecCopy ==
  ASSUME PRIInv, prExec # PR!Idle
  PROVE  /\ prExec = [at |-> prExec.at, mine |-> prExec.mine, time |-> prExec.time,
                    request |-> prExec.request]
         /\ PRConfirms(prExec.mine) /\ PRSmall(prExec.request) /\ PRShape(prExec.mine)
         /\ \A v : /\ PRConfirms([prExec.mine EXCEPT !.status = v])
                   /\ PRConfirms([prExec.mine EXCEPT !.triedAt = v])
<1>1. PRConfirms(prExec.mine) /\ PRShape(prExec.mine)
  BY DEF PRIInv, PRExecInv, PRConfirms
<1> DEFINE f == prExec.mine
<1> HIDE DEF f
<1>2. \A v : /\ PRShape([f EXCEPT !.status = v]) /\ [f EXCEPT !.status = v].published = f.published
             /\ PRShape([f EXCEPT !.triedAt = v]) /\ [f EXCEPT !.triedAt = v].published = f.published
  BY <1>1 DEF PRShape, f
<1>3. \A v : PRConfirms([f EXCEPT !.status = v]) /\ PRConfirms([f EXCEPT !.triedAt = v])
  BY <1>1, <1>2 DEF PRConfirms, f
<1>4. QED BY <1>1, <1>3 DEF PRIInv, PRExecInv, f

LEMMA PRCheckNoteIInv ==
  ASSUME PRIInv, PR!CheckNote
  PROVE  PRIInv'
<1>1. prExec # PR!Idle /\ UNCHANGED <<prRoom, prWatch, prPreviews, prConfirmed>>
  BY DEF PR!CheckNote, PR!Idle, PR!server
<1> DEFINE f == prExec.mine
           g == PR!Attempt(f, prExec.time)
<1>2. \/ prFile' = [f EXCEPT !.status = "CONFLICT"] /\ prExec' = PR!Idle
      \/ prFile' = g /\ prExec' = [prExec EXCEPT !.at = "send", !.mine = g]
  BY DEF PR!CheckNote
<1>3. PRConfirms([f EXCEPT !.status = "CONFLICT"]) /\ PRConfirms(g) /\ PRSmall(prExec.request)
  BY <1>1, PRExecCopy DEF PR!Attempt
<1>4. CASE prFile' = [f EXCEPT !.status = "CONFLICT"] /\ prExec' = PR!Idle
  BY <1>1, <1>3, <1>4, PRExecGoes
<1>5. CASE prFile' = g /\ prExec' = [prExec EXCEPT !.at = "send", !.mine = g]
  <2> HIDE DEF g
  <2>1. prExec' = [at |-> "send", mine |-> g, time |-> prExec.time, request |-> prExec.request]
    BY <1>1, <1>5, PRExecCopy
  <2>2. prExec'.mine = g /\ prExec'.request = prExec.request
    BY <2>1
  <2>3. prExec' = [at |-> prExec'.at, mine |-> prExec'.mine, time |-> prExec'.time,
                 request |-> prExec'.request]
    BY <2>1
  <2>4. QED BY <1>1, <1>3, <1>5, <2>2, <2>3, PRExecGoes
<1>6. QED BY <1>2, <1>4, <1>5

LEMMA PRSendIInv ==
  ASSUME PRIInv, PR!Send
  PROVE  PRIInv'
<1>1. /\ prExec # PR!Idle /\ UNCHANGED <<prRoom, prWatch, prPreviews, prConfirmed, prFile>>
  BY DEF PR!Send, PR!Idle
<1>2. PICK at, mine :
        /\ prExec' = [prExec EXCEPT !.at = at, !.mine = mine]
        /\ mine = prExec.mine \/ \E v : mine = [prExec.mine EXCEPT !.status = v]
  <2>1. CASE prExec' \in {[prExec EXCEPT !.at = "readback"], [prExec EXCEPT !.at = "save"]}
    <3>1. PICK at : prExec' = [prExec EXCEPT !.at = at]
      BY <2>1
    <3>2. prExec' = [prExec EXCEPT !.at = at, !.mine = prExec.mine]
      BY <1>1, <3>1, PRExecCopy
    <3>3. QED BY <3>2
  <2>2. ASSUME NEW v, prExec' = PR!Leaves(v)
        PROVE  prExec' = [prExec EXCEPT !.at = "save", !.mine = [prExec.mine EXCEPT !.status = v]]
    BY <1>1, <2>2, PRExecCopy DEF PR!Leaves
  <2>3. \/ prExec' \in {[prExec EXCEPT !.at = "readback"], [prExec EXCEPT !.at = "save"]}
        \/ prExec' = PR!Leaves("CONFLICT") \/ prExec' = PR!Leaves("DISABLED")
    BY DEF PR!Send
  <2>4. ASSUME NEW v, prExec' = PR!Leaves(v)
        PROVE  \E at, mine :
                 /\ prExec' = [prExec EXCEPT !.at = at, !.mine = mine]
                 /\ mine = prExec.mine \/ \E w : mine = [prExec.mine EXCEPT !.status = w]
    <3> DEFINE mine == [prExec.mine EXCEPT !.status = v]
    <3>1. prExec' = [prExec EXCEPT !.at = "save", !.mine = mine] /\ \E w : mine = [prExec.mine EXCEPT !.status = w]
      BY <2>2, <2>4
    <3> HIDE DEF mine
    <3>2. QED BY <3>1
  <2>5. QED BY <2>1, <2>3, <2>4
<1>3. PRConfirms(mine) /\ PRSmall(prExec.request) /\ PRConfirms(prFile)
  BY <1>1, <1>2, PRExecCopy DEF PRIInv
<1>4. prExec' = [at |-> at, mine |-> mine, time |-> prExec.time, request |-> prExec.request]
  BY <1>1, <1>2, PRExecCopy
<1>5. prExec'.mine = mine /\ prExec'.request = prExec.request
  BY <1>4
<1>6. prExec' = [at |-> prExec'.at, mine |-> prExec'.mine, time |-> prExec'.time,
               request |-> prExec'.request]
  BY <1>4
<1>7. QED BY <1>1, <1>3, <1>5, <1>6, PRExecGoes

\* ReadBack: what it confirms is what the copy calls published from now on.
LEMMA PRReadBackIInv ==
  ASSUME PRIInv, PR!ReadBack
  PROVE  PRIInv'
<1>1. prExec # PR!Idle /\ UNCHANGED <<prRoom, prNote, prWatch, prPreviews, prFile>>
  BY DEF PR!ReadBack, PR!Idle, PR!server
<1>2. PRSmall(prExec.request) /\ PRConfirms(prFile)
  BY <1>1, PRExecCopy DEF PRIInv
<1>3. CASE prNote = prExec.request.seq /\ prConfirmed' = prConfirmed \cup {prNote}
           /\ prExec' = [prExec EXCEPT !.at = "save",
                      !.mine = [@ EXCEPT !.status = "LIVE", !.known = TRUE,
                                  !.published = prExec.request.seq, !.wroteAt = prExec.time]]
  <2> DEFINE f == prExec.mine
  <2>1. PICK a, b, c, d, e, k : f = [status |-> a, seen |-> b, published |-> c,
                                     wroteAt |-> d, triedAt |-> e, known |-> k]
    BY <1>1, PRExecCopy DEF PRShape
  <2> HIDE DEF f
  <2> DEFINE g == [status |-> "LIVE", seen |-> b, published |-> prExec.request.seq,
                   wroteAt |-> prExec.time, triedAt |-> e, known |-> TRUE]
  <2>2. [f EXCEPT !.status = "LIVE", !.known = TRUE, !.published = prExec.request.seq,
                  !.wroteAt = prExec.time] = g
    <3> DEFINE q == prExec.request.seq
               t == prExec.time
               yes == TRUE
               m1 == [f EXCEPT !.status = "LIVE"]
               m2 == [m1 EXCEPT !.known = yes]
               m3 == [m2 EXCEPT !.published = q]
    <3> HIDE DEF q, t, yes
    <3>1. [f EXCEPT !.status = "LIVE", !.known = yes, !.published = q, !.wroteAt = t]
            = [m3 EXCEPT !.wroteAt = t]
      BY <2>1
    <3>2. m1 = [status |-> "LIVE", seen |-> b, published |-> c,
                wroteAt |-> d, triedAt |-> e, known |-> k]
      BY <2>1
    <3> HIDE DEF m1
    <3>3. m2 = [status |-> "LIVE", seen |-> b, published |-> c,
                wroteAt |-> d, triedAt |-> e, known |-> yes]
      BY <3>2
    <3> HIDE DEF m2
    <3>4. m3 = [status |-> "LIVE", seen |-> b, published |-> q,
                wroteAt |-> d, triedAt |-> e, known |-> yes]
      BY <3>3
    <3> HIDE DEF m3
    <3>5. [m3 EXCEPT !.wroteAt = t] = [status |-> "LIVE", seen |-> b, published |-> q,
                                       wroteAt |-> t, triedAt |-> e, known |-> yes]
      BY <3>4
    <3>6. QED BY <3>1, <3>5 DEF q, t, yes
  <2>3. prExec' = [at |-> "save", mine |-> g, time |-> prExec.time, request |-> prExec.request]
    <3>1. prExec' = [prExec EXCEPT !.at = "save", !.mine = g]
      BY <1>3, <2>2 DEF f
    <3> HIDE DEF g
    <3>2. QED BY <1>1, <3>1, PRExecCopy
  <2>4. PRShape(g) /\ g.published = prExec.request.seq
    BY DEF PRShape
  <2> HIDE DEF g
  <2>5. prExec'.mine = g /\ prExec'.request = prExec.request
        /\ prExec' = [at |-> prExec'.at, mine |-> prExec'.mine, time |-> prExec'.time,
                    request |-> prExec'.request]
    BY <2>3
  <2>6. prConfirmed' \subseteq PR!Seqs /\ prConfirmed \subseteq prConfirmed'
        /\ prExec.request.seq \in prConfirmed'
    BY <1>2, <1>3 DEF PRSmall, PRIInv
  <2>7. PRExecInv'
    BY <1>2, <2>4, <2>5, <2>6 DEF PRExecInv, PRConfirms, PRSmall
  <2>8. PRWatchInv' /\ PRConfirms(prFile)' /\ \A p \in prPreviews' : PRSmall(p)'
    BY <1>1, <2>6 DEF PRIInv, PRWatchInv, PRConfirms, PRSmall
  <2>9. QED BY <1>1, <2>6, <2>7, <2>8 DEF PRIInv
<1>4. CASE prExec' = PR!Leaves("READBACK_MISMATCH") /\ prConfirmed' = prConfirmed
  <2> DEFINE g == [prExec.mine EXCEPT !.status = "READBACK_MISMATCH"]
  <2>1. PRConfirms(g)
    BY <1>1, PRExecCopy
  <2>2. prExec' = [prExec EXCEPT !.at = "save", !.mine = g]
    BY <1>1, <1>4, PRExecCopy DEF PR!Leaves
  <2> HIDE DEF g
  <2>3. prExec' = [at |-> "save", mine |-> g, time |-> prExec.time, request |-> prExec.request]
    BY <1>1, <2>2, PRExecCopy
  <2>4. prExec'.mine = g /\ prExec'.request = prExec.request
        /\ prExec' = [at |-> prExec'.at, mine |-> prExec'.mine, time |-> prExec'.time,
                    request |-> prExec'.request]
    BY <2>3
  <2>5. QED BY <1>1, <1>2, <1>4, <2>1, <2>4, PRExecGoes
<1>5. CASE prExec' = [prExec EXCEPT !.at = "save"] /\ prConfirmed' = prConfirmed
  <2>1. prExec' = [at |-> "save", mine |-> prExec.mine, time |-> prExec.time,
                 request |-> prExec.request] /\ PRConfirms(prExec.mine)
    BY <1>1, <1>5, PRExecCopy
  <2>2. prExec'.mine = prExec.mine /\ prExec'.request = prExec.request
        /\ prExec' = [at |-> prExec'.at, mine |-> prExec'.mine, time |-> prExec'.time,
                    request |-> prExec'.request]
    BY <2>1
  <2>3. QED BY <1>1, <1>2, <1>5, <2>1, <2>2, PRExecGoes
<1>6. QED BY <1>3, <1>4, <1>5 DEF PR!ReadBack

LEMMA PRSaveIInv ==
  ASSUME PRIInv, PR!Save
  PROVE  PRIInv'
<1>1. prExec # PR!Idle /\ UNCHANGED <<prRoom, prWatch, prPreviews, prConfirmed>> /\ prFile' = prExec.mine
      /\ prExec' = PR!Idle
  BY DEF PR!Save, PR!Idle, PR!server
<1>2. PRConfirms(prFile')
  BY <1>1, PRExecCopy
<1>3. QED BY <1>1, <1>2, PRExecGoes

LEMMA PRStepIInv ==
  ASSUME PRIInv, [PR!Next]_prVars
  PROVE  PRIInv'
<1>1. CASE UNCHANGED prVars
  BY <1>1 DEF prVars, PRIInv, PRWatchInv, PRExecInv, PRConfirms, PRSmall
<1>2. CASE PR!Next
  BY <1>2, PRWorldIInv, PRWatchIInv, PRStartExecuteIInv, PRCheckNoteIInv, PRSendIInv, PRReadBackIInv,
     PRSaveIInv DEF PR!Next
<1>3. QED BY <1>1, <1>2

\* A write replaces what its request names, which was confirmed and smaller.
LEMMA PROwnStep ==
  ASSUME PRIInv, [PR!Next]_prVars
  PROVE  PR!ReplacesOwnValue
<1> SUFFICES ASSUME prSends' # prSends, prNote' # prNote, prNote # None
             PROVE  prNote \in prConfirmed /\ prNote < prNote'
  BY DEF PR!ReplacesOwnValue
<1>1. PR!Send
  BY DEF PR!Next, prVars, PR!World, PR!Tick, PR!RoomMoves, PR!OthersWrite, PR!StartObserve, PR!FinishObserve,
     PR!StartPreview, PR!ReadManifest, PR!PreviewRooms, PR!PreviewNote, PR!Refuse, PR!CheckNote, PR!ReadBack, PR!Save,
     PR!StartExecute, PR!WatchEnds, PR!ExecEnds
<1>2. prExec # PR!Idle /\ prNote = prExec.request.if /\ prNote' = prExec.request.seq
  BY <1>1 DEF PR!Send, PR!Accepts, PR!Idle
<1>3. QED BY <1>2, PRExecCopy DEF PRSmall

\* Every copy of the adapter's state names only confirmed values, and every request
\* replaces nothing or such a value (presence.py).
THEOREM PRInvariance == Spec => [](machine = "Presence" => PRIInv)
<1>1. Init => (machine = "Presence" => PRIInv)
  BY BoundsAssumption, PRInitIInv DEF Init
<1>2. (machine = "Presence" => PRIInv) /\ [Next]_vars => (machine = "Presence" => PRIInv)'
  BY PRStepIInv DEF Next, vars
<1>3. QED BY <1>1, <1>2, PTL DEF Spec

\* The presence adapter replaces only a smaller value that a read-back had
\* confirmed as its own, however many previews and executions overlap and
\* whatever others write (flop_presence.py, execute).
THEOREM OwnValue == Spec => ReplacesOwnValue
<1>1. (machine = "Presence" => PRIInv) /\ [Next]_vars
         => [machine = "Presence" => PR!ReplacesOwnValue]_vars
  BY PROwnStep DEF Next, vars
<1>2. QED BY <1>1, PRInvariance, PTL DEF Spec, ReplacesOwnValue

-----------------------------------------------------------------------------
(* The KV observatory.                                                     *)

KVOver == {"done", "refused", "failed", "dead"}
KVPolling == {"poll", "read", "observe"}
KVPublishing == {"recover", "snapshot", "write", "promote", "point"}

KVShapes ==
  /\ kvPc = [r \in KV!Run |-> kvPc[r]] /\ kvCycle = [r \in KV!Run |-> kvCycle[r]]
  /\ kvPolls = [r \in KV!Run |-> kvPolls[r]] /\ kvGeneration = [r \in KV!Run |-> kvGeneration[r]]
  /\ kvContent = [r \in KV!Run |-> kvContent[r]]
  /\ \A r \in KV!Run : kvPc[r] \in {"idle"} \cup KVOver \cup KVPolling \cup KVPublishing

\* One run at a time.
KVOneRun == \A r, s \in KV!Run : kvPc[r] \in KVPolling \cup KVPublishing
                            /\ kvPc[s] \in KVPolling \cup KVPublishing => r = s

\* What a run reads is of the configuration, and it applies what is complete.
KVListingInv ==
  \A r \in KV!Run : kvPc[r] \in {"read", "observe"} =>
    /\ kvListed.namespace \in Namespace
    /\ DOMAIN kvHashes \subseteq Fetched
    /\ kvPc[r] = "observe" => kvListed.keys \cap Fetched \subseteq DOMAIN kvHashes
KVReadingStarts ==
  \A r \in KV!Run : kvPc[r] = "poll" => DOMAIN kvHashes = {}
KVNotesInv ==
  /\ kvNotes = [n \in Namespace |-> kvNotes[n]] /\ kvAbsent = [n \in Namespace |-> kvAbsent[n]]
  /\ \A n \in Namespace : kvNotes[n] = [k \in Key |-> kvNotes[n][k]]
  /\ \A n \in Namespace, k \in Key :
        /\ kvNotes[n][k].state # "NONE" => k \in Fetched
        /\ kvNotes[n][k].state = "DISAPPEARED" => k \in kvAbsent[n]

\* A cycle that is complete stays as it is, and a snapshot tells of one.
KVTells(r) ==
  /\ kvContent[r].cycle \in KV!Run
  /\ kvCycle[kvContent[r].cycle] = "COMPLETED"
  /\ kvContent[r].covered = {n \in Namespace : kvPolls[kvContent[r].cycle][n] = "SUCCESS"}
KVCyclesInv ==
  \A r \in KV!Run :
    /\ kvPc[r] \in KVPublishing => kvCycle[r] = "COMPLETED"
    /\ kvPolls[r] = [n \in Namespace |-> kvPolls[r][n]]
    /\ kvCycle[r] = "COMPLETED" => kvPc[r] \in KVPublishing \cup KVOver
KVGenerationsInv ==
  \A r \in KV!Run :
    /\ kvPc[r] \in {"write", "promote", "point"} => KVTells(r)
    /\ kvPc[r] = "point" => kvGeneration[r] = "promoted"
    /\ kvGeneration[r] = "promoted" => KVTells(r) /\ kvPc[r] \in {"point"} \cup KVOver

KVIInv ==
  /\ KVShapes /\ KVOneRun /\ KVListingInv /\ KVReadingStarts /\ KVNotesInv
  /\ KVCyclesInv /\ KVGenerationsInv
  /\ kvOutput # None => kvOutput \in KV!Promoted

LEMMA KVInitIInv == ASSUME None # "COMPLETED", KV!Init PROVE KVIInv
<1>1. KVShapes
  BY DEF KV!Init, KVShapes
<1>2. KVOneRun /\ KVListingInv /\ KVReadingStarts
  BY DEF KV!Init, KVOneRun, KVListingInv, KVReadingStarts, KVPolling, KVPublishing
<1>3. KVNotesInv
  BY DEF KV!Init, KVNotesInv, KV!NoNote
<1>4. KVCyclesInv /\ KVGenerationsInv /\ kvOutput = None
  <2>1. \A r \in KV!Run : kvPc[r] = "idle" /\ kvCycle[r] = None /\ kvGeneration[r] = "none"
    BY DEF KV!Init
  <2>2. kvOutput = None
    BY DEF KV!Init
  <2>4. \A r \in KV!Run : kvPolls[r] = [n \in Namespace |-> kvPolls[r][n]]
    BY DEF KV!Init
  <2>5. KVCyclesInv
    BY <2>1, <2>4 DEF KVCyclesInv, KVPolling, KVPublishing, KVOver
  <2>6. KVGenerationsInv
    BY <2>1 DEF KVGenerationsInv
  <2>3. QED BY <2>2, <2>5, <2>6
<1>5. QED BY <1>1, <1>2, <1>3, <1>4 DEF KVIInv

\* A run goes on or ends, and no other one is disturbed.
LEMMA KVMoves ==
  ASSUME KVIInv, NEW r \in KV!Run, kvPc[r] \in KVPolling \cup KVPublishing,
         NEW q \in KVPolling \cup KVPublishing \cup KVOver, KV!Goes(r, q)
  PROVE  /\ KVOneRun' /\ kvPc'[r] = q /\ \A s \in KV!Run \ {r} : kvPc'[s] = kvPc[s]
         /\ \A s \in KV!Run \ {r} : kvPc[s] \notin KVPolling \cup KVPublishing
         /\ kvPc' = [s \in KV!Run |-> kvPc'[s]]
         /\ \A s \in KV!Run : kvPc'[s] \in {"idle"} \cup KVOver \cup KVPolling \cup KVPublishing
<1>1. kvPc = [s \in KV!Run |-> kvPc[s]]
  BY DEF KVIInv, KVShapes
<1>2. kvPc' = [s \in KV!Run |-> IF s = r THEN q ELSE kvPc[s]]
  BY <1>1 DEF KV!Goes
<1>3. \A s \in KV!Run \ {r} : kvPc[s] \notin KVPolling \cup KVPublishing
  BY DEF KVIInv, KVOneRun
<1>4. kvPc'[r] = q /\ \A s \in KV!Run \ {r} : kvPc'[s] = kvPc[s]
  BY <1>2
<1>5. KVOneRun'
  BY <1>3, <1>4 DEF KVOneRun
<1>6. kvPc' = [s \in KV!Run |-> kvPc'[s]]
  BY <1>2
<1>7. \A s \in KV!Run : kvPc'[s] \in {"idle"} \cup KVOver \cup KVPolling \cup KVPublishing
  <2>1. \A s \in KV!Run : kvPc[s] \in {"idle"} \cup KVOver \cup KVPolling \cup KVPublishing
    BY DEF KVIInv, KVShapes
  <2>2. TAKE s \in KV!Run
  <2>3. CASE s = r
    BY <1>4, <2>3
  <2>4. CASE s # r
    BY <1>4, <2>1, <2>4
  <2>5. QED BY <2>3, <2>4
<1>8. QED BY <1>3, <1>4, <1>5, <1>6, <1>7

\* While a run polls, what complete cycles and generations say stands.
LEMMA KVPollsOn ==
  ASSUME KVIInv, NEW r \in KV!Run, kvPc[r] \in KVPolling, NEW q \in KVPolling, KV!Goes(r, q),
         UNCHANGED <<kvCycle, KV!files>>,
         \/ kvPolls' = kvPolls
         \/ \E n, status : kvPolls' = [kvPolls EXCEPT ![r][n] = status]
  PROVE  KVShapes' /\ KVOneRun' /\ KVCyclesInv' /\ KVGenerationsInv'
         /\ (kvOutput' # None => kvOutput' \in KV!Promoted')
<1>1. /\ KVOneRun' /\ kvPc'[r] = q /\ \A s \in KV!Run \ {r} : kvPc'[s] = kvPc[s]
      /\ kvPc' = [s \in KV!Run |-> kvPc'[s]]
      /\ \A s \in KV!Run : kvPc'[s] \in {"idle"} \cup KVOver \cup KVPolling \cup KVPublishing
  BY KVMoves
<1>2. /\ kvPolls' = [s \in KV!Run |-> kvPolls'[s]]
      /\ \A s \in KV!Run \ {r} : kvPolls'[s] = kvPolls[s]
      /\ kvPolls'[r] = [n \in Namespace |-> kvPolls'[r][n]]
  <2>0. kvPolls = [s \in KV!Run |-> kvPolls[s]] /\ kvPolls[r] = [n \in Namespace |-> kvPolls[r][n]]
    BY DEF KVIInv, KVShapes, KVCyclesInv
  <2>1. CASE kvPolls' = kvPolls
    BY <2>0, <2>1
  <2>2. CASE \E n, status : kvPolls' = [kvPolls EXCEPT ![r][n] = status]
    <3>1. PICK n, status : kvPolls' = [kvPolls EXCEPT ![r][n] = status]
      BY <2>2
    <3> DEFINE p == [kvPolls[r] EXCEPT ![n] = status]
    <3>2. kvPolls' = [kvPolls EXCEPT ![r] = p]
      BY <3>1
    <3>3. p = [m \in Namespace |-> p[m]]
      BY <2>0
    <3> HIDE DEF p
    <3>4. kvPolls' = [s \in KV!Run |-> IF s = r THEN p ELSE kvPolls[s]]
      BY <2>0, <3>2
    <3>5. QED BY <3>3, <3>4
  <2>3. QED BY <2>1, <2>2
<1>3. kvCycle[r] # "COMPLETED" /\ kvGeneration[r] # "promoted"
  BY DEF KVIInv, KVCyclesInv, KVGenerationsInv, KVPolling, KVPublishing, KVOver
<1>4. kvCycle' = kvCycle /\ kvGeneration' = kvGeneration /\ kvContent' = kvContent /\ kvOutput' = kvOutput
  BY DEF KV!files
<1>5. KVShapes'
  BY <1>1, <1>2, <1>4 DEF KVIInv, KVShapes
<1>6. KVCyclesInv'
  <2>1. \A s \in KV!Run :
          /\ kvPc[s] \in KVPublishing => kvCycle[s] = "COMPLETED"
          /\ kvPolls[s] = [n \in Namespace |-> kvPolls[s][n]]
          /\ kvCycle[s] = "COMPLETED" => kvPc[s] \in KVPublishing \cup KVOver
    BY DEF KVIInv, KVCyclesInv
  <2>2. q \notin KVPublishing
    BY DEF KVPolling, KVPublishing
  <2>3. \A s \in KV!Run :
          /\ kvPc'[s] \in KVPublishing => kvCycle[s] = "COMPLETED"
          /\ kvCycle[s] = "COMPLETED" => kvPc'[s] \in KVPublishing \cup KVOver
    BY <1>1, <1>3, <2>1, <2>2
  <2>4. \A s \in KV!Run : kvPolls'[s] = [n \in Namespace |-> kvPolls'[s][n]]
    <3>1. TAKE s \in KV!Run
    <3>2. CASE s = r
      BY <1>2, <3>2
    <3>3. CASE s # r
      BY <1>2, <2>1, <3>3
    <3>4. QED BY <3>2, <3>3
  <2>5. QED BY <1>4, <2>3, <2>4 DEF KVCyclesInv
<1>7. \A s \in KV!Run : KVTells(s) => KVTells(s)'
  <2>1. TAKE s \in KV!Run
  <2>2. HAVE KVTells(s)
  <2>3. kvContent[s].cycle # r /\ kvContent[s].cycle \in KV!Run
    BY <1>3, <2>2 DEF KVTells
  <2>4. kvPolls'[kvContent[s].cycle] = kvPolls[kvContent[s].cycle]
    BY <1>2, <2>3
  <2>5. QED BY <1>4, <2>2, <2>4 DEF KVTells
<1>8. KVGenerationsInv'
  <2>1. q \notin {"write", "promote", "point"}
    BY DEF KVPolling
  <2>2. \A s \in KV!Run :
          /\ kvPc[s] \in {"write", "promote", "point"} => KVTells(s)
          /\ kvPc[s] = "point" => kvGeneration[s] = "promoted"
          /\ kvGeneration[s] = "promoted" => KVTells(s) /\ kvPc[s] \in {"point"} \cup KVOver
    BY DEF KVIInv, KVGenerationsInv
  <2>3. \A s \in KV!Run :
          /\ kvPc'[s] \in {"write", "promote", "point"} => KVTells(s)'
          /\ kvPc'[s] = "point" => kvGeneration[s] = "promoted"
          /\ kvGeneration[s] = "promoted" => KVTells(s)' /\ kvPc'[s] \in {"point"} \cup KVOver
    BY <1>1, <1>3, <1>7, <2>1, <2>2
  <2>4. QED BY <1>4, <2>3 DEF KVGenerationsInv
<1>9. QED BY <1>1, <1>4, <1>5, <1>6, <1>8 DEF KVIInv, KV!Promoted

\* What a run reads matters while it reads.
LEMMA KVReadsOn ==
  ASSUME KVIInv, NEW r \in KV!Run, kvPc[r] \in KVPolling, NEW q \in KVPolling, KV!Goes(r, q),
         q = "poll" => DOMAIN kvHashes' = {},
         q # "poll" => /\ kvListed'.namespace \in Namespace
                       /\ DOMAIN kvHashes' \subseteq Fetched,
         q = "observe" => kvListed'.keys \cap Fetched \subseteq DOMAIN kvHashes'
  PROVE  KVListingInv' /\ KVReadingStarts'
<1>1. /\ kvPc'[r] = q /\ \A s \in KV!Run \ {r} : kvPc'[s] = kvPc[s]
      /\ \A s \in KV!Run \ {r} : kvPc[s] \notin KVPolling \cup KVPublishing
  BY KVMoves
<1>2. \A s \in KV!Run : kvPc'[s] \in {"poll", "read", "observe"} => s = r
  BY <1>1 DEF KVPolling
<1>3. QED BY <1>1, <1>2 DEF KVListingInv, KVReadingStarts

LEMMA KVFailedPollIInv ==
  ASSUME KVIInv, NEW r \in KV!Run, kvPc[r] \in KVPolling, NEW n, NEW status, KV!FailedPoll(r, n, status)
  PROVE  KVIInv'
<1>1. /\ kvPolls' = [kvPolls EXCEPT ![r][n] = status]
      /\ DOMAIN kvHashes' = {} /\ KV!Goes(r, "poll") /\ "poll" \in KVPolling
      /\ UNCHANGED <<kvCycle, kvNotes, kvAbsent, KV!files>>
  BY DEF KV!FailedPoll, KVPolling
<1>2. KVShapes' /\ KVOneRun' /\ KVCyclesInv' /\ KVGenerationsInv' /\ (kvOutput' # None => kvOutput' \in KV!Promoted')
  <2>1. \E m, v : kvPolls' = [kvPolls EXCEPT ![r][m] = v]
    BY <1>1
  <2>2. QED BY <1>1, <2>1, KVPollsOn
<1>3. KVListingInv' /\ KVReadingStarts'
  BY <1>1, KVReadsOn
<1>4. KVNotesInv'
  BY <1>1 DEF KVIInv, KVNotesInv
<1>5. QED BY <1>2, <1>3, <1>4 DEF KVIInv

LEMMA KVReadingIInv ==
  ASSUME KVIInv, NEW r \in KV!Run,
         (\E n \in Namespace : KV!List(r, n)) \/ KV!Read(r) \/ KV!ReadFails(r) \/ KV!ReadDone(r)
  PROVE  KVIInv'
<1>1. CASE \E n \in Namespace : KV!List(r, n)
  <2>1. PICK n \in Namespace : KV!List(r, n)
    BY <1>1
  <2>2. kvPc[r] = "poll" /\ kvPc[r] \in KVPolling
    BY <2>1 DEF KV!List, KVPolling
  <2>3. CASE \E status : KV!FailedPoll(r, n, status)
    BY <2>2, <2>3, KVFailedPollIInv
  <2>4. CASE \E keys \in SUBSET Key :
               /\ kvListed' = [namespace |-> n, keys |-> keys] /\ KV!Goes(r, "read")
               /\ UNCHANGED <<kvLeft, kvHashes, kvResolved, KV!db, KV!files>>
    <3>1. "read" \in KVPolling
      BY DEF KVPolling
    <3>2. /\ kvListed'.namespace = n /\ KV!Goes(r, "read")
          /\ UNCHANGED <<kvHashes, kvPolls, kvCycle, kvNotes, kvAbsent, KV!files>>
      BY <2>4 DEF KV!db
    <3>3. DOMAIN kvHashes = {}
      BY <2>2 DEF KVIInv, KVReadingStarts
    <3>4. KVShapes' /\ KVOneRun' /\ KVCyclesInv' /\ KVGenerationsInv'
          /\ (kvOutput' # None => kvOutput' \in KV!Promoted')
      BY <2>2, <3>1, <3>2, KVPollsOn
    <3>5. KVListingInv' /\ KVReadingStarts'
      BY <2>2, <3>1, <3>2, <3>3, KVReadsOn
    <3>6. KVNotesInv'
      BY <3>2 DEF KVIInv, KVNotesInv
    <3>7. QED BY <3>4, <3>5, <3>6 DEF KVIInv
  <2>5. QED BY <2>1, <2>3, <2>4 DEF KV!List
<1>2. CASE KV!Read(r)
  <2>1. kvPc[r] = "read" /\ "read" \in KVPolling /\ UNCHANGED <<kvPc, kvListed, KV!db, KV!files>>
    BY <1>2 DEF KV!Read, KVPolling
  <2>2. PICK k \in KV!Unread, v \in Text :
          kvHashes' = [x \in DOMAIN kvHashes \cup {k} |-> IF x = k THEN v ELSE kvHashes[x]]
    BY <1>2 DEF KV!Read
  <2>3. k \in Fetched
    BY DEF KV!Unread
  <2>4. DOMAIN kvHashes' = DOMAIN kvHashes \cup {k}
    BY <2>2
  <2>5. \A s \in KV!Run : kvPc[s] \in KVPolling => s = r
    BY <2>1 DEF KVIInv, KVOneRun
  <2>6. \A s \in KV!Run : kvPc[s] \in {"poll", "read", "observe"} => s = r
    BY <2>5 DEF KVPolling
  <2>7. KVListingInv' /\ KVReadingStarts'
    <3>1. kvListed.namespace \in Namespace /\ DOMAIN kvHashes \subseteq Fetched
      BY <2>1 DEF KVIInv, KVListingInv
    <3>2. QED BY <2>1, <2>3, <2>4, <2>6, <3>1 DEF KVListingInv, KVReadingStarts
  <2>8. KVShapes' /\ KVOneRun' /\ KVCyclesInv' /\ KVGenerationsInv'
        /\ (kvOutput' # None => kvOutput' \in KV!Promoted')
    BY <2>1 DEF KVIInv, KVShapes, KVOneRun, KVCyclesInv, KVGenerationsInv, KVTells, KV!Promoted, KV!db, KV!files
  <2>9. KVNotesInv'
    BY <2>1 DEF KVIInv, KVNotesInv, KV!db
  <2>10. QED BY <2>7, <2>8, <2>9 DEF KVIInv
<1>3. CASE KV!ReadFails(r)
  <2>1. kvPc[r] \in KVPolling /\ \E n, status : KV!FailedPoll(r, n, status)
    BY <1>3 DEF KV!ReadFails, KVPolling
  <2>2. QED BY <2>1, KVFailedPollIInv
<1>4. CASE KV!ReadDone(r)
  <2>1. kvPc[r] = "read" /\ kvPc[r] \in KVPolling /\ "observe" \in KVPolling /\ KV!Goes(r, "observe")
        /\ KV!Unread = {} /\ UNCHANGED <<kvListed, kvHashes, kvPolls, kvCycle, kvNotes, kvAbsent, KV!files>>
    BY <1>4 DEF KV!ReadDone, KVPolling, KV!run, KV!db
  <2>2. kvListed.namespace \in Namespace /\ DOMAIN kvHashes \subseteq Fetched
    BY <2>1 DEF KVIInv, KVListingInv
  <2>3. kvListed.keys \cap Fetched \subseteq DOMAIN kvHashes
    BY <2>1 DEF KV!Unread
  <2>4. KVShapes' /\ KVOneRun' /\ KVCyclesInv' /\ KVGenerationsInv'
        /\ (kvOutput' # None => kvOutput' \in KV!Promoted')
    BY <2>1, KVPollsOn
  <2>5. KVListingInv' /\ KVReadingStarts'
    BY <2>1, <2>2, <2>3, KVReadsOn
  <2>6. KVNotesInv'
    BY <2>1 DEF KVIInv, KVNotesInv
  <2>7. QED BY <2>4, <2>5, <2>6 DEF KVIInv
<1>5. QED BY <1>1, <1>2, <1>3, <1>4

\* One transaction: a note that is not read was not in the complete listing.
LEMMA KVObserveIInv ==
  ASSUME KVIInv, NEW r \in KV!Run, KV!Observe(r)
  PROVE  KVIInv'
<1> DEFINE n == kvListed.namespace
           Now(k) == LET old == kvNotes[n][k] IN
                  IF k \in DOMAIN kvHashes THEN KV!Reads(old, kvHashes[k])
                  ELSE IF old.state = "NONE" THEN old
                  ELSE [old EXCEPT !.state = "DISAPPEARED"]
<1>1. /\ kvPc[r] = "observe" /\ kvPc[r] \in KVPolling /\ "poll" \in KVPolling /\ KV!Goes(r, "poll")
      /\ kvNotes' = [kvNotes EXCEPT ![n] = [k \in Key |-> Now(k)]]
      /\ kvPolls' = [kvPolls EXCEPT ![r][n] = "SUCCESS"]
      /\ kvAbsent' = [kvAbsent EXCEPT ![n] = Key \ kvListed.keys]
      /\ DOMAIN kvHashes' = {} /\ UNCHANGED <<kvCycle, KV!files>>
  BY DEF KV!Observe, KVPolling
<1>2. /\ n \in Namespace /\ DOMAIN kvHashes \subseteq Fetched
      /\ kvListed.keys \cap Fetched \subseteq DOMAIN kvHashes
  BY <1>1 DEF KVIInv, KVListingInv
<1>3. KVShapes' /\ KVOneRun' /\ KVCyclesInv' /\ KVGenerationsInv' /\ (kvOutput' # None => kvOutput' \in KV!Promoted')
  <2>1. \E m, v : kvPolls' = [kvPolls EXCEPT ![r][m] = v]
    BY <1>1
  <2>2. QED BY <1>1, <2>1, KVPollsOn
<1>4. KVListingInv' /\ KVReadingStarts'
  BY <1>1, KVReadsOn
<1>5. \A k \in Key :
        /\ Now(k).state # "NONE" => k \in Fetched
        /\ Now(k).state = "DISAPPEARED" => k \in Key \ kvListed.keys
  <2>1. TAKE k \in Key
  <2>2. CASE k \in DOMAIN kvHashes
    <3>1. Now(k) = KV!Reads(kvNotes[n][k], kvHashes[k])
      BY <2>2
    <3>2. \A old, v : KV!Reads(old, v).state # "DISAPPEARED"
      BY DEF KV!Reads
    <3>3. QED BY <1>2, <2>2, <3>1, <3>2
  <2>3. CASE k \notin DOMAIN kvHashes /\ kvNotes[n][k].state = "NONE"
    BY <2>3
  <2>4. CASE k \notin DOMAIN kvHashes /\ kvNotes[n][k].state # "NONE"
    <3>1. k \in Fetched
      BY <1>2, <2>4 DEF KVIInv, KVNotesInv
    <3>2. k \in Key \ kvListed.keys
      BY <1>2, <2>4, <3>1
    <3>3. QED BY <3>1, <3>2
  <2>5. QED BY <2>2, <2>3, <2>4
<1>6. KVNotesInv'
  <2>1. kvNotes = [m \in Namespace |-> kvNotes[m]] /\ kvAbsent = [m \in Namespace |-> kvAbsent[m]]
        /\ (\A m \in Namespace : kvNotes[m] = [k \in Key |-> kvNotes[m][k]])
        /\ \A m \in Namespace, k \in Key :
                /\ kvNotes[m][k].state # "NONE" => k \in Fetched
                /\ kvNotes[m][k].state = "DISAPPEARED" => k \in kvAbsent[m]
    BY DEF KVIInv, KVNotesInv
  <2> DEFINE f == [k \in Key |-> Now(k)]
  <2>2. f = [k \in Key |-> f[k]] /\ \A k \in Key : f[k] = Now(k)
    OBVIOUS
  <2>3. kvNotes' = [kvNotes EXCEPT ![n] = f]
    BY <1>1
  <2> HIDE DEF f, Now, n
  <2>4. kvNotes' = [m \in Namespace |-> IF m = n THEN f ELSE kvNotes[m]]
    BY <2>1, <2>3
  <2>5. kvAbsent' = [m \in Namespace |-> IF m = n THEN Key \ kvListed.keys ELSE kvAbsent[m]]
    BY <1>1, <2>1
  <2>6. \A m \in Namespace : kvNotes'[m] = [k \in Key |-> kvNotes'[m][k]]
    <3>1. TAKE m \in Namespace
    <3>2. CASE m = n
      BY <2>2, <2>4, <3>2
    <3>3. CASE m # n
      BY <2>1, <2>4, <3>3
    <3>4. QED BY <3>2, <3>3
  <2>7. \A m \in Namespace, k \in Key :
          /\ kvNotes'[m][k].state # "NONE" => k \in Fetched
          /\ kvNotes'[m][k].state = "DISAPPEARED" => k \in kvAbsent'[m]
    <3>1. TAKE m \in Namespace, k \in Key
    <3>2. CASE m = n
      BY <1>5, <2>2, <2>4, <2>5, <3>2
    <3>3. CASE m # n
      BY <2>1, <2>4, <2>5, <3>3
    <3>4. QED BY <3>2, <3>3
  <2>8. QED BY <2>4, <2>5, <2>6, <2>7 DEF KVNotesInv
<1>7. QED BY <1>3, <1>4, <1>6 DEF KVIInv

\* A run begins: no other one is active, and its cycle was never complete.
LEMMA KVStartIInv ==
  ASSUME Runs \in Nat, KVIInv, NEW r \in KV!Run, KV!Start(r)
  PROVE  KVIInv'
<1>1. /\ kvPc' = [kvPc EXCEPT ![r] = "poll"] /\ DOMAIN kvHashes' = {}
      /\ kvCycle' = [kvCycle EXCEPT ![r] = "IN_PROGRESS"]
      /\ UNCHANGED <<kvPolls, kvNotes, kvAbsent, kvGeneration, kvContent, kvOutput>>
  BY DEF KV!Start, KV!Goes, KV!files
<1>2. \A s \in KV!Run : kvPc[s] \in {"idle"} \cup KVOver
  BY DEF KV!Start, KVOver
<1>3. kvPc[r] = "idle"
  <2>1. r \in Int
    BY DEF KV!Run
  <2>2. ~(r < r)
    BY <2>1
  <2>3. QED BY <2>2 DEF KV!Start
<1>4. kvPc = [s \in KV!Run |-> kvPc[s]] /\ kvCycle = [s \in KV!Run |-> kvCycle[s]]
  BY DEF KVIInv, KVShapes
<1>5. /\ kvPc' = [s \in KV!Run |-> IF s = r THEN "poll" ELSE kvPc[s]]
      /\ kvCycle' = [s \in KV!Run |-> IF s = r THEN "IN_PROGRESS" ELSE kvCycle[s]]
  BY <1>1, <1>4
<1>6. \A s \in KV!Run : kvCycle[s] = "COMPLETED" => s # r /\ kvCycle'[s] = "COMPLETED"
  BY <1>3, <1>5 DEF KVIInv, KVCyclesInv, KVPublishing, KVOver
<1>7. \A s \in KV!Run : kvPc'[s] \in {"poll"} \cup {"idle"} \cup KVOver
  BY <1>2, <1>5
<1>8. \A s \in KV!Run : kvPc'[s] = "poll" => s = r
  BY <1>2, <1>5 DEF KVOver
<1>9. KVShapes'
  BY <1>1, <1>5, <1>7 DEF KVIInv, KVShapes, KVPolling
<1>10. KVOneRun' /\ KVListingInv' /\ KVReadingStarts'
  BY <1>1, <1>7, <1>8 DEF KVOneRun, KVListingInv, KVReadingStarts, KVPolling, KVPublishing, KVOver
<1>11. KVNotesInv'
  BY <1>1 DEF KVIInv, KVNotesInv
<1>12. KVCyclesInv'
  <2>1. \A s \in KV!Run : kvPc'[s] \notin KVPublishing
    BY <1>7 DEF KVPublishing, KVOver
  <2>2. \A s \in KV!Run : kvCycle'[s] = "COMPLETED" => kvPc'[s] \in KVOver
    BY <1>2, <1>3, <1>5 DEF KVIInv, KVCyclesInv, KVPublishing, KVOver
  <2>3. QED BY <1>1, <2>1, <2>2 DEF KVIInv, KVCyclesInv
<1>13. \A s \in KV!Run : KVTells(s) => KVTells(s)'
  BY <1>1, <1>6 DEF KVTells
<1>14. KVGenerationsInv'
  <2>1. \A s \in KV!Run : kvPc'[s] \notin {"write", "promote", "point"}
    BY <1>7 DEF KVOver
  <2>2. \A s \in KV!Run : kvGeneration[s] = "promoted" => kvPc[s] \in KVOver /\ s # r /\ KVTells(s)
    BY <1>2, <1>3 DEF KVIInv, KVGenerationsInv, KVOver
  <2>3. QED BY <1>1, <1>5, <1>13, <2>1, <2>2 DEF KVGenerationsInv
<1>15. kvOutput' # None => kvOutput' \in KV!Promoted'
  BY <1>1 DEF KVIInv, KV!Promoted
<1>16. QED BY <1>9, <1>10, <1>11, <1>12, <1>14, <1>15 DEF KVIInv

\* A run that has polled all goes on, or ends.
LEMMA KVPublishes ==
  ASSUME KVIInv, NEW r \in KV!Run, kvPc[r] \in KVPolling \cup KVPublishing,
         NEW q \in KVPublishing \cup KVOver, KV!Goes(r, q), UNCHANGED <<kvPolls, kvNotes, kvAbsent>>,
         kvCycle' = [s \in KV!Run |-> kvCycle'[s]], kvGeneration' = [s \in KV!Run |-> kvGeneration'[s]],
         kvContent' = [s \in KV!Run |-> kvContent'[s]],
         kvCycle' = kvCycle /\ kvPc[r] \in KVPolling => q \in KVOver,
         \/ kvCycle' = kvCycle
         \/ q \in KVPublishing /\ kvCycle' = [kvCycle EXCEPT ![r] = "COMPLETED"]
  PROVE  KVShapes' /\ KVOneRun' /\ KVListingInv' /\ KVReadingStarts' /\ KVNotesInv' /\ KVCyclesInv'
<1>1. /\ KVOneRun' /\ kvPc'[r] = q /\ \A s \in KV!Run \ {r} : kvPc'[s] = kvPc[s]
      /\ \A s \in KV!Run \ {r} : kvPc[s] \notin KVPolling \cup KVPublishing
      /\ kvPc' = [s \in KV!Run |-> kvPc'[s]]
      /\ \A s \in KV!Run : kvPc'[s] \in {"idle"} \cup KVOver \cup KVPolling \cup KVPublishing
  <2>1. q \in KVPolling \cup KVPublishing \cup KVOver
    OBVIOUS
  <2>2. QED BY <2>1, KVMoves
<1>2. KVShapes'
  BY <1>1 DEF KVIInv, KVShapes
<1>3. \A s \in KV!Run : kvPc'[s] \notin KVPolling
  BY <1>1 DEF KVPolling, KVPublishing, KVOver
<1>4. KVListingInv' /\ KVReadingStarts'
  BY <1>3 DEF KVListingInv, KVReadingStarts, KVPolling
<1>5. KVNotesInv'
  BY DEF KVIInv, KVNotesInv
<1>6. kvCycle = [s \in KV!Run |-> kvCycle[s]]
  BY DEF KVIInv, KVShapes
<1>7. \A s \in KV!Run \ {r} : kvCycle'[s] = kvCycle[s]
  BY <1>6
<1>8. q \in KVPublishing => kvCycle'[r] = "COMPLETED"
  <2>1. kvPc[r] \in KVPublishing => kvCycle[r] = "COMPLETED"
    BY DEF KVIInv, KVCyclesInv
  <2>2. KVPublishing \cap KVOver = {}
    BY DEF KVPublishing, KVOver
  <2>3. QED BY <1>6, <2>1, <2>2
<1>9. KVCyclesInv'
  <2>1. \A s \in KV!Run :
          /\ kvPc[s] \in KVPublishing => kvCycle[s] = "COMPLETED"
          /\ kvPolls[s] = [n \in Namespace |-> kvPolls[s][n]]
          /\ kvCycle[s] = "COMPLETED" => kvPc[s] \in KVPublishing \cup KVOver
    BY DEF KVIInv, KVCyclesInv
  <2>2. \A s \in KV!Run :
          /\ kvPc'[s] \in KVPublishing => kvCycle'[s] = "COMPLETED"
          /\ kvCycle'[s] = "COMPLETED" => kvPc'[s] \in KVPublishing \cup KVOver
    <3>1. TAKE s \in KV!Run
    <3>2. CASE s = r
      BY <1>1, <1>8, <3>2
    <3>3. CASE s # r
      BY <1>1, <1>7, <2>1, <3>3
    <3>4. QED BY <3>2, <3>3
  <2>3. QED BY <2>1, <2>2 DEF KVCyclesInv
<1>10. QED BY <1>1, <1>2, <1>4, <1>5, <1>9

LEMMA KVLatestIsComplete ==
  ASSUME Runs \in Nat, NEW S, S \subseteq KV!Run, S # {}
  PROVE  KV!Max(S) \in S
<1>1. S \subseteq Nat /\ \A x \in S : x <= Runs
  BY DEF KV!Run
<1>2. PICK m \in S : \A y \in S : y <= m
  BY <1>1, GreatestNat
<1>3. \A y \in S : m >= y
  BY <1>1, <1>2
<1>4. QED BY <1>3 DEF KV!Max

\* What stands is left as it was while a run publishes.
LEMMA KVSameDb ==
  ASSUME UNCHANGED <<kvPolls, kvCycle>>, NEW s, KVTells(s), kvContent'[s] = kvContent[s]
  PROVE  KVTells(s)'
BY DEF KVTells

LEMMA KVCompleteCycleIInv ==
  ASSUME KVIInv, NEW r \in KV!Run, KV!CompleteCycle(r)
  PROVE  KVIInv'
<1>1. /\ kvPc[r] = "poll" /\ KV!Goes(r, "recover") /\ kvCycle' = [kvCycle EXCEPT ![r] = "COMPLETED"]
      /\ UNCHANGED <<kvPolls, kvNotes, kvAbsent, kvGeneration, kvContent, kvOutput>>
  BY DEF KV!CompleteCycle, KV!files
<1>2. kvPc[r] \in KVPolling /\ kvPc[r] \in KVPolling \cup KVPublishing
      /\ "recover" \in KVPublishing /\ "recover" \in KVPublishing \cup KVOver
  BY <1>1 DEF KVPolling, KVPublishing
<1>3. /\ kvPc'[r] = "recover" /\ \A s \in KV!Run \ {r} : kvPc'[s] = kvPc[s]
  <2>1. "recover" \in KVPolling \cup KVPublishing \cup KVOver
    BY <1>2
  <2>2. QED BY <1>1, <1>2, <2>1, KVMoves
<1>4. kvCycle[r] # "COMPLETED" /\ kvGeneration[r] # "promoted"
  BY <1>1 DEF KVIInv, KVCyclesInv, KVGenerationsInv, KVPublishing, KVOver
<1>5. /\ kvCycle = [s \in KV!Run |-> kvCycle[s]] /\ kvGeneration = [s \in KV!Run |-> kvGeneration[s]]
      /\ kvContent = [s \in KV!Run |-> kvContent[s]]
  BY DEF KVIInv, KVShapes
<1>6. kvCycle' = [s \in KV!Run |-> IF s = r THEN "COMPLETED" ELSE kvCycle[s]]
  BY <1>1, <1>5
<1>7. KVShapes' /\ KVOneRun' /\ KVListingInv' /\ KVReadingStarts' /\ KVNotesInv' /\ KVCyclesInv'
  <2>1. kvCycle' # kvCycle
    BY <1>4, <1>6
  <2>2. kvCycle' = [s \in KV!Run |-> kvCycle'[s]] /\ kvGeneration' = [s \in KV!Run |-> kvGeneration'[s]]
        /\ kvContent' = [s \in KV!Run |-> kvContent'[s]]
    BY <1>1, <1>5, <1>6
  <2>3. QED BY <1>1, <1>2, <2>1, <2>2, KVPublishes
<1>8. \A s \in KV!Run : KVTells(s) => KVTells(s)'
  BY <1>1, <1>4, <1>6 DEF KVTells
<1>9. KVGenerationsInv'
  BY <1>1, <1>3, <1>4, <1>8 DEF KVIInv, KVGenerationsInv
<1>10. QED BY <1>1, <1>7, <1>9 DEF KVIInv, KV!Promoted

\* A run whose database stays: what it does to the files of its own.
LEMMA KVOwnFiles ==
  ASSUME KVIInv, NEW r \in KV!Run, kvPc[r] \in KVPolling \cup KVPublishing,
         NEW q \in KVPublishing \cup KVOver, KV!Goes(r, q),
         kvPc[r] \in KVPolling => q \in KVOver,
         UNCHANGED <<kvCycle, kvPolls, kvNotes, kvAbsent>>,
         kvGeneration' = [s \in KV!Run |-> kvGeneration'[s]],
         kvContent' = [s \in KV!Run |-> kvContent'[s]],
         \A s \in KV!Run \ {r} : kvGeneration[s] = "promoted" <=> kvGeneration'[s] = "promoted",
         \A s \in KV!Run \ {r} : kvContent'[s] = kvContent[s],
         kvGeneration[r] = "promoted" => /\ kvGeneration'[r] = "promoted" /\ kvContent'[r] = kvContent[r]
                                       /\ q \in {"point"} \cup KVOver,
         q \in {"write", "promote", "point"} => KVTells(r)',
         q = "point" => kvGeneration'[r] = "promoted",
         kvGeneration'[r] = "promoted" => kvGeneration[r] = "promoted" \/ q = "point",
         kvOutput' = kvOutput \/ kvOutput' = None \/ kvOutput' \in KV!Promoted'
  PROVE  KVIInv'
<1>1. /\ kvPc'[r] = q /\ \A s \in KV!Run \ {r} : kvPc'[s] = kvPc[s]
  <2>1. q \in KVPolling \cup KVPublishing \cup KVOver
    OBVIOUS
  <2>2. QED BY <2>1, KVMoves
<1>2. KVShapes' /\ KVOneRun' /\ KVListingInv' /\ KVReadingStarts' /\ KVNotesInv' /\ KVCyclesInv'
  <2>1. kvCycle' = [s \in KV!Run |-> kvCycle'[s]]
    BY DEF KVIInv, KVShapes
  <2>2. QED BY <2>1, KVPublishes
<1>3. \A s \in KV!Run : KVTells(s) /\ kvContent'[s] = kvContent[s] => KVTells(s)'
  BY KVSameDb
<1>4. KVGenerationsInv'
  <2>1. \A s \in KV!Run :
          /\ kvPc[s] \in {"write", "promote", "point"} => KVTells(s)
          /\ kvPc[s] = "point" => kvGeneration[s] = "promoted"
          /\ kvGeneration[s] = "promoted" => KVTells(s) /\ kvPc[s] \in {"point"} \cup KVOver
    BY DEF KVIInv, KVGenerationsInv
  <2>2. \A s \in KV!Run \ {r} :
          /\ kvPc'[s] \in {"write", "promote", "point"} => KVTells(s)'
          /\ kvPc'[s] = "point" => kvGeneration'[s] = "promoted"
          /\ kvGeneration'[s] = "promoted" => KVTells(s)' /\ kvPc'[s] \in {"point"} \cup KVOver
    BY <1>1, <1>3, <2>1
  <2>3. /\ kvPc'[r] \in {"write", "promote", "point"} => KVTells(r)'
        /\ kvPc'[r] = "point" => kvGeneration'[r] = "promoted"
        /\ kvGeneration'[r] = "promoted" => KVTells(r)' /\ kvPc'[r] \in {"point"} \cup KVOver
    <3>1. CASE kvGeneration[r] = "promoted"
      BY <1>1, <1>3, <2>1, <3>1
    <3>2. CASE kvGeneration[r] # "promoted"
      BY <1>1, <3>2
    <3>3. QED BY <3>1, <3>2
  <2>4. QED BY <2>2, <2>3 DEF KVGenerationsInv
<1>5. kvOutput' # None => kvOutput' \in KV!Promoted'
  <2>1. KV!Promoted \subseteq KV!Promoted'
    BY DEF KV!Promoted
  <2>2. QED BY <2>1 DEF KVIInv
<1>6. QED BY <1>2, <1>4, <1>5 DEF KVIInv

LEMMA KVRecoverIInv ==
  ASSUME Runs \in Nat, KVIInv, NEW r \in KV!Run, KV!Recover(r)
  PROVE  KVIInv'
<1>1. /\ kvPc[r] = "recover" /\ kvPc[r] \in KVPolling \cup KVPublishing /\ kvPc[r] \notin KVPolling
      /\ UNCHANGED <<kvCycle, kvPolls, kvNotes, kvAbsent, kvContent>>
  BY DEF KV!Recover, KVPolling, KVPublishing, KV!db
<1>2. /\ kvGeneration = [s \in KV!Run |-> kvGeneration[s]] /\ kvContent = [s \in KV!Run |-> kvContent[s]]
      /\ kvGeneration[r] # "promoted"
  BY <1>1 DEF KVIInv, KVShapes, KVGenerationsInv, KVOver
<1>3. CASE KV!Goes(r, "refused") /\ UNCHANGED <<kvGeneration, kvOutput>>
  <2>1. "refused" \in KVPublishing \cup KVOver /\ "refused" \notin {"write", "promote", "point"}
    BY DEF KVOver
  <2>2. QED BY <1>1, <1>2, <1>3, <2>1, KVOwnFiles
<1>4. CASE /\ KV!Goes(r, "snapshot")
           /\ kvGeneration' = [s \in KV!Run |-> IF s \in KV!Promoted THEN kvGeneration[s] ELSE "none"]
           /\ kvOutput' = IF kvOutput = None /\ KV!Promoted # {} THEN KV!Max(KV!Promoted) ELSE kvOutput
  <2>1. "snapshot" \in KVPublishing \cup KVOver /\ "snapshot" \notin {"write", "promote", "point"}
    BY DEF KVPublishing
  <2>2. \A s \in KV!Run : kvGeneration[s] = "promoted" <=> kvGeneration'[s] = "promoted"
    BY <1>4 DEF KV!Promoted
  <2>3. KV!Promoted' = KV!Promoted
    BY <2>2 DEF KV!Promoted
  <2>4. kvOutput' = kvOutput \/ kvOutput' \in KV!Promoted'
    <3>1. KV!Promoted \subseteq KV!Run
      BY DEF KV!Promoted
    <3>2. KV!Promoted # {} => KV!Max(KV!Promoted) \in KV!Promoted
      BY <3>1, KVLatestIsComplete
    <3>3. QED BY <1>4, <2>3, <3>2
  <2>5. kvGeneration' = [s \in KV!Run |-> kvGeneration'[s]]
    BY <1>4
  <2>6. QED BY <1>1, <1>2, <1>4, <2>1, <2>2, <2>4, <2>5, KVOwnFiles
<1>5. QED BY <1>3, <1>4 DEF KV!Recover

LEMMA KVSnapshotIInv ==
  ASSUME Runs \in Nat, KVIInv, NEW r \in KV!Run, KV!Snapshot(r)
  PROVE  KVIInv'
<1> DEFINE latest == KV!Max(KV!Completed)
           covered == {n \in Namespace : kvPolls[latest][n] = "SUCCESS"}
<1>1. /\ kvPc[r] = "snapshot" /\ KV!Goes(r, "write")
      /\ kvContent' = [kvContent EXCEPT ![r] = [cycle |-> latest, covered |-> covered]]
      /\ kvGeneration' = [kvGeneration EXCEPT ![r] = "partial"]
      /\ UNCHANGED <<kvCycle, kvPolls, kvNotes, kvAbsent, kvOutput>>
  BY DEF KV!Snapshot, KV!db
<1>2. kvPc[r] \in KVPublishing /\ kvPc[r] \notin KVPolling /\ "write" \in KVPublishing
  BY <1>1 DEF KVPublishing, KVPolling
<1>3. /\ kvGeneration = [s \in KV!Run |-> kvGeneration[s]] /\ kvContent = [s \in KV!Run |-> kvContent[s]]
      /\ kvGeneration[r] # "promoted" /\ kvCycle[r] = "COMPLETED"
  BY <1>1, <1>2 DEF KVIInv, KVShapes, KVGenerationsInv, KVCyclesInv, KVOver
<1>4. latest \in KV!Run /\ kvCycle[latest] = "COMPLETED"
  <2>1. KV!Completed \subseteq KV!Run /\ r \in KV!Completed
    BY <1>3 DEF KV!Completed
  <2>2. latest \in KV!Completed
    BY <2>1, KVLatestIsComplete
  <2>3. QED BY <2>2 DEF KV!Completed
<1> HIDE DEF latest
<1>5. kvContent'[r] = [cycle |-> latest, covered |-> covered]
  BY <1>1, <1>3
<1>6. kvContent'[r].cycle = latest /\ kvContent'[r].covered = covered
  BY <1>5
<1>7. KVTells(r)'
  BY <1>1, <1>4, <1>6 DEF KVTells
<1>8. /\ \A s \in KV!Run \ {r} : kvContent'[s] = kvContent[s] /\ kvGeneration'[s] = kvGeneration[s]
      /\ kvGeneration'[r] = "partial"
      /\ kvGeneration' = [s \in KV!Run |-> kvGeneration'[s]] /\ kvContent' = [s \in KV!Run |-> kvContent'[s]]
  BY <1>1, <1>3
<1>9. QED BY <1>1, <1>2, <1>3, <1>7, <1>8, KVOwnFiles

LEMMA KVPublishingIInv ==
  ASSUME KVIInv, NEW r \in KV!Run, KV!Write(r) \/ KV!Promote(r) \/ KV!Point(r) \/ KV!PublishFails(r) \/ KV!Dies(r)
  PROVE  KVIInv'
<1>1. UNCHANGED <<kvCycle, kvPolls, kvNotes, kvAbsent, kvContent>>
  BY DEF KV!Write, KV!Promote, KV!Point, KV!PublishFails, KV!Dies, KV!db, KV!files
<1>2. /\ kvGeneration = [s \in KV!Run |-> kvGeneration[s]] /\ kvContent = [s \in KV!Run |-> kvContent[s]]
  BY DEF KVIInv, KVShapes
<1>3. /\ kvPc[r] \in {"write", "promote", "point"} => KVTells(r)
      /\ kvPc[r] = "point" => kvGeneration[r] = "promoted"
      /\ kvGeneration[r] = "promoted" => KVTells(r) /\ kvPc[r] \in {"point"} \cup KVOver
  BY DEF KVIInv, KVGenerationsInv
<1>4. KVTells(r) => KVTells(r)'
  BY <1>1, KVSameDb
<1>5. CASE KV!Write(r)
  <2>1. /\ kvPc[r] = "write" /\ kvGeneration' = [kvGeneration EXCEPT ![r] = "whole"]
        /\ KV!Goes(r, "promote") /\ kvOutput' = kvOutput
    BY <1>5 DEF KV!Write
  <2>2. kvPc[r] \in KVPublishing /\ kvPc[r] \notin KVPolling /\ "promote" \in KVPublishing
        /\ kvGeneration[r] # "promoted"
    BY <1>3, <2>1 DEF KVPublishing, KVPolling, KVOver
  <2>3. /\ \A s \in KV!Run \ {r} : kvGeneration'[s] = kvGeneration[s]
        /\ kvGeneration'[r] = "whole" /\ kvGeneration' = [s \in KV!Run |-> kvGeneration'[s]]
    BY <1>2, <2>1
  <2>4. QED BY <1>1, <1>2, <1>3, <1>4, <2>1, <2>2, <2>3, KVOwnFiles
<1>6. CASE KV!Promote(r)
  <2>1. /\ kvPc[r] = "promote" /\ kvGeneration' = [kvGeneration EXCEPT ![r] = "promoted"]
        /\ KV!Goes(r, "point") /\ kvOutput' = kvOutput
    BY <1>6 DEF KV!Promote
  <2>2. kvPc[r] \in KVPublishing /\ kvPc[r] \notin KVPolling /\ "point" \in KVPublishing
    BY <2>1 DEF KVPublishing, KVPolling
  <2>3. /\ \A s \in KV!Run \ {r} : kvGeneration'[s] = kvGeneration[s]
        /\ kvGeneration'[r] = "promoted" /\ kvGeneration' = [s \in KV!Run |-> kvGeneration'[s]]
    BY <1>2, <2>1
  <2>4. QED BY <1>1, <1>2, <1>3, <1>4, <2>1, <2>2, <2>3, KVOwnFiles
<1>7. CASE KV!Point(r)
  <2>1. /\ kvPc[r] = "point" /\ kvGeneration' = kvGeneration /\ KV!Goes(r, "done") /\ kvOutput' = r
    BY <1>7 DEF KV!Point
  <2>2. kvPc[r] \in KVPublishing /\ kvPc[r] \notin KVPolling /\ "done" \in KVOver
    BY <2>1 DEF KVPublishing, KVPolling, KVOver
  <2>3. kvOutput' \in KV!Promoted'
    BY <1>3, <2>1 DEF KV!Promoted
  <2>4. QED BY <1>1, <1>2, <1>3, <2>1, <2>2, <2>3, KVOwnFiles
<1>8. CASE KV!PublishFails(r)
  <2>1. /\ kvPc[r] \in {"snapshot", "write", "promote", "point"}
        /\ kvGeneration' = [kvGeneration EXCEPT
                            ![r] = IF kvGeneration[r] = "promoted" THEN kvGeneration[r] ELSE "none"]
        /\ KV!Goes(r, "failed") /\ kvOutput' = kvOutput
    BY <1>2, <1>8 DEF KV!PublishFails
  <2>2. kvPc[r] \in KVPublishing /\ kvPc[r] \notin KVPolling /\ "failed" \in KVOver
    BY <2>1 DEF KVPublishing, KVPolling, KVOver
  <2>3. /\ \A s \in KV!Run \ {r} : kvGeneration'[s] = kvGeneration[s]
        /\ kvGeneration'[r] = "promoted" <=> kvGeneration[r] = "promoted"
    BY <1>2, <2>1
  <2>4. kvGeneration' = [s \in KV!Run |-> kvGeneration'[s]]
    BY <1>2, <2>1
  <2>5. QED BY <1>1, <1>2, <1>3, <2>1, <2>2, <2>3, <2>4, KVOwnFiles
<1>9. CASE KV!Dies(r)
  <2>1. /\ kvPc[r] \notin {"idle", "done", "refused", "failed", "dead"}
        /\ KV!Goes(r, "dead") /\ kvGeneration' = kvGeneration /\ kvOutput' = kvOutput
    BY <1>9 DEF KV!Dies, KV!files
  <2>2. kvPc[r] \in KVPolling \cup KVPublishing /\ "dead" \in KVOver
    BY <2>1 DEF KVIInv, KVShapes, KVOver
  <2>3. QED BY <1>1, <1>2, <1>3, <2>1, <2>2, KVOwnFiles
<1>10. QED BY <1>5, <1>6, <1>7, <1>8, <1>9

LEMMA KVStepIInv ==
  ASSUME Runs \in Nat, KVIInv, [KV!Next]_kvVars
  PROVE  KVIInv'
<1>1. CASE UNCHANGED kvVars \/ KV!LoseLink
  <2>1. UNCHANGED <<kvPc, kvListed, kvHashes, kvCycle, kvPolls, kvNotes, kvAbsent, kvGeneration, kvContent>>
        /\ (kvOutput' = kvOutput \/ kvOutput' = None)
    BY <1>1 DEF kvVars, KV!LoseLink, KV!run, KV!db, KV!files
  <2>2. KVShapes' /\ KVOneRun' /\ KVListingInv' /\ KVReadingStarts' /\ KVNotesInv' /\ KVCyclesInv'
    BY <2>1 DEF KVIInv, KVShapes, KVOneRun, KVListingInv, KVReadingStarts, KVNotesInv, KVCyclesInv
  <2>3. KVGenerationsInv' /\ (kvOutput' # None => kvOutput' \in KV!Promoted')
    BY <2>1 DEF KVIInv, KVGenerationsInv, KVTells, KV!Promoted
  <2>4. QED BY <2>2, <2>3 DEF KVIInv
<1>2. CASE \E r \in KV!Run :
             \/ KV!Start(r) \/ \E n \in Namespace : KV!List(r, n)
             \/ KV!Read(r) \/ KV!ReadFails(r) \/ KV!ReadDone(r) \/ KV!Observe(r) \/ KV!CompleteCycle(r)
             \/ KV!Recover(r) \/ KV!Snapshot(r) \/ KV!Write(r) \/ KV!Promote(r) \/ KV!Point(r)
             \/ KV!PublishFails(r) \/ KV!Dies(r)
  BY <1>2, KVStartIInv, KVReadingIInv, KVObserveIInv, KVCompleteCycleIInv, KVRecoverIInv, KVSnapshotIInv,
     KVPublishingIInv
<1>3. QED BY <1>1, <1>2 DEF KV!Next

LEMMA KVWholePublished == KVIInv => KV!PublishedIsWhole /\ KV!DisappearedWasAbsent
<1> SUFFICES ASSUME KVIInv PROVE KV!PublishedIsWhole /\ KV!DisappearedWasAbsent
  OBVIOUS
<1>1. KV!DisappearedWasAbsent
  BY DEF KVIInv, KVNotesInv, KV!DisappearedWasAbsent
<1>2. ASSUME kvOutput # None PROVE kvOutput \in KV!Run /\ kvGeneration[kvOutput] = "promoted" /\ KVTells(kvOutput)
  BY <1>2 DEF KVIInv, KV!Promoted, KVGenerationsInv
<1>3. KV!PublishedIsWhole
  BY <1>2 DEF KV!PublishedIsWhole, KVTells
<1>4. QED BY <1>1, <1>3

\* The database, the running cycle and the published generations fit together at
\* every moment (kv_observatory.py).
THEOREM KVInvariance == Spec => [](machine = "KvObservatory" => KVIInv)
<1>1. Init => (machine = "KvObservatory" => KVIInv)
  BY NoneAssumption, KVInitIInv DEF Init
<1>2. (machine = "KvObservatory" => KVIInv) /\ [Next]_vars
         => (machine = "KvObservatory" => KVIInv)'
  BY BoundsAssumption, KVStepIInv DEF Next, vars
<1>3. QED BY <1>1, <1>2, PTL DEF Spec

\* What readers of the KV observatory follow is one whole, completed cycle, and
\* a note it calls disappeared was missing from a complete listing, whichever
\* runs died or failed before (kv_observatory.py, poll, observe,
\* _write_snapshots, snapshot).
THEOREM WholeIsPublished == Spec => []PublishedIsWhole
<1>1. (machine = "KvObservatory" => KVIInv) => PublishedIsWhole
  BY KVWholePublished DEF PublishedIsWhole
<1>2. QED BY <1>1, KVInvariance, PTL
==============================================================================
