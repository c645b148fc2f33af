------------------------ MODULE ReceiptObserverProofs ------------------------
(***************************************************************************)
(* What the receipt observer keeps for every room, page size and set of    *)
(* receipts: EvidenceBeforeCursor, AnswerHasEvidence, CursorOnlyAdvances   *)
(* and MarkerIsFinal of ReceiptObserver.                                   *)
(*                                                                         *)
(* The inductive invariant IInv follows the evidence through a run: what   *)
(* the directory may lose at a power loss (SyncedInv), what the writes     *)
(* still to make look like (PlanInv, OrderInv), where the receipts caught  *)
(* are (CaughtInv) and, the heart of it, CursorInv: every receipt between  *)
(* the checkpoint and a cursor is in a durable pair or ahead of that       *)
(* cursor in the writes.                                                   *)
(***************************************************************************)
EXTENDS ReceiptObserver, SequenceFacts

-----------------------------------------------------------------------------
(* The inductive invariant.                                                *)
Place == DOMAIN room
Cursors == 0..Len(room)
Dirs == [anchor : {None} \cup Cursors, progress : {None} \cup Cursors,
         blob : SUBSET Place, meta : SUBSET Place, conflict : SUBSET Place]
Entry == [file : {"cursor", "export", "conflict"}, at : Cursors]
            \cup [file : {"blob", "meta"}, at : Place]

TypeOK ==
    /\ room \in Seq(Signed \cup {Other})
    /\ floor \in Nat /\ dropped \in Nat
    /\ disk \in Dirs /\ synced \in Dirs
    /\ pc \in {"off", "read", "write", "temp", "renamed"}
    /\ cursor \in Cursors
    /\ todo \in Seq(Entry)
    /\ caught \subseteq Place
    /\ seen \subseteq Receipts(Place)

\* What is synced is in the directory, or was replaced by something later.
SyncedInv ==
    /\ synced.anchor \in {None, disk.anchor}
    /\ synced.progress # None => disk.progress # None /\ synced.progress <= disk.progress
    /\ disk.anchor # None /\ disk.progress # None => disk.anchor <= disk.progress
    /\ synced.blob \subseteq disk.blob /\ synced.meta \subseteq disk.meta
    /\ synced.conflict # {} => disk.conflict # {}
    /\ disk.anchor # None /\ synced.progress # None => disk.anchor <= synced.progress
    /\ pc # "off" => disk.anchor # None \/ disk.progress = None

Writes == {"write", "temp", "renamed"}
InTodo(file, i) == \E k \in DOMAIN todo : todo[k].file = file /\ todo[k].at = i

\* Where the writes of a run stand.
PlanInv ==
    /\ pc \notin Writes => todo = <<>> /\ caught = {}
    /\ pc \in {"temp", "renamed"} => todo # <<>> /\ Head(todo).file # "export"
    /\ pc = "temp" => ~Clashes(Head(todo))
    /\ pc = "renamed" =>
          /\ Head(todo).file = "blob" => Head(todo).at \in disk.blob
          /\ Head(todo).file = "meta" => Head(todo).at \in disk.meta
    /\ pc \in Writes /\ disk.anchor = None => pc # "renamed" /\ todo # <<>> /\ Head(todo).file = "cursor"
    /\ \A k \in DOMAIN todo : todo[k].file = "meta" =>
          \/ todo[k].at \in disk.blob
          \/ \E l \in 1..(k - 1) : todo[l] = [file |-> "blob", at |-> todo[k].at]
    /\ \A k \in DOMAIN todo : todo[k].file = "export" => k = Len(todo) /\ caught = {}

\* The saved cursor and the writes of a run against the cursor in its memory.
OrderInv ==
    /\ pc # "off" /\ disk.anchor # None => SavedCursor(disk) <= cursor
    /\ \A k \in DOMAIN todo : todo[k].file = "cursor" => todo[k].at <= cursor
    /\ \A k \in DOMAIN todo : todo[k].file = "export" => cursor <= todo[k].at

\* What a run has caught it has archived or is going to.
CaughtInv ==
    \A i \in caught : i \in disk.blob \cap disk.meta \/ InTodo("meta", i)

MarkerInv ==
    pc # "off" /\ (disk.conflict # {} \/ \E k \in DOMAIN todo : todo[k].file = "conflict")
        => Cardinality(Dispositions(caught)) > 1

Low == IF disk.anchor # None THEN disk.anchor
       ELSE IF pc \in Writes THEN Head(todo).at ELSE cursor

\* The receipt is in a durable pair, or one will be made before the write at k.
Covered(i, k) ==
    \/ ArchivedIn(synced, i)
    \/ \E l \in 1..(k - 1) : todo[l].file = "meta" /\ room[todo[l].at] = room[i]

\* Every receipt between the checkpoint and a cursor is covered: the saved one,
\* the one in memory, those still to be saved.
SavedCovered ==
    disk.anchor # None =>
        \A i \in Receipts(Place) :
            disk.anchor < i /\ i <= SavedCursor(disk) => ArchivedIn(synced, i)
MemoryCovered ==
    pc # "off" =>
        \A i \in Receipts(Place) : Low < i /\ i <= cursor => Covered(i, Len(todo) + 1)
TodoCovered ==
    \A k \in DOMAIN todo : todo[k].file = "cursor" =>
        \A i \in Receipts(Place) : Low < i /\ i <= todo[k].at => Covered(i, k)
CursorInv == ~blind => SavedCovered /\ MemoryCovered /\ TodoCovered

AnswerInv ==
    /\ pc # "off" => result = Nothing
    /\ AnswerHasEvidence

IInv == TypeOK /\ SyncedInv /\ PlanInv /\ OrderInv /\ CaughtInv /\ MarkerInv /\ CursorInv /\ AnswerInv

-----------------------------------------------------------------------------
(* What one answer of the server leads to.                                 *)

\* A set of positions shows each of its records first somewhere.
LEMMA FirstShownDef ==
    ASSUME NEW S, S \subseteq Nat, NEW i \in S
    PROVE  FirstShown(S, i) \in S /\ room[FirstShown(S, i)] = room[i]
<1> DEFINE T == {j \in S : room[j] = room[i]}
<1>1. T \subseteq Nat /\ T # {}
  OBVIOUS
<1>2. \E j \in T : \A k \in T : j <= k
  <2> HIDE DEF T
  <2> QED BY <1>1, LeastNat
<1>3. QED BY <1>2 DEF FirstShown

\* Positions of a room are a finite set of numbers.
LEMMA Positions ==
    ASSUME NEW n \in Nat, NEW S, S \subseteq 1..n
    PROVE  S \subseteq Nat /\ (\A i \in S : i <= n) /\ IsFiniteSet(S)
<1>1. S \in SUBSET (1..n) /\ IsFiniteSet(1..n)
  BY FS_Interval
<1>2. IsFiniteSet(S)
  BY <1>1, FS_Subset
<1>3. QED BY <1>2

\* Every record of a set of positions is kept at one of them.
LEMMA VerifiedCovers ==
    ASSUME NEW n \in Nat, NEW S, S \subseteq 1..n, NEW i \in Receipts(S)
    PROVE  \E j \in Verified(S) : room[j] = room[i]
<1> DEFINE T == {j \in S : room[j] = room[i]}
<1>1. T \subseteq Nat /\ \A j \in T : j <= n
  BY Positions
<1>2. T # {}
  BY DEF Receipts
<1>3. \E j \in T : \A k \in T : k <= j
  <2> HIDE DEF T
  <2> QED BY <1>1, <1>2, GreatestNat
<1>4. QED BY <1>3 DEF Verified, Receipts

\* No record is kept twice.
LEMMA VerifiedDiffer ==
    ASSUME NEW S, S \subseteq Nat, NEW i \in Verified(S), NEW j \in Verified(S),
           room[i] = room[j]
    PROVE  i = j
  BY DEF Verified, Receipts

NamesAll(s, V) == \A i \in V : \E m \in 1..Cardinality(V) : s[m] = i

\* The order of archiving names all that is kept.
LEMMA InOrderDef ==
    ASSUME NEW n \in Nat, NEW S, S \subseteq 1..n, NEW V, V = Verified(S)
    PROVE  /\ V \subseteq S /\ IsFiniteSet(V) /\ Cardinality(V) \in Nat
           /\ InOrder(S, V) \in [1..Cardinality(V) -> V]
           /\ NamesAll(InOrder(S, V), V)
<1>1. V \subseteq S
  BY DEF Verified, Receipts
<1>2. S \subseteq Nat
  BY Positions
<1>3. IsFiniteSet(V) /\ Cardinality(V) \in Nat
  BY <1>1, Positions, FS_Subset, FS_CardinalityType
<1>4. \A x \in V : FirstShown(S, x) \in S /\ room[FirstShown(S, x)] = room[x]
  BY <1>1, <1>2, FirstShownDef
<1>5. \A x, y \in V : room[x] = room[y] => x = y
  BY <1>2, VerifiedDiffer
<1>6. \E t \in [1..Cardinality(V) -> V] :
         \A l, m \in DOMAIN t : l < m => FirstShown(S, t[l]) < FirstShown(S, t[m])
  <2> DEFINE key == [i \in V |-> FirstShown(S, i)]
  <2>1. key \in [V -> Nat]
    BY <1>2, <1>4
  <2>2. \A x, y \in V : key[x] = key[y] => x = y
    BY <1>4, <1>5
  <2>3. PICK t \in [1..Cardinality(V) -> V] :
           \A l, m \in 1..Cardinality(V) : l < m => key[t[l]] < key[t[m]]
    <3> HIDE DEF key
    <3> QED BY <1>3, <2>1, <2>2, Enumeration
  <2>4. QED BY <2>3
<1>7. /\ InOrder(S, V) \in [1..Cardinality(V) -> V]
      /\ \A l, m \in DOMAIN InOrder(S, V) :
            l < m => FirstShown(S, InOrder(S, V)[l]) < FirstShown(S, InOrder(S, V)[m])
  BY <1>6 DEF InOrder
<1>8. \A l, m \in 1..Cardinality(V) : l # m => InOrder(S, V)[l] # InOrder(S, V)[m]
  <2> SUFFICES ASSUME NEW l \in 1..Cardinality(V), NEW m \in 1..Cardinality(V), l < m
               PROVE  InOrder(S, V)[l] # InOrder(S, V)[m]
    BY <1>3
  <2>1. /\ InOrder(S, V)[l] \in V /\ InOrder(S, V)[m] \in V
        /\ FirstShown(S, InOrder(S, V)[l]) < FirstShown(S, InOrder(S, V)[m])
    BY <1>7
  <2>2. FirstShown(S, InOrder(S, V)[l]) \in Nat
    BY <1>2, <1>4, <2>1
  <2>3. QED BY <2>1, <2>2
<1>9. \A i \in V : \E m \in 1..Cardinality(V) : InOrder(S, V)[m] = i
  BY <1>3, <1>7, <1>8, EnumeratesAll
<1>10. QED BY <1>1, <1>3, <1>7, <1>9 DEF NamesAll
\* The writes that archive V: every receipt's metadata follows its record.
Archives(a, V) ==
    /\ a \in Seq(Entry)
    /\ \A k \in DOMAIN a : a[k].file \in {"blob", "meta", "conflict"}
    /\ \A k \in DOMAIN a : a[k].file = "meta" =>
          \E l \in 1..(k - 1) : a[l] = [file |-> "blob", at |-> a[k].at]
    /\ \A i \in V : \E k \in DOMAIN a : a[k] = [file |-> "meta", at |-> i]

\* ArchiveAll archives every receipt it is given; it marks a conflict only when
\* there is one.
LEMMA ArchiveShape ==
    ASSUME room \in Seq(Signed \cup {Other}),
           NEW S, S \subseteq Place, NEW V, V = Verified(S)
    PROVE  /\ Archives(ArchiveAll(S, V), V)
           /\ \A k \in DOMAIN ArchiveAll(S, V) :
                 ArchiveAll(S, V)[k].file = "conflict" => Cardinality(Dispositions(V)) > 1
<1>1. Len(room) \in Nat /\ Place = 1..Len(room)
  BY LenProperties DEF Place
<1> DEFINE c == Cardinality(V)
           o == InOrder(S, V)
           b == [n \in 1..2 * c |-> [file |-> IF n % 2 = 1 THEN "blob" ELSE "meta",
                                     at |-> o[(n + 1) \div 2]]]
<1>2. V \subseteq Place /\ c \in Nat /\ o \in [1..c -> V]
      /\ \A i \in V : \E m \in 1..c : o[m] = i
  <2>1. PICK n \in Nat : S \subseteq 1..n
    BY <1>1
  <2>2. /\ V \subseteq S /\ Cardinality(V) \in Nat
        /\ InOrder(S, V) \in [1..Cardinality(V) -> V]
        /\ \A i \in V : \E m \in 1..Cardinality(V) : InOrder(S, V)[m] = i
    <3>1. V \subseteq S /\ Cardinality(V) \in Nat
      BY <2>1, InOrderDef
    <3>2. InOrder(S, V) \in [1..Cardinality(V) -> V]
      BY <2>1, InOrderDef
    <3>3. NamesAll(InOrder(S, V), V)
      BY <2>1, InOrderDef
    <3>4. QED BY <3>1, <3>2, <3>3 DEF NamesAll
  <2>3. QED BY <1>1, <2>2
<1>3. \A k \in 1..2 * c : (k + 1) \div 2 \in 1..c
  BY <1>2
<1>4. b \in Seq(Entry) /\ DOMAIN b = 1..2 * c
  <2> HIDE DEF o
  <2>1. ASSUME NEW k \in 1..2 * c
        PROVE  [file |-> IF k % 2 = 1 THEN "blob" ELSE "meta", at |-> o[(k + 1) \div 2]] \in Entry
    <3>1. o[(k + 1) \div 2] \in Place
      BY <1>2, <1>3
    <3>2. QED BY <3>1 DEF Entry
  <2> HIDE DEF c
  <2>2. QED BY <1>2, <2>1
<1>5. \A k \in DOMAIN b : b[k].file \in {"blob", "meta"}
  BY <1>4
<1>6. ASSUME NEW k \in DOMAIN b, b[k].file = "meta"
      PROVE  \E l \in 1..(k - 1) : b[l] = [file |-> "blob", at |-> b[k].at]
  <2> HIDE DEF o, c
  <2>1. k \in 1..2 * c /\ k % 2 # 1
    BY <1>4, <1>6
  <2>2. k - 1 \in 1..2 * c /\ (k - 1) % 2 = 1 /\ ((k - 1) + 1) \div 2 = (k + 1) \div 2
        /\ k - 1 \in 1..(k - 1)
    BY <1>2, <2>1
  <2>3. b[k - 1] = [file |-> "blob", at |-> o[(k + 1) \div 2]] /\ b[k].at = o[(k + 1) \div 2]
    BY <2>1, <2>2
  <2>4. QED BY <2>2, <2>3
<1>7. ASSUME NEW i \in V PROVE \E k \in DOMAIN b : b[k] = [file |-> "meta", at |-> i]
  <2>1. PICK m \in 1..c : o[m] = i
    BY <1>2
  <2> HIDE DEF o, c
  <2>2. 2 * m \in 1..2 * c /\ (2 * m) % 2 = 0 /\ (2 * m + 1) \div 2 = m
    BY <1>2
  <2>3. b[2 * m] = [file |-> "meta", at |-> i]
    BY <2>1, <2>2
  <2>4. QED BY <1>4, <2>2, <2>3
<1> DEFINE x == [file |-> "conflict", at |-> 0]
<1>8. x \in Entry
  BY <1>1 DEF Entry, Cursors
<1>9. ArchiveAll(S, V) = (IF Cardinality(Dispositions(V)) > 1 THEN <<x>> ELSE <<>>) \o b
  BY DEF ArchiveAll
<1> HIDE DEF b, x, c, o
<1>10. CASE Cardinality(Dispositions(V)) > 1
  <2>1. ArchiveAll(S, V) = <<x>> \o b
    BY <1>9, <1>10
  <2> DEFINE a == <<x>> \o b
  <2>2. /\ a \in Seq(Entry) /\ Len(b) \in Nat /\ DOMAIN b = 1..Len(b)
        /\ DOMAIN a = 1..(Len(b) + 1) /\ a[1] = x
        /\ \A k \in 1..Len(b) : a[k + 1] = b[k]
    BY <1>4, <1>8, ConsDef
  <2> HIDE DEF a
  <2>3. \A k \in DOMAIN a : k = 1 \/ (k - 1 \in DOMAIN b /\ a[k] = b[k - 1])
    <3>1. ASSUME NEW k \in DOMAIN a, k # 1
          PROVE  k - 1 \in DOMAIN b /\ a[k] = b[k - 1]
      <4>1. k - 1 \in 1..Len(b) /\ (k - 1) + 1 = k
        BY <2>2, <3>1
      <4>2. QED BY <2>2, <4>1
    <3>2. QED BY <3>1
  <2>4. \A k \in DOMAIN b : k + 1 \in DOMAIN a /\ a[k + 1] = b[k]
    BY <2>2
  <2>5. x.file = "conflict"
    BY DEF x
  <2>6. \A k \in DOMAIN a : a[k].file \in {"blob", "meta", "conflict"}
    BY <1>5, <2>2, <2>3, <2>5
  <2>7. ASSUME NEW k \in DOMAIN a, a[k].file = "meta"
        PROVE  \E l \in 1..(k - 1) : a[l] = [file |-> "blob", at |-> a[k].at]
    <3>1. k - 1 \in DOMAIN b /\ a[k] = b[k - 1] /\ k \in Nat
      BY <2>2, <2>3, <2>5, <2>7
    <3>2. PICK l \in 1..((k - 1) - 1) : b[l] = [file |-> "blob", at |-> a[k].at]
      BY <1>6, <2>7, <3>1
    <3>3. l + 1 \in 1..(k - 1) /\ l \in DOMAIN b
      BY <2>2, <3>1, <3>2
    <3>4. QED BY <2>4, <3>2, <3>3
  <2>8. ASSUME NEW i \in V PROVE \E k \in DOMAIN a : a[k] = [file |-> "meta", at |-> i]
    BY <1>7, <2>4
  <2>9. Archives(a, V)
    BY <2>2, <2>6, <2>7, <2>8 DEF Archives
  <2>10. QED BY <1>10, <2>1, <2>9 DEF a
<1>11. CASE ~(Cardinality(Dispositions(V)) > 1)
  <2>1. ArchiveAll(S, V) = b
    BY <1>4, <1>9, <1>11, ConcatEmptySeq
  <2>2. QED BY <1>4, <1>5, <1>6, <1>7, <2>1 DEF Archives
<1>12. QED BY <1>10, <1>11

-----------------------------------------------------------------------------
(* The writes of a run.                                                    *)

\* Positions and cursors are numbers.
LEMMA RoomFacts ==
    ASSUME TypeOK
    PROVE  /\ Len(room) \in Nat /\ Place = 1..Len(room) /\ Cursors = 0..Len(room)
           /\ Place \subseteq Cursors /\ Cursors \subseteq Nat
           /\ None = -1 /\ None \notin Cursors
<1>1. Len(room) \in Nat /\ Place = 1..Len(room)
  BY LenProperties DEF Place, TypeOK
<1>2. QED BY <1>1 DEF Cursors, None

\* A page ends in the room, at or after the cursor.
LEMMA PageEndDef ==
    ASSUME TypeOK, NEW c \in Nat, c <= Len(room)
    PROVE  PageEnd(c) \in Cursors /\ c <= PageEnd(c)
<1>1. PageLimit \in Nat
  BY RoomAssumption
<1>2. QED BY <1>1, RoomFacts DEF PageEnd

\* The writes t of one answer: they archive V and end with the cursor e; F holds
\* the cursor they may begin with.
Plan(t, V, e, F) ==
    /\ t \in Seq(Entry) /\ Len(t) \in Nat \ {0} /\ DOMAIN t = 1..Len(t)
    /\ t[Len(t)] = [file |-> "cursor", at |-> e]
    /\ \A k \in DOMAIN t : t[k].file # "export"
    /\ \A k \in DOMAIN t : t[k].file = "meta" =>
          \E l \in 1..(k - 1) : t[l] = [file |-> "blob", at |-> t[k].at]
    /\ \A i \in V : \E k \in 1..(Len(t) - 1) : t[k] = [file |-> "meta", at |-> i]
    /\ \A k \in DOMAIN t : t[k].file = "conflict" => Cardinality(Dispositions(V)) > 1
    /\ \A k \in DOMAIN t : t[k].file = "cursor" => k = Len(t) \/ (k = 1 /\ t[k].at \in F)

\* The writes of an answer are a plan.
LEMMA ArchivePlan ==
    ASSUME TypeOK, NEW S, S \subseteq Place, NEW V, V = Verified(S), NEW e \in Cursors
    PROVE  /\ Plan(ArchiveAll(S, V) \o Save(e), V, e, {})
           /\ V \subseteq Place
<1> DEFINE a == ArchiveAll(S, V)
           x == [file |-> "cursor", at |-> e]
           t == a \o <<x>>
<1>1. Archives(a, V) /\ \A k \in DOMAIN a : a[k].file = "conflict" => Cardinality(Dispositions(V)) > 1
  BY ArchiveShape DEF TypeOK
<1>2. x \in Entry
  BY DEF Entry
<1>3. ArchiveAll(S, V) \o Save(e) = t
  BY DEF Save
<1>4. V \subseteq Place
  BY DEF Verified, Receipts
<1>5. x.file = "cursor"
  OBVIOUS
<1> HIDE DEF a, x
<1>6. /\ t \in Seq(Entry) /\ Len(a) \in Nat /\ DOMAIN a = 1..Len(a)
      /\ Len(t) = Len(a) + 1 /\ DOMAIN t = 1..(Len(a) + 1)
      /\ t[Len(a) + 1] = x
      /\ \A k \in 1..Len(a) : t[k] = a[k]
  BY <1>1, <1>2, AppendDef DEF Archives
<1> HIDE DEF t
<1>7. \A k \in DOMAIN t : (k = Len(t) /\ t[k] = x) \/ (k \in DOMAIN a /\ t[k] = a[k])
  BY <1>6
<1>8. \A k \in DOMAIN t : t[k].file # "export"
  BY <1>1, <1>5, <1>7 DEF Archives
<1>9. ASSUME NEW k \in DOMAIN t, t[k].file = "meta"
      PROVE  \E l \in 1..(k - 1) : t[l] = [file |-> "blob", at |-> t[k].at]
  <2>1. k \in DOMAIN a /\ t[k] = a[k]
    BY <1>5, <1>7, <1>9
  <2>2. PICK l \in 1..(k - 1) : a[l] = [file |-> "blob", at |-> t[k].at]
    BY <1>1, <1>9, <2>1 DEF Archives
  <2>3. l \in 1..Len(a)
    BY <1>6, <2>1
  <2>4. QED BY <1>6, <2>2, <2>3
<1>10. ASSUME NEW i \in V PROVE \E k \in 1..(Len(t) - 1) : t[k] = [file |-> "meta", at |-> i]
  <2>1. PICK k \in DOMAIN a : a[k] = [file |-> "meta", at |-> i]
    BY <1>1 DEF Archives
  <2>2. k \in 1..(Len(t) - 1) /\ t[k] = a[k]
    BY <1>6
  <2>3. QED BY <2>1, <2>2
<1>11. \A k \in DOMAIN t : t[k].file = "conflict" => Cardinality(Dispositions(V)) > 1
  BY <1>1, <1>5, <1>7
<1>12. \A k \in DOMAIN t : t[k].file = "cursor" => k = Len(t)
  BY <1>1, <1>5, <1>7 DEF Archives
<1>13. t[Len(t)] = [file |-> "cursor", at |-> e]
  BY <1>6 DEF x
<1>14. Plan(t, V, e, {})
  BY <1>6, <1>8, <1>9, <1>10, <1>11, <1>12, <1>13 DEF Plan
<1>15. QED BY <1>3, <1>4, <1>14

\* A plan with the old cursor in front of it.
LEMMA SavedPlan ==
    ASSUME NEW c, NEW e, [file |-> "cursor", at |-> c] \in Entry, NEW V,
           NEW a, Plan(a, V, e, {})
    PROVE  LET t == <<[file |-> "cursor", at |-> c]>> \o a IN
           Plan(t, V, e, {c}) /\ t[1] = [file |-> "cursor", at |-> c] /\ Len(t) = Len(a) + 1
<1> DEFINE x == [file |-> "cursor", at |-> c]
           t == <<x>> \o a
<1>1. x.file = "cursor" /\ x.at = c
  OBVIOUS
<1>2. a \in Seq(Entry) /\ x \in Entry /\ Len(a) \in Nat \ {0}
  BY DEF Plan
<1> HIDE DEF x
<1>3. /\ t \in Seq(Entry) /\ DOMAIN a = 1..Len(a)
      /\ Len(t) = Len(a) + 1 /\ DOMAIN t = 1..(Len(a) + 1) /\ t[1] = x
      /\ \A k \in 1..Len(a) : t[k + 1] = a[k]
  BY <1>1, <1>2, ConsDef
<1> HIDE DEF t
<1>4. ASSUME NEW k \in DOMAIN t, k # 1 PROVE k - 1 \in DOMAIN a /\ t[k] = a[k - 1]
  <2>1. k - 1 \in 1..Len(a) /\ (k - 1) + 1 = k
    BY <1>2, <1>3, <1>4
  <2>2. QED BY <1>3, <2>1
<1>5. \A k \in DOMAIN t : t[k].file # "export"
  BY <1>1, <1>3, <1>4 DEF Plan
<1>6. ASSUME NEW k \in DOMAIN t, t[k].file = "meta"
      PROVE  \E l \in 1..(k - 1) : t[l] = [file |-> "blob", at |-> t[k].at]
  <2>1. k # 1
    BY <1>1, <1>3, <1>6
  <2>2. k - 1 \in DOMAIN a /\ t[k] = a[k - 1] /\ k \in Nat
    BY <1>3, <1>4, <2>1
  <2>3. PICK l \in 1..((k - 1) - 1) : a[l] = [file |-> "blob", at |-> t[k].at]
    BY <1>6, <2>2 DEF Plan
  <2>4. l + 1 \in 1..(k - 1) /\ l \in 1..Len(a)
    BY <1>3, <2>2
  <2>5. QED BY <1>3, <2>3, <2>4
<1>7. ASSUME NEW i \in V PROVE \E k \in 1..(Len(t) - 1) : t[k] = [file |-> "meta", at |-> i]
  <2>1. PICK k \in 1..(Len(a) - 1) : a[k] = [file |-> "meta", at |-> i]
    BY DEF Plan
  <2>2. k + 1 \in 1..(Len(t) - 1) /\ t[k + 1] = a[k]
    BY <1>2, <1>3
  <2>3. QED BY <2>1, <2>2
<1>8. \A k \in DOMAIN t : t[k].file = "conflict" => Cardinality(Dispositions(V)) > 1
  BY <1>1, <1>3, <1>4 DEF Plan
<1>9. ASSUME NEW k \in DOMAIN t, t[k].file = "cursor"
      PROVE  k = Len(t) \/ (k = 1 /\ t[k].at \in {c})
  <2>1. CASE k = 1
    BY <1>1, <1>3, <2>1
  <2>2. CASE k # 1
    <3>1. k - 1 \in DOMAIN a /\ a[k - 1].file = "cursor"
      BY <1>4, <1>9, <2>2
    <3>2. k - 1 = Len(a)
      BY <3>1 DEF Plan
    <3>3. QED BY <1>2, <1>3, <3>1, <3>2
  <2>3. QED BY <2>1, <2>2
<1>10. t[Len(t)] = [file |-> "cursor", at |-> e]
  <2>1. Len(a) \in 1..Len(a) /\ a[Len(a)] = [file |-> "cursor", at |-> e]
    BY <1>2 DEF Plan
  <2>2. QED BY <1>3, <2>1
<1>11. Plan(t, V, e, {c})
  <2>1. Len(t) \in Nat \ {0} /\ DOMAIN t = 1..Len(t)
    BY <1>2, <1>3
  <2>2. QED BY <1>3, <1>5, <1>6, <1>7, <1>8, <1>9, <1>10, <2>1, Zenon DEF Plan
<1>12. QED BY <1>3, <1>11 DEF x, t

\* What a page leads to.
LEMMA PageWrites ==
    ASSUME TypeOK, Page
    PROVE  LET S == (cursor + 1)..PageEnd(cursor) IN
           /\ S \subseteq Place /\ caught' = Verified(S) /\ seen' = seen \cup Receipts(S)
           /\ cursor' = PageEnd(cursor) /\ cursor' \in Cursors /\ cursor <= cursor'
           /\ Plan(todo', caught', cursor', {cursor}) /\ caught' \subseteq Place
           /\ todo'[1] = [file |-> "cursor", at |-> cursor] /\ Len(todo') > 1
<1> DEFINE S == (cursor + 1)..PageEnd(cursor)
           V == Verified(S)
           e == PageEnd(cursor)
           A == ArchiveAll(S, V)
           x == [file |-> "cursor", at |-> cursor]
<1>1. e \in Cursors /\ cursor <= e /\ cursor \in Nat
  BY RoomFacts, PageEndDef DEF TypeOK
<1>2. S \subseteq Place
  BY <1>1, RoomFacts
<1>3. /\ caught' = V /\ seen' = seen \cup Receipts(S) /\ cursor' = e
      /\ todo' = (Save(cursor) \o A) \o Save(e)
  BY DEF Page
<1>4. Plan(A \o Save(e), V, e, {}) /\ V \subseteq Place
  BY <1>1, <1>2, ArchivePlan
<1>5. x \in Entry
  BY DEF TypeOK, Entry
<1>6. todo' = <<x>> \o (A \o Save(e))
  <2>1. Save(cursor) = <<x>> /\ <<x>> \in Seq(Entry)
    BY <1>5 DEF Save
  <2>2. A \in Seq(Entry)
    BY <1>2, ArchiveShape DEF Archives, TypeOK
  <2>3. Save(e) \in Seq(Entry)
    BY <1>1 DEF Save, Entry
  <2> HIDE DEF x, A, S, V, e
  <2>4. QED BY <1>3, <2>1, <2>2, <2>3, ConcatAssociative
<1> HIDE DEF A, V
<1>7. Plan(todo', V, e, {cursor}) /\ todo'[1] = x /\ Len(todo') = Len(A \o Save(e)) + 1
  <2> DEFINE a == A \o Save(e)
  <2>1. Plan(a, V, e, {}) /\ todo' = <<x>> \o a
    BY <1>4, <1>6
  <2> HIDE DEF a, e
  <2>2. QED BY <1>5, <2>1, SavedPlan DEF a
<1>8. Len(A \o Save(e)) \in Nat \ {0}
  BY <1>4 DEF Plan
<1>9. QED BY <1>1, <1>2, <1>3, <1>4, <1>7, <1>8 DEF V

\* What an export with a receipt in it leads to.
ExportHandled ==
    LET S == (dropped + 1)..Len(room) IN
    /\ S \subseteq Place /\ caught' = Verified(S) /\ seen' = seen \cup Receipts(S)
    /\ cursor' = Head(todo).at /\ cursor' \in Cursors
    /\ Plan(todo', caught', cursor', {}) /\ caught' \subseteq Place
    /\ blind' = (blind \/ cursor < dropped)
    /\ pc' = pc /\ result' = result /\ told' = told

\* An export without a receipt ends the run, one with a receipt is handled.
LEMMA ExportWrites ==
    ASSUME TypeOK, Export
    PROVE  \/ /\ End("CURSOR_GAP_UNRESOLVED") /\ blind' = blind /\ seen' = seen
           \/ ExportHandled
<1> DEFINE S == (dropped + 1)..Len(room)
           V == Verified(S)
           e == Head(todo).at
<1>1. S \subseteq Place
  BY RoomFacts DEF TypeOK
<1>2. e \in Cursors
  <2>1. Head(todo) \in Entry
    BY TailDef DEF TypeOK, Export
  <2>2. Place \subseteq Cursors
    BY RoomFacts
  <2>3. QED BY <2>1, <2>2 DEF Entry
<1>3. Plan(ArchiveAll(S, V) \o Save(e), V, e, {}) /\ V \subseteq Place
  BY <1>1, <1>2, ArchivePlan
<1>4. CASE Receipts(S) = {}
  BY <1>4 DEF Export
<1>5. CASE Receipts(S) # {}
  BY <1>1, <1>2, <1>3, <1>5 DEF Export, ExportHandled
<1>6. QED BY <1>4, <1>5

\* The directory after a write.
LEMMA PutDef ==
    ASSUME TypeOK, Rename, todo # <<>>
    PROVE  LET e == Head(todo) IN
           /\ e \in Entry /\ disk' \in Dirs /\ synced' = synced
           /\ disk.blob \subseteq disk'.blob /\ disk.meta \subseteq disk'.meta
           /\ e.file = "blob" => e.at \in disk'.blob
           /\ e.file = "meta" => e.at \in disk'.meta
           /\ IF e.file = "conflict" THEN disk'.conflict = caught
              ELSE disk'.conflict = disk.conflict
           /\ e.file \in {"blob", "meta", "conflict"} =>
                 disk'.anchor = disk.anchor /\ disk'.progress = disk.progress
           /\ e.file \in {"cursor", "export"} =>
                 \/ /\ disk.anchor = None /\ e.file = "cursor"
                    /\ disk'.anchor = e.at /\ disk'.progress = disk.progress
                 \/ /\ disk.anchor # None \/ e.file = "export"
                    /\ disk'.anchor = disk.anchor /\ disk'.progress = e.at
<1> DEFINE e == Head(todo)
<1>1. e \in Entry
  BY TailDef DEF TypeOK
<1>2. disk' = Put(disk, e) /\ synced' = synced
  BY DEF Rename
<1>3. disk \in Dirs /\ caught \subseteq Place /\ Place \subseteq Cursors
  BY RoomFacts DEF TypeOK
<1> HIDE DEF e
<1>4. CASE e.file = "blob"
  <2>1. e.at \in Place
    BY <1>1, <1>4 DEF Entry
  <2>2. disk' = [disk EXCEPT !.blob = @ \cup {e.at}]
    BY <1>2, <1>4 DEF Put
  <2>3. QED BY <1>1, <1>2, <1>3, <1>4, <2>1, <2>2 DEF Dirs, e
<1>5. CASE e.file = "meta"
  <2>1. e.at \in Place
    BY <1>1, <1>5 DEF Entry
  <2>2. disk' = [disk EXCEPT !.meta = @ \cup {e.at}]
    BY <1>2, <1>5 DEF Put
  <2>3. QED BY <1>1, <1>2, <1>3, <1>5, <2>1, <2>2 DEF Dirs, e
<1>6. CASE e.file = "conflict"
  <2>1. disk' = [disk EXCEPT !.conflict = caught]
    BY <1>2, <1>6 DEF Put
  <2>2. QED BY <1>1, <1>2, <1>3, <1>6, <2>1 DEF Dirs, e
<1>7. CASE e.file = "cursor" /\ disk.anchor = None
  <2>1. disk' = [disk EXCEPT !.anchor = e.at] /\ e.at \in Cursors
    BY <1>1, <1>2, <1>7 DEF Put, Entry
  <2>2. QED BY <1>1, <1>2, <1>3, <1>7, <2>1 DEF Dirs, e
<1>8. CASE e.file = "export" \/ (e.file = "cursor" /\ disk.anchor # None)
  <2>1. disk' = [disk EXCEPT !.progress = e.at] /\ e.at \in Cursors
    BY <1>1, <1>2, <1>8 DEF Put, Entry
  <2>2. QED BY <1>1, <1>2, <1>3, <1>8, <2>1 DEF Dirs, e
<1>9. QED BY <1>1, <1>4, <1>5, <1>6, <1>7, <1>8 DEF Entry

\* The room only grows: what was at a position stays there.
LEMMA PostFacts ==
    ASSUME TypeOK, NEW m, Post(m), m \in Signed \cup {Other}
    PROVE  /\ room' \in Seq(Signed \cup {Other}) /\ Len(room') = Len(room) + 1
           /\ Place \subseteq Place' /\ Cursors \subseteq Cursors'
           /\ \A i \in Place : room'[i] = room[i]
           /\ Entry \subseteq Entry' /\ Dirs \subseteq Dirs'
<1>1. Len(room) \in Nat /\ DOMAIN room = 1..Len(room) /\ room' = Append(room, m)
      /\ room \in Seq(Signed \cup {Other})
  BY RoomFacts DEF TypeOK, Place, Post
<1>2. /\ room' \in Seq(Signed \cup {Other}) /\ Len(room') = Len(room) + 1
      /\ \A i \in 1..Len(room) : room'[i] = room[i]
  BY <1>1, AppendProperties
<1>3. DOMAIN room' = 1..(Len(room) + 1)
  BY <1>2, LenProperties
<1>4. Place \subseteq Place' /\ Cursors \subseteq Cursors'
  BY <1>1, <1>2, <1>3 DEF Place, Cursors
<1>5. Entry \subseteq Entry' /\ Dirs \subseteq Dirs'
  BY <1>4 DEF Entry, Dirs
<1>6. QED BY <1>1, <1>2, <1>4, <1>5 DEF Place

\* What a power loss leaves of the directory.
LEMMA PowerLossDef ==
    ASSUME TypeOK, SyncedInv, PowerLoss
    PROVE  /\ disk' \in Dirs /\ synced' = disk'
           /\ disk'.anchor \in {disk.anchor, synced.anchor}
           /\ disk'.progress \in {disk.progress, synced.progress}
           /\ synced.blob \subseteq disk'.blob /\ synced.meta \subseteq disk'.meta
           /\ disk'.conflict \in {disk.conflict, synced.conflict}
           /\ End(Nothing) /\ room' = room /\ floor' = floor /\ dropped' = dropped
           /\ seen' = seen /\ blind' = blind
<1>1. PICK anchor \in {disk.anchor, synced.anchor},
          progress \in {disk.progress, synced.progress},
          blob \in Between(synced.blob, disk.blob),
          meta \in Between(synced.meta, disk.meta),
          conflict \in {disk.conflict, synced.conflict} :
             disk' = [anchor |-> anchor, progress |-> progress, blob |-> blob,
                      meta |-> meta, conflict |-> conflict]
  BY DEF PowerLoss
<1>2. synced.blob \subseteq blob /\ blob \subseteq synced.blob \cup disk.blob
      /\ synced.meta \subseteq meta /\ meta \subseteq synced.meta \cup disk.meta
  BY DEF Between
<1>3. disk \in Dirs /\ synced \in Dirs
  BY DEF TypeOK
<1>4. disk' \in Dirs
  BY <1>1, <1>2, <1>3 DEF Dirs
<1>5. QED BY <1>1, <1>2, <1>4 DEF PowerLoss, server

-----------------------------------------------------------------------------
(* The invariant.                                                          *)

\* No receipt has no disposition.
LEMMA NoDisposition == Cardinality(Dispositions({})) = 0
<1>1. Dispositions({}) = {}
  BY DEF Dispositions
<1>2. QED BY <1>1, FS_EmptySet

\* The invariant holds at the start.
LEMMA InitIInv == Init => IInv
<1> SUFFICES ASSUME Init PROVE IInv
  OBVIOUS
<1>1. room = <<>> /\ Len(room) = 0 /\ Place = {} /\ Cursors = {0}
  BY DEF Init, Place, Cursors
<1>2. TypeOK
  <2>1. disk \in Dirs /\ synced \in Dirs
    BY <1>1 DEF Init, Dirs
  <2>2. todo \in Seq(Entry) /\ room \in Seq(Signed \cup {Other})
    BY DEF Init
  <2>3. QED BY <1>1, <2>1, <2>2 DEF Init, TypeOK
<1>3. todo = <<>> /\ DOMAIN todo = {} /\ caught = {} /\ pc = "off" /\ disk.anchor = None
      /\ disk.progress = None /\ disk.conflict = {} /\ synced = disk
  BY DEF Init
<1>4. SyncedInv
  BY <1>3 DEF SyncedInv, None
<1>5. PlanInv /\ OrderInv /\ CaughtInv /\ MarkerInv
  BY <1>3 DEF PlanInv, OrderInv, CaughtInv, MarkerInv, Writes
<1>6. CursorInv
  BY <1>3 DEF CursorInv, SavedCovered, MemoryCovered, TodoCovered
<1>7. AnswerInv
  BY DEF Init, AnswerInv, AnswerHasEvidence, Nothing
<1>8. QED BY <1>2, <1>4, <1>5, <1>6, <1>7 DEF IInv

\* The actions that end a run and leave the directory alone.
Ending ==
    /\ \E r \in {"REFUSED", "UNCONFIRMED", "EVIDENCE_WRITE_FAILED", "EVIDENCE_CONFLICT",
                 "READ_CHECKPOINT_FAILURE", "CURSOR_GAP_UNRESOLVED", Nothing} : End(r)
    /\ UNCHANGED <<server, disk, synced, seen, blind>>

\* The actions that refuse, fail or end a run are endings.
LEMMA EndingDef ==
    ASSUME TypeOK,
           StartRefused \/ WriteRefused \/ WriteFails \/ EndRun \/ Crash
             \/ (Export /\ End("CURSOR_GAP_UNRESOLVED") /\ blind' = blind /\ seen' = seen)
    PROVE  Ending
<1>1. CASE WriteRefused
  BY <1>1 DEF WriteRefused, Ending
<1>2. CASE StartRefused \/ WriteFails \/ EndRun \/ Crash
  BY <1>2 DEF StartRefused, WriteFails, EndRun, Crash, Ending
<1>3. CASE Export /\ End("CURSOR_GAP_UNRESOLVED") /\ blind' = blind /\ seen' = seen
  BY <1>3 DEF Export, Ending
<1>4. QED BY <1>1, <1>2, <1>3

\* The steps of the specification, by what they do to the directory and the run.
LEMMA StepCases ==
    ASSUME IInv, [Next]_vars
    PROVE  \/ Ending \/ StartSaved \/ Start \/ Page \/ PageWithGap
           \/ (Export /\ ExportHandled)
           \/ SkipWrite \/ CreateTemp \/ Rename \/ SyncDirectory \/ Handled
           \/ PowerLoss \/ (\E m \in Signed \cup {Other} : Post(m)) \/ Drop
           \/ vars' = vars
<1>1. CASE Export
  BY <1>1, ExportWrites, EndingDef DEF IInv
<1>2. CASE StartRefused \/ WriteRefused \/ WriteFails \/ EndRun \/ Crash
  BY <1>2, EndingDef DEF IInv
<1>3. QED BY <1>1, <1>2 DEF Next, Observer

\* What every step but a post leaves of the room.
LEMMA SameRoom ==
    ASSUME room' = room
    PROVE  /\ Place' = Place /\ Cursors' = Cursors /\ Entry' = Entry /\ Dirs' = Dirs
           /\ \A S : Receipts(S)' = Receipts(S)
           /\ \A S : Dispositions(S)' = Dispositions(S)
<1>1. Place' = Place /\ Cursors' = Cursors
  BY DEF Place, Cursors
<1>2. QED BY <1>1 DEF Entry, Dirs, Receipts, Dispositions, Disposition

\* Every step keeps the types.
LEMMA TypeStep ==
    ASSUME IInv, [Next]_vars
    PROVE  TypeOK'
<1> USE DEF IInv
<1>1. CASE Ending
  <2>1. room' = room /\ 0 \in Cursors /\ <<>> \in Seq(Entry)
    BY <1>1, RoomFacts DEF Ending, server
  <2>2. QED BY <1>1, <2>1, SameRoom DEF Ending, End, server, TypeOK
<1>2. CASE StartSaved
  <2>1. room' = room /\ 0 \in Cursors /\ <<>> \in Seq(Entry)
    BY <1>2, RoomFacts DEF StartSaved, server
  <2>2. QED BY <1>2, <2>1, SameRoom DEF StartSaved, End, server, TypeOK
<1>3. CASE Start
  <2>1. room' = room /\ Len(room) \in Cursors
    BY <1>3, RoomFacts DEF Start, server
  <2>2. cursor' \in Cursors
    BY <1>3, <2>1 DEF Start, SavedCursor, TypeOK, Dirs
  <2>3. QED BY <1>3, <2>1, <2>2, SameRoom DEF Start, server, TypeOK
<1>4. CASE Page
  <2>1. room' = room
    BY <1>4 DEF Page, server
  <2>2. /\ cursor' \in Cursors /\ caught' \subseteq Place /\ todo' \in Seq(Entry)
        /\ \E S \in SUBSET Place : seen' = seen \cup Receipts(S)
    BY <1>4, PageWrites DEF Plan
  <2>3. seen' \subseteq Receipts(Place)
    BY <2>2 DEF TypeOK, Receipts
  <2>4. QED BY <1>4, <2>1, <2>2, <2>3, SameRoom DEF Page, server, TypeOK
<1>5. CASE PageWithGap
  <2>1. room' = room /\ PageEnd(floor) \in Cursors
    BY <1>5, PageEndDef, RoomFacts DEF PageWithGap, server, TypeOK
  <2>2. todo' \in Seq(Entry)
    <3>1. [file |-> "cursor", at |-> cursor] \in Entry
          /\ [file |-> "export", at |-> PageEnd(floor)] \in Entry
      BY <2>1 DEF TypeOK, Entry
    <3>2. QED BY <1>5, <3>1 DEF PageWithGap, Save
  <2>3. QED BY <1>5, <2>1, <2>2, SameRoom DEF PageWithGap, server, TypeOK
<1>6. CASE Export /\ ExportHandled
  <2>1. room' = room
    BY <1>6 DEF Export, server
  <2>2. /\ cursor' \in Cursors /\ caught' \subseteq Place /\ todo' \in Seq(Entry)
        /\ \E S \in SUBSET Place : seen' = seen \cup Receipts(S)
    BY <1>6 DEF ExportHandled, Plan
  <2>3. seen' \subseteq Receipts(Place)
    BY <2>2 DEF TypeOK, Receipts
  <2>4. QED BY <1>6, <2>1, <2>2, <2>3, SameRoom DEF Export, ExportHandled, server, TypeOK
<1>7. CASE SkipWrite
  <2>1. Tail(todo) \in Seq(Entry) /\ room' = room
    BY <1>7, TailDef DEF TypeOK, SkipWrite, Writing, server
  <2>2. QED BY <1>7, <2>1, SameRoom DEF SkipWrite, server, TypeOK
<1>8. CASE CreateTemp
  BY <1>8, SameRoom DEF CreateTemp, server, TypeOK
<1>9. CASE Rename
  <2>1. todo # <<>> /\ room' = room
    BY <1>9 DEF PlanInv, Rename, server
  <2>2. disk' \in Dirs
    BY <1>9, <2>1, PutDef
  <2>3. QED BY <1>9, <2>1, <2>2, SameRoom DEF Rename, server, TypeOK
<1>10. CASE SyncDirectory
  <2>1. todo # <<>> /\ room' = room
    BY <1>10 DEF PlanInv, SyncDirectory, server
  <2>2. Tail(todo) \in Seq(Entry)
    BY <2>1, TailDef DEF TypeOK
  <2>3. QED BY <1>10, <2>1, <2>2, SameRoom DEF SyncDirectory, server, TypeOK
<1>11. CASE Handled
  <2>1. room' = room /\ 0 \in Cursors /\ <<>> \in Seq(Entry)
    BY <1>11, RoomFacts DEF Handled, server
  <2>2. QED BY <1>11, <2>1, SameRoom DEF Handled, End, server, TypeOK
<1>12. CASE PowerLoss
  <2>1. room' = room /\ 0 \in Cursors /\ <<>> \in Seq(Entry)
    BY <1>12, RoomFacts, PowerLossDef
  <2>2. QED BY <1>12, <2>1, PowerLossDef, SameRoom DEF End, TypeOK
<1>13. CASE \E m \in Signed \cup {Other} : Post(m)
  <2>1. PICK m \in Signed \cup {Other} : Post(m)
    BY <1>13
  <2>2. /\ room' \in Seq(Signed \cup {Other}) /\ Place \subseteq Place'
        /\ Cursors \subseteq Cursors' /\ Entry \subseteq Entry' /\ Dirs \subseteq Dirs'
        /\ \A i \in Place : room'[i] = room[i]
    BY <2>1, PostFacts
  <2>3. todo \in Seq(Entry')
    BY <2>2 DEF TypeOK
  <2>4. Receipts(Place) \subseteq Receipts(Place)'
    BY <2>2 DEF Receipts
  <2>5. QED BY <2>1, <2>2, <2>3, <2>4 DEF Post, TypeOK
<1>14. CASE Drop
  <2>1. room' = room
    BY <1>14 DEF Drop
  <2>2. QED BY <1>14, <2>1, SameRoom DEF Drop, TypeOK
<1>15. CASE vars' = vars
  BY <1>15, SameRoom DEF vars, TypeOK
<1>16. QED
  BY <1>1, <1>2, <1>3, <1>4, <1>5, <1>6, <1>7, <1>8, <1>9, <1>10, <1>11, <1>12, <1>13,
     <1>14, <1>15, StepCases

\* The cursors of a directory are numbers or None.
LEMMA Marks ==
    ASSUME TypeOK
    PROVE  /\ disk.anchor = None \/ disk.anchor \in Nat
           /\ disk.progress = None \/ disk.progress \in Nat
           /\ synced.anchor = None \/ synced.anchor \in Nat
           /\ synced.progress = None \/ synced.progress \in Nat
           /\ cursor \in Nat /\ None = -1
<1>1. disk \in Dirs /\ synced \in Dirs /\ cursor \in Cursors
  BY DEF TypeOK
<1>2. QED BY <1>1, RoomFacts DEF Dirs

\* Every step keeps the durable directory behind the visible one.
LEMMA SyncedStep ==
    ASSUME IInv, [Next]_vars
    PROVE  SyncedInv'
<1> USE DEF IInv
<1>0. Cursors \subseteq Nat
  BY RoomFacts
<1>1. CASE Ending \/ StartSaved \/ Page \/ PageWithGap \/ (Export /\ ExportHandled)
             \/ SkipWrite \/ CreateTemp \/ Handled \/ Drop
             \/ (\E m \in Signed \cup {Other} : Post(m)) \/ vars' = vars
  <2>1. disk' = disk /\ synced' = synced
    BY <1>1 DEF Ending, StartSaved, Page, PageWithGap, Export, SkipWrite, CreateTemp, Handled, Drop,
       Post, vars, server
  <2>2. pc' = "off" \/ pc # "off"
    BY <1>1 DEF Ending, StartSaved, End, Page, PageWithGap, Export, SkipWrite, Writing,
       CreateTemp, Handled, Drop, Post, vars, server
  <2>3. QED BY <2>1, <2>2 DEF SyncedInv
<1>2. CASE Start
  BY <1>2 DEF Start, Refused, SyncedInv
<1>3. CASE Rename
  <2>1. todo # <<>> /\ pc # "off" /\ ~Clashes(Head(todo)) /\ Head(todo).file # "export"
    BY <1>3 DEF PlanInv, Rename
  <2>2. CASE Head(todo).file = "conflict"
    <3>1. caught # {}
      <4>1. Cardinality(Dispositions(caught)) > 1
        BY <2>1, <2>2, TailDef DEF MarkerInv, TypeOK
      <4>2. QED BY <4>1, NoDisposition
    <3>2. QED BY <1>3, <2>1, <2>2, <3>1, PutDef DEF SyncedInv
  <2>3. CASE Head(todo).file \in {"blob", "meta"}
    BY <1>3, <2>1, <2>3, PutDef DEF SyncedInv
  <2>4. CASE Head(todo).file = "cursor"
    <3>1. Head(todo).at \in Cursors
      BY <1>3, <2>1, <2>4, PutDef DEF Entry
    <3>2. CASE disk.anchor = None
      BY <1>0, <1>3, <2>1, <2>4, <3>1, <3>2, PutDef DEF SyncedInv
    <3>3. CASE disk.anchor # None
      <4>0. Head(todo).at \in Nat
        BY <1>0, <3>1
      <4>1. ~(Head(todo).at < SavedCursor(disk))
        BY <2>1, <2>4, <3>3 DEF Clashes
      <4>2. /\ disk'.anchor = disk.anchor /\ disk'.progress = Head(todo).at
            /\ synced' = synced /\ disk.blob \subseteq disk'.blob /\ disk.meta \subseteq disk'.meta
            /\ disk'.conflict = disk.conflict
        BY <1>3, <2>1, <2>4, <3>3, PutDef
      <4>3. disk.progress # None => disk.progress <= Head(todo).at
        BY <4>0, <4>1, Marks DEF SavedCursor
      <4>4. disk.anchor <= Head(todo).at
        BY <3>3, <4>0, <4>1, Marks DEF SyncedInv, SavedCursor
      <4>5. Head(todo).at # None
        BY <4>0, Marks
      <4>6. QED BY <3>3, <4>0, <4>2, <4>3, <4>4, <4>5, Marks DEF SyncedInv
    <3>4. QED BY <3>2, <3>3
  <2>5. QED BY <1>3, <2>1, <2>2, <2>3, <2>4, PutDef DEF Entry
<1>4. CASE SyncDirectory
  BY <1>4, Marks DEF SyncDirectory, SyncedInv
<1>5. CASE PowerLoss
  <2>1. pc' = "off"
    BY <1>5 DEF PowerLoss, End
  <2>2. QED BY <1>5, <2>1, PowerLossDef, Marks DEF SyncedInv
<1>6. QED BY <1>1, <1>2, <1>3, <1>4, <1>5, StepCases

\* The first write is the last one when it is an export.
LEMMA WritingFacts ==
    ASSUME TypeOK, PlanInv, todo # <<>>
    PROVE  /\ Head(todo) = todo[1] /\ 1 \in DOMAIN todo /\ DOMAIN todo = 1..Len(todo)
           /\ todo[1] \in Entry /\ Len(todo) \in Nat \ {0}
           /\ Tail(todo) \in Seq(Entry) /\ Len(Tail(todo)) = Len(todo) - 1
           /\ DOMAIN Tail(todo) = 1..(Len(todo) - 1)
           /\ \A k \in DOMAIN Tail(todo) : k + 1 \in DOMAIN todo /\ Tail(todo)[k] = todo[k + 1]
  BY TailDef DEF TypeOK

\* What SkipWrite and SyncDirectory have in common: the head is done with.
Advance ==
    /\ todo # <<>> /\ todo' = Tail(todo) /\ pc' = "write"
    /\ room' = room /\ disk' = disk /\ cursor' = cursor /\ caught' = caught
    /\ result' = result /\ told' = told /\ seen' = seen /\ blind' = blind
    /\ synced' \in {synced, disk}
    /\ Head(todo).file = "blob" => Head(todo).at \in disk.blob
    /\ Head(todo).file = "meta" => synced' = disk /\ Head(todo).at \in disk.blob \cap disk.meta
    /\ Head(todo).file \in {"blob", "meta", "conflict", "cursor"}
    /\ disk.anchor # None

\* A write that is skipped and one that is synced both advance the plan.
LEMMA AdvanceDef ==
    ASSUME IInv, SkipWrite \/ SyncDirectory
    PROVE  Advance
<1> USE DEF IInv
<1>1. CASE SkipWrite
  <2>1. Writing /\ todo # <<>> /\ AlreadyThere(Head(todo)) /\ pc = "write"
    BY <1>1 DEF SkipWrite, Writing
  <2>2. disk.anchor # None
    BY <2>1 DEF PlanInv, AlreadyThere, Writes
  <2>3. QED BY <1>1, <2>1, <2>2 DEF SkipWrite, AlreadyThere, Advance, server
<1>2. CASE SyncDirectory
  <2>1. pc = "renamed" /\ todo # <<>> /\ Head(todo).file # "export" /\ disk.anchor # None
    BY <1>2 DEF SyncDirectory, PlanInv, Writes
  <2>2. Head(todo).file \in {"blob", "meta", "conflict", "cursor"}
    BY <2>1, WritingFacts DEF Entry
  <2>3. Head(todo).file = "meta" => Head(todo).at \in disk.blob
    <3>1. \A l \in 1..(1 - 1) : FALSE
      OBVIOUS
    <3>2. QED BY <2>1, <3>1, WritingFacts DEF PlanInv
  <2>4. QED BY <1>2, <2>1, <2>2, <2>3 DEF SyncDirectory, Advance, PlanInv, server
<1>3. QED BY <1>1, <1>2

\* The rename: only the directory and the program counter move.
LEMMA RenameDef ==
    ASSUME IInv, Rename
    PROVE  /\ pc = "temp" /\ pc' = "renamed" /\ todo # <<>> /\ Head(todo).file # "export"
           /\ ~Clashes(Head(todo)) /\ room' = room /\ synced' = synced /\ cursor' = cursor
           /\ todo' = todo /\ caught' = caught /\ result' = result /\ told' = told
           /\ seen' = seen /\ blind' = blind
           /\ disk'.anchor # None
  <1>1. /\ pc = "temp" /\ todo # <<>> /\ Head(todo).file # "export" /\ ~Clashes(Head(todo))
        /\ disk.anchor = None => Head(todo).file = "cursor"
    BY DEF Rename, IInv, PlanInv, Writes
  <1>2. Head(todo) \in Entry /\ Cursors \subseteq Nat /\ None \notin Cursors
    BY <1>1, WritingFacts, RoomFacts DEF IInv
  <1>3. disk'.anchor # None
    <2>1. Head(todo).file = "cursor" => Head(todo).at \in Cursors
      BY <1>2 DEF Entry
    <2>2. QED BY <1>1, <1>2, <2>1, PutDef DEF Entry, IInv
  <1>4. QED BY <1>1, <1>3 DEF Rename, server

\* The writes of a page with a gap.
LEMMA GapWrites ==
    ASSUME TypeOK, PageWithGap
    PROVE  /\ todo' \in Seq(Entry) /\ Len(todo') = 2 /\ DOMAIN todo' = {1, 2}
           /\ todo'[1] = [file |-> "cursor", at |-> cursor]
           /\ todo'[2] = [file |-> "export", at |-> PageEnd(floor)]
           /\ todo' # <<>> /\ Head(todo') = todo'[1]
<1> DEFINE x == [file |-> "cursor", at |-> cursor]
           y == [file |-> "export", at |-> PageEnd(floor)]
           a == <<x>>
<1>1. PageEnd(floor) \in Cursors
  BY PageEndDef, RoomFacts DEF PageWithGap, TypeOK
<1>2. x \in Entry /\ y \in Entry
  BY <1>1 DEF TypeOK, Entry
<1>3. todo' = a \o <<y>>
  BY DEF PageWithGap, Save
<1> HIDE DEF x, y
<1>4. a \in Seq(Entry) /\ Len(a) = 1 /\ a[1] = x
  BY <1>2
<1> DEFINE t == a \o <<y>>
<1> HIDE DEF a
<1>5. t \in Seq(Entry) /\ Len(t) = 2 /\ DOMAIN t = 1..2 /\ t[2] = y /\ t[1] = a[1]
  <2>1. /\ t \in Seq(Entry) /\ Len(t) = Len(a) + 1 /\ DOMAIN t = 1..(Len(a) + 1)
        /\ t[Len(a) + 1] = y /\ \A k \in 1..Len(a) : t[k] = a[k]
    <3>1. a \in Seq(Entry) /\ y \in Entry
      BY <1>2, <1>4
    <3>2. QED BY <3>1, AppendDef
  <2> HIDE DEF t
  <2>2. QED BY <1>4, <2>1
<1>6. t # <<>> /\ Head(t) = t[1]
  <2> HIDE DEF t
  <2>1. t # <<>>
    BY <1>5
  <2>2. QED BY <1>5, <2>1, TailDef
<1>7. QED BY <1>3, <1>4, <1>5, <1>6 DEF x, y

\* Every step keeps the plan in shape: metadata after records, an export last.
LEMMA PlanStep ==
    ASSUME IInv, [Next]_vars
    PROVE  PlanInv'
<1> USE DEF IInv
<1>1. CASE Ending \/ StartSaved \/ PowerLoss
  <2>1. pc' = "off" /\ todo' = <<>> /\ caught' = {} /\ DOMAIN todo' = {}
    BY <1>1, PowerLossDef DEF Ending, StartSaved, End
  <2>2. QED BY <2>1 DEF PlanInv, Writes
<1>2. CASE Start
  <2>1. pc' = "read" /\ todo' = <<>> /\ caught' = {} /\ DOMAIN todo' = {}
    BY <1>2 DEF Start, PlanInv, Writes
  <2>2. QED BY <2>1 DEF PlanInv, Writes
<1>3. CASE Page
  <2>1. /\ Plan(todo', caught', cursor', {cursor}) /\ pc' = "write"
        /\ todo'[1] = [file |-> "cursor", at |-> cursor]
    BY <1>3, PageWrites DEF Page
  <2>2. todo' # <<>> /\ Head(todo') = todo'[1]
    BY <2>1, TailDef DEF Plan
  <2>3. QED BY <2>1, <2>2 DEF PlanInv, Writes, Plan
<1>4. CASE PageWithGap
  <2>1. pc' = "write" /\ disk' = disk /\ caught' = {}
    BY <1>4 DEF PageWithGap, PlanInv, Writes
  <2>2. DOMAIN todo' = {1, 2} /\ Len(todo') = 2 /\ todo' # <<>> /\ Head(todo').file = "cursor"
        /\ todo'[1].file = "cursor" /\ todo'[2].file = "export"
    BY <1>4, GapWrites
  <2>3. QED BY <2>1, <2>2 DEF PlanInv, Writes
<1>5. CASE Export /\ ExportHandled
  <2>1. pc = "write" /\ pc' = "write" /\ Head(todo).file = "export" /\ disk' = disk
    BY <1>5 DEF Export, ExportHandled
  <2>2. disk'.anchor # None
    BY <2>1 DEF PlanInv, Writes
  <2>3. QED BY <1>5, <2>1, <2>2 DEF ExportHandled, Plan, PlanInv, Writes
<1>6. CASE SkipWrite \/ SyncDirectory
  <2>1. Advance
    BY <1>6, AdvanceDef
  <2>2. /\ todo' = Tail(todo) /\ pc' = "write" /\ disk' = disk /\ caught' = caught
        /\ disk.anchor # None /\ todo # <<>>
        /\ Head(todo).file = "blob" => Head(todo).at \in disk.blob
    BY <2>1 DEF Advance
  <2>3. ASSUME NEW k \in DOMAIN todo', todo'[k].file = "meta"
        PROVE  \/ todo'[k].at \in disk.blob
               \/ \E l \in 1..(k - 1) : todo'[l] = [file |-> "blob", at |-> todo'[k].at]
    <3>1. k + 1 \in DOMAIN todo /\ todo'[k] = todo[k + 1] /\ k \in 1..(Len(todo) - 1)
          /\ Len(todo) \in Nat
      BY <2>2, <2>3, WritingFacts
    <3>2. SUFFICES ASSUME todo'[k].at \notin disk.blob
                   PROVE  \E l \in 1..(k - 1) : todo'[l] = [file |-> "blob", at |-> todo'[k].at]
      OBVIOUS
    <3>3. PICK l \in 1..((k + 1) - 1) : todo[l] = [file |-> "blob", at |-> todo'[k].at]
      BY <2>3, <3>1, <3>2 DEF PlanInv
    <3>4. l # 1
      BY <2>2, <3>2, <3>3, WritingFacts
    <3>5. l - 1 \in 1..(k - 1) /\ l - 1 \in 1..(Len(todo) - 1) /\ (l - 1) + 1 = l
      BY <3>1, <3>4
    <3>6. todo'[l - 1] = todo[l]
      BY <2>2, <3>5, WritingFacts
    <3>7. QED BY <3>3, <3>5, <3>6
  <2>4. ASSUME NEW k \in DOMAIN todo', todo'[k].file = "export"
        PROVE  k = Len(todo') /\ caught' = {}
    <3>1. k + 1 \in DOMAIN todo /\ todo'[k] = todo[k + 1] /\ k \in 1..(Len(todo) - 1)
          /\ Len(todo) \in Nat /\ Len(todo') = Len(todo) - 1
      BY <2>2, <2>4, WritingFacts
    <3>2. k + 1 = Len(todo) /\ caught = {}
      BY <2>4, <3>1 DEF PlanInv
    <3>3. QED BY <2>2, <3>1, <3>2
  <2>5. QED BY <2>2, <2>3, <2>4 DEF PlanInv, Writes
<1>7. CASE CreateTemp
  <2>1. /\ pc = "write" /\ pc' = "temp" /\ todo # <<>> /\ Head(todo).file # "export"
        /\ ~Clashes(Head(todo)) /\ disk' = disk /\ todo' = todo /\ caught' = caught
    BY <1>7 DEF CreateTemp, Writing
  <2>2. ~Clashes(Head(todo))'
    BY <2>1 DEF Clashes, SavedCursor
  <2>3. QED BY <2>1, <2>2 DEF PlanInv, Writes
<1>8. CASE Rename
  <2>1. /\ pc' = "renamed" /\ todo' = todo /\ caught' = caught /\ disk'.anchor # None
        /\ todo # <<>> /\ Head(todo).file # "export" /\ disk.blob \subseteq disk'.blob
        /\ Head(todo).file = "blob" => Head(todo).at \in disk'.blob
        /\ Head(todo).file = "meta" => Head(todo).at \in disk'.meta
    BY <1>8, RenameDef, PutDef
  <2>2. QED BY <2>1 DEF PlanInv, Writes
<1>9. CASE Handled
  <2>1. pc' \notin Writes /\ todo' = <<>> /\ caught' = {} /\ DOMAIN todo' = {}
    BY <1>9 DEF Handled, End, Writes
  <2>2. QED BY <2>1 DEF PlanInv, Writes
<1>10. CASE Drop \/ (\E m \in Signed \cup {Other} : Post(m)) \/ vars' = vars
  <2>1. disk' = disk /\ pc' = pc /\ todo' = todo /\ caught' = caught
    BY <1>10 DEF Drop, Post, vars
  <2>2. QED BY <2>1 DEF PlanInv, Writes, Clashes, SavedCursor
<1>11. QED
  BY <1>1, <1>2, <1>3, <1>4, <1>5, <1>6, <1>7, <1>8, <1>9, <1>10, StepCases

\* Every step keeps the saved cursor and the planned ones below the one in memory.
LEMMA OrderStep ==
    ASSUME IInv, [Next]_vars
    PROVE  OrderInv'
<1> USE DEF IInv
<1>1. CASE Ending \/ StartSaved \/ PowerLoss
  <2>1. pc' = "off" /\ DOMAIN todo' = {}
    BY <1>1, PowerLossDef DEF Ending, StartSaved, End
  <2>2. QED BY <2>1 DEF OrderInv
<1>2. CASE Start
  <2>1. disk' = disk /\ todo' = <<>>
    BY <1>2 DEF Start, PlanInv, Writes
  <2>2. disk.anchor # None => SavedCursor(disk) <= cursor'
    BY <1>2, Marks DEF Start, SavedCursor
  <2>3. QED BY <2>1, <2>2 DEF OrderInv
<1>3. CASE Page
  <2>1. /\ disk' = disk /\ cursor <= cursor' /\ cursor' \in Cursors /\ pc = "read"
        /\ Plan(todo', caught', cursor', {cursor})
    BY <1>3, PageWrites DEF Page
  <2>2. cursor \in Nat /\ cursor' \in Nat /\ (SavedCursor(disk) = None \/ SavedCursor(disk) \in Nat)
    BY <2>1, Marks, RoomFacts DEF SavedCursor
  <2>3. disk'.anchor # None => SavedCursor(disk') <= cursor'
    BY <2>1, <2>2, Marks DEF OrderInv
  <2>4. \A k \in DOMAIN todo' : todo'[k].file = "cursor" => todo'[k].at <= cursor'
    BY <2>1, <2>2 DEF Plan
  <2>5. \A k \in DOMAIN todo' : todo'[k].file # "export"
    BY <2>1 DEF Plan
  <2>6. QED BY <2>3, <2>4, <2>5 DEF OrderInv
<1>4. CASE PageWithGap
  <2>1. disk' = disk /\ cursor' = cursor /\ pc = "read"
    BY <1>4 DEF PageWithGap
  <2>2. DOMAIN todo' = {1, 2} /\ todo'[1].file = "cursor" /\ todo'[1].at = cursor
        /\ todo'[2].file = "export" /\ todo'[2].at = PageEnd(floor)
    BY <1>4, GapWrites
  <2>3. cursor <= PageEnd(floor) /\ cursor \in Nat
    <3>1. floor \in Nat /\ cursor < floor /\ floor < Len(room) /\ Len(room) \in Nat
      BY <1>4, RoomFacts DEF PageWithGap, TypeOK
    <3>2. floor <= PageEnd(floor) /\ PageEnd(floor) \in Nat
      BY <3>1, PageEndDef, RoomFacts
    <3>3. QED BY <3>1, <3>2, Marks
  <2>4. QED BY <2>1, <2>2, <2>3 DEF OrderInv
<1>5. CASE Export /\ ExportHandled
  <2>1. /\ disk' = disk /\ pc = "write" /\ todo # <<>> /\ Head(todo).file = "export"
        /\ cursor' = Head(todo).at /\ cursor' \in Cursors /\ Plan(todo', caught', cursor', {})
    BY <1>5 DEF Export, ExportHandled
  <2>2. cursor \in Nat /\ cursor' \in Nat /\ (SavedCursor(disk) = None \/ SavedCursor(disk) \in Nat)
        /\ cursor <= cursor'
    BY <2>1, Marks, RoomFacts, WritingFacts DEF SavedCursor, OrderInv
  <2>3. disk'.anchor # None => SavedCursor(disk') <= cursor'
    BY <2>1, <2>2, Marks DEF OrderInv
  <2>4. \A k \in DOMAIN todo' : todo'[k].file = "cursor" => todo'[k].at <= cursor'
    BY <2>1, <2>2 DEF Plan
  <2>5. \A k \in DOMAIN todo' : todo'[k].file # "export"
    BY <2>1 DEF Plan
  <2>6. QED BY <2>3, <2>4, <2>5 DEF OrderInv
<1>6. CASE SkipWrite \/ SyncDirectory
  <2>1. /\ todo' = Tail(todo) /\ disk' = disk /\ cursor' = cursor /\ todo # <<>> /\ pc # "off"
    BY <1>6, AdvanceDef DEF Advance, SkipWrite, Writing, SyncDirectory
  <2>2. \A k \in DOMAIN todo' : k + 1 \in DOMAIN todo /\ todo'[k] = todo[k + 1]
    BY <2>1, WritingFacts
  <2>3. QED BY <2>1, <2>2 DEF OrderInv
<1>7. CASE Rename
  <2>1. /\ pc = "temp" /\ todo # <<>> /\ todo' = todo /\ cursor' = cursor
        /\ Head(todo).file # "export" /\ Head(todo) \in Entry
    BY <1>7, RenameDef, PutDef
  <2>2. CASE Head(todo).file # "cursor"
    <3>1. disk'.anchor = disk.anchor /\ disk'.progress = disk.progress
      BY <1>7, <2>1, <2>2, PutDef DEF Entry
    <3>2. QED BY <2>1, <3>1 DEF OrderInv, SavedCursor
  <2>3. CASE Head(todo).file = "cursor"
    <3>1. Head(todo).at <= cursor /\ Head(todo).at \in Cursors
      BY <2>1, <2>3, WritingFacts DEF OrderInv, Entry
    <3>2. CASE disk.anchor = None
      <4>1. disk'.anchor = Head(todo).at /\ disk'.progress = None
        BY <1>7, <2>1, <2>3, <3>2, PutDef DEF SyncedInv
      <4>2. QED BY <2>1, <3>1, <4>1 DEF OrderInv, SavedCursor
    <3>3. CASE disk.anchor # None
      <4>1. disk'.progress = Head(todo).at /\ Head(todo).at # None
        BY <1>7, <2>1, <2>3, <3>1, <3>3, PutDef, RoomFacts
      <4>2. QED BY <2>1, <3>1, <4>1 DEF OrderInv, SavedCursor
    <3>4. QED BY <3>2, <3>3
  <2>4. QED BY <2>2, <2>3
<1>8. CASE CreateTemp \/ Drop \/ (\E m \in Signed \cup {Other} : Post(m)) \/ vars' = vars
  <2>1. disk' = disk /\ cursor' = cursor /\ todo' = todo /\ (pc # "off" \/ pc' = "off")
    BY <1>8 DEF CreateTemp, Writing, Drop, Post, vars
  <2>2. QED BY <2>1 DEF OrderInv, SavedCursor
<1>9. CASE Handled
  <2>1. todo' = <<>> /\ (pc' = "off" \/ (cursor' = cursor /\ disk' = disk /\ pc # "off"))
    BY <1>9 DEF Handled, End
  <2>2. QED BY <2>1 DEF OrderInv, SavedCursor
<1>10. QED BY <1>1, <1>2, <1>3, <1>4, <1>5, <1>6, <1>7, <1>8, <1>9, StepCases

\* Every step keeps what a run caught archived or planned.
LEMMA CaughtStep ==
    ASSUME IInv, [Next]_vars
    PROVE  CaughtInv'
<1> USE DEF IInv
<1>1. CASE Ending \/ StartSaved \/ Start \/ PowerLoss \/ PageWithGap
  <2>1. caught' = {}
    BY <1>1, PowerLossDef
    DEF Ending, StartSaved, Start, PageWithGap, End, PlanInv, Writes
  <2>2. QED BY <2>1 DEF CaughtInv
<1>2. CASE Page \/ (Export /\ ExportHandled)
  <2>1. \E e, F : Plan(todo', caught', e, F)
    BY <1>2, PageWrites DEF ExportHandled
  <2>2. \A i \in caught' : \E k \in DOMAIN todo' : todo'[k] = [file |-> "meta", at |-> i]
    <3>1. PICK e, F : Plan(todo', caught', e, F)
      BY <2>1
    <3>2. \A k \in 1..(Len(todo') - 1) : k \in DOMAIN todo'
      BY <3>1 DEF Plan
    <3>3. QED BY <3>1, <3>2 DEF Plan
  <2>3. QED BY <2>2 DEF CaughtInv, InTodo
<1>3. CASE SkipWrite \/ SyncDirectory
  <2>1. Advance
    BY <1>3, AdvanceDef
  <2>2. SUFFICES ASSUME NEW i \in caught, i \notin disk.blob \cap disk.meta
                 PROVE  InTodo("meta", i)'
    BY <2>1 DEF CaughtInv, Advance
  <2>3. PICK k \in DOMAIN todo : todo[k].file = "meta" /\ todo[k].at = i
    BY <2>2 DEF CaughtInv, InTodo
  <2>4. k # 1
    BY <2>1, <2>2, <2>3, WritingFacts DEF Advance
  <2>5. k - 1 \in 1..(Len(todo) - 1) /\ (k - 1) + 1 = k
    BY <2>1, <2>3, <2>4, WritingFacts DEF Advance
  <2>6. k - 1 \in DOMAIN todo' /\ todo'[k - 1] = todo[k]
    BY <2>1, <2>5, WritingFacts DEF Advance
  <2>7. QED BY <2>3, <2>6 DEF InTodo
<1>4. CASE Rename
  <2>1. todo' = todo /\ caught' = caught /\ disk.blob \subseteq disk'.blob
        /\ disk.meta \subseteq disk'.meta
    BY <1>4, RenameDef, PutDef
  <2>2. QED BY <2>1 DEF CaughtInv, InTodo
<1>5. CASE Handled
  <2>1. caught' = {}
    BY <1>5 DEF Handled, End
  <2>2. QED BY <2>1 DEF CaughtInv
<1>6. CASE CreateTemp \/ Drop \/ (\E m \in Signed \cup {Other} : Post(m)) \/ vars' = vars
  <2>1. disk' = disk /\ caught' = caught /\ todo' = todo
    BY <1>6 DEF CreateTemp, Drop, Post, vars
  <2>2. QED BY <2>1 DEF CaughtInv, InTodo
<1>7. QED BY <1>1, <1>2, <1>3, <1>4, <1>5, <1>6, StepCases

\* Every step keeps a marked run one with contradicting receipts.
LEMMA MarkerStep ==
    ASSUME IInv, [Next]_vars
    PROVE  MarkerInv'
<1> USE DEF IInv
<1>1. CASE Ending \/ StartSaved \/ PowerLoss
  <2>1. pc' = "off"
    BY <1>1, PowerLossDef DEF Ending, StartSaved, End
  <2>2. QED BY <2>1 DEF MarkerInv
<1>2. CASE Start
  <2>1. disk'.conflict = {} /\ DOMAIN todo' = {}
    BY <1>2 DEF Start, Refused, PlanInv, Writes
  <2>2. QED BY <2>1 DEF MarkerInv
<1>3. CASE Page \/ PageWithGap
  <2>1. disk' = disk /\ room' = room /\ pc = "read" /\ caught = {}
    BY <1>3 DEF Page, PageWithGap, PlanInv, Writes, server
  <2>2. disk'.conflict = {}
    BY <2>1, NoDisposition DEF MarkerInv
  <2>3. CASE Page
    <3>1. Plan(todo', caught', cursor', {cursor})
      BY <2>3, PageWrites
    <3>2. Dispositions(caught)' = Dispositions(caught')
      BY <2>1 DEF Dispositions, Disposition
    <3>3. QED BY <2>2, <3>1, <3>2 DEF MarkerInv, Plan
  <2>4. CASE PageWithGap
    BY <2>2, <2>4, GapWrites DEF MarkerInv
  <2>5. QED BY <1>3, <2>3, <2>4
<1>4. CASE Export /\ ExportHandled
  <2>1. disk' = disk /\ room' = room /\ pc = "write" /\ todo # <<>> /\ Head(todo).file = "export"
    BY <1>4 DEF Export, server
  <2>2. caught = {}
    BY <2>1, WritingFacts DEF PlanInv
  <2>3. disk'.conflict = {}
    BY <2>1, <2>2, NoDisposition DEF MarkerInv
  <2>4. Plan(todo', caught', cursor', {})
    BY <1>4 DEF ExportHandled
  <2>5. Dispositions(caught)' = Dispositions(caught')
    BY <2>1 DEF Dispositions, Disposition
  <2>6. QED BY <2>3, <2>4, <2>5 DEF MarkerInv, Plan
<1>5. CASE SkipWrite \/ SyncDirectory
  <2>1. Advance /\ pc # "off" /\ Dispositions(caught)' = Dispositions(caught)
    BY <1>5, AdvanceDef, SameRoom DEF SkipWrite, Writing, SyncDirectory, Advance, Dispositions,
       Disposition
  <2>2. \A k \in DOMAIN todo' : k + 1 \in DOMAIN todo /\ todo'[k] = todo[k + 1]
    BY <2>1, WritingFacts DEF Advance
  <2>3. QED BY <2>1, <2>2 DEF MarkerInv, Advance
<1>6. CASE Rename
  <2>1. /\ pc # "off" /\ todo' = todo /\ caught' = caught /\ room' = room /\ todo # <<>>
        /\ disk'.conflict = disk.conflict \/ Head(todo).file = "conflict"
    BY <1>6, RenameDef, PutDef
  <2>2. Dispositions(caught)' = Dispositions(caught)
    BY <2>1 DEF Dispositions, Disposition
  <2>3. QED BY <2>1, <2>2, WritingFacts DEF MarkerInv
<1>7. CASE Handled
  <2>1. pc = "write" /\ DOMAIN todo' = {} /\ disk' = disk /\ room' = room
        /\ (pc' = "off" \/ caught = {})
    BY <1>7 DEF Handled, End, server
  <2>2. pc' = "off" \/ disk'.conflict = {}
    BY <2>1, NoDisposition DEF MarkerInv
  <2>3. QED BY <2>1, <2>2 DEF MarkerInv
<1>8. CASE \E m \in Signed \cup {Other} : Post(m)
  <2>1. /\ disk' = disk /\ caught' = caught /\ todo' = todo /\ pc' = pc
        /\ \A i \in Place : room'[i] = room[i]
    BY <1>8, PostFacts DEF Post
  <2>2. Dispositions(caught)' = Dispositions(caught)
    BY <2>1 DEF Dispositions, Disposition, TypeOK
  <2>3. QED BY <2>1, <2>2 DEF MarkerInv
<1>9. CASE CreateTemp \/ Drop \/ vars' = vars
  <2>1. disk' = disk /\ caught' = caught /\ todo' = todo /\ room' = room /\ (pc # "off" \/ pc' = "off")
    BY <1>9 DEF CreateTemp, Writing, Drop, vars, server
  <2>2. Dispositions(caught)' = Dispositions(caught)
    BY <2>1 DEF Dispositions, Disposition
  <2>3. QED BY <2>1, <2>2 DEF MarkerInv
<1>10. QED BY <1>1, <1>2, <1>3, <1>4, <1>5, <1>6, <1>7, <1>8, <1>9, StepCases

\* Every step answers a disposition only with a complete pair of it.
LEMMA AnswerStep ==
    ASSUME IInv, [Next]_vars
    PROVE  AnswerInv'
<1> USE DEF IInv
<1>1. ASSUME NEW S, Answer(S) \in {"ACCEPTED", "REJECTED"}
      PROVE  \E i \in S : Disposition(i) = Answer(S)
  <2>1. Cardinality(Dispositions(S)) = 1 /\ Answer(S) = CHOOSE x \in Dispositions(S) : TRUE
    BY <1>1 DEF Answer
  <2>2. Dispositions(S) # {}
    BY <2>1, FS_EmptySet
  <2>3. Answer(S) \in Dispositions(S)
    BY <2>1, <2>2
  <2>4. QED BY <2>3 DEF Dispositions
<1>2. CASE Ending \/ PowerLoss
  <2>1. pc' = "off" /\ result' \notin {"ACCEPTED", "REJECTED"}
    BY <1>2, PowerLossDef DEF Ending, End, Nothing
  <2>2. QED BY <2>1 DEF AnswerInv, AnswerHasEvidence
<1>3. CASE StartSaved
  <2>1. pc' = "off" /\ result' = Answer(Loaded(disk)) /\ disk' = disk /\ room' = room
    BY <1>3 DEF StartSaved, End, server
  <2>2. Loaded(disk) \subseteq disk.blob \cap disk.meta
    BY DEF Loaded
  <2>3. QED BY <1>1, <2>1, <2>2 DEF AnswerInv, AnswerHasEvidence, Disposition
<1>4. CASE Start
  BY <1>4 DEF Start, AnswerInv, AnswerHasEvidence, Nothing
<1>5. CASE Page \/ PageWithGap \/ (Export /\ ExportHandled) \/ SkipWrite \/ CreateTemp \/ SyncDirectory
             \/ Rename
  <2>1. pc # "off" /\ result' = result
    BY <1>5 DEF Page, PageWithGap, Export, ExportHandled, SkipWrite, Writing, CreateTemp, SyncDirectory, Rename
  <2>2. QED BY <2>1 DEF AnswerInv, AnswerHasEvidence, Nothing
<1>6. CASE Handled
  <2>1. pc = "write" /\ todo = <<>> /\ disk' = disk /\ room' = room
        /\ (result' = result \/ (pc' = "off" /\ result' = Answer(caught)))
    BY <1>6 DEF Handled, End, server
  <2>2. caught \subseteq disk.blob \cap disk.meta
    BY <2>1 DEF CaughtInv, InTodo
  <2>3. QED BY <1>1, <2>1, <2>2 DEF AnswerInv, AnswerHasEvidence, Disposition, Nothing
<1>7. CASE \E m \in Signed \cup {Other} : Post(m)
  <2>1. disk' = disk /\ pc' = pc /\ result' = result /\ \A i \in Place : room'[i] = room[i]
    BY <1>7, PostFacts DEF Post
  <2>2. disk.blob \subseteq Place
    BY DEF TypeOK, Dirs
  <2>3. QED BY <2>1, <2>2 DEF AnswerInv, AnswerHasEvidence, Disposition
<1>8. CASE Drop \/ vars' = vars
  <2>1. disk' = disk /\ pc' = pc /\ result' = result /\ room' = room
    BY <1>8 DEF Drop, vars
  <2>2. QED BY <2>1 DEF AnswerInv, AnswerHasEvidence, Disposition
<1>9. QED BY <1>2, <1>3, <1>4, <1>5, <1>6, <1>7, <1>8, StepCases

\* A receipt an answer shows is archived by the writes it leads to.
LEMMA PlanCovers ==
    ASSUME TypeOK, NEW S, S \subseteq Place, NEW e, NEW F, NEW t, Plan(t, Verified(S), e, F),
           NEW i \in Receipts(S)
    PROVE  \E l \in 1..(Len(t) - 1) : t[l].file = "meta" /\ room[t[l].at] = room[i]
<1>1. PICK n \in Nat : S \subseteq 1..n
  BY RoomFacts
<1>2. PICK j \in Verified(S) : room[j] = room[i]
  BY <1>1, VerifiedCovers
<1>3. PICK l \in 1..(Len(t) - 1) : t[l] = [file |-> "meta", at |-> j]
  BY DEF Plan
<1>4. QED BY <1>2, <1>3

\* Every step keeps the receipts below every cursor covered.
LEMMA CursorStep ==
    ASSUME IInv, [Next]_vars
    PROVE  CursorInv'
<1> USE DEF IInv
<1> SUFFICES ASSUME ~blind' PROVE SavedCovered' /\ MemoryCovered' /\ TodoCovered'
  BY DEF CursorInv
<1>0. None = -1 /\ Cursors \subseteq Nat /\ Place \subseteq Nat /\ None \notin Cursors
      /\ disk \in Dirs /\ synced \in Dirs
  BY RoomFacts DEF TypeOK
<1>1. CASE Ending \/ StartSaved
  <2>1. /\ pc' = "off" /\ disk' = disk /\ synced' = synced /\ room' = room /\ blind' = blind
        /\ DOMAIN todo' = {}
    BY <1>1 DEF Ending, StartSaved, End, server
  <2>2. Receipts(Place)' = Receipts(Place)
    BY <2>1 DEF Receipts, Place
  <2>3. QED BY <2>1, <2>2
            DEF CursorInv, SavedCovered, MemoryCovered, TodoCovered, ArchivedIn, SavedCursor
<1>2. CASE PowerLoss
  <2>1. /\ pc' = "off" /\ room' = room /\ blind' = blind /\ DOMAIN todo' = {}
        /\ synced' = disk'
        /\ synced.blob \subseteq disk'.blob /\ synced.meta \subseteq disk'.meta
    BY <1>2, PowerLossDef DEF End
  <2>2. Receipts(Place)' = Receipts(Place)
    BY <2>1 DEF Receipts, Place
  <2>3. disk'.anchor # None => /\ disk'.anchor = disk.anchor
                               /\ SavedCursor(disk') <= SavedCursor(disk)
                               /\ SavedCursor(disk') \in Int /\ SavedCursor(disk) \in Int
    BY <1>2, PowerLossDef, Marks DEF SyncedInv, SavedCursor
  <2>4. \A i \in Nat : disk'.anchor # None /\ i <= SavedCursor(disk') => i <= SavedCursor(disk)
    BY <2>3
  <2>5. \A i : ArchivedIn(synced, i) => ArchivedIn(synced, i)'
    BY <2>1 DEF ArchivedIn
  <2>6. Receipts(Place) \subseteq Nat
    BY <1>0 DEF Receipts
  <2>7. SavedCovered'
    BY <2>1, <2>2, <2>3, <2>4, <2>5, <2>6 DEF CursorInv, SavedCovered, SavedCursor
  <2>8. QED BY <2>1, <2>7 DEF MemoryCovered, TodoCovered
<1>3. CASE Start
  <2>1. /\ pc' = "read" /\ disk' = disk /\ synced' = synced /\ room' = room /\ blind' = blind
        /\ todo' = <<>> /\ DOMAIN todo' = {} /\ Len(todo') = 0
        /\ cursor' = IF disk.anchor = None THEN Len(room) ELSE SavedCursor(disk)
    BY <1>3 DEF Start, PlanInv, Writes, server
  <2>2. Receipts(Place)' = Receipts(Place)
    BY <2>1 DEF Receipts, Place
  <2>3. SavedCovered'
    BY <2>1, <2>2 DEF CursorInv, SavedCovered, ArchivedIn, SavedCursor
  <2>4. Low' = IF disk.anchor # None THEN disk.anchor ELSE cursor'
    BY <2>1 DEF Low, Writes
  <2>5. MemoryCovered'
    <3>1. CASE disk.anchor = None
      <4>1. Low' = cursor' /\ cursor' \in Nat /\ Receipts(Place) \subseteq Nat
        BY <1>0, <2>1, <2>4, <3>1, RoomFacts DEF Receipts
      <4>2. QED BY <2>2, <4>1 DEF MemoryCovered
    <3>2. CASE disk.anchor # None
      BY <2>1, <2>2, <2>3, <2>4, <3>2 DEF MemoryCovered, SavedCovered, Covered
    <3>3. QED BY <3>1, <3>2
  <2>6. QED BY <2>1, <2>3, <2>5 DEF TodoCovered
<1>4. CASE Page
  <2> DEFINE S == (cursor + 1)..PageEnd(cursor)
  <2>1. /\ S \subseteq Place /\ cursor' = PageEnd(cursor) /\ cursor <= cursor' /\ cursor' \in Nat
        /\ Plan(todo', Verified(S), cursor', {cursor})
        /\ todo'[1] = [file |-> "cursor", at |-> cursor] /\ Len(todo') > 1 /\ cursor \in Nat
    BY <1>0, <1>4, PageWrites, Marks
  <2>2. /\ pc = "read" /\ pc' = "write" /\ disk' = disk /\ synced' = synced /\ room' = room
        /\ blind' = blind /\ todo = <<>> /\ Len(todo) = 0
    BY <1>4 DEF Page, server, PlanInv, Writes
  <2>3. Receipts(Place)' = Receipts(Place) /\ \A i : ArchivedIn(synced, i)' = ArchivedIn(synced, i)
    BY <2>2 DEF Receipts, Place, ArchivedIn
  <2>4. SavedCovered'
    BY <2>2, <2>3 DEF CursorInv, SavedCovered, SavedCursor
  <2>5. Head(todo') = todo'[1]
    BY <2>1, TailDef DEF Plan
  <2>6. Low' = IF disk.anchor # None THEN disk.anchor ELSE cursor
    BY <2>1, <2>2, <2>5 DEF Low, Writes
  <2>7. ASSUME NEW i \in Receipts(Place), Low' < i, i <= cursor
        PROVE  ArchivedIn(synced, i)
    <3>1. disk.anchor # None /\ Low < i
      BY <1>0, <2>1, <2>6, <2>7 DEF Low, Receipts
    <3>2. Covered(i, 0 + 1)
      BY <2>2, <2>7, <3>1 DEF CursorInv, MemoryCovered
    <3>3. QED BY <3>2 DEF Covered
  <2>8. ASSUME NEW i \in Receipts(Place), Low' < i, i <= cursor'
        PROVE  Covered(i, Len(todo))'
    <3>1. CASE i <= cursor
      BY <2>3, <2>7, <2>8, <3>1 DEF Covered
    <3>2. CASE ~(i <= cursor)
      <4>1. i \in Receipts(S)
        BY <1>0, <2>1, <2>8, <3>2 DEF Receipts
      <4>2. \E l \in 1..(Len(todo') - 1) : todo'[l].file = "meta" /\ room[todo'[l].at] = room[i]
        <5> HIDE DEF S
        <5> QED BY <2>1, <4>1, PlanCovers
      <4>3. QED BY <2>2, <4>2 DEF Covered
    <3>3. QED BY <3>1, <3>2
  <2>9. MemoryCovered'
    <3>1. \A l \in 1..(Len(todo') - 1) : l \in 1..((Len(todo') + 1) - 1)
      BY <2>1 DEF Plan
    <3>2. QED BY <2>3, <2>8, <3>1 DEF MemoryCovered, Covered
  <2>10. TodoCovered'
    <3> SUFFICES ASSUME NEW k \in DOMAIN todo', todo'[k].file = "cursor",
                        NEW i \in Receipts(Place), Low' < i, i <= todo'[k].at
                 PROVE  Covered(i, k)'
      BY <2>3 DEF TodoCovered
    <3>1. CASE k = Len(todo')
      BY <2>1, <2>8, <3>1 DEF Plan
    <3>2. CASE k # Len(todo')
      <4>1. todo'[k].at = cursor
        BY <2>1, <3>2 DEF Plan
      <4>2. QED BY <2>3, <2>7, <4>1 DEF Covered
    <3>3. QED BY <3>1, <3>2
  <2>11. QED BY <2>4, <2>9, <2>10
<1>5. CASE PageWithGap
  <2>1. /\ pc = "read" /\ pc' = "write" /\ disk' = disk /\ synced' = synced /\ room' = room
        /\ blind' = blind /\ todo = <<>> /\ Len(todo) = 0 /\ cursor' = cursor /\ cursor \in Nat
    BY <1>5, Marks DEF PageWithGap, server, PlanInv, Writes
  <2>2. Receipts(Place)' = Receipts(Place) /\ \A i : ArchivedIn(synced, i)' = ArchivedIn(synced, i)
    BY <2>1 DEF Receipts, Place, ArchivedIn
  <2>3. SavedCovered'
    BY <2>1, <2>2 DEF CursorInv, SavedCovered, SavedCursor
  <2>4. Low' = IF disk.anchor # None THEN disk.anchor ELSE cursor
    BY <1>5, <2>1, GapWrites DEF Low, Writes
  <2>5. ASSUME NEW i \in Receipts(Place), Low' < i, i <= cursor
        PROVE  ArchivedIn(synced, i)
    <3>1. disk.anchor # None /\ Low < i
      BY <1>0, <2>1, <2>4, <2>5 DEF Low, Receipts
    <3>2. Covered(i, 0 + 1)
      BY <2>1, <2>5, <3>1 DEF CursorInv, MemoryCovered
    <3>3. QED BY <3>2 DEF Covered
  <2>6. MemoryCovered'
    BY <2>1, <2>2, <2>5 DEF MemoryCovered, Covered
  <2>7. TodoCovered'
    <3> SUFFICES ASSUME NEW k \in DOMAIN todo', todo'[k].file = "cursor",
                        NEW i \in Receipts(Place), Low' < i, i <= todo'[k].at
                 PROVE  Covered(i, k)'
      BY <2>2 DEF TodoCovered
    <3>1. todo'[k].at = cursor
      BY <1>5, GapWrites
    <3>2. QED BY <2>2, <2>5, <3>1 DEF Covered
  <2>8. QED BY <2>3, <2>6, <2>7
<1>6. CASE Export /\ ExportHandled
  <2> DEFINE S == (dropped + 1)..Len(room)
  <2>1. /\ S \subseteq Place /\ cursor' = Head(todo).at /\ cursor' \in Nat /\ cursor \in Nat
        /\ Plan(todo', Verified(S), cursor', {})
        /\ ~blind /\ ~(cursor < dropped) /\ dropped \in Nat
    BY <1>0, <1>6, Marks DEF ExportHandled, TypeOK
  <2>2. /\ pc = "write" /\ pc' = "write" /\ disk' = disk /\ synced' = synced /\ room' = room
        /\ todo # <<>> /\ Head(todo).file = "export" /\ disk.anchor # None
    BY <1>6 DEF Export, ExportHandled, server, PlanInv, Writes
  <2>3. Receipts(Place)' = Receipts(Place) /\ \A i : ArchivedIn(synced, i)' = ArchivedIn(synced, i)
    BY <2>2 DEF Receipts, Place, ArchivedIn
  <2>4. SavedCovered'
    BY <2>1, <2>2, <2>3 DEF CursorInv, SavedCovered, SavedCursor
  <2>5. Low' = Low /\ Low = disk.anchor
    BY <2>2 DEF Low
  <2>6. ASSUME NEW i \in Receipts(Place), Low < i, i <= cursor
        PROVE  ArchivedIn(synced, i)
    <3>1. Len(todo) = 1 /\ todo[1].file = "export"
      BY <2>2, WritingFacts DEF PlanInv
    <3>2. Covered(i, 1 + 1)
      BY <2>1, <2>2, <2>6, <3>1 DEF CursorInv, MemoryCovered
    <3>3. QED BY <3>1, <3>2 DEF Covered
  <2>7. ASSUME NEW i \in Receipts(Place), Low' < i, i <= cursor'
        PROVE  Covered(i, Len(todo))'
    <3>1. CASE i <= cursor
      BY <2>3, <2>5, <2>6, <2>7, <3>1 DEF Covered
    <3>2. CASE ~(i <= cursor)
      <4>1. i \in Receipts(S)
        BY <1>0, <2>1, <2>7, <3>2, RoomFacts DEF Receipts
      <4>2. \E l \in 1..(Len(todo') - 1) : todo'[l].file = "meta" /\ room[todo'[l].at] = room[i]
        <5> HIDE DEF S
        <5> QED BY <2>1, <4>1, PlanCovers
      <4>3. QED BY <2>2, <4>2 DEF Covered
    <3>3. QED BY <3>1, <3>2
  <2>8. MemoryCovered'
    <3>1. \A l \in 1..(Len(todo') - 1) : l \in 1..((Len(todo') + 1) - 1)
      BY <2>1 DEF Plan
    <3>2. QED BY <2>3, <2>7, <3>1 DEF MemoryCovered, Covered
  <2>9. TodoCovered'
    <3> SUFFICES ASSUME NEW k \in DOMAIN todo', todo'[k].file = "cursor",
                        NEW i \in Receipts(Place), Low' < i, i <= todo'[k].at
                 PROVE  Covered(i, k)'
      BY <2>3 DEF TodoCovered
    <3>1. k = Len(todo') /\ todo'[k].at = cursor'
      BY <2>1 DEF Plan
    <3>2. QED BY <2>7, <3>1
  <2>10. QED BY <2>4, <2>8, <2>9
<1>7. CASE SkipWrite \/ SyncDirectory
  <2>1. Advance /\ pc # "off"
    BY <1>7, AdvanceDef DEF SkipWrite, Writing, SyncDirectory
  <2>2. /\ disk' = disk /\ room' = room /\ cursor' = cursor /\ blind' = blind /\ todo # <<>>
        /\ todo' = Tail(todo) /\ disk.anchor # None /\ pc' = "write"
        /\ Head(todo).file = "meta" => synced' = disk /\ Head(todo).at \in disk.blob \cap disk.meta
    BY <2>1 DEF Advance
  <2>3. Receipts(Place)' = Receipts(Place) /\ Low' = Low
    BY <2>2 DEF Receipts, Place, Low
  <2>4. \A i : ArchivedIn(synced, i) => ArchivedIn(synced, i)'
    BY <2>1 DEF Advance, ArchivedIn, SyncedInv
  <2>5. ASSUME NEW k \in Nat, NEW i, Covered(i, k + 1), k <= Len(todo')+1
        PROVE  Covered(i, k)'
    <3>1. CASE ArchivedIn(synced, i)
      BY <2>4, <3>1 DEF Covered
    <3>2. CASE \E l \in 1..((k + 1) - 1) : todo[l].file = "meta" /\ room[todo[l].at] = room[i]
      <4>1. PICK l \in 1..((k + 1) - 1) : todo[l].file = "meta" /\ room[todo[l].at] = room[i]
        BY <3>2
      <4>2. CASE l = 1
        <5>1. ArchivedIn(synced, i)'
          BY <2>2, <4>1, <4>2, WritingFacts DEF ArchivedIn
        <5>2. QED BY <5>1 DEF Covered
      <4>3. CASE l # 1
        <5>1. l - 1 \in 1..(k - 1) /\ (l - 1) + 1 = l /\ l - 1 \in 1..(Len(todo) - 1)
          BY <2>2, <2>5, <4>3, WritingFacts
        <5>2. todo'[l - 1] = todo[l]
          BY <2>2, <5>1, WritingFacts
        <5>3. QED BY <2>2, <4>1, <5>1, <5>2 DEF Covered
      <4>4. QED BY <4>2, <4>3
    <3>3. QED BY <2>5, <3>1, <3>2 DEF Covered
  <2>6. SavedCovered'
    BY <2>2, <2>3, <2>4 DEF CursorInv, SavedCovered, SavedCursor
  <2>7. Len(todo') \in Nat /\ Len(todo) = Len(todo') + 1 /\ DOMAIN todo' = 1..Len(todo')
    BY <2>2, WritingFacts
  <2>8. MemoryCovered'
    <3>1. \A i \in Receipts(Place) : Low < i /\ i <= cursor => Covered(i, (Len(todo') + 1) + 1)
      BY <2>1, <2>2, <2>7 DEF CursorInv, MemoryCovered
    <3>2. \A i \in Receipts(Place) : Low < i /\ i <= cursor => Covered(i, Len(todo) + 1)'
      BY <2>5, <2>7, <3>1
    <3>3. QED BY <2>2, <2>3, <3>2 DEF MemoryCovered
  <2>9. TodoCovered'
    <3> SUFFICES ASSUME NEW k \in DOMAIN todo', todo'[k].file = "cursor",
                        NEW i \in Receipts(Place), Low < i, i <= todo'[k].at
                 PROVE  Covered(i, k)'
      BY <2>3 DEF TodoCovered
    <3>1. k + 1 \in DOMAIN todo /\ todo'[k] = todo[k + 1]
      BY <2>2, WritingFacts
    <3>2. Covered(i, k + 1)
      BY <2>2, <3>1 DEF CursorInv, TodoCovered
    <3>3. QED BY <2>5, <2>7, <3>2
  <2>10. QED BY <2>6, <2>8, <2>9
<1>8. CASE Rename
  <2>1. /\ pc = "temp" /\ pc' = "renamed" /\ todo' = todo /\ cursor' = cursor /\ room' = room
        /\ synced' = synced /\ blind' = blind /\ todo # <<>> /\ disk'.anchor # None
        /\ Head(todo).file # "export" /\ Head(todo) \in Entry
    BY <1>8, RenameDef, PutDef
  <2>2. Receipts(Place)' = Receipts(Place) /\ \A i : ArchivedIn(synced, i)' = ArchivedIn(synced, i)
    BY <2>1 DEF Receipts, Place, ArchivedIn
  <2>3. Low' = Low /\ SavedCovered'
    <3>1. CASE Head(todo).file # "cursor"
      <4>1. disk'.anchor = disk.anchor /\ disk'.progress = disk.progress
        BY <1>8, <2>1, <3>1, PutDef DEF Entry
      <4>2. QED BY <2>1, <2>2, <4>1 DEF CursorInv, SavedCovered, SavedCursor, Low, Writes
    <3>2. CASE Head(todo).file = "cursor" /\ disk.anchor = None
      <4>1. disk'.anchor = Head(todo).at /\ disk'.progress = None /\ Head(todo).at \in Nat
        BY <1>0, <1>8, <2>1, <3>2, PutDef DEF SyncedInv, Entry
      <4>2. Low' = Low
        BY <2>1, <3>2, <4>1 DEF Low, Writes
      <4>3. SavedCovered'
        <5>1. SavedCursor(disk)' = disk'.anchor /\ Receipts(Place) \subseteq Nat
          BY <1>0, <4>1 DEF SavedCursor, Receipts
        <5>2. QED BY <2>2, <4>1, <5>1 DEF SavedCovered
      <4>4. QED BY <4>2, <4>3
    <3>3. CASE Head(todo).file = "cursor" /\ disk.anchor # None
      <4>1. disk'.anchor = disk.anchor /\ disk'.progress = Head(todo).at /\ Head(todo).at \in Nat
        BY <1>0, <1>8, <2>1, <3>3, PutDef DEF Entry
      <4>2. Low' = Low /\ Low = disk.anchor
        BY <2>1, <3>3, <4>1 DEF Low
      <4>3. SavedCursor(disk)' = Head(todo).at
        BY <1>0, <4>1 DEF SavedCursor
      <4>4. ASSUME NEW i \in Receipts(Place), Low < i, i <= Head(todo).at
            PROVE  ArchivedIn(synced, i)
        <5>1. Covered(i, 1)
          BY <2>1, <3>3, <4>4, WritingFacts DEF CursorInv, TodoCovered
        <5>2. QED BY <5>1 DEF Covered
      <4>5. QED BY <2>2, <4>1, <4>2, <4>3, <4>4 DEF SavedCovered
    <3>4. QED BY <3>1, <3>2, <3>3
  <2>4. \A i, k : Covered(i, k)' = Covered(i, k)
    BY <2>1, <2>2 DEF Covered
  <2>5. QED BY <2>1, <2>2, <2>3, <2>4 DEF CursorInv, MemoryCovered, TodoCovered
<1>9. CASE CreateTemp
  <2>1. /\ pc = "write" /\ pc' = "temp" /\ disk' = disk /\ synced' = synced /\ room' = room
        /\ blind' = blind /\ todo' = todo /\ cursor' = cursor
    BY <1>9 DEF CreateTemp, Writing, server
  <2>2. Receipts(Place)' = Receipts(Place) /\ Low' = Low
        /\ \A i : ArchivedIn(synced, i)' = ArchivedIn(synced, i)
    BY <2>1 DEF Receipts, Place, Low, Writes, ArchivedIn
  <2>3. \A i, k : Covered(i, k)' = Covered(i, k)
    BY <2>1, <2>2 DEF Covered
  <2>4. QED BY <2>1, <2>2, <2>3
            DEF CursorInv, MemoryCovered, TodoCovered, SavedCovered, SavedCursor
<1>10. CASE Handled
  <2>1. /\ pc = "write" /\ todo = <<>> /\ todo' = <<>> /\ DOMAIN todo' = {} /\ disk' = disk
        /\ synced' = synced /\ room' = room /\ blind' = blind
        /\ (pc' = "off" \/ cursor' = cursor)
    BY <1>10 DEF Handled, End, server
  <2>2. disk.anchor # None
    BY <2>1 DEF PlanInv, Writes
  <2>3. Receipts(Place)' = Receipts(Place) /\ Low' = Low
        /\ \A i : ArchivedIn(synced, i)' = ArchivedIn(synced, i)
    BY <2>1, <2>2 DEF Receipts, Place, Low, ArchivedIn
  <2>4. \A i, k : Covered(i, k)' = Covered(i, k)
    BY <2>1, <2>3 DEF Covered
  <2>5. QED BY <2>1, <2>3, <2>4
            DEF CursorInv, MemoryCovered, TodoCovered, SavedCovered, SavedCursor
<1>11. CASE \E m \in Signed \cup {Other} : Post(m)
  <2>1. /\ pc' = pc /\ disk' = disk /\ synced' = synced /\ blind' = blind /\ todo' = todo
        /\ cursor' = cursor /\ Low' = Low /\ \A i \in Place : room'[i] = room[i]
        /\ Len(room') = Len(room) + 1 /\ DOMAIN room' = 1..(Len(room) + 1)
    <3>1. PICK m \in Signed \cup {Other} : Post(m)
      BY <1>11
    <3>2. \A i \in Place : room'[i] = room[i]
      BY <3>1, PostFacts
    <3>3. Len(room') = Len(room) + 1 /\ room' \in Seq(Signed \cup {Other})
      BY <3>1, PostFacts
    <3>4. DOMAIN room' = 1..(Len(room) + 1)
      BY <3>3, LenProperties
    <3>5. QED BY <3>1, <3>2, <3>3, <3>4 DEF Post, Low
  <2>2. ASSUME NEW i \in Receipts(Place)', NEW c \in Cursors, i <= c
        PROVE  i \in Receipts(Place) /\ room'[i] = room[i]
    <3>1. i \in Place
      BY <2>1, <2>2, RoomFacts DEF Receipts, Place
    <3>2. QED BY <2>1, <2>2, <3>1 DEF Receipts
  <2>3. ASSUME NEW i \in Place PROVE ArchivedIn(synced, i)' = ArchivedIn(synced, i)
    <3>1. synced.blob \subseteq Place
      BY <1>0 DEF Dirs
    <3>2. QED BY <2>1, <3>1 DEF ArchivedIn
  <2>4. ASSUME NEW i \in Place, NEW k \in Nat, k <= Len(todo) + 1, Covered(i, k)
        PROVE  Covered(i, k)'
    <3>1. CASE ArchivedIn(synced, i)
      BY <2>3, <3>1 DEF Covered
    <3>2. CASE \E l \in 1..(k - 1) : todo[l].file = "meta" /\ room[todo[l].at] = room[i]
      <4>1. PICK l \in 1..(k - 1) : todo[l].file = "meta" /\ room[todo[l].at] = room[i]
        BY <3>2
      <4>2. todo[l] \in Entry
        <5>1. l \in 1..Len(todo) /\ todo \in Seq(Entry)
          BY <2>4, LenProperties DEF TypeOK
        <5>2. QED BY <5>1, ElementOfSeq
      <4>3. todo[l].at \in Place
        BY <4>1, <4>2 DEF Entry
      <4>4. QED BY <2>1, <4>1, <4>3 DEF Covered
    <3>3. QED BY <2>4, <3>1, <3>2 DEF Covered
  <2>5. Len(todo) \in Nat /\ DOMAIN todo = 1..Len(todo) /\ cursor \in Cursors
        /\ \A k \in DOMAIN todo : todo[k].file = "cursor" => todo[k].at \in Cursors
    <3>1. Len(todo) \in Nat /\ DOMAIN todo = 1..Len(todo) /\ \A k \in 1..Len(todo) : todo[k] \in Entry
      BY LenProperties, ElementOfSeq DEF TypeOK
    <3>2. QED BY <3>1 DEF TypeOK, Entry
  <2>6. SavedCovered'
    <3>1. disk.anchor # None => SavedCursor(disk) \in Cursors
      BY <1>0 DEF SavedCursor, Dirs
    <3>2. QED BY <2>1, <2>2, <2>3, <3>1 DEF CursorInv, SavedCovered, SavedCursor, Receipts
  <2>7. MemoryCovered'
    <3> SUFFICES ASSUME pc # "off", NEW i \in Receipts(Place)', Low < i, i <= cursor
                 PROVE  Covered(i, Len(todo) + 1)'
      BY <2>1 DEF MemoryCovered
    <3>1. i \in Receipts(Place)
      BY <2>2, <2>5
    <3>2. Covered(i, Len(todo) + 1)
      BY <2>1, <3>1 DEF CursorInv, MemoryCovered
    <3>3. i \in Place /\ Len(todo) + 1 \in Nat /\ Len(todo) + 1 <= Len(todo) + 1
      BY <2>5, <3>1 DEF Receipts
    <3>4. QED BY <2>1, <2>4, <3>2, <3>3
  <2>8. TodoCovered'
    <3> SUFFICES ASSUME NEW k \in DOMAIN todo, todo[k].file = "cursor",
                        NEW i \in Receipts(Place)', Low < i, i <= todo[k].at
                 PROVE  Covered(i, k)'
      BY <2>1 DEF TodoCovered
    <3>1. i \in Receipts(Place)
      BY <2>2, <2>5
    <3>2. Covered(i, k)
      BY <2>1, <3>1 DEF CursorInv, TodoCovered
    <3>3. QED BY <2>4, <2>5, <3>1, <3>2 DEF Receipts
  <2>9. QED BY <2>6, <2>7, <2>8
<1>12. CASE Drop \/ vars' = vars
  <2>1. /\ pc' = pc /\ disk' = disk /\ synced' = synced /\ room' = room
        /\ blind' = blind /\ todo' = todo /\ cursor' = cursor
    BY <1>12 DEF Drop, vars
  <2>2. Receipts(Place)' = Receipts(Place) /\ Low' = Low
        /\ \A i : ArchivedIn(synced, i)' = ArchivedIn(synced, i)
    BY <2>1 DEF Receipts, Place, Low, ArchivedIn
  <2>3. \A i, k : Covered(i, k)' = Covered(i, k)
    BY <2>1, <2>2 DEF Covered
  <2>4. QED BY <2>1, <2>2, <2>3
            DEF CursorInv, MemoryCovered, TodoCovered, SavedCovered, SavedCursor
<1>13. QED
  BY <1>1, <1>2, <1>3, <1>4, <1>5, <1>6, <1>7, <1>8, <1>9, <1>10, <1>11, <1>12, StepCases

-----------------------------------------------------------------------------
\* The inductive invariant holds of every behaviour.
THEOREM Invariance == Spec => []IInv
<1>1. ASSUME IInv, [Next]_vars PROVE IInv'
  BY <1>1, TypeStep, SyncedStep, PlanStep, OrderStep, CaughtStep, MarkerStep, CursorStep,
     AnswerStep DEF IInv
<1>2. QED BY InitIInv, <1>1, PTL DEF Spec

\* Whatever was interrupted, failed or lost, a receipt the observer was shown and
\* the durable cursor covers is a complete durable pair: no batch of writes, no
\* crash and no power loss lets the cursor overtake the evidence.
THEOREM EvidenceFirst == Spec => []EvidenceBeforeCursor
<1>1. IInv => EvidenceBeforeCursor
  <2> SUFFICES ASSUME IInv, NEW i \in seen, ~blind, synced.anchor # None,
                      synced.anchor < i, i <= SavedCursor(synced)
               PROVE  ArchivedIn(synced, i)
    BY DEF EvidenceBeforeCursor
  <2> USE DEF IInv
  <2>1. i \in Receipts(Place) /\ i \in Nat
    BY RoomFacts DEF TypeOK, Receipts
  <2>2. disk.anchor = synced.anchor
    BY DEF SyncedInv
  <2>3. i <= SavedCursor(disk)
    BY <2>1, <2>2, Marks DEF SyncedInv, SavedCursor
  <2>4. QED BY <2>1, <2>2, <2>3 DEF CursorInv, SavedCovered
<1>2. QED BY Invariance, <1>1, PTL

\* An answered disposition has a complete pair of it in the directory.
THEOREM AnswersHaveEvidence == Spec => []AnswerHasEvidence
<1>1. IInv => AnswerHasEvidence
  BY DEF IInv, AnswerInv
<1>2. QED BY Invariance, <1>1, PTL

\* The durable cursor never goes back, whatever subset of the unsynced writes a
\* power loss keeps.
THEOREM CursorAdvances == Spec => CursorOnlyAdvances
<1>1. ASSUME IInv, [Next]_vars PROVE SavedCursor(synced') >= SavedCursor(synced)
  <2> USE DEF IInv
  <2>1. SavedCursor(synced) \in Int /\ SavedCursor(disk) >= SavedCursor(synced)
    BY <1>1, Marks DEF SyncedInv, SavedCursor
  <2>2. CASE synced' = synced
    BY <2>1, <2>2
  <2>3. CASE SyncDirectory
    BY <2>1, <2>3 DEF SyncDirectory
  <2>4. CASE PowerLoss
    <3>1. /\ synced' = disk' /\ disk'.anchor \in {disk.anchor, synced.anchor}
          /\ disk'.progress \in {disk.progress, synced.progress}
      BY <1>1, <2>4, PowerLossDef
    <3>2. QED BY <1>1, <3>1, Marks DEF SyncedInv, SavedCursor
  <2>5. CASE Ending \/ StartSaved \/ Start \/ Page \/ PageWithGap \/ (Export /\ ExportHandled)
               \/ SkipWrite \/ CreateTemp \/ Rename \/ Handled
               \/ (\E m \in Signed \cup {Other} : Post(m)) \/ Drop \/ vars' = vars
    <3>1. synced' = synced
      BY <2>5 DEF Ending, StartSaved, Start, Page, PageWithGap, Export, SkipWrite, CreateTemp,
         Rename, Handled, Post, Drop, vars
    <3>2. QED BY <2>2, <3>1
  <2>6. QED BY <1>1, <2>3, <2>4, <2>5, StepCases
<1>2. QED BY Invariance, <1>1, PTL DEF Spec, CursorOnlyAdvances

\* Once a conflict is durably marked no run answers a disposition.
THEOREM MarkersAreFinal == Spec => MarkerIsFinal
<1>1. ASSUME IInv, [Next]_vars, synced.conflict # {} PROVE told' = told
  <2> USE DEF IInv
  <2>1. disk.conflict # {}
    BY <1>1 DEF SyncedInv
  <2>2. CASE StartSaved
    BY <2>1, <2>2 DEF StartSaved, Refused
  <2>3. CASE Handled
    <3>1. SUFFICES ASSUME End(Answer(caught)), pc = "write" PROVE told' = told
      BY <2>3 DEF Handled
    <3>2. Cardinality(Dispositions(caught)) > 1
      BY <1>1, <2>1, <3>1 DEF MarkerInv
    <3>3. Cardinality(Dispositions(caught)) # 1
      BY <3>2
    <3>4. QED BY <3>1, <3>3 DEF Answer, End
  <2>4. CASE Ending
    BY <2>4 DEF Ending, End, Nothing
  <2>5. CASE PowerLoss
    BY <2>5 DEF PowerLoss, End, Nothing
  <2>6. CASE Start \/ Page \/ PageWithGap \/ (Export /\ ExportHandled) \/ SkipWrite \/ CreateTemp
               \/ Rename \/ SyncDirectory
               \/ (\E m \in Signed \cup {Other} : Post(m)) \/ Drop \/ vars' = vars
    BY <2>6 DEF Start, Page, PageWithGap, ExportHandled, SkipWrite, CreateTemp, Rename, SyncDirectory,
       Post, Drop, vars
  <2>7. QED BY <1>1, <2>2, <2>3, <2>4, <2>5, <2>6, StepCases
<1>2. QED BY Invariance, <1>1, PTL DEF Spec, MarkerIsFinal
=============================================================================
