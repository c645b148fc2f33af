---------------------------- MODULE SequenceFacts ----------------------------
(***************************************************************************)
(* What the proofs need of numbers, finite sets and sequences and the      *)
(* library's theorem modules do not state: a set of numbers has a least    *)
(* element (the induction of these proofs: the least counterexample has    *)
(* none before it), a finite set is enumerated by any key that tells its   *)
(* elements apart, and what is where in a sequence that is taken apart or  *)
(* put together.                                                           *)
(***************************************************************************)
EXTENDS Integers, Sequences, FiniteSets, FiniteSetTheorems, SequenceTheorems,
        WellFoundedInduction, TLAPS

\* A set of numbers has a least element: the ordering of its initial segments by
\* strict inclusion is well-founded.
LEMMA LeastNat == ASSUME NEW T, T \subseteq Nat, T # {} PROVE \E x \in T : \A y \in T : x <= y
<1> DEFINE U == {0..x : x \in T}
<1>1. U \subseteq FiniteSubsetsOf(Nat) /\ U # {}
  <2>1. ASSUME NEW x \in T PROVE 0..x \in SUBSET Nat /\ IsFiniteSet(0..x)
    BY FS_Interval
  <2>2. QED BY <2>1 DEF FiniteSubsetsOf
<1>2. PICK u \in U : \A v \in U : ~(<<v, u>> \in StrictSubsetOrdering(Nat))
  <2> HIDE DEF U
  <2> QED BY <1>1, WFMin, FS_StrictSubsetOrderingWellFounded
<1>3. PICK x \in T : u = 0..x
  OBVIOUS
<1>4. ASSUME NEW y \in T, y < x PROVE FALSE
  <2>1. 0..y \in U /\ 0..y \subseteq 0..x /\ 0..y # 0..x
    <3>1. x \in 0..x /\ x \notin 0..y BY <1>4
    <3>2. 0..y \subseteq 0..x BY <1>4
    <3> QED BY <3>1, <3>2
  <2>2. 0..y \in SUBSET Nat /\ 0..x \in SUBSET Nat OBVIOUS
  <2>3. QED BY <1>2, <1>3, <2>1, <2>2 DEF StrictSubsetOrdering
<1>5. QED BY <1>4

\* A bounded one has a greatest element.
LEMMA GreatestNat ==
   ASSUME NEW T, T \subseteq Nat, T # {}, NEW n \in Nat, \A y \in T : y <= n
   PROVE  \E x \in T : \A y \in T : y <= x
<1> DEFINE U == {n - y : y \in T}
<1>1. U \subseteq Nat /\ U # {}
  <2>1. \A y \in T : n - y \in Nat
    OBVIOUS
  <2>2. QED BY <2>1
<1>2. PICK x \in U : \A y \in U : x <= y
  <2> HIDE DEF U
  <2> QED BY <1>1, LeastNat
<1>3. PICK z \in T : x = n - z
  OBVIOUS
<1>4. \A y \in T : n - z <= n - y
  BY <1>2, <1>3
<1>5. QED BY <1>4

\* A finite set whose elements have distinct keys is enumerated in their order.
LEMMA Enumeration ==
  ASSUME NEW V, IsFiniteSet(V), NEW key \in [V -> Nat],
         \A x, y \in V : key[x] = key[y] => x = y
  PROVE  \E s \in [1..Cardinality(V) -> V] :
            \A m, n \in 1..Cardinality(V) : m < n => key[s[m]] < key[s[n]]
<1> DEFINE N == Cardinality(V)
           Below(x) == {y \in V : key[y] <= key[x]}
           rank == [x \in V |-> Cardinality(Below(x))]
<1>1. N \in Nat
  BY FS_CardinalityType
<1>2. ASSUME NEW x \in V PROVE IsFiniteSet(Below(x)) /\ Cardinality(Below(x)) \in 1..N
  <2>1. Below(x) \in SUBSET V /\ x \in Below(x)
    OBVIOUS
  <2>2. IsFiniteSet(Below(x)) /\ Cardinality(Below(x)) <= N
    BY <2>1, FS_Subset
  <2>3. Cardinality(Below(x)) \in Nat /\ Cardinality(Below(x)) # 0
    BY <2>1, <2>2, FS_CardinalityType, FS_EmptySet
  <2>4. QED BY <1>1, <2>2, <2>3
<1>3. ASSUME NEW x \in V, NEW y \in V, key[x] < key[y] PROVE rank[x] < rank[y]
  <2>1. Below(x) \in SUBSET Below(y) /\ y \in Below(y) /\ y \notin Below(x)
    BY <1>3
  <2>2. Cardinality(Below(x)) <= Cardinality(Below(y)) /\ Cardinality(Below(x)) # Cardinality(Below(y))
    BY <1>2, <2>1, FS_Subset
  <2>3. QED BY <1>2, <2>2
<1>4. rank \in Injection(V, 1..N)
  <2>1. rank \in [V -> 1..N]
    BY <1>2
  <2>2. \A x, y \in V : rank[x] = rank[y] => x = y
    <3> SUFFICES ASSUME NEW x \in V, NEW y \in V, rank[x] = rank[y] PROVE x = y
      OBVIOUS
    <3>1. rank[x] \in Nat
      BY <1>1, <2>1
    <3> HIDE DEF rank
    <3>2. ~(key[x] < key[y]) /\ ~(key[y] < key[x])
      BY <1>3, <3>1
    <3>3. key[x] = key[y]
      BY <3>2
    <3>4. QED BY <3>3
  <2>3. QED BY <2>1, <2>2 DEF Injection, IsInjective
<1>5. rank \in Surjection(V, 1..N)
  <2>1. IsFiniteSet(1..N) /\ Cardinality(1..N) = N
    BY <1>1, FS_Interval
  <2>2. QED BY <1>4, <2>1, FS_Injection
<1>6. \A m \in 1..N : \E x \in V : rank[x] = m
  BY <1>5 DEF Surjection
<1> DEFINE s == [m \in 1..N |-> CHOOSE x \in V : rank[x] = m]
<1>7. \A m \in 1..N : s[m] \in V /\ rank[s[m]] = m
  <2> HIDE DEF rank
  <2> QED BY <1>6
<1>8. s \in [1..N -> V]
  BY <1>7
<1>9. ASSUME NEW m \in 1..N, NEW n \in 1..N, m < n PROVE key[s[m]] < key[s[n]]
  <2> HIDE DEF s, rank
  <2>1. ~(key[s[n]] < key[s[m]])
    BY <1>3, <1>7, <1>9
  <2>2. key[s[n]] # key[s[m]]
    BY <1>7, <1>9
  <2>3. key[s[n]] \in Nat /\ key[s[m]] \in Nat
    BY <1>7
  <2>4. QED BY <2>1, <2>2, <2>3
<1>10. QED BY <1>8, <1>9

\* An enumeration in order leaves nothing out.
LEMMA EnumeratesAll ==
  ASSUME NEW V, IsFiniteSet(V), NEW s \in [1..Cardinality(V) -> V],
         \A m, n \in 1..Cardinality(V) : m # n => s[m] # s[n]
  PROVE  \A x \in V : \E m \in 1..Cardinality(V) : s[m] = x
<1>1. Cardinality(V) \in Nat
  BY FS_CardinalityType
<1>2. s \in Injection(1..Cardinality(V), V)
  BY DEF Injection, IsInjective
<1>3. s \in Surjection(1..Cardinality(V), V)
  BY <1>1, <1>2, FS_Injection, FS_Interval
<1>4. QED BY <1>3 DEF Surjection
-----------------------------------------------------------------------------
(* Sequences.                                                              *)

\* A sequence without its head.
LEMMA TailDef ==
    ASSUME NEW E, NEW t \in Seq(E), t # <<>>
    PROVE  /\ Tail(t) \in Seq(E) /\ Len(t) \in Nat \ {0} /\ Len(Tail(t)) = Len(t) - 1
           /\ Head(t) = t[1] /\ t[1] \in E /\ DOMAIN t = 1..Len(t) /\ 1 \in DOMAIN t
           /\ DOMAIN Tail(t) = 1..(Len(t) - 1)
           /\ \A k \in DOMAIN Tail(t) : k + 1 \in DOMAIN t /\ Tail(t)[k] = t[k + 1]
<1>1. Len(t) \in Nat /\ DOMAIN t = 1..Len(t) /\ Len(t) # 0
  BY EmptySeq, LenProperties
<1>2. Tail(t) \in Seq(E) /\ Head(t) = t[1] /\ Len(Tail(t)) = Len(t) - 1
      /\ \A k \in 1..Len(Tail(t)) : Tail(t)[k] = t[k + 1]
  BY HeadTailProperties
<1>3. DOMAIN Tail(t) = 1..(Len(t) - 1)
  BY <1>1, <1>2, LenProperties
<1>4. t[1] \in E
  BY <1>1, ElementOfSeq
<1>5. QED BY <1>1, <1>2, <1>3, <1>4

\* A sequence with one more element at its end, and one with one more in front.
LEMMA AppendDef ==
    ASSUME NEW E, NEW a \in Seq(E), NEW x \in E
    PROVE  /\ a \o <<x>> \in Seq(E) /\ Len(a) \in Nat /\ DOMAIN a = 1..Len(a)
           /\ Len(a \o <<x>>) = Len(a) + 1 /\ DOMAIN (a \o <<x>>) = 1..(Len(a) + 1)
           /\ (a \o <<x>>)[Len(a) + 1] = x
           /\ \A k \in 1..Len(a) : (a \o <<x>>)[k] = a[k]
<1>1. Len(a) \in Nat /\ DOMAIN a = 1..Len(a)
  BY LenProperties
<1>2. <<x>> \in Seq(E) /\ Len(<<x>>) = 1 /\ <<x>>[1] = x
  OBVIOUS
<1>3. a \o <<x>> \in Seq(E) /\ Len(a \o <<x>>) = Len(a) + 1
  BY <1>2, ConcatProperties
<1>4. DOMAIN (a \o <<x>>) = 1..(Len(a) + 1)
  BY <1>3, LenProperties
<1>5. ASSUME NEW k \in 1..(Len(a) + 1)
      PROVE (a \o <<x>>)[k] = IF k <= Len(a) THEN a[k] ELSE x
  BY <1>1
<1>6. QED BY <1>1, <1>3, <1>4, <1>5

LEMMA ConsDef ==
    ASSUME NEW E, NEW a \in Seq(E), NEW x \in E
    PROVE  /\ <<x>> \o a \in Seq(E) /\ Len(a) \in Nat /\ DOMAIN a = 1..Len(a)
           /\ Len(<<x>> \o a) = Len(a) + 1 /\ DOMAIN (<<x>> \o a) = 1..(Len(a) + 1)
           /\ (<<x>> \o a)[1] = x
           /\ \A k \in 1..Len(a) : (<<x>> \o a)[k + 1] = a[k]
<1>1. Len(a) \in Nat /\ DOMAIN a = 1..Len(a)
  BY LenProperties
<1>2. <<x>> \in Seq(E) /\ Len(<<x>>) = 1 /\ <<x>>[1] = x
  OBVIOUS
<1>3. <<x>> \o a \in Seq(E) /\ Len(<<x>> \o a) = Len(a) + 1
  BY <1>1, <1>2, ConcatProperties
<1>4. DOMAIN (<<x>> \o a) = 1..(Len(a) + 1)
  BY <1>3, LenProperties
<1>5. ASSUME NEW k \in 1..(Len(a) + 1)
      PROVE (<<x>> \o a)[k] = IF k = 1 THEN x ELSE a[k - 1]
  BY <1>1
<1>6. QED BY <1>1, <1>3, <1>4, <1>5

-----------------------------------------------------------------------------
(* Sums over a finite set, which the library defines by recursion over its *)
(* subsets: the sum of g counts the units that g gives to the elements.    *)
Units(g, s) == UNION {{x} \X (1..g[x]) : x \in s}

\* A set of subsets of a finite set has one that contains no other.
LEMMA LeastSet ==
    ASSUME NEW G, IsFiniteSet(G), NEW T, T \subseteq SUBSET G, T # {}
    PROVE  \E t \in T : \A u \in T : ~(u \subseteq t /\ u # t)
<1>1. T \subseteq FiniteSubsetsOf(G)
  BY FS_Subset DEF FiniteSubsetsOf
<1>2. PICK t \in T : \A u \in T : ~(<<u, t>> \in StrictSubsetOrdering(G))
  BY <1>1, WFMin, FS_StrictSubsetOrderingWellFounded
<1>3. QED BY <1>2 DEF StrictSubsetOrdering

LEMMA UnitsOf ==
    ASSUME NEW g, NEW s, NEW p
    PROVE  p \in Units(g, s) <=> \E x \in s : \E k \in 1..g[x] : p = <<x, k>>
  BY DEF Units

LEMMA UnitsSplit ==
    ASSUME NEW g, NEW s, NEW x \in s, g[x] \in Nat, IsFiniteSet(Units(g, s \ {x}))
    PROVE  /\ IsFiniteSet(Units(g, s))
           /\ Cardinality(Units(g, s)) = g[x] + Cardinality(Units(g, s \ {x}))
<1> DEFINE U == Units(g, s \ {x})
           V == {x} \X (1..g[x])
<1>1. Units(g, s) = V \cup U
  BY DEF Units
<1>2. U \cap V = {}
  BY DEF Units
<1>3. IsFiniteSet(V) /\ Cardinality(V) = g[x]
  <2>1. IsFiniteSet({x}) /\ Cardinality({x}) = 1
    BY FS_Singleton
  <2>2. IsFiniteSet(1..g[x]) /\ Cardinality(1..g[x]) = g[x]
    BY FS_Interval
  <2>3. g[x] \in Nat /\ 1 * g[x] = g[x]
    OBVIOUS
  <2>4. IsFiniteSet(V) /\ Cardinality(V) = Cardinality({x}) * Cardinality(1..g[x])
    BY <2>1, <2>2, FS_Product
  <2> HIDE DEF V
  <2>5. QED BY <2>1, <2>2, <2>3, <2>4
<1>4. IsFiniteSet(U)
  OBVIOUS
<1>5. Cardinality(V \cup U) = Cardinality(V) + Cardinality(U) /\ IsFiniteSet(V \cup U)
  <2> HIDE DEF U, V
  <2>1. Cardinality(V \cap U) = 0
    BY <1>2, FS_EmptySet
  <2>2. Cardinality(U) \in Nat /\ Cardinality(V) \in Nat
    BY <1>3, <1>4, FS_CardinalityType
  <2>3. IsFiniteSet(V \cup U)
        /\ Cardinality(V \cup U) = Cardinality(V) + Cardinality(U) - Cardinality(V \cap U)
    BY <1>3, <1>4, FS_Union
  <2>4. QED BY <2>1, <2>2, <2>3
<1>6. QED BY <1>1, <1>3, <1>5

LEMMA UnitsFinite ==
    ASSUME NEW G, IsFiniteSet(G), NEW g \in [G -> Nat], NEW s \in SUBSET G
    PROVE  IsFiniteSet(Units(g, s)) /\ Cardinality(Units(g, s)) \in Nat
<1> DEFINE T == {u \in SUBSET G : ~IsFiniteSet(Units(g, u))}
<1>1. CASE T # {}
  <2>1. PICK t \in T : \A u \in T : ~(u \subseteq t /\ u # t)
    <3>1. T \subseteq SUBSET G
      OBVIOUS
    <3> HIDE DEF T
    <3> QED BY <1>1, <3>1, LeastSet
  <2>2. t # {}
    <3>1. Units(g, {}) = {}
      BY DEF Units
    <3>2. QED BY <3>1, FS_EmptySet
  <2>3. PICK x \in t : TRUE
    BY <2>2
  <2>4. t \ {x} \in SUBSET G /\ t \ {x} # t /\ g[x] \in Nat
    BY <2>3
  <2>5. IsFiniteSet(Units(g, t \ {x}))
    BY <2>1, <2>4
  <2>6. QED BY <2>3, <2>4, <2>5, UnitsSplit
<1>2. QED BY <1>1, FS_CardinalityType

\* The recursion has a solution, and only one.
LEMMA SumIsUnits ==
    ASSUME NEW R, IsFiniteSet(R), NEW g \in [R -> Nat], NEW G \in SUBSET R
    PROVE  LET Sum(i) == [s \in SUBSET G |-> IF s = {} THEN 0
                             ELSE LET x == CHOOSE x \in s : TRUE IN g[x] + i[s \ {x}]]
           IN  (CHOOSE i : i = Sum(i))[G] = Cardinality(Units(g, G))
<1> DEFINE Sum(i) == [s \in SUBSET G |-> IF s = {} THEN 0
                         ELSE LET x == CHOOSE x \in s : TRUE IN g[x] + i[s \ {x}]]
           Number == [s \in SUBSET G |-> Cardinality(Units(g, s))]
           Any == CHOOSE i : i = Sum(i)
<1>0. IsFiniteSet(G)
  BY FS_Subset
<1>1. ASSUME NEW s \in SUBSET G, s # {}
      PROVE  LET x == CHOOSE x \in s : TRUE
             IN  x \in s /\ s \ {x} \in SUBSET G /\ s \ {x} # s
                 /\ Number[s] = g[x] + Number[s \ {x}]
  <2> DEFINE x == CHOOSE x \in s : TRUE
  <2>1. x \in s
    BY <1>1
  <2> HIDE DEF x
  <2>2. g[x] \in Nat /\ s \ {x} \in SUBSET G /\ s \ {x} # s
    BY <2>1
  <2>3. IsFiniteSet(Units(g, s \ {x}))
    BY <2>2, UnitsFinite
  <2>4. Number[s] = g[x] + Number[s \ {x}]
    BY <2>1, <2>2, <2>3, UnitsSplit
  <2>5. QED BY <2>1, <2>2, <2>4 DEF x
<1>2. Number[{}] = 0
  BY FS_EmptySet DEF Units
<1>3. Number = Sum(Number)
  BY <1>1, <1>2
<1>4. Any = Sum(Any)
  <2> HIDE DEF Number, Sum
  <2> QED BY <1>3
<1>5. \A s \in SUBSET G : Any[s] = Sum(Any)[s]
  <2> HIDE DEF Any, Sum
  <2> QED BY <1>4
<1> HIDE DEF Any, Number
<1>6. Any[{}] = 0
  BY <1>5
<1>7. ASSUME NEW s \in SUBSET G, s # {}, \A t \in SUBSET G : t \subseteq s /\ t # s => Any[t] = Number[t]
      PROVE  Any[s] = Number[s]
  <2> DEFINE x == CHOOSE x \in s : TRUE
  <2>1. Any[s] = g[x] + Any[s \ {x}]
    BY <1>5, <1>7
  <2>2. s \ {x} \in SUBSET G /\ s \ {x} # s /\ Number[s] = g[x] + Number[s \ {x}]
    BY <1>1, <1>7
  <2> HIDE DEF x
  <2>3. QED BY <1>7, <2>1, <2>2
<1> DEFINE T == {s \in SUBSET G : Any[s] # Number[s]}
<1>8. T = {}
  <2> SUFFICES ASSUME T # {} PROVE FALSE
    OBVIOUS
  <2>1. PICK t \in T : \A u \in T : ~(u \subseteq t /\ u # t)
    <3>1. T \subseteq SUBSET G
      OBVIOUS
    <3> HIDE DEF T
    <3> QED BY <1>0, <3>1, LeastSet
  <2>2. t # {}
    BY <1>2, <1>6
  <2>3. \A u \in SUBSET G : u \subseteq t /\ u # t => Any[u] = Number[u]
    BY <2>1
  <2>4. QED BY <1>7, <2>2, <2>3
<1>9. Any[G] = Number[G]
  BY <1>8
<1>10. QED BY <1>9 DEF Any, Number

\* One unit more.
LEMMA UnitsPlus ==
    ASSUME NEW G, IsFiniteSet(G), NEW g \in [G -> Nat], NEW h \in [G -> Nat], NEW x \in G,
           NEW s \in SUBSET G, x \in s,
           h[x] = g[x] + 1, \A y \in G \ {x} : h[y] = g[y]
    PROVE  Cardinality(Units(h, s)) = Cardinality(Units(g, s)) + 1
<1> DEFINE t == s \ {x}
<1>1. t \in SUBSET G /\ \A y \in t : h[y] = g[y]
  OBVIOUS
<1>2. Units(h, t) = Units(g, t)
  <2> HIDE DEF t
  <2> QED BY <1>1 DEF Units
<1>3. IsFiniteSet(Units(g, t)) /\ Cardinality(Units(g, t)) \in Nat
  <2> HIDE DEF t
  <2> QED BY <1>1, UnitsFinite
<1>4. Cardinality(Units(g, s)) = g[x] + Cardinality(Units(g, t))
  BY <1>3, UnitsSplit
<1>5. Cardinality(Units(h, s)) = h[x] + Cardinality(Units(h, t))
  BY <1>2, <1>3, UnitsSplit
<1>6. g[x] \in Nat
  OBVIOUS
<1> HIDE DEF t
<1>7. QED BY <1>2, <1>3, <1>4, <1>5, <1>6
=============================================================================
