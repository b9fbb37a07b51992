--------------------------------- MODULE Sums ---------------------------------
(***************************************************************************)
(* Sums over finite sets as cardinalities, for the proofs about counters   *)
(* and budgets: the sum of n over a set ps is how many places its members  *)
(* have, p having n[p] of them.                                            *)
(***************************************************************************)
EXTENDS Integers, FiniteSets, FiniteSetTheorems, WellFoundedInduction, TLAPS

\* The places of a set whose members p have n[p] each.
Spots(n, ps) == UNION {{p} \X (1 .. n[p]) : p \in ps}

LEMMA SpotsFinite ==
    ASSUME NEW ps, IsFiniteSet(ps), NEW n \in [ps -> Nat]
    PROVE  IsFiniteSet(Spots(n, ps)) /\ Cardinality(Spots(n, ps)) \in Nat
<1> DEFINE f == [p \in ps |-> {p} \X (1 .. n[p])]
           sets == {{p} \X (1 .. n[p]) : p \in ps}
<1>1. f \in Surjection(ps, sets)
  BY DEF Surjection
<1>2. IsFiniteSet(sets)
  <2> HIDE DEF f, sets
  <2> QED
    BY <1>1, FS_Surjection
<1>3. ASSUME NEW T \in sets PROVE IsFiniteSet(T)
  <2>1. PICK p \in ps : T = {p} \X (1 .. n[p])
    BY <1>3
  <2>2. IsFiniteSet({p}) /\ IsFiniteSet(1 .. n[p])
    <3>1. 1 \in Int /\ n[p] \in Int
      BY <2>1
    <3> QED
      BY <3>1, FS_Singleton, FS_Interval
  <2> QED
    BY <2>1, <2>2, FS_Product
<1>4. IsFiniteSet(UNION sets)
  <2> HIDE DEF sets
  <2> QED
    BY <1>2, <1>3, FS_UNION
<1> QED
  BY <1>4, FS_CardinalityType DEF Spots

LEMMA SpotsAdd ==
    ASSUME NEW ps, IsFiniteSet(ps), NEW p, p \notin ps, NEW n \in [ps \cup {p} -> Nat]
    PROVE  Cardinality(Spots(n, ps \cup {p})) = Cardinality(Spots(n, ps)) + n[p]
<1> DEFINE own == {p} \X (1 .. n[p])
           others == Spots(n, ps)
           m == [q \in ps |-> n[q]]
<1>1. Spots(n, ps \cup {p}) = others \cup own /\ others \cap own = {}
  BY DEF Spots
<1>2. IsFiniteSet(others) /\ Cardinality(others) \in Nat
  <2>1. m \in [ps -> Nat] /\ others = Spots(m, ps)
    BY DEF Spots
  <2> HIDE DEF m
  <2> QED
    BY <2>1, SpotsFinite
<1>3. IsFiniteSet(own) /\ Cardinality(own) = n[p]
  <2>1. /\ IsFiniteSet({p}) /\ Cardinality({p}) = 1
        /\ IsFiniteSet(1 .. n[p]) /\ Cardinality(1 .. n[p]) = n[p]
    <3>1. 1 \in Int /\ n[p] \in Nat /\ n[p] \in Int
      OBVIOUS
    <3>2. IsFiniteSet(1 .. n[p]) /\ Cardinality(1 .. n[p]) = IF 1 > n[p] THEN 0 ELSE n[p] - 1 + 1
      BY <3>1, FS_Interval
    <3>3. IsFiniteSet({p}) /\ Cardinality({p}) = 1
      BY FS_Singleton
    <3> QED
      BY <3>1, <3>2, <3>3
  <2>2. IsFiniteSet(own) /\ Cardinality(own) = Cardinality({p}) * Cardinality(1 .. n[p])
    BY <2>1, FS_Product
  <2> QED
    BY <2>1, <2>2
<1> HIDE DEF own, others
<1>4. Cardinality(others \cup own) = Cardinality(others) + Cardinality(own) - Cardinality(others \cap own)
  BY <1>2, <1>3, FS_Union
<1>5. Cardinality(others \cap own) = 0
  BY <1>1, FS_EmptySet, Zenon
<1>6. n[p] \in Nat
  OBVIOUS
<1>7. Cardinality(Spots(n, ps \cup {p})) = Cardinality(others \cup own)
  BY <1>1, Zenon
<1>8. Cardinality(others) = Cardinality(Spots(n, ps))
  BY Zenon DEF others
<1> QED
  BY <1>2, <1>3, <1>4, <1>5, <1>6, <1>7, <1>8

\* The places of one member, and of the others.
LEMMA Without ==
    ASSUME NEW U, IsFiniteSet(U), NEW R \in SUBSET U, NEW k \in [U -> Nat], NEW p
    PROVE  /\ Cardinality(Spots(k, R)) \in Nat /\ Cardinality(Spots(k, R \ {p})) \in Nat
           /\ p \in R => Cardinality(Spots(k, R)) = Cardinality(Spots(k, R \ {p})) + k[p]
           /\ p \notin R => Cardinality(Spots(k, R)) = Cardinality(Spots(k, R \ {p}))
<1> DEFINE h == [q \in R |-> k[q]]
           o == [q \in R \ {p} |-> k[q]]
<1>1. /\ IsFiniteSet(R) /\ IsFiniteSet(R \ {p})
      /\ h \in [R -> Nat] /\ o \in [R \ {p} -> Nat]
  BY FS_Subset
<1>2. /\ Spots(k, R) = Spots(h, R)
      /\ Spots(k, R \ {p}) = Spots(h, R \ {p}) /\ Spots(k, R \ {p}) = Spots(o, R \ {p})
  BY DEF Spots
<1>3. p \in R => h[p] = k[p] /\ (R \ {p}) \cup {p} = R /\ k[p] \in Nat
  OBVIOUS
<1> HIDE DEF h, o
<1>4. Cardinality(Spots(h, R)) \in Nat /\ Cardinality(Spots(o, R \ {p})) \in Nat
  BY <1>1, SpotsFinite
<1>5. ASSUME p \in R
      PROVE  Cardinality(Spots(k, R)) = Cardinality(Spots(k, R \ {p})) + k[p]
  <2>1. h \in [(R \ {p}) \cup {p} -> Nat]
    BY <1>1, <1>3, <1>5
  <2>2. Cardinality(Spots(h, (R \ {p}) \cup {p})) = Cardinality(Spots(h, R \ {p})) + h[p]
    BY <1>1, <2>1, SpotsAdd
  <2> QED
    BY <1>2, <1>3, <1>5, <2>2
<1>6. p \notin R => R \ {p} = R
  OBVIOUS
<1>7. p \notin R => Cardinality(Spots(k, R)) = Cardinality(Spots(k, R \ {p}))
  BY <1>6, Zenon
<1> QED
  BY <1>2, <1>4, <1>5, <1>7

\* One member more or less, and the others as they were.
LEMMA Weigh ==
    ASSUME NEW U, IsFiniteSet(U), NEW S \in SUBSET U, NEW T \in SUBSET U, NEW p,
           S \ {p} = T \ {p}, NEW m \in [U -> Nat], NEW n \in [U -> Nat],
           \A q \in S \ {p} : m[q] = n[q]
    PROVE  \E rest \in Nat :
              /\ Cardinality(Spots(m, S)) = rest + (IF p \in S THEN m[p] ELSE 0)
              /\ Cardinality(Spots(n, T)) = rest + (IF p \in T THEN n[p] ELSE 0)
<1>1. Spots(m, S \ {p}) = Spots(n, T \ {p})
  BY DEF Spots
<1>2. /\ p \in S => Cardinality(Spots(m, S)) = Cardinality(Spots(m, S \ {p})) + m[p]
      /\ p \notin S => Cardinality(Spots(m, S)) = Cardinality(Spots(m, S \ {p}))
  BY Without
<1>10. Cardinality(Spots(m, S \ {p})) \in Nat
  BY Without, Zenon
<1>3. /\ p \in T => Cardinality(Spots(n, T)) = Cardinality(Spots(n, T \ {p})) + n[p]
      /\ p \notin T => Cardinality(Spots(n, T)) = Cardinality(Spots(n, T \ {p}))
  BY Without
<1>4. Cardinality(Spots(m, S \ {p})) = Cardinality(Spots(n, T \ {p}))
  BY <1>1, Zenon
<1> DEFINE rest == Cardinality(Spots(m, S \ {p}))
<1>5. p \in S => m[p] \in Nat
  OBVIOUS
<1>6. p \in T => n[p] \in Nat
  OBVIOUS
<1>7. rest \in Nat
  BY <1>10
<1>8. Cardinality(Spots(m, S)) = rest + (IF p \in S THEN m[p] ELSE 0)
  BY <1>2, <1>5, <1>10
<1>9. Cardinality(Spots(n, T)) = rest + (IF p \in T THEN n[p] ELSE 0)
  BY <1>3, <1>4, <1>6, <1>10
<1> HIDE DEF rest
<1> QED
  BY <1>7, <1>8, <1>9

\* More senders have no fewer places.
LEMMA Heavier ==
    ASSUME NEW U, IsFiniteSet(U), NEW S \in SUBSET U, NEW T \in SUBSET S, NEW n \in [U -> Nat]
    PROVE  /\ Cardinality(Spots(n, T)) <= Cardinality(Spots(n, S))
           /\ Cardinality(Spots(n, T)) \in Nat /\ Cardinality(Spots(n, S)) \in Nat
<1> DEFINE h == [q \in S |-> n[q]]
<1>1. IsFiniteSet(S) /\ h \in [S -> Nat]
  BY FS_Subset
<1>2. Spots(n, S) = Spots(h, S) /\ Spots(n, T) \subseteq Spots(n, S)
  BY DEF Spots
<1> HIDE DEF h
<1>3. IsFiniteSet(Spots(n, S))
  BY <1>1, <1>2, SpotsFinite
<1>4. IsFiniteSet(Spots(n, T)) /\ Cardinality(Spots(n, T)) <= Cardinality(Spots(n, S))
  BY <1>2, <1>3, FS_Subset
<1> QED
  BY <1>3, <1>4, FS_CardinalityType

\* Two sets that have nobody in common.
LEMMA Apart ==
    ASSUME NEW U, IsFiniteSet(U), NEW S \in SUBSET U, NEW T \in SUBSET U, S \cap T = {},
           NEW n \in [U -> Nat]
    PROVE  Cardinality(Spots(n, S \cup T)) = Cardinality(Spots(n, S)) + Cardinality(Spots(n, T))
<1> DEFINE h == [q \in S |-> n[q]]
           k == [q \in T |-> n[q]]
<1>1. IsFiniteSet(S) /\ h \in [S -> Nat] /\ IsFiniteSet(T) /\ k \in [T -> Nat]
  BY FS_Subset
<1>2. /\ Spots(n, S) = Spots(h, S) /\ Spots(n, T) = Spots(k, T)
      /\ Spots(n, S \cup T) = Spots(n, S) \cup Spots(n, T)
      /\ Spots(n, S) \cap Spots(n, T) = {}
  BY DEF Spots
<1> HIDE DEF h, k
<1>3. /\ IsFiniteSet(Spots(n, S)) /\ IsFiniteSet(Spots(n, T))
      /\ Cardinality(Spots(n, S)) \in Nat /\ Cardinality(Spots(n, T)) \in Nat
  BY <1>1, <1>2, SpotsFinite
<1>4. Cardinality(Spots(n, S) \cap Spots(n, T)) = 0
  BY <1>2, FS_EmptySet, Zenon
<1>5. Cardinality(Spots(n, S \cup T)) = Cardinality(Spots(n, S) \cup Spots(n, T))
  BY <1>2, Zenon
<1>6. Cardinality(Spots(n, S) \cup Spots(n, T))
      = Cardinality(Spots(n, S)) + Cardinality(Spots(n, T)) - Cardinality(Spots(n, S) \cap Spots(n, T))
  BY <1>3, FS_Union
<1> QED
  BY <1>3, <1>4, <1>5, <1>6

\* Members of at most k places each.
LEMMA Bounded ==
    ASSUME NEW ps, IsFiniteSet(ps), NEW k \in Nat, NEW n, \A p \in ps : n[p] \in Nat /\ n[p] <= k
    PROVE  Cardinality(Spots(n, ps)) <= Cardinality(ps) * k /\ Cardinality(Spots(n, ps)) \in Nat
<1>1. Spots(n, ps) \subseteq ps \X (1 .. k)
  BY DEF Spots
<1>2. IsFiniteSet(1 .. k) /\ Cardinality(1 .. k) = k
  <2>1. 1 \in Int /\ k \in Int
    OBVIOUS
  <2>2. IsFiniteSet(1 .. k) /\ Cardinality(1 .. k) = IF 1 > k THEN 0 ELSE k - 1 + 1
    BY <2>1, FS_Interval
  <2> QED
    BY <2>2
<1>3. IsFiniteSet(ps \X (1 .. k)) /\ Cardinality(ps \X (1 .. k)) = Cardinality(ps) * Cardinality(1 .. k)
  BY <1>2, FS_Product
<1>4. IsFiniteSet(Spots(n, ps)) /\ Cardinality(Spots(n, ps)) <= Cardinality(ps \X (1 .. k))
  BY <1>1, <1>3, FS_Subset
<1>5. Cardinality(Spots(n, ps)) \in Nat
  BY <1>4, FS_CardinalityType
<1> QED
  BY <1>2, <1>3, <1>4, <1>5

-----------------------------------------------------------------------------
(* The first and the last of a set of numbers.                              *)

\* A finite set of numbers has a greatest.
LEMMA Greatest ==
    ASSUME NEW S \in SUBSET Int, IsFiniteSet(S), S # {}
    PROVE  \E a \in S : \A b \in S : b <= a
<1> DEFINE below(a) == {b \in S : b < a}
           left(a) == Cardinality(S) - Cardinality(below(a))
           T == {left(a) : a \in S}
<1>1. \A a \in S : IsFiniteSet(below(a)) /\ Cardinality(below(a)) \in Nat
                   /\ Cardinality(below(a)) <= Cardinality(S)
  <2> SUFFICES ASSUME NEW a \in S
               PROVE  IsFiniteSet(below(a)) /\ Cardinality(below(a)) \in Nat
                      /\ Cardinality(below(a)) <= Cardinality(S)
    OBVIOUS
  <2>1. below(a) \subseteq S
    OBVIOUS
  <2> HIDE DEF below
  <2> QED
    BY <2>1, FS_Subset, FS_CardinalityType
<1>2. Cardinality(S) \in Nat
  BY FS_CardinalityType
<1> HIDE DEF below
<1>3. T \subseteq Nat /\ T # {}
  <2>1. \A a \in S : left(a) \in Nat
    BY <1>1, <1>2
  <2> QED
    BY <2>1
<1>4. \E x \in T : \A y \in T : ~(y < x)
  <2> DEFINE R == {ss \in Nat \X Nat : ss[1] < ss[2]}
  <2>1. IsWellFoundedOn(R, Nat)
    BY NatLessThanWellFounded DEF OpToRel
  <2> HIDE DEF T
  <2>2. \A x \in T, y \in T : y < x => <<y, x>> \in R
    BY <1>3
  <2> HIDE DEF R
  <2>3. \E x \in T : \A y \in T : ~(<<y, x>> \in R)
    BY <1>3, <2>1, WFMin, Zenon
  <2> QED
    BY <2>2, <2>3
<1>5. PICK a \in S : \A b \in S : ~(left(b) < left(a))
  BY <1>4
<1>6. ASSUME NEW b \in S, a < b PROVE FALSE
  <2>1. below(a) \cup {a} \subseteq below(b) /\ a \notin below(a)
    <3>1. a \in Int /\ b \in Int /\ ~(a < a) /\ \A c \in S : c < a => c < b
      BY <1>6
    <3> QED
      BY <1>6, <3>1 DEF below
  <2>2. Cardinality(below(a) \cup {a}) = Cardinality(below(a)) + 1
    BY <1>1, <2>1, FS_AddElement
  <2>3. Cardinality(below(a) \cup {a}) <= Cardinality(below(b))
    BY <1>1, <2>1, FS_Subset
  <2>4. left(b) < left(a)
    BY <1>1, <1>2, <2>2, <2>3
  <2> QED
    BY <1>5, <2>4
<1> QED
  BY <1>5, <1>6

\* A set of naturals has a least.
LEMMA Least ==
    ASSUME NEW S \in SUBSET Nat, S # {}
    PROVE  \E a \in S : \A b \in S : a <= b
<1> DEFINE R == {ss \in Nat \X Nat : ss[1] < ss[2]}
<1>1. IsWellFoundedOn(R, Nat)
  BY NatLessThanWellFounded DEF OpToRel
<1>2. \A x \in S, y \in S : y < x => <<y, x>> \in R
  OBVIOUS
<1> HIDE DEF R
<1>3. \E x \in S : \A y \in S : ~(<<y, x>> \in R)
  BY <1>1, WFMin, Zenon
<1>4. PICK x \in S : \A y \in S : ~(y < x)
  BY <1>2, <1>3
<1>5. ASSUME NEW y \in S PROVE x <= y
  BY <1>4
<1> QED
  BY <1>5
=============================================================================
