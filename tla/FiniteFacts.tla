----------------------------- MODULE FiniteFacts -----------------------------
(***************************************************************************)
(* Facts about numbers and finite sets that the proofs of the imports and  *)
(* of the queries need.  The induction theorems of the library take an     *)
(* operator; these take a set, the set of all arguments for which a claim  *)
(* holds, and follow from the existence of minimal elements.               *)
(***************************************************************************)
EXTENDS Integers, FiniteSets, FiniteSetTheorems, WellFoundedInduction, TLAPS

(* Every set of natural numbers that is not empty has a least member.      *)
LEMMA LeastNatural ==
  ASSUME NEW T \in SUBSET Nat, NEW x \in T
  PROVE  \E n \in T : \A m \in T : n <= m
<1>1. IsWellFoundedOn(OpToRel(<, Nat), Nat)
  BY NatLessThanWellFounded, Zenon
<1>2. \E n \in T : ~(\E y \in T : <<y, n>> \in OpToRel(<, Nat))
  BY <1>1, WFMin, Zenon
<1> QED
  BY <1>2 DEF OpToRel

(* Induction over the natural numbers.                                     *)
LEMMA NaturalInduction ==
  ASSUME NEW T, 0 \in T, \A n \in Nat : n \in T => n + 1 \in T
  PROVE  Nat \subseteq T
<1> SUFFICES ASSUME NEW x \in Nat, x \notin T PROVE FALSE
  OBVIOUS
<1>1. PICK n \in Nat \ T : \A m \in Nat \ T : n <= m
  BY LeastNatural
<1>2. n # 0 /\ n - 1 \in Nat
  BY <1>1
<1>3. n - 1 \in T
  BY <1>1, <1>2
<1>4. (n - 1) + 1 \in T
  BY <1>2, <1>3
<1> QED
  BY <1>1, <1>2, <1>4

(* Induction over the subsets of a finite set.                             *)
LEMMA FiniteInduction ==
  ASSUME NEW S, IsFiniteSet(S), NEW Q, {} \in Q,
         \A U \in SUBSET S : \A x \in S \ U : U \in Q => U \cup {x} \in Q
  PROVE  S \in Q
<1> DEFINE T == {n \in Nat : \A U \in SUBSET S : Cardinality(U) = n => U \in Q}
<1>1. 0 \in T
  BY FS_EmptySet, FS_Subset
<1>2. \A n \in Nat : n \in T => n + 1 \in T
  <2> SUFFICES ASSUME NEW n \in Nat, n \in T, NEW U \in SUBSET S,
                      Cardinality(U) = n + 1
               PROVE  U \in Q
    OBVIOUS
  <2>1. IsFiniteSet(U)
    BY FS_Subset
  <2>2. U # {}
    BY <2>1, FS_EmptySet
  <2>3. PICK x \in U : TRUE
    BY <2>2
  <2>4. Cardinality(U \ {x}) = Cardinality(U) - 1
    BY <2>1, <2>3, FS_RemoveElement
  <2>5. Cardinality(U \ {x}) = n
    BY <2>4
  <2>6. U \ {x} \in Q
    BY <2>5
  <2>7. (U \ {x}) \cup {x} \in Q
    BY <2>3, <2>6
  <2>8. (U \ {x}) \cup {x} = U
    BY <2>3
  <2> QED
    BY <2>7, <2>8
<1> HIDE DEF T
<1>3. Nat \subseteq T
  BY <1>1, <1>2, NaturalInduction, Zenon
<1>4. Cardinality(S) \in T
  BY <1>3, FS_CardinalityType
<1> QED
  BY <1>4 DEF T

(* A finite set of integers that is not empty has a least and a greatest   *)
(* member.                                                                 *)
LEMMA FiniteBounds ==
  ASSUME NEW S \in SUBSET Int, IsFiniteSet(S), S # {}
  PROVE  /\ \E n \in S : \A m \in S : n <= m
         /\ \E n \in S : \A m \in S : m <= n
<1> DEFINE Q == {U \in SUBSET S : U # {} =>
                   /\ \E n \in U : \A m \in U : n <= m
                   /\ \E n \in U : \A m \in U : m <= n}
<1>1. {} \in Q
  OBVIOUS
<1>2. \A U \in SUBSET S : \A x \in S \ U : U \in Q => U \cup {x} \in Q
  <2> SUFFICES ASSUME NEW U \in SUBSET S, NEW x \in S \ U, U \in Q
               PROVE  U \cup {x} \in Q
    OBVIOUS
  <2>1. CASE U = {}
    BY <2>1
  <2>2. CASE U # {}
    <3>1. PICK n \in U : \A m \in U : n <= m
      BY <2>2
    <3>2. PICK k \in U : \A m \in U : m <= k
      BY <2>2
    <3>3. \E l \in U \cup {x} : \A m \in U \cup {x} : l <= m
      <4>1. CASE n <= x
        BY <3>1, <4>1
      <4>2. CASE ~(n <= x)
        <5>1. \A m \in U \cup {x} : x <= m
          BY <3>1, <4>2
        <5> QED
          BY <5>1
      <4> QED
        BY <4>1, <4>2
    <3>4. \E l \in U \cup {x} : \A m \in U \cup {x} : m <= l
      <4>1. CASE x <= k
        BY <3>2, <4>1
      <4>2. CASE ~(x <= k)
        <5>1. \A m \in U \cup {x} : m <= x
          BY <3>2, <4>2
        <5> QED
          BY <5>1
      <4> QED
        BY <4>1, <4>2
    <3> QED
      BY <3>3, <3>4
  <2> QED
    BY <2>1, <2>2
<1> HIDE DEF Q
<1>3. S \in Q
  BY <1>1, <1>2, FiniteInduction, Zenon
<1> QED
  BY <1>3 DEF Q

(* A function f on the numbers up to N with values in T that begins with a *)
(* and goes on from the value at n - 1 to the one at n as G tells.         *)
Steps(T, N) == [T \X (1 .. N) -> T]
Recursion(f, T, a, N, G) ==
  /\ f \in [0 .. N -> T]
  /\ f[0] = a
  /\ \A n \in 1 .. N : f[n] = G[<<f[n - 1], n>>]

(* Such a function exists.                                                 *)
LEMMA RecursiveFunction ==
  ASSUME NEW T, NEW a \in T, NEW N \in Nat, NEW G \in Steps(T, N)
  PROVE  \E f : Recursion(f, T, a, N, G)
<1> USE DEF Steps
<1> DEFINE Q == {m \in Nat : m <= N =>
                   \E f \in [0 .. m -> T] :
                     /\ f[0] = a
                     /\ \A n \in 1 .. m : f[n] = G[<<f[n - 1], n>>]}
<1>1. 0 \in Q
  <2> DEFINE f == [n \in 0 .. 0 |-> a]
  <2>1. f \in [0 .. 0 -> T] /\ f[0] = a
    OBVIOUS
  <2>2. \A n \in 1 .. 0 : f[n] = G[<<f[n - 1], n>>]
    OBVIOUS
  <2> QED
    BY <2>1, <2>2
<1>2. \A m \in Nat : m \in Q => m + 1 \in Q
  <2> SUFFICES ASSUME NEW m \in Nat, m \in Q, m + 1 <= N
               PROVE  \E f \in [0 .. m + 1 -> T] :
                        /\ f[0] = a
                        /\ \A n \in 1 .. m + 1 : f[n] = G[<<f[n - 1], n>>]
    OBVIOUS
  <2>1. PICK g \in [0 .. m -> T] :
          /\ g[0] = a
          /\ \A n \in 1 .. m : g[n] = G[<<g[n - 1], n>>]
    OBVIOUS
  <2> DEFINE f == [n \in 0 .. m + 1 |-> IF n = m + 1 THEN G[<<g[m], m + 1>>] ELSE g[n]]
  <2>2. g[m] \in T /\ m + 1 \in 1 .. N
    BY <2>1
  <2>3. G[<<g[m], m + 1>>] \in T
    BY <2>2
  <2>4. f \in [0 .. m + 1 -> T]
    BY <2>1, <2>3
  <2>5. /\ f[m + 1] = G[<<g[m], m + 1>>]
        /\ \A n \in 0 .. m : f[n] = g[n]
    OBVIOUS
  <2> HIDE DEF f
  <2>6. f[0] = a
    BY <2>1, <2>5
  <2>7. ASSUME NEW n \in 1 .. m + 1
        PROVE  f[n] = G[<<f[n - 1], n>>]
    <3>1. CASE n = m + 1
      <4>1. n - 1 = m
        BY <3>1
      <4> QED
        BY <2>5, <3>1, <4>1
    <3>2. CASE n # m + 1
      <4>1. n \in 1 .. m /\ n \in 0 .. m /\ n - 1 \in 0 .. m
        BY <3>2
      <4> QED
        BY <2>1, <2>5, <4>1
    <3> QED
      BY <3>1, <3>2
  <2> QED
    BY <2>4, <2>6, <2>7
<1> HIDE DEF Q
<1>3. N \in Q
  BY <1>1, <1>2, NaturalInduction, Zenon
<1>4. PICK f \in [0 .. N -> T] :
        f[0] = a /\ \A n \in 1 .. N : f[n] = G[<<f[n - 1], n>>]
  BY <1>3 DEF Q
<1>5. Recursion(f, T, a, N, G)
  BY <1>4 DEF Recursion
<1> QED
  BY <1>5

(* A finite set that is not empty has an element before no other, in every *)
(* order R.                                                                *)
LEMMA LastElement ==
  ASSUME NEW S, IsFiniteSet(S), S # {}, NEW R,
         \A x \in S : <<x, x>> \notin R,
         \A x, y, z \in S : <<x, y>> \in R /\ <<y, z>> \in R => <<x, z>> \in R
  PROVE  \E m \in S : \A x \in S : <<m, x>> \notin R
<1> DEFINE Q == {U \in SUBSET S : U # {} => \E m \in U : \A x \in U : <<m, x>> \notin R}
<1>1. {} \in Q
  OBVIOUS
<1>2. \A U \in SUBSET S : \A x \in S \ U : U \in Q => U \cup {x} \in Q
  <2> SUFFICES ASSUME NEW U \in SUBSET S, NEW x \in S \ U, U \in Q
               PROVE  \E m \in U \cup {x} : \A y \in U \cup {x} : <<m, y>> \notin R
    OBVIOUS
  <2>1. CASE U = {}
    BY <2>1
  <2>2. CASE U # {}
    <3>1. PICK m \in U : \A y \in U : <<m, y>> \notin R
      BY <2>2
    <3>2. CASE <<m, x>> \in R
      <4>1. \A y \in U \cup {x} : <<x, y>> \notin R
        BY <3>1, <3>2
      <4> QED
        BY <4>1
    <3>3. CASE <<m, x>> \notin R
      BY <3>1, <3>3
    <3> QED
      BY <3>2, <3>3
  <2> QED
    BY <2>1, <2>2
<1> HIDE DEF Q
<1>3. S \in Q
  BY <1>1, <1>2, FiniteInduction, Zenon
<1> QED
  BY <1>3 DEF Q

(* A finite set can be sorted by every order R.                            *)
LEMMA SortingExists ==
  ASSUME NEW S, IsFiniteSet(S), NEW R,
         \A x \in S : <<x, x>> \notin R,
         \A x, y, z \in S : <<x, y>> \in R /\ <<y, z>> \in R => <<x, z>> \in R
  PROVE  \E s \in [1 .. Cardinality(S) -> S] :
           \A k, l \in 1 .. Cardinality(S) :
             k < l => s[k] # s[l] /\ <<s[l], s[k]>> \notin R
<1> DEFINE Sorted(n, U) ==
             \E s \in [1 .. n -> U] :
               \A k, l \in 1 .. n : k < l => s[k] # s[l] /\ <<s[l], s[k]>> \notin R
           T == {n \in Nat : \A U \in SUBSET S : Cardinality(U) = n => Sorted(n, U)}
<1>1. 0 \in T
  <2>1. \A U \in SUBSET S : [i \in {} |-> 0] \in [{} -> U]
    OBVIOUS
  <2>2. 1 .. 0 = {}
    OBVIOUS
  <2> QED
    BY <2>1, <2>2
<1>2. \A n \in Nat : n \in T => n + 1 \in T
  <2> SUFFICES ASSUME NEW n \in Nat, n \in T, NEW U \in SUBSET S,
                      Cardinality(U) = n + 1
               PROVE  Sorted(n + 1, U)
    OBVIOUS
  <2>1. IsFiniteSet(U) /\ U # {}
    BY FS_Subset, FS_EmptySet
  <2>2. PICK m \in U : \A x \in U : <<m, x>> \notin R
    <3> HIDE DEF T, Sorted
    <3>1. /\ \A x \in U : <<x, x>> \notin R
          /\ \A x, y, z \in U : <<x, y>> \in R /\ <<y, z>> \in R => <<x, z>> \in R
      OBVIOUS
    <3> QED
      BY <2>1, <3>1, LastElement, Zenon
  <2>3. Cardinality(U \ {m}) = n
    <3>1. Cardinality(U \ {m}) = Cardinality(U) - 1
      BY <2>1, <2>2, FS_RemoveElement
    <3> QED
      BY <3>1
  <2>4. PICK s \in [1 .. n -> U \ {m}] :
          \A k, l \in 1 .. n : k < l => s[k] # s[l] /\ <<s[l], s[k]>> \notin R
    BY <2>3
  <2> DEFINE t == [k \in 1 .. n + 1 |-> IF k = n + 1 THEN m ELSE s[k]]
  <2>5. t \in [1 .. n + 1 -> U]
    OBVIOUS
  <2>6. t[n + 1] = m /\ \A k \in 1 .. n : t[k] = s[k] /\ s[k] \in U \ {m}
    OBVIOUS
  <2> HIDE DEF t
  <2>7. ASSUME NEW k \in 1 .. n + 1, NEW l \in 1 .. n + 1, k < l
        PROVE  t[k] # t[l] /\ <<t[l], t[k]>> \notin R
    <3>1. k \in 1 .. n
      BY <2>7
    <3>2. CASE l = n + 1
      BY <2>2, <2>6, <3>1, <3>2
    <3>3. CASE l # n + 1
      <4>1. l \in 1 .. n
        BY <3>3
      <4> QED
        BY <2>4, <2>6, <2>7, <3>1, <4>1
    <3> QED
      BY <3>2, <3>3
  <2> QED
    BY <2>5, <2>7
<1> HIDE DEF T
<1>3. Nat \subseteq T
  BY <1>1, <1>2, NaturalInduction, Zenon
<1>4. Cardinality(S) \in T
  BY <1>3, FS_CardinalityType
<1> QED
  BY <1>4 DEF T

(* A sequence of as many different elements as a set has holds them all.   *)
LEMMA SortingCovers ==
  ASSUME NEW S, IsFiniteSet(S), NEW s \in [1 .. Cardinality(S) -> S],
         \A k, l \in 1 .. Cardinality(S) : k < l => s[k] # s[l]
  PROVE  \A x \in S : \E k \in 1 .. Cardinality(S) : s[k] = x
<1>1. PICK n \in Nat : n = Cardinality(S)
  BY FS_CardinalityType
<1>2. \A k, l \in 1 .. n : s[k] = s[l] => k = l
  BY <1>1
<1>3. s \in Injection(1 .. n, S)
  BY <1>1, <1>2 DEF Injection, IsInjective
<1>4. Cardinality(1 .. n) = n
  BY FS_Interval
<1>5. s \in Surjection(1 .. n, S)
  BY <1>1, <1>3, <1>4, FS_Injection
<1> QED
  BY <1>1, <1>5 DEF Surjection

=============================================================================
