------------------------ MODULE TraceAnalysis_proofs ------------------------
(***************************************************************************)
(* Two things the proofs of the analyzer need.                              *)
(*                                                                         *)
(* Induction without operator parameters: the principle is stated of a     *)
(* set, and a definition by recursion of a function that takes a step.     *)
(* From them what a sort returns, what a fold over a list and a sum over a  *)
(* finite set are.                                                         *)
(*                                                                         *)
(* The one pass of _extract_allocations, for traces of any                 *)
(* length: if an address is freed between two allocations of it, as in any *)
(* trace that was kept whole, every allocation gets the free that ended it. *)
(***************************************************************************)
EXTENDS TraceAnalysis, FiniteSetsExt, FiniteSetTheorems, WellFoundedInduction, SequenceTheorems, TLAPS

-----------------------------------------------------------------------------
(* Induction.                                                              *)

(* What holds of 0 and of the successor of what it holds of.               *)
LEMMA SetInduction ==
    ASSUME NEW S, 0 \in S, \A n \in Nat : n \in S => n + 1 \in S
    PROVE  Nat \subseteq S
<1>. DEFINE T == {n \in Nat : n \notin S}
            R == {p \in Nat \X Nat : p[1] < p[2]}
<1>1. SUFFICES ASSUME T # {} PROVE FALSE
  OBVIOUS
<1>2. IsWellFoundedOn(R, Nat)
  BY NatLessThanWellFounded DEF OpToRel
<1>3. PICK x \in T : \A y \in T : <<y, x>> \notin R
  <2>1. T \subseteq Nat
    OBVIOUS
  <2>. HIDE DEF T, R
  <2>. QED  BY <1>1, <1>2, <2>1, WFMin
<1>4. x \in Nat /\ x \notin S /\ x # 0
  OBVIOUS
<1>5. x - 1 \in Nat /\ x - 1 \notin T
  <2>1. x - 1 \in Nat /\ (x - 1) + 1 = x /\ x - 1 < x
    BY <1>4
  <2>2. <<x - 1, x>> \in R
    BY <2>1, <1>4
  <2>. QED  BY <2>1, <2>2, <1>3
<1>6. (x - 1) + 1 = x
  BY <1>4
<1>. QED  BY <1>4, <1>5, <1>6

(* A function of the naturals that begins at x0 and takes step.            *)
Unfolds(f, n, x0, step) == f[0] = x0 /\ \A m \in 0 .. n - 1 : f[m + 1] = step[<<m, f[m]>>]

(* There is a function that begins at x0 and takes the step, so that a     *)
(* recursive definition has one.                                           *)
LEMMA RecursionOnNat ==
    ASSUME NEW X, NEW x0 \in X, NEW step \in [Nat \X X -> X], NEW end \in Nat
    PROVE  \E f \in [0 .. end -> X] : Unfolds(f, end, x0, step)
<1>. DEFINE S == {n \in Nat : \E g \in [0 .. n -> X] : Unfolds(g, n, x0, step)}
<1>1. 0 \in S
  <2>1. [m \in 0 .. 0 |-> x0] \in [0 .. 0 -> X] /\ Unfolds([m \in 0 .. 0 |-> x0], 0, x0, step)
    BY DEF Unfolds
  <2>. QED  BY <2>1
<1>2. ASSUME NEW n \in Nat, n \in S
      PROVE  n + 1 \in S
  <2>1. PICK g \in [0 .. n -> X] : Unfolds(g, n, x0, step)
    BY <1>2
  <2>. DEFINE h == [m \in 0 .. n + 1 |-> IF m = n + 1 THEN step[<<n, g[n]>>] ELSE g[m]]
  <2>2. h \in [0 .. n + 1 -> X]
    OBVIOUS
  <2>3. \A m \in 0 .. n : h[m] = g[m]
    OBVIOUS
  <2>4. h[n + 1] = step[<<n, h[n]>>]
    <3>1. h[n] = g[n] /\ h[n + 1] = step[<<n, g[n]>>]
      OBVIOUS
    <3>. QED  BY <3>1
  <2>5. ASSUME NEW m \in 0 .. (n + 1) - 1
        PROVE  h[m + 1] = step[<<m, h[m]>>]
    <3>1. CASE m = n
      BY <3>1, <2>4
    <3>2. CASE m # n
      <4>1. m \in 0 .. n - 1 /\ m \in 0 .. n /\ m + 1 \in 0 .. n
        BY <3>2
      <4>. HIDE DEF h
      <4>. QED  BY <4>1, <2>1, <2>3 DEF Unfolds
    <3>. QED  BY <3>1, <3>2
  <2>6. Unfolds(h, n + 1, x0, step)
    <3>1. h[0] = x0
      BY <2>1, <2>3 DEF Unfolds
    <3>. HIDE DEF h
    <3>. QED  BY <2>5, <3>1 DEF Unfolds
  <2>. QED  BY <2>2, <2>6
<1>3. end \in S
  <2>. HIDE DEF S
  <2>. QED  BY <1>1, <1>2, SetInduction
<1>. QED  BY <1>3

-----------------------------------------------------------------------------
(* Strict total orders, as sets of pairs, and the lists in their order.    *)
TotallyOrders(R, S) ==
    /\ \A x \in S : <<x, x>> \notin R
    /\ \A x, y, z \in S : <<x, y>> \in R /\ <<y, z>> \in R => <<x, z>> \in R
    /\ \A x, y \in S : x # y => <<x, y>> \in R \/ <<y, x>> \in R

(* A finite set that is totally ordered has a last element.                *)
LEMMA LastElement ==
    ASSUME NEW U, IsFiniteSet(U), U # {}, NEW R, TotallyOrders(R, U)
    PROVE  \E x \in U : \A y \in U \ {x} : <<y, x>> \in R
<1>. DEFINE Top(T) == \E x \in T : \A y \in T \ {x} : <<y, x>> \in R
            S == {n \in Nat : \A T \in SUBSET U : Cardinality(T) = n + 1 => Top(T)}
<1>1. 0 \in S
  <2>1. ASSUME NEW T \in SUBSET U, Cardinality(T) = 0 + 1
        PROVE  Top(T)
    <3>1. IsFiniteSet(T)
      BY FS_Subset
    <3>2. Cardinality(T) = 1
      BY <2>1
    <3>3. PICK x : T = {x}
      BY <3>1, <3>2, FS_Singleton
    <3>. QED  BY <3>3
  <2>. QED  BY <2>1
<1>2. ASSUME NEW n \in Nat, n \in S
      PROVE  n + 1 \in S
  <2>1. ASSUME NEW T \in SUBSET U, Cardinality(T) = n + 1 + 1
        PROVE  Top(T)
    <3>1. IsFiniteSet(T)
      BY FS_Subset
    <3>2. PICK z \in T : TRUE
      BY <2>1, <3>1, FS_EmptySet
    <3>3. Cardinality(T \ {z}) = n + 1 /\ T \ {z} \in SUBSET U
      BY <2>1, <3>1, <3>2, FS_RemoveElement
    <3>4. PICK x \in T \ {z} : \A y \in (T \ {z}) \ {x} : <<y, x>> \in R
      BY <1>2, <3>3
    <3>5. CASE <<z, x>> \in R
      BY <3>4, <3>5
    <3>6. CASE <<x, z>> \in R
      <4>1. \A y \in T \ {z} : <<y, z>> \in R
        BY <3>2, <3>4, <3>6 DEF TotallyOrders
      <4>. QED  BY <3>2, <4>1
    <3>. QED  BY <3>2, <3>4, <3>5, <3>6 DEF TotallyOrders
  <2>. QED  BY <2>1
<1>3. Nat \subseteq S
  <2>. HIDE DEF S
  <2>. QED  BY <1>1, <1>2, SetInduction
<1>4. Cardinality(U) \in Nat /\ Cardinality(U) # 0
  BY FS_CardinalityType, FS_EmptySet
<1>5. Cardinality(U) - 1 \in Nat /\ (Cardinality(U) - 1) + 1 = Cardinality(U)
  BY <1>4
<1>6. Cardinality(U) - 1 \in S
  <2>. HIDE DEF S
  <2>. QED  BY <1>3, <1>5
<1>7. Top(U)
  <2>. HIDE DEF Top
  <2>. QED  BY <1>5, <1>6
<1>. QED  BY <1>7

(* f lists the n elements of S in the order R.                             *)
Lists(f, n, S, R) ==
    /\ f \in [1 .. n -> S]
    /\ \A x \in S : \E i \in 1 .. n : f[i] = x
    /\ \A i, j \in 1 .. n : i < j => <<f[i], f[j]>> \in R

(* A finite set can be listed in any strict total order.                   *)
LEMMA OrderedListExists ==
    ASSUME NEW U, IsFiniteSet(U), NEW R, TotallyOrders(R, U)
    PROVE  \E f : Lists(f, Cardinality(U), U, R)
<1>. DEFINE S == {n \in Nat : \A T \in SUBSET U : Cardinality(T) = n => \E f : Lists(f, n, T, R)}
<1>1. 0 \in S
  <2>1. ASSUME NEW T \in SUBSET U, Cardinality(T) = 0
        PROVE  \E f : Lists(f, 0, T, R)
    <3>1. T = {}
      BY <2>1, FS_Subset, FS_EmptySet
    <3>2. Lists([i \in 1 .. 0 |-> i], 0, {}, R)
      BY DEF Lists
    <3>. QED  BY <3>1, <3>2
  <2>. QED  BY <2>1
<1>2. ASSUME NEW n \in Nat, n \in S
      PROVE  n + 1 \in S
  <2>1. ASSUME NEW T \in SUBSET U, Cardinality(T) = n + 1
        PROVE  \E f : Lists(f, n + 1, T, R)
    <3>1. IsFiniteSet(T) /\ TotallyOrders(R, T)
      BY FS_Subset DEF TotallyOrders
    <3>2. PICK z : z \in T
      BY <2>1, FS_EmptySet
    <3>3. PICK x \in T : \A y \in T \ {x} : <<y, x>> \in R
      BY <3>1, <3>2, LastElement
    <3>4. Cardinality(T \ {x}) = n /\ T \ {x} \in SUBSET U
      <4>1. Cardinality(T \ {x}) = Cardinality(T) - 1
        BY <3>1, <3>3, FS_RemoveElement
      <4>. QED  BY <4>1, <2>1
    <3>5. PICK f : Lists(f, n, T \ {x}, R)
      BY <1>2, <3>4
    <3>. DEFINE h == [i \in 1 .. n + 1 |-> IF i = n + 1 THEN x ELSE f[i]]
    <3>6. \A i \in 1 .. n + 1 : i = n + 1 \/ (i # n + 1 /\ i \in 1 .. n)
      OBVIOUS
    <3>7. (\A i \in 1 .. n : i \in 1 .. n + 1 /\ h[i] = f[i] /\ i < n + 1) /\ h[n + 1] = x
      OBVIOUS
    <3>8. h \in [1 .. n + 1 -> T]
      BY <3>5, <3>6 DEF Lists
    <3>. HIDE DEF h
    <3>9. \A y \in T : \E i \in 1 .. n + 1 : h[i] = y
      <4>1. ASSUME NEW y \in T, y # x PROVE \E i \in 1 .. n + 1 : h[i] = y
        BY <4>1, <3>5, <3>7 DEF Lists
      <4>2. n + 1 \in 1 .. n + 1
        OBVIOUS
      <4>. QED  BY <4>1, <4>2, <3>7
    <3>10. ASSUME NEW i \in 1 .. n + 1, NEW j \in 1 .. n + 1, i < j
           PROVE  <<h[i], h[j]>> \in R
      <4>1. i \in 1 .. n
        BY <3>10
      <4>2. CASE j = n + 1
        BY <4>1, <4>2, <3>3, <3>5, <3>7 DEF Lists
      <4>3. CASE j \in 1 .. n
        BY <4>1, <4>3, <3>5, <3>7, <3>10 DEF Lists
      <4>. QED  BY <4>2, <4>3, <3>6
    <3>11. Lists(h, n + 1, T, R)
      BY <3>8, <3>9, <3>10 DEF Lists
    <3>. QED  BY <3>11
  <2>. QED  BY <2>1
<1>3. Nat \subseteq S
  <2>. HIDE DEF S
  <2>. QED  BY <1>1, <1>2, SetInduction
<1>4. Cardinality(U) \in S
  <2>1. Cardinality(U) \in Nat
    BY FS_CardinalityType
  <2>. HIDE DEF S
  <2>. QED  BY <1>3, <2>1
<1>. QED  BY <1>4

(* A list of as many elements as a set has, all different, lists it.       *)
LEMMA ListsAll ==
    ASSUME NEW S, IsFiniteSet(S), NEW f \in [1 .. Cardinality(S) -> S],
           \A i, j \in 1 .. Cardinality(S) : f[i] = f[j] => i = j
    PROVE  \A x \in S : \E i \in 1 .. Cardinality(S) : f[i] = x
<1>. DEFINE n == Cardinality(S)
<1>1. n \in Nat
  BY FS_CardinalityType
<1>. HIDE DEF n
<1>2. f \in Injection(1 .. n, S)
  BY DEF Injection, IsInjective, n
<1>3. Cardinality(1 .. n) = n
  BY <1>1, FS_Interval
<1>4. f \in Surjection(1 .. n, S)
  BY <1>2, <1>3, FS_Injection DEF n
<1>. QED  BY <1>4 DEF Surjection, n

(* A list as long as a set, sorted in a strict total order, lists it.      *)
LEMMA SortedListsAll ==
    ASSUME NEW S, IsFiniteSet(S), NEW R, TotallyOrders(R, S),
           NEW f \in [1 .. Cardinality(S) -> S],
           \A i, j \in 1 .. Cardinality(S) : i < j => <<f[i], f[j]>> \in R
    PROVE  Lists(f, Cardinality(S), S, R)
<1>. DEFINE n == Cardinality(S)
<1>1. n \in Nat
  BY FS_CardinalityType
<1>2. f \in [1 .. n -> S] /\ \A i, j \in 1 .. n : i < j => <<f[i], f[j]>> \in R
  OBVIOUS
<1>. HIDE DEF n
<1>3. ASSUME NEW i \in 1 .. n, NEW j \in 1 .. n, i # j
      PROVE  f[i] # f[j]
  <2>1. f[i] \in S /\ f[j] \in S
    BY <1>2
  <2>2. <<f[i], f[j]>> \in R \/ <<f[j], f[i]>> \in R
    <3>1. i < j \/ j < i
      BY <1>1, <1>3
    <3>. QED  BY <1>2, <3>1
  <2>. QED  BY <2>1, <2>2 DEF TotallyOrders
<1>4. \A i, j \in 1 .. n : f[i] = f[j] => i = j
  BY <1>3
<1>5. \A x \in S : \E i \in 1 .. n : f[i] = x
  BY <1>2, <1>4, ListsAll DEF n
<1>. QED  BY <1>2, <1>5 DEF Lists, n

(* A non-empty set of places in a list has a last one.                     *)
LEMMA LargestExists ==
    ASSUME NEW n \in Nat, NEW S, S \subseteq 1 .. n, S # {}
    PROVE  \E m \in S : \A k \in S : k <= m
<1>. DEFINE R == {p \in Nat \X Nat : p[1] < p[2]}
<1>1. IsFiniteSet(S)
  <2>1. IsFiniteSet(1 .. n)
    BY FS_Interval
  <2>2. S \in SUBSET (1 .. n)
    OBVIOUS
  <2>. QED  BY <2>1, <2>2, FS_Subset
<1>2. S \subseteq Nat
  <2>1. 1 .. n \subseteq Nat
    OBVIOUS
  <2>. QED  BY <2>1
<1>3. \A x, y \in Nat : <<x, y>> \in R <=> x < y
  OBVIOUS
<1>. HIDE DEF R
<1>4. TotallyOrders(R, S)
  <2>1. \A x \in S : <<x, x>> \notin R
    BY <1>2, <1>3
  <2>2. ASSUME NEW x \in S, NEW y \in S, NEW z \in S, <<x, y>> \in R, <<y, z>> \in R
        PROVE  <<x, z>> \in R
    <3>1. x \in Nat /\ y \in Nat /\ z \in Nat
      BY <1>2
    <3>2. x < y /\ y < z
      BY <1>3, <2>2, <3>1
    <3>3. x < z
      BY <3>1, <3>2
    <3>. QED  BY <1>3, <3>1, <3>3
  <2>3. ASSUME NEW x \in S, NEW y \in S, x # y
        PROVE  <<x, y>> \in R \/ <<y, x>> \in R
    <3>1. x \in Nat /\ y \in Nat
      BY <1>2
    <3>2. x < y \/ y < x
      BY <2>3, <3>1
    <3>. QED  BY <1>3, <3>1, <3>2
  <2>. QED  BY <2>1, <2>2, <2>3 DEF TotallyOrders
<1>5. S # {}
  OBVIOUS
<1>6. PICK m \in S : \A k \in S \ {m} : <<k, m>> \in R
  <2>1. \E m \in S : \A k \in S \ {m} : <<k, m>> \in R
    BY ONLY <1>1, <1>4, <1>5, LastElement
  <2>. QED  BY ONLY <2>1
<1>7. ASSUME NEW k \in S
      PROVE  k <= m
  <2>1. k \in Nat /\ m \in Nat
    BY <1>2
  <2>2. k = m \/ k < m
    BY <2>1, <1>3, <1>6
  <2>. QED  BY <2>1, <2>2
<1>. QED  BY <1>7

-----------------------------------------------------------------------------
(* Sorting.                                                                *)

(* An interval of the first numbers.                                       *)
LEMMA UpTo ==
    ASSUME NEW n \in Nat
    PROVE  IsFiniteSet(1 .. n) /\ Cardinality(1 .. n) = n
<1>1. IsFiniteSet(1 .. n) /\ Cardinality(1 .. n) = IF 1 > n THEN 0 ELSE n - 1 + 1
  BY FS_Interval
<1>2. (IF 1 > n THEN 0 ELSE n - 1 + 1) = n
  OBVIOUS
<1>. QED  BY <1>1, <1>2

(* The elements before the k-th of a list in order are the k - 1 before it. *)
LEMMA RankInList ==
    ASSUME NEW S, NEW R, TotallyOrders(R, S), NEW n \in Nat, NEW f, Lists(f, n, S, R),
           NEW k \in 1 .. n
    PROVE  Cardinality({y \in S : <<y, f[k]>> \in R}) = k - 1
<1>. DEFINE T == {y \in S : <<y, f[k]>> \in R}
            g == [i \in 1 .. k - 1 |-> f[i]]
<1>1. /\ f \in [1 .. n -> S]
      /\ \A x \in S : \E i \in 1 .. n : f[i] = x
      /\ \A i, j \in 1 .. n : i < j => <<f[i], f[j]>> \in R
  BY DEF Lists
<1>2. \A x, y \in S : <<x, y>> \in R => <<y, x>> \notin R /\ x # y
  BY DEF TotallyOrders
<1>3. \A i \in 1 .. k - 1 : i \in 1 .. n /\ i < k
  OBVIOUS
<1>4. \A i \in 1 .. n : i < k => i \in 1 .. k - 1
  OBVIOUS
<1>5. \A i, j \in 1 .. n : i = j \/ i < j \/ j < i
  OBVIOUS
<1>6. g \in [1 .. k - 1 -> T]
  BY <1>1, <1>3
<1>7. ASSUME NEW y \in T
      PROVE  \E i \in 1 .. k - 1 : g[i] = y
  <2>1. PICK i \in 1 .. n : f[i] = y
    BY <1>1
  <2>2. i < k
    BY <1>1, <1>2, <1>5, <2>1
  <2>. QED  BY <1>4, <2>1, <2>2
<1>8. \A i, j \in 1 .. k - 1 : g[i] = g[j] => i = j
  BY <1>1, <1>2, <1>3, <1>5
<1>9. k - 1 \in Nat /\ 1 \in Int /\ k - 1 \in Int
  OBVIOUS
<1>. HIDE DEF g, T
<1>10. g \in Bijection(1 .. k - 1, T)
  BY <1>6, <1>7, <1>8 DEF Bijection, Injection, Surjection, IsInjective
<1>11. IsFiniteSet(1 .. k - 1) /\ Cardinality(1 .. k - 1) = k - 1
  BY <1>9, FS_Interval
<1>12. Cardinality(T) = k - 1
  BY <1>10, <1>11, FS_Bijection DEF ExistsBijection
<1>. QED  BY <1>12 DEF T

(* Sorting by rank lists a set in its order.                               *)
LEMMA SortedLists ==
    ASSUME NEW S, IsFiniteSet(S), NEW R, TotallyOrders(R, S)
    PROVE  Lists(SortedBy(S, R), Cardinality(S), S, R)
<1>. DEFINE n == Cardinality(S)
            rank(x) == Cardinality({y \in S : <<y, x>> \in R})
<1>1. n \in Nat
  BY FS_CardinalityType
<1>2. PICK f : Lists(f, n, S, R)
  BY OrderedListExists
<1>. HIDE DEF n
<1>3. \A k \in 1 .. n : rank(f[k]) = k - 1
  BY <1>1, <1>2, RankInList
<1>. HIDE DEF rank
<1>4. /\ f \in [1 .. n -> S]
      /\ \A x \in S : \E i \in 1 .. n : f[i] = x
  BY <1>2 DEF Lists
<1>5. ASSUME NEW k \in 1 .. n
      PROVE  (CHOOSE x \in S : rank(x) = k - 1) = f[k]
  <2>1. f[k] \in S /\ rank(f[k]) = k - 1
    BY <1>3, <1>4
  <2>2. ASSUME NEW x \in S, rank(x) = k - 1
        PROVE  x = f[k]
    <3>1. PICK i \in 1 .. n : f[i] = x
      BY <1>4
    <3>2. i - 1 = k - 1
      BY <1>3, <2>2, <3>1
    <3>3. i = k
      BY <3>2
    <3>. QED  BY <3>1, <3>3
  <2>. QED  BY <2>1, <2>2
<1>6. SortedBy(S, R) = [k \in 1 .. n |-> CHOOSE x \in S : rank(x) = k - 1]
  BY DEF SortedBy, n, rank
<1>7. SortedBy(S, R) = f
  BY <1>4, <1>5, <1>6
<1>. QED  BY <1>2, <1>7 DEF n

(* The values of a list are finitely many.                                 *)
LEMMA ValuesFinite ==
    ASSUME NEW n \in Nat, NEW f, DOMAIN f = 1 .. n, f = [i \in 1 .. n |-> f[i]],
           NEW T, \A x \in T : \E i \in 1 .. n : f[i] = x
    PROVE  IsFiniteSet(T)
<1>. DEFINE U == {f[i] : i \in 1 .. n}
<1>1. f \in Surjection(1 .. n, U)
  BY DEF Surjection
<1>2. IsFiniteSet(1 .. n)
  BY UpTo
<1>. HIDE DEF U
<1>3. IsFiniteSet(U)
  BY <1>1, <1>2, FS_Surjection
<1>4. T \in SUBSET U
  BY DEF U
<1>. QED  BY <1>3, <1>4, FS_Subset

-----------------------------------------------------------------------------
(* Finite sets.                                                            *)

(* What holds of no element, and still with one more, holds of every finite *)
(* set.                                                                     *)
LEMMA FiniteInduction ==
    ASSUME NEW S, IsFiniteSet(S), NEW G, {} \in G,
           \A T \in SUBSET S, x \in S : T \in G /\ x \notin T => T \cup {x} \in G
    PROVE  \A T \in SUBSET S : T \in G
<1>. DEFINE N == {n \in Nat : \A T \in SUBSET S : Cardinality(T) = n => T \in G}
<1>1. 0 \in N
  <2>1. ASSUME NEW T \in SUBSET S, Cardinality(T) = 0
        PROVE  T \in G
    <3>1. T = {}
      BY <2>1, FS_Subset, FS_EmptySet
    <3>. QED  BY <3>1
  <2>. QED  BY <2>1
<1>2. ASSUME NEW n \in Nat, n \in N
      PROVE  n + 1 \in N
  <2>1. ASSUME NEW T \in SUBSET S, Cardinality(T) = n + 1
        PROVE  T \in G
    <3>1. IsFiniteSet(T)
      BY FS_Subset
    <3>2. PICK x : x \in T
      BY <2>1, <3>1, FS_EmptySet
    <3>3. Cardinality(T \ {x}) = n
      <4>1. Cardinality(T \ {x}) = Cardinality(T) - 1
        BY <3>1, <3>2, FS_RemoveElement
      <4>. QED  BY <4>1, <2>1
    <3>4. T \ {x} \in G
      BY <3>3, <1>2
    <3>5. (T \ {x}) \cup {x} \in G
      <4>1. T \ {x} \in SUBSET S /\ x \in S /\ x \notin T \ {x}
        BY <3>2
      <4>. QED  BY <4>1, <3>4
    <3>6. (T \ {x}) \cup {x} = T
      BY <3>2
    <3>. QED  BY <3>5, <3>6
  <2>. QED  BY <2>1
<1>3. Nat \subseteq N
  <2>. HIDE DEF N
  <2>. QED  BY <1>1, <1>2, SetInduction
<1>4. ASSUME NEW T \in SUBSET S PROVE T \in G
  <2>1. Cardinality(T) \in Nat
    BY FS_Subset, FS_CardinalityType
  <2>2. Cardinality(T) \in N
    <3>. HIDE DEF N
    <3>. QED  BY <2>1, <1>3
  <2>. QED  BY <2>2
<1>. QED  BY <1>4

(* A function of the parts of a finite set that begins at base and takes    *)
(* step with the element picked.                                            *)
Recurses(it, S, base, step, pick) ==
    it = [T \in SUBSET S |-> IF T = {} THEN base ELSE step[<<pick[T], it[T \ {pick[T]}]>>]]

(* Recursion over the subsets of a finite set has a solution.              *)
LEMMA SetRecursion ==
    ASSUME NEW S, IsFiniteSet(S), NEW X, NEW base \in X, NEW step \in [S \X X -> X],
           NEW pick, \A T \in SUBSET S : T # {} => pick[T] \in T
    PROVE  \E it \in [SUBSET S -> X] : Recurses(it, S, base, step, pick)
<1>. DEFINE n == Cardinality(S)
            Y == [SUBSET S -> X]
            next(it) == [T \in SUBSET S |-> IF T = {} THEN base
                                            ELSE step[<<pick[T], it[T \ {pick[T]}]>>]]
            st == [p \in Nat \X Y |-> next(p[2])]
            y0 == [T \in SUBSET S |-> base]
<1>1. n \in Nat
  BY FS_CardinalityType
<1>2. y0 \in Y
  OBVIOUS
<1>3. ASSUME NEW it \in Y PROVE next(it) \in Y
  <2>1. ASSUME NEW T \in SUBSET S, T # {}
        PROVE  step[<<pick[T], it[T \ {pick[T]}]>>] \in X
    <3>1. pick[T] \in S
      BY <2>1
    <3>2. it[T \ {pick[T]}] \in X
      OBVIOUS
    <3>3. <<pick[T], it[T \ {pick[T]}]>> \in S \X X
      BY <3>1, <3>2
    <3>. QED  BY <3>3
  <2>. QED  BY <2>1
<1>4. st \in [Nat \X Y -> Y]
  <2>1. ASSUME NEW p \in Nat \X Y PROVE next(p[2]) \in Y
    BY <1>3
  <2>. HIDE DEF next, Y
  <2>. QED  BY <2>1
<1>5. PICK f \in [0 .. n + 1 -> Y] : Unfolds(f, n + 1, y0, st)
  <2>. HIDE DEF st, y0, Y, n
  <2>1. n + 1 \in Nat
    BY <1>1
  <2>. QED  BY <1>2, <1>4, <2>1, RecursionOnNat
<1>6. ASSUME NEW m \in 0 .. n
      PROVE  f[m + 1] = next(f[m]) /\ f[m] \in Y /\ f[m + 1] \in Y
  <2>. HIDE DEF next, Y, y0, n
  <2>1. m \in Nat /\ m \in 0 .. n + 1 /\ m + 1 \in 0 .. n + 1 /\ m \in 0 .. (n + 1) - 1
    BY <1>1
  <2>2. f[m] \in Y /\ f[m + 1] \in Y
    BY <2>1, <1>5
  <2>3. f[m + 1] = st[<<m, f[m]>>]
    BY <2>1, <1>5 DEF Unfolds
  <2>4. <<m, f[m]>> \in Nat \X Y
    BY <2>1, <2>2
  <2>. QED  BY <2>2, <2>3, <2>4
<1>7. f[0] = y0
  BY <1>5 DEF Unfolds
<1>. DEFINE Stable(m) == \A T \in SUBSET S : Cardinality(T) <= m => f[m + 1][T] = f[m][T]
            M == {m \in Nat : m <= n => Stable(m)}
<1>8. 0 \in M
  <2>1. ASSUME NEW T \in SUBSET S, Cardinality(T) <= 0
        PROVE  f[0 + 1][T] = f[0][T]
    <3>1. Cardinality(T) \in Nat /\ (Cardinality(T) = 0 <=> T = {})
      BY FS_Subset, FS_EmptySet, FS_CardinalityType
    <3>2. T = {}
      BY <2>1, <3>1
    <3>3. f[0 + 1] = next(f[0])
      <4>. HIDE DEF next, Y, n
      <4>1. 0 \in 0 .. n
        BY <1>1
      <4>. QED  BY <1>6, <4>1
    <3>. QED  BY <3>2, <3>3, <1>7
  <2>. QED  BY <2>1
<1>9. ASSUME NEW m \in Nat, m \in M
      PROVE  m + 1 \in M
  <2>1. ASSUME m + 1 <= n, NEW T \in SUBSET S, Cardinality(T) <= m + 1
        PROVE  f[m + 1 + 1][T] = f[m + 1][T]
    <3>1. m \in 0 .. n /\ m + 1 \in 0 .. n /\ m <= n
      BY <2>1, <1>1
    <3>2. f[m + 1] = next(f[m]) /\ f[m + 1 + 1] = next(f[m + 1])
      <4>. HIDE DEF next, Y, n
      <4>. QED  BY <1>6, <3>1
    <3>3. CASE T = {}
      BY <3>2, <3>3
    <3>4. CASE T # {}
      <4>1. pick[T] \in T
        BY <3>4
      <4>2. Cardinality(T \ {pick[T]}) <= m
        <5>1. Cardinality(T \ {pick[T]}) = Cardinality(T) - 1 /\ Cardinality(T) \in Nat
          BY <4>1, FS_Subset, FS_RemoveElement, FS_CardinalityType
        <5>. QED  BY <5>1, <2>1
      <4>3. f[m + 1][T \ {pick[T]}] = f[m][T \ {pick[T]}]
        <5>1. T \ {pick[T]} \in SUBSET S
          OBVIOUS
        <5>2. Stable(m)
          BY <1>9, <3>1
        <5>. QED  BY <5>1, <5>2, <4>2
      <4>4. \A it \in Y : next(it)[T] = step[<<pick[T], it[T \ {pick[T]}]>>]
        BY <3>4
      <4>5. f[m] \in Y /\ f[m + 1] \in Y
        <5>. HIDE DEF next, Y, n
        <5>. QED  BY <1>6, <3>1
      <4>. HIDE DEF next, Y
      <4>. QED  BY <3>2, <4>3, <4>4, <4>5
    <3>. QED  BY <3>3, <3>4
  <2>. QED  BY <2>1
<1>10. n \in M
  <2>. HIDE DEF M, n
  <2>1. Nat \subseteq M
    BY <1>8, <1>9, SetInduction
  <2>. QED  BY <2>1, <1>1
<1>11. f[n] \in Y /\ f[n + 1] \in Y /\ f[n + 1] = next(f[n])
  <2>. HIDE DEF next, Y, n
  <2>1. n \in 0 .. n
    BY <1>1
  <2>. QED  BY <2>1, <1>6
<1>12. ASSUME NEW T \in SUBSET S PROVE f[n + 1][T] = f[n][T]
  <2>1. Cardinality(T) <= n
    BY FS_Subset
  <2>. QED  BY <2>1, <1>10, <1>1
<1>13. f[n + 1] = f[n]
  <2>. HIDE DEF n, next
  <2>. QED  BY <1>11, <1>12
<1>. QED  BY <1>11, <1>13 DEF Recurses

-----------------------------------------------------------------------------
(* Sums.  A function of the parts of S that adds up f.                      *)
AddsUp(g, f, S) ==
    /\ g \in [SUBSET S -> Int] /\ g[{}] = 0
    /\ \A T \in SUBSET S, x \in S : x \notin T => g[T \cup {x}] = f[x] + g[T]

(* Any finite set can be added up, and in any order.                        *)
LEMMA AddingUp ==
    ASSUME NEW S, IsFiniteSet(S), NEW f, \A x \in S : f[x] \in Int
    PROVE  \E g : AddsUp(g, f, S)
<1>. DEFINE G == {T \in SUBSET S : \E g : AddsUp(g, f, T)}
<1>1. {} \in G
  <2>1. AddsUp([T \in SUBSET {} |-> 0], f, {})
    BY DEF AddsUp
  <2>. QED  BY <2>1
<1>2. ASSUME NEW T \in SUBSET S, NEW z \in S, T \in G, z \notin T
      PROVE  T \cup {z} \in G
  <2>1. PICK g : AddsUp(g, f, T)
    BY <1>2
  <2>. DEFINE V == T \cup {z}
              h == [U \in SUBSET V |-> IF z \in U THEN f[z] + g[U \ {z}] ELSE g[U]]
  <2>2. h \in [SUBSET V -> Int] /\ h[{}] = 0
    <3>1. \A U \in SUBSET V : z \in U => U \ {z} \in SUBSET T
      OBVIOUS
    <3>2. \A U \in SUBSET V : z \notin U => U \in SUBSET T
      OBVIOUS
    <3>3. \A U \in SUBSET T : g[U] \in Int
      BY <2>1 DEF AddsUp
    <3>4. ASSUME NEW U \in SUBSET V
          PROVE  (IF z \in U THEN f[z] + g[U \ {z}] ELSE g[U]) \in Int
      <4>1. CASE z \in U
        <5>1. f[z] \in Int /\ g[U \ {z}] \in Int
          BY <3>1, <3>3, <4>1
        <5>. QED  BY <5>1, <4>1
      <4>2. CASE z \notin U
        BY <3>2, <3>3, <4>2
      <4>. QED  BY <4>1, <4>2
    <3>5. h[{}] = g[{}]
      OBVIOUS
    <3>. QED  BY <3>4, <3>5, <2>1 DEF AddsUp
  <2>3. ASSUME NEW U \in SUBSET V, NEW x \in V, x \notin U
        PROVE  h[U \cup {x}] = f[x] + h[U]
    <3>1. U \cup {x} \in SUBSET V
      OBVIOUS
    <3>2. CASE x = z
      <4>1. U \in SUBSET T /\ (U \cup {x}) \ {z} = U /\ z \in U \cup {x} /\ z \notin U
        BY <2>3, <3>2
      <4>. QED  BY <3>1, <3>2, <4>1
    <3>3. CASE x # z /\ z \notin U
      <4>1. U \in SUBSET T /\ x \in T /\ z \notin U \cup {x}
        BY <2>3, <3>3
      <4>2. g[U \cup {x}] = f[x] + g[U]
        BY <4>1, <2>1, <2>3 DEF AddsUp
      <4>. QED  BY <3>1, <3>3, <4>1, <4>2
    <3>4. CASE x # z /\ z \in U
      <4>1. U \ {z} \in SUBSET T /\ x \in T /\ z \in U \cup {x} /\ x \notin U \ {z}
            /\ (U \cup {x}) \ {z} = (U \ {z}) \cup {x}
        BY <2>3, <3>4
      <4>2. g[(U \ {z}) \cup {x}] = f[x] + g[U \ {z}]
        BY <4>1, <2>1 DEF AddsUp
      <4>3. h[U \cup {x}] = f[z] + g[(U \ {z}) \cup {x}] /\ h[U] = f[z] + g[U \ {z}]
        BY <3>1, <3>4, <4>1
      <4>4. f[z] \in Int /\ f[x] \in Int /\ g[U \ {z}] \in Int
        BY <4>1, <2>1 DEF AddsUp
      <4>. HIDE DEF h
      <4>. QED  BY <4>2, <4>3, <4>4
    <3>. QED  BY <3>2, <3>3, <3>4
  <2>4. AddsUp(h, f, V)
    <3>. HIDE DEF h, V
    <3>. QED  BY <2>2, <2>3 DEF AddsUp
  <2>. QED  BY <2>4
<1>3. S \in G
  <2>. HIDE DEF G
  <2>. QED  BY <1>1, <1>2, FiniteInduction
<1>. QED  BY <1>3

(* The sum of the library, whatever order it takes, is that.                *)
LEMMA SumIs ==
    ASSUME NEW S, IsFiniteSet(S), NEW f, NEW g, AddsUp(g, f, S)
    PROVE  \A T \in SUBSET S : SumFunctionOnSet(f, T) = g[T]
<1>1. ASSUME NEW T \in SUBSET S
      PROVE  SumFunctionOnSet(f, T) = g[T]
  <2>. DEFINE pick(U) == CHOOSE x \in U : TRUE
              Eq(it) == it = [U \in SUBSET T |-> IF U = {} THEN 0 ELSE f[pick(U)] + it[U \ {pick(U)}]]
              iter == CHOOSE it : Eq(it)
              g0 == [U \in SUBSET T |-> g[U]]
  <2>1. SumFunctionOnSet(f, T) = iter[T]
    BY DEF SumFunctionOnSet, FoldFunctionOnSet, MapThenFoldSet
  <2>2. ASSUME NEW U \in SUBSET T, U # {}
        PROVE  /\ pick(U) \in U /\ U \ {pick(U)} \in SUBSET T
               /\ g[U] = f[pick(U)] + g[U \ {pick(U)}]
    <3>1. pick(U) \in U
      BY <2>2
    <3>. HIDE DEF pick
    <3>2. (U \ {pick(U)}) \cup {pick(U)} = U /\ U \ {pick(U)} \in SUBSET S /\ pick(U) \in S
          /\ pick(U) \notin U \ {pick(U)}
      BY <3>1
    <3>3. g[(U \ {pick(U)}) \cup {pick(U)}] = f[pick(U)] + g[U \ {pick(U)}]
      BY <3>2 DEF AddsUp
    <3>. QED  BY <3>1, <3>2, <3>3
  <2>3. Eq(g0)
    <3>1. g[{}] = 0
      BY DEF AddsUp
    <3>. HIDE DEF pick
    <3>. QED  BY <2>2, <3>1
  <2>4. Eq(iter)
    <3>. HIDE DEF Eq
    <3>. QED  BY <2>3
  <2>. DEFINE G == {U \in SUBSET T : iter[U] = g[U]}
  <2>5. IsFiniteSet(T)
    BY FS_Subset
  <2>. HIDE DEF iter
  <2>6. \A U \in SUBSET T : iter[U] = g[U]
    <3>. DEFINE H == {n \in Nat : \A U \in SUBSET T : Cardinality(U) = n => iter[U] = g[U]}
    <3>1. 0 \in H
      <4>1. ASSUME NEW U \in SUBSET T, Cardinality(U) = 0 PROVE iter[U] = g[U]
        <5>1. U = {}
          BY <4>1, <2>5, FS_Subset, FS_EmptySet
        <5>2. iter[{}] = 0
          <6>. HIDE DEF pick
          <6>. QED  BY <2>4
        <5>. QED  BY <5>1, <5>2 DEF AddsUp
      <4>. QED  BY <4>1
    <3>2. ASSUME NEW n \in Nat, n \in H PROVE n + 1 \in H
      <4>1. ASSUME NEW U \in SUBSET T, Cardinality(U) = n + 1 PROVE iter[U] = g[U]
        <5>1. IsFiniteSet(U) /\ U # {}
          BY <4>1, <2>5, FS_Subset, FS_EmptySet
        <5>2. pick(U) \in U /\ U \ {pick(U)} \in SUBSET T /\ g[U] = f[pick(U)] + g[U \ {pick(U)}]
          BY <2>2, <5>1
        <5>. HIDE DEF pick
        <5>3. iter[U] = f[pick(U)] + iter[U \ {pick(U)}]
          BY <2>4, <5>1
        <5>4. Cardinality(U \ {pick(U)}) = n
          <6>1. Cardinality(U \ {pick(U)}) = Cardinality(U) - 1
            BY <5>1, <5>2, FS_RemoveElement
          <6>. QED  BY <6>1, <4>1
        <5>. QED  BY <3>2, <5>2, <5>3, <5>4
      <4>. QED  BY <4>1
    <3>3. Nat \subseteq H
      <4>. HIDE DEF H
      <4>. QED  BY <3>1, <3>2, SetInduction
    <3>4. ASSUME NEW U \in SUBSET T PROVE iter[U] = g[U]
      <4>1. Cardinality(U) \in H
        <5>. HIDE DEF H
        <5>. QED  BY <3>3, <2>5, FS_Subset, FS_CardinalityType
      <4>. QED  BY <4>1
    <3>. QED  BY <3>4
  <2>. QED  BY <2>1, <2>6
<1>. QED  BY <1>1

(* The sum of nothing, of one more, and of integers and naturals.           *)
LEMMA SumOfNothing ==
    ASSUME NEW f PROVE SumFunctionOnSet(f, {}) = 0
<1>1. PICK g : AddsUp(g, f, {})
  BY AddingUp, FS_EmptySet
<1>2. {} \in SUBSET {} /\ IsFiniteSet({})
  BY FS_EmptySet
<1>3. SumFunctionOnSet(f, {}) = g[{}]
  BY ONLY <1>1, <1>2, SumIs
<1>. QED  BY <1>1, <1>3 DEF AddsUp

(* One element more adds its value.                                        *)
LEMMA SumWithOneMore ==
    ASSUME NEW S, IsFiniteSet(S), NEW f, \A y \in S : f[y] \in Int, NEW x, x \notin S, f[x] \in Int
    PROVE  SumFunctionOnSet(f, S \cup {x}) = f[x] + SumFunctionOnSet(f, S)
<1>. DEFINE V == S \cup {x}
<1>1. IsFiniteSet(V)
  BY FS_AddElement
<1>2. PICK g : AddsUp(g, f, V)
  BY <1>1, AddingUp
<1>3. SumFunctionOnSet(f, V) = g[V] /\ SumFunctionOnSet(f, S) = g[S]
  <2>1. V \in SUBSET V /\ S \in SUBSET V
    OBVIOUS
  <2>. HIDE DEF V
  <2>. QED  BY <1>1, <1>2, <2>1, SumIs
<1>4. g[V] = f[x] + g[S]
  <2>1. S \in SUBSET V /\ x \in V
    OBVIOUS
  <2>. QED  BY <1>2, <2>1 DEF AddsUp
<1>. QED  BY <1>3, <1>4

(* A sum of integers is an integer, and of naturals a natural.             *)
LEMMA SumType ==
    ASSUME NEW S, IsFiniteSet(S), NEW f, \A y \in S : f[y] \in Int
    PROVE  /\ SumFunctionOnSet(f, S) \in Int
           /\ (\A y \in S : f[y] >= 0) => SumFunctionOnSet(f, S) \in Nat
<1>1. SumFunctionOnSet(f, S) \in Int
  <2>1. PICK g : AddsUp(g, f, S)
    BY AddingUp
  <2>2. S \in SUBSET S
    OBVIOUS
  <2>3. SumFunctionOnSet(f, S) = g[S]
    BY <2>1, <2>2, SumIs
  <2>. QED  BY <2>1, <2>2, <2>3 DEF AddsUp
<1>2. ASSUME \A y \in S : f[y] >= 0 PROVE SumFunctionOnSet(f, S) \in Nat
  <2>. DEFINE G == {T \in SUBSET S : SumFunctionOnSet(f, T) \in Nat}
  <2>1. {} \in G
    BY SumOfNothing
  <2>2. ASSUME NEW T \in SUBSET S, NEW x \in S, T \in G, x \notin T PROVE T \cup {x} \in G
    <3>1. IsFiniteSet(T) /\ f[x] \in Int /\ f[x] >= 0 /\ \A y \in T : f[y] \in Int
      BY <1>2, FS_Subset
    <3>2. SumFunctionOnSet(f, T \cup {x}) = f[x] + SumFunctionOnSet(f, T)
      BY <3>1, <2>2, SumWithOneMore
    <3>. QED  BY <3>1, <3>2, <2>2
  <2>3. S \in G
    <3>. HIDE DEF G
    <3>. QED  BY <2>1, <2>2, FiniteInduction
  <2>. QED  BY <2>3
<1>. QED  BY <1>1, <1>2

(* Equal functions have equal sums, and larger ones have larger sums.       *)
LEMMA SumCompare ==
    ASSUME NEW S, IsFiniteSet(S), NEW f, NEW g, \A y \in S : f[y] \in Int /\ g[y] \in Int
    PROVE  /\ (\A y \in S : f[y] <= g[y]) => SumFunctionOnSet(f, S) <= SumFunctionOnSet(g, S)
           /\ (\A y \in S : f[y] = g[y]) => SumFunctionOnSet(f, S) = SumFunctionOnSet(g, S)
<1>1. ASSUME \A y \in S : f[y] <= g[y] PROVE SumFunctionOnSet(f, S) <= SumFunctionOnSet(g, S)
  <2>. DEFINE G == {T \in SUBSET S : SumFunctionOnSet(f, T) <= SumFunctionOnSet(g, T)}
  <2>1. {} \in G
    BY SumOfNothing
  <2>2. ASSUME NEW T \in SUBSET S, NEW x \in S, T \in G, x \notin T PROVE T \cup {x} \in G
    <3>1. IsFiniteSet(T) /\ f[x] \in Int /\ g[x] \in Int /\ f[x] <= g[x]
          /\ (\A y \in T : f[y] \in Int /\ g[y] \in Int)
      BY <1>1, FS_Subset
    <3>2. SumFunctionOnSet(f, T \cup {x}) = f[x] + SumFunctionOnSet(f, T)
      BY <3>1, <2>2, SumWithOneMore
    <3>3. SumFunctionOnSet(g, T \cup {x}) = g[x] + SumFunctionOnSet(g, T)
      BY <3>1, <2>2, SumWithOneMore
    <3>4. SumFunctionOnSet(f, T) \in Int /\ SumFunctionOnSet(g, T) \in Int
      BY <3>1, SumType
    <3>. QED  BY <3>1, <3>2, <3>3, <3>4, <2>2
  <2>3. S \in G
    <3>. HIDE DEF G
    <3>. QED  BY <2>1, <2>2, FiniteInduction
  <2>. QED  BY <2>3
<1>2. ASSUME \A y \in S : f[y] = g[y] PROVE SumFunctionOnSet(f, S) = SumFunctionOnSet(g, S)
  <2>. DEFINE G == {T \in SUBSET S : SumFunctionOnSet(f, T) = SumFunctionOnSet(g, T)}
  <2>1. {} \in G
    BY SumOfNothing
  <2>2. ASSUME NEW T \in SUBSET S, NEW x \in S, T \in G, x \notin T PROVE T \cup {x} \in G
    <3>1. IsFiniteSet(T) /\ f[x] \in Int /\ g[x] \in Int /\ f[x] = g[x]
          /\ (\A y \in T : f[y] \in Int /\ g[y] \in Int)
      BY <1>2, FS_Subset
    <3>2. SumFunctionOnSet(f, T \cup {x}) = f[x] + SumFunctionOnSet(f, T)
      BY <3>1, <2>2, SumWithOneMore
    <3>3. SumFunctionOnSet(g, T \cup {x}) = g[x] + SumFunctionOnSet(g, T)
      BY <3>1, <2>2, SumWithOneMore
    <3>. QED  BY <3>1, <3>2, <3>3, <2>2
  <2>3. S \in G
    <3>. HIDE DEF G
    <3>. QED  BY <2>1, <2>2, FiniteInduction
  <2>. QED  BY <2>3
<1>. QED  BY <1>1, <1>2

(* Two sets that do not meet add up; a part of a set has no larger sum.     *)
LEMMA SumOfBoth ==
    ASSUME NEW S, IsFiniteSet(S), NEW T, IsFiniteSet(T), S \cap T = {},
           NEW f, \A y \in S \cup T : f[y] \in Int
    PROVE  SumFunctionOnSet(f, S \cup T) = SumFunctionOnSet(f, S) + SumFunctionOnSet(f, T)
<1>. DEFINE G == {U \in SUBSET T : SumFunctionOnSet(f, S \cup U)
                                     = SumFunctionOnSet(f, S) + SumFunctionOnSet(f, U)}
<1>0. SumFunctionOnSet(f, S) \in Int
  BY SumType
<1>1. {} \in G
  <2>1. S \cup {} = S
    OBVIOUS
  <2>. QED  BY <2>1, <1>0, SumOfNothing
<1>2. ASSUME NEW U \in SUBSET T, NEW x \in T, U \in G, x \notin U PROVE U \cup {x} \in G
  <2>1. IsFiniteSet(U) /\ IsFiniteSet(S \cup U) /\ x \notin S \cup U /\ f[x] \in Int
        /\ (\A y \in U : f[y] \in Int) /\ (\A y \in S \cup U : f[y] \in Int)
    BY <1>2, FS_Subset, FS_Union
  <2>2. SumFunctionOnSet(f, U \cup {x}) = f[x] + SumFunctionOnSet(f, U)
    BY <2>1, <1>2, SumWithOneMore
  <2>3. SumFunctionOnSet(f, (S \cup U) \cup {x}) = f[x] + SumFunctionOnSet(f, S \cup U)
    BY <2>1, SumWithOneMore
  <2>4. S \cup (U \cup {x}) = (S \cup U) \cup {x}
    OBVIOUS
  <2>5. SumFunctionOnSet(f, U) \in Int
    BY <2>1, SumType
  <2>6. SumFunctionOnSet(f, S \cup U) = SumFunctionOnSet(f, S) + SumFunctionOnSet(f, U)
    BY <1>2
  <2>7. SumFunctionOnSet(f, S \cup (U \cup {x})) = SumFunctionOnSet(f, S) + SumFunctionOnSet(f, U \cup {x})
    <3>1. f[x] \in Int
      BY <2>1
    <3>2. SumFunctionOnSet(f, S \cup (U \cup {x})) = f[x] + SumFunctionOnSet(f, S \cup U)
      BY ONLY <2>3, <2>4, Zenon
    <3>. QED  BY ONLY <3>1, <3>2, <2>2, <2>5, <2>6, <1>0
  <2>. QED  BY <2>7
<1>3. T \in G
  <2>. HIDE DEF G
  <2>. QED  BY <1>1, <1>2, FiniteInduction
<1>. QED  BY <1>3

(* A part of values that are not negative has no greater sum.              *)
LEMMA SumOfPart ==
    ASSUME NEW S, IsFiniteSet(S), NEW T \in SUBSET S, NEW f, \A y \in S : f[y] \in Int /\ f[y] >= 0
    PROVE  SumFunctionOnSet(f, T) <= SumFunctionOnSet(f, S)
<1>1. IsFiniteSet(T) /\ IsFiniteSet(S \ T) /\ T \cup (S \ T) = S /\ T \cap (S \ T) = {}
  BY FS_Subset
<1>2. SumFunctionOnSet(f, T \cup (S \ T)) = SumFunctionOnSet(f, T) + SumFunctionOnSet(f, S \ T)
  BY <1>1, SumOfBoth
<1>3. SumFunctionOnSet(f, T) \in Int
  BY <1>1, SumType
<1>4. SumFunctionOnSet(f, S \ T) \in Nat
  <2>1. \A y \in S \ T : f[y] \in Int /\ f[y] >= 0
    OBVIOUS
  <2>. QED  BY <1>1, <2>1, SumType
<1>5. SumFunctionOnSet(f, S) = SumFunctionOnSet(f, T) + SumFunctionOnSet(f, S \ T)
  BY ONLY <1>1, <1>2
<1>. QED  BY ONLY <1>3, <1>4, <1>5

(* A sum does not change when its terms are named differently.              *)
LEMMA SumRenamed ==
    ASSUME NEW S, IsFiniteSet(S), NEW b, \A x, y \in S : b[x] = b[y] => x = y,
           NEW U, \A x \in S : b[x] \in U, \A y \in U : \E x \in S : y = b[x],
           NEW f, \A x \in S : f[x] \in Int, NEW g, \A x \in S : g[b[x]] = f[x]
    PROVE  IsFiniteSet(U) /\ SumFunctionOnSet(g, U) = SumFunctionOnSet(f, S)
<1>. DEFINE image(T) == {b[x] : x \in T}
            G == {T \in SUBSET S : IsFiniteSet(image(T))
                                   /\ SumFunctionOnSet(g, image(T)) = SumFunctionOnSet(f, T)}
<1>1. {} \in G
  <2>1. image({}) = {}
    OBVIOUS
  <2>. QED  BY <2>1, SumOfNothing, FS_EmptySet
<1>2. ASSUME NEW T \in SUBSET S, NEW x \in S, T \in G, x \notin T PROVE T \cup {x} \in G
  <2>1. image(T \cup {x}) = image(T) \cup {b[x]} /\ b[x] \notin image(T)
    BY <1>2
  <2>2. IsFiniteSet(T) /\ f[x] \in Int /\ (\A y \in T : f[y] \in Int)
    BY FS_Subset
  <2>3. SumFunctionOnSet(f, T \cup {x}) = f[x] + SumFunctionOnSet(f, T)
    BY <2>2, <1>2, SumWithOneMore
  <2>4. IsFiniteSet(image(T)) /\ SumFunctionOnSet(g, image(T)) = SumFunctionOnSet(f, T)
    BY <1>2
  <2>5. g[b[x]] = f[x] /\ \A y \in image(T) : g[y] \in Int
    OBVIOUS
  <2>. HIDE DEF image
  <2>6. SumFunctionOnSet(g, image(T) \cup {b[x]}) = g[b[x]] + SumFunctionOnSet(g, image(T))
    BY <2>1, <2>2, <2>4, <2>5, SumWithOneMore
  <2>7. IsFiniteSet(image(T \cup {x}))
    <3>1. IsFiniteSet(image(T) \cup {b[x]})
      BY <2>4, FS_AddElement
    <3>. QED  BY <2>1, <3>1
  <2>. QED  BY <2>1, <2>3, <2>4, <2>5, <2>6, <2>7
<1>3. S \in G
  <2>. HIDE DEF G
  <2>. QED  BY <1>1, <1>2, FiniteInduction
<1>4. U = image(S)
  OBVIOUS
<1>5. IsFiniteSet(image(S)) /\ SumFunctionOnSet(g, image(S)) = SumFunctionOnSet(f, S)
  BY <1>3
<1>. QED  BY <1>4, <1>5

(* The number of elements is a sum of ones.                                 *)
LEMMA SumOfOnes ==
    ASSUME NEW S, IsFiniteSet(S), NEW f, \A x \in S : f[x] = 1
    PROVE  SumFunctionOnSet(f, S) = Cardinality(S)
<1>. DEFINE G == {T \in SUBSET S : SumFunctionOnSet(f, T) = Cardinality(T)}
<1>1. {} \in G
  BY SumOfNothing, FS_EmptySet
<1>2. ASSUME NEW T \in SUBSET S, NEW x \in S, T \in G, x \notin T PROVE T \cup {x} \in G
  <2>1. IsFiniteSet(T) /\ f[x] = 1 /\ (\A y \in T : f[y] \in Int)
    BY FS_Subset
  <2>2. SumFunctionOnSet(f, T \cup {x}) = f[x] + SumFunctionOnSet(f, T)
    BY <2>1, <1>2, SumWithOneMore
  <2>3. Cardinality(T \cup {x}) = Cardinality(T) + 1 /\ Cardinality(T) \in Nat
    BY <2>1, <1>2, FS_AddElement, FS_CardinalityType
  <2>. QED  BY <2>1, <2>2, <2>3, <1>2
<1>3. S \in G
  <2>. HIDE DEF G
  <2>. QED  BY <1>1, <1>2, FiniteInduction
<1>. QED  BY <1>3

(* Adding up the sizes of a set of records.                                 *)
LEMMA SizesAddUp ==
    ASSUME NEW S, NEW f, \A a \in S : f[a] = a.size
    PROVE  BytesIn(S) = SumFunctionOnSet(f, S)
<1>. DEFINE pick(U) == CHOOSE x \in U : TRUE
            L(it) == [U \in SUBSET S |-> IF U = {} THEN 0 ELSE pick(U).size + it[U \ {pick(U)}]]
            R(it) == [U \in SUBSET S |-> IF U = {} THEN 0 ELSE f[pick(U)] + it[U \ {pick(U)}]]
<1>1. BytesIn(S) = (CHOOSE it : it = L(it))[S]
  BY DEF BytesIn, MapThenSumSet, MapThenFoldSet
<1>2. SumFunctionOnSet(f, S) = (CHOOSE it : it = R(it))[S]
  BY DEF SumFunctionOnSet, FoldFunctionOnSet, MapThenFoldSet
<1>3. ASSUME NEW it PROVE L(it) = R(it)
  <2>1. ASSUME NEW U \in SUBSET S, U # {} PROVE f[pick(U)] = pick(U).size
    <3>1. pick(U) \in U
      BY <2>1
    <3>. HIDE DEF pick
    <3>. QED  BY <3>1
  <2>. HIDE DEF pick
  <2>. QED  BY <2>1
<1>. HIDE DEF L, R
<1>. QED  BY <1>1, <1>2, <1>3

-----------------------------------------------------------------------------
(* The bytes of a set.                                                     *)

Sized(S) == IsFiniteSet(S) /\ \A a \in S : a.size \in Nat

SizeIn(S) == [a \in S |-> a.size]

(* The bytes of some are the sum of their sizes.                           *)
LEMMA BytesSum ==
    ASSUME NEW S, Sized(S), NEW T \in SUBSET S
    PROVE  /\ BytesIn(T) = SumFunctionOnSet(SizeIn(S), T)
           /\ Sized(T) /\ BytesIn(T) \in Nat
           /\ \A a \in T : SizeIn(S)[a] \in Int /\ SizeIn(S)[a] >= 0 /\ SizeIn(S)[a] = a.size
<1>. DEFINE f == SizeIn(S)
<1>1. IsFiniteSet(T) /\ \A a \in T : a.size \in Nat
  BY FS_Subset DEF Sized
<1>2. \A a \in T : f[a] = a.size
  BY DEF SizeIn
<1>. HIDE DEF f
<1>3. \A a \in T : f[a] \in Int /\ f[a] >= 0
  BY <1>1, <1>2
<1>4. BytesIn(T) = SumFunctionOnSet(f, T)
  BY <1>2, SizesAddUp
<1>5. SumFunctionOnSet(f, T) \in Nat
  BY <1>1, <1>3, SumType
<1>. QED  BY <1>1, <1>2, <1>3, <1>4, <1>5 DEF f, Sized

(* Nothing has no bytes.                                                   *)
LEMMA BytesOfNothing == BytesIn({}) = 0
<1>1. Sized({})
  BY FS_EmptySet DEF Sized
<1>2. BytesIn({}) = SumFunctionOnSet(SizeIn({}), {})
  BY <1>1, BytesSum
<1>. QED  BY <1>2, SumOfNothing

(* A part has no more bytes than the whole.                                *)
LEMMA BytesOfPart ==
    ASSUME NEW S, Sized(S), NEW T \in SUBSET S
    PROVE  BytesIn(T) <= BytesIn(S)
<1>. DEFINE f == SizeIn(S)
<1>1. BytesIn(T) = SumFunctionOnSet(f, T) /\ BytesIn(S) = SumFunctionOnSet(f, S)
  BY BytesSum
<1>2. \A a \in S : f[a] \in Int /\ f[a] >= 0
  BY BytesSum
<1>3. IsFiniteSet(S)
  BY DEF Sized
<1>. HIDE DEF f
<1>4. SumFunctionOnSet(f, T) <= SumFunctionOnSet(f, S)
  BY <1>2, <1>3, SumOfPart
<1>. QED  BY <1>1, <1>4

(* The bytes of two sets apart add up.                                     *)
LEMMA BytesOfBoth ==
    ASSUME NEW S, Sized(S), NEW T, Sized(T), S \cap T = {}
    PROVE  Sized(S \cup T) /\ BytesIn(S \cup T) = BytesIn(S) + BytesIn(T)
<1>. DEFINE U == S \cup T
            f == SizeIn(U)
<1>1. IsFiniteSet(S) /\ IsFiniteSet(T)
  BY DEF Sized
<1>2. Sized(U)
  BY <1>1, FS_Union DEF Sized
<1>3. S \in SUBSET U /\ T \in SUBSET U /\ U \in SUBSET U
  OBVIOUS
<1>. HIDE DEF f
<1>4. /\ BytesIn(S) = SumFunctionOnSet(f, S) /\ BytesIn(T) = SumFunctionOnSet(f, T)
      /\ BytesIn(U) = SumFunctionOnSet(f, U)
  BY <1>2, <1>3, BytesSum DEF f
<1>5. \A a \in U : f[a] \in Int
  BY <1>2, <1>3, BytesSum DEF f
<1>6. SumFunctionOnSet(f, S \cup T) = SumFunctionOnSet(f, S) + SumFunctionOnSet(f, T)
  BY <1>1, <1>5, SumOfBoth
<1>. QED  BY <1>2, <1>4, <1>6

(* Terms that are each at most the size of an element of their own.         *)
LEMMA SumAtMostBytes ==
    ASSUME NEW S, IsFiniteSet(S), NEW U, Sized(U), NEW b, \A x \in S : b[x] \in U,
           \A x, y \in S : b[x] = b[y] => x = y,
           NEW f, \A x \in S : f[x] \in Int /\ f[x] <= b[x].size
    PROVE  SumFunctionOnSet(f, S) <= BytesIn(U)
<1>. DEFINE T == {b[x] : x \in S}
            g == SizeIn(U)
            h == [x \in S |-> b[x].size]
<1>1. T \in SUBSET U
  OBVIOUS
<1>2. \A x \in S : b[x] \in T
  OBVIOUS
<1>3. \A y \in T : \E x \in S : y = b[x]
  OBVIOUS
<1>. HIDE DEF T, g, h
<1>4. \A x \in S : h[x] = b[x].size /\ h[x] \in Int
  BY DEF h, Sized
<1>5. \A x \in S : h[x] \in Int
  BY <1>4
<1>6. \A x \in S : g[b[x]] = h[x]
  <2>1. \A a \in T : g[a] = a.size
    BY <1>1, BytesSum DEF g
  <2>. QED  BY <1>2, <1>4, <2>1
<1>7. SumFunctionOnSet(g, T) = SumFunctionOnSet(h, S)
  BY <1>2, <1>3, <1>5, <1>6, SumRenamed
<1>8. SumFunctionOnSet(f, S) <= SumFunctionOnSet(h, S)
  <2>1. \A x \in S : f[x] \in Int /\ h[x] \in Int
    BY <1>4
  <2>2. \A x \in S : f[x] <= h[x]
    BY <1>4
  <2>. QED  BY <2>1, <2>2, SumCompare
<1>9. BytesIn(T) = SumFunctionOnSet(g, T) /\ BytesIn(T) \in Nat
  BY <1>1, BytesSum DEF g
<1>10. BytesIn(T) <= BytesIn(U) /\ BytesIn(U) \in Nat
  <2>1. U \in SUBSET U
    OBVIOUS
  <2>. QED  BY <1>1, <2>1, BytesOfPart, BytesSum
<1>11. SumFunctionOnSet(f, S) \in Int
  BY SumType
<1>. QED  BY ONLY <1>7, <1>8, <1>9, <1>10, <1>11

(* Elements of the same sizes.                                             *)
LEMMA BytesRenamed ==
    ASSUME NEW S, Sized(S), NEW U, NEW b, \A x \in S : b[x] \in U,
           \A y \in U : \E x \in S : y = b[x], \A x, y \in S : b[x] = b[y] => x = y,
           \A x \in S : b[x].size = x.size
    PROVE  Sized(U) /\ BytesIn(U) = BytesIn(S)
<1>. DEFINE f == SizeIn(S)
            g == [y \in U |-> y.size]
<1>1. BytesIn(S) = SumFunctionOnSet(f, S) /\ \A x \in S : f[x] \in Int /\ f[x] = x.size
  BY BytesSum
<1>2. \A y \in U : g[y] = y.size
  OBVIOUS
<1>. HIDE DEF f, g
<1>3. \A x \in S : f[x] \in Int
  BY <1>1
<1>4. \A x \in S : g[b[x]] = f[x]
  BY <1>1, <1>2
<1>5. IsFiniteSet(S)
  BY DEF Sized
<1>6. IsFiniteSet(U) /\ SumFunctionOnSet(g, U) = SumFunctionOnSet(f, S)
  <2>1. \A x \in S : b[x] \in U
    OBVIOUS
  <2>2. \A y \in U : \E x \in S : y = b[x]
    OBVIOUS
  <2>3. \A x, y \in S : b[x] = b[y] => x = y
    OBVIOUS
  <2>. QED  BY ONLY <1>3, <1>4, <1>5, <2>1, <2>2, <2>3, SumRenamed
<1>7. \A y \in U : y.size \in Nat
  BY DEF Sized
<1>8. BytesIn(U) = SumFunctionOnSet(g, U)
  BY <1>2, SizesAddUp
<1>. QED  BY <1>1, <1>6, <1>7, <1>8 DEF Sized

(* The largest and the least of a set.                                      *)
LEMMA MaxIs ==
    ASSUME NEW S \in SUBSET Int, NEW x \in S, \A y \in S : x >= y
    PROVE  Max(S) = x
<1>1. \A y \in S : (\A z \in S : y >= z) => y = x
  <2>1. ASSUME NEW y \in S, \A z \in S : y >= z
        PROVE  y = x
    <3>1. x <= y /\ y <= x /\ x \in Int /\ y \in Int
      BY <2>1
    <3>. QED  BY <3>1
  <2>. QED  BY <2>1
<1>. QED  BY <1>1 DEF Max

(* A least element is the minimum.                                         *)
LEMMA MinIs ==
    ASSUME NEW S \in SUBSET Int, NEW x \in S, \A y \in S : x <= y
    PROVE  Min(S) = x
<1>1. \A y \in S : (\A z \in S : y <= z) => y = x
  <2>1. ASSUME NEW y \in S, \A z \in S : y <= z
        PROVE  y = x
    <3>1. x <= y /\ y <= x /\ x \in Int /\ y \in Int
      BY <2>1
    <3>. QED  BY <3>1
  <2>. QED  BY <2>1
<1>. QED  BY <1>1 DEF Min

(* A finite set of integers has a maximum.                                 *)
LEMMA MaxExists ==
    ASSUME NEW S \in SUBSET Int, IsFiniteSet(S), S # {}
    PROVE  Max(S) \in S /\ \A y \in S : Max(S) >= y
<1>. DEFINE R == {p \in S \X S : p[1] < p[2]}
<1>1. TotallyOrders(R, S)
  BY DEF TotallyOrders
<1>0. \A u, v \in S : <<u, v>> \in R <=> u < v
  OBVIOUS
<1>. HIDE DEF R
<1>2. PICK x \in S : \A y \in S \ {x} : <<y, x>> \in R
  BY <1>1, LastElement
<1>3. ASSUME NEW y \in S PROVE x >= y
  <2>1. x \in Int /\ y \in Int
    OBVIOUS
  <2>2. CASE y = x
    BY <2>1, <2>2
  <2>3. CASE y # x
    <3>1. <<y, x>> \in R
      BY <1>2, <2>3
    <3>. QED  BY <1>0, <2>1, <3>1
  <2>. QED  BY <2>2, <2>3
<1>4. Max(S) = x
  BY <1>3, MaxIs
<1>. QED  BY <1>3, <1>4

(* A finite set of integers has a minimum.                                 *)
LEMMA MinExists ==
    ASSUME NEW S \in SUBSET Int, IsFiniteSet(S), S # {}
    PROVE  Min(S) \in S /\ \A y \in S : Min(S) <= y
<1>. DEFINE R == {p \in S \X S : p[2] < p[1]}
<1>1. TotallyOrders(R, S)
  BY DEF TotallyOrders
<1>0. \A u, v \in S : <<u, v>> \in R <=> v < u
  OBVIOUS
<1>. HIDE DEF R
<1>2. PICK x \in S : \A y \in S \ {x} : <<y, x>> \in R
  BY <1>1, LastElement
<1>3. ASSUME NEW y \in S PROVE x <= y
  <2>1. x \in Int /\ y \in Int
    OBVIOUS
  <2>2. CASE y = x
    BY <2>1, <2>2
  <2>3. CASE y # x
    <3>1. <<y, x>> \in R
      BY <1>2, <2>3
    <3>. QED  BY <1>0, <2>1, <3>1
  <2>. QED  BY <2>2, <2>3
<1>4. Min(S) = x
  BY <1>3, MinIs
<1>. QED  BY <1>3, <1>4

(* The maximum and the minimum of two integers.                            *)
LEMMA OfTwo ==
    ASSUME NEW a \in Int, NEW b \in Int
    PROVE  /\ Max({a, b}) = IF a >= b THEN a ELSE b
           /\ Min({a, b}) = IF a <= b THEN a ELSE b
<1>. DEFINE S == {a, b}
<1>1. S \in SUBSET Int
  OBVIOUS
<1>2. CASE a >= b
  <2>1. \A y \in S : a >= y
    BY <1>2
  <2>2. Max(S) = a
    BY <1>1, <2>1, MaxIs
  <2>3. \A y \in S : b <= y
    BY <1>2
  <2>4. Min(S) = b
    BY <1>1, <2>3, MinIs
  <2>. QED  BY <1>2, <2>2, <2>4
<1>3. CASE ~(a >= b)
  <2>1. \A y \in S : b >= y
    BY <1>3
  <2>2. Max(S) = b
    BY <1>1, <2>1, MaxIs
  <2>3. \A y \in S : a <= y
    BY <1>3
  <2>4. Min(S) = a
    BY <1>1, <2>3, MinIs
  <2>. QED  BY <1>3, <2>2, <2>4
<1>. QED  BY <1>2, <1>3

-----------------------------------------------------------------------------
(* The recursion of the library's folds, which takes away the last place.  *)
FoldsUp(it, q, X, base, step) ==
    /\ it \in [SUBSET DOMAIN q -> X]
    /\ it = [T \in SUBSET DOMAIN q |->
               IF T = {} THEN base ELSE step[<<it[T \ {Max(T)}], q[Max(T)]>>]]

(* A fold over a list from the left exists.                                *)
LEMMA FoldExists ==
    ASSUME NEW n \in Nat, NEW q, DOMAIN q = 1 .. n, NEW D, \A i \in 1 .. n : q[i] \in D,
           NEW X, NEW base \in X, NEW step \in [X \X D -> X]
    PROVE  \E it : FoldsUp(it, q, X, base, step)
<1>. DEFINE S == DOMAIN q
            pick == [T \in SUBSET S |-> Max(T)]
            st == [p \in S \X X |-> step[<<p[2], q[p[1]]>>]]
<1>1. IsFiniteSet(S)
  BY FS_Interval
<1>2. ASSUME NEW T \in SUBSET S, T # {}
      PROVE  Max(T) \in T
  <2>1. IsFiniteSet(T)
    BY <1>1, FS_Subset
  <2>2. T \in SUBSET Int
    OBVIOUS
  <2>. QED  BY <1>2, <2>1, <2>2, MaxExists
<1>3. \A T \in SUBSET S : T # {} => pick[T] \in T
  BY <1>2
<1>4. st \in [S \X X -> X]
  <2>1. ASSUME NEW p \in S \X X PROVE step[<<p[2], q[p[1]]>>] \in X
    <3>1. <<p[2], q[p[1]]>> \in X \X D
      OBVIOUS
    <3>. QED  BY <3>1
  <2>. QED  BY <2>1
<1>5. PICK it \in [SUBSET S -> X] :
         it = [T \in SUBSET S |-> IF T = {} THEN base ELSE st[<<pick[T], it[T \ {pick[T]}]>>]]
  <2>0. base \in X
    OBVIOUS
  <2>. HIDE DEF S, pick, st
  <2>1. \E it \in [SUBSET S -> X] : Recurses(it, S, base, st, pick)
    BY ONLY <1>1, <1>3, <1>4, <2>0, SetRecursion
  <2>. QED  BY ONLY <2>1 DEF Recurses
<1>6. ASSUME NEW T \in SUBSET S
      PROVE  it[T] = IF T = {} THEN base ELSE step[<<it[T \ {Max(T)}], q[Max(T)]>>]
  <2>1. CASE T = {}
    BY <1>5, <2>1
  <2>2. CASE T # {}
    <3>1. Max(T) \in S /\ T \ {Max(T)} \in SUBSET S
      BY <1>2, <2>2
    <3>2. it[T] = st[<<pick[T], it[T \ {pick[T]}]>>]
      <4>. HIDE DEF st, pick
      <4>. QED  BY <1>5, <2>2
    <3>3. it[T \ {Max(T)}] \in X
      BY <3>1
    <3>4. pick[T] = Max(T)
      OBVIOUS
    <3>5. <<Max(T), it[T \ {Max(T)}]>> \in S \X X
      BY <3>1, <3>3
    <3>. QED  BY <2>2, <3>2, <3>4, <3>5
  <2>. QED  BY <2>1, <2>2
<1>7. it = [T \in SUBSET S |-> IF T = {} THEN base ELSE step[<<it[T \ {Max(T)}], q[Max(T)]>>]]
  <2>. HIDE DEF S, pick, st
  <2>1. it = [T \in SUBSET S |-> it[T]]
    BY <1>5
  <2>. QED  BY <1>6, <2>1
<1>. QED  BY <1>5, <1>7 DEF FoldsUp

(* What is before the last place of the first ones.                         *)
LEMMA FirstPlaces ==
    ASSUME NEW n \in Nat, NEW m \in 0 .. n - 1
    PROVE  /\ 1 .. m + 1 \in SUBSET (1 .. n) /\ 1 .. m + 1 # {}
           /\ Max(1 .. m + 1) = m + 1 /\ (1 .. m + 1) \ {m + 1} = 1 .. m
<1>1. 1 .. m + 1 \in SUBSET Int /\ m + 1 \in 1 .. m + 1
  OBVIOUS
<1>0. \A y \in 1 .. m + 1 : m + 1 >= y
  OBVIOUS
<1>2. Max(1 .. m + 1) = m + 1
  BY ONLY <1>0, <1>1, MaxIs
<1>. QED  BY <1>2

-----------------------------------------------------------------------------
(* The pass of _extract_allocations.                                       *)

(* A trace as the analyzer gets it: integers for addresses and sizes.      *)
Readable(tr) ==
    /\ Len(tr) \in Nat /\ DOMAIN tr = 1 .. Len(tr)
    /\ \A i \in DOMAIN tr : tr[i].addr \in Int /\ tr[i].size \in Int

(* What ends an allocation at an address: a request or a completion.       *)
FreesAt(ev, addr) == IsFree(ev) /\ ev.addr = addr

(* No address is allocated twice without a free between.                   *)
FreedBetween(tr) ==
    \A i, j \in Births(tr) :
        i < j /\ tr[i].addr = tr[j].addr => \E k \in i + 1 .. j - 1 : FreesAt(tr[k], tr[i].addr)

(* The first free at the address of event i, if one of the first n events.  *)
Untouched(tr, i, n) == \A k \in i + 1 .. n : ~FreesAt(tr[k], tr[i].addr)
FreedBy(tr, i, k)   == k > i /\ FreesAt(tr[k], tr[i].addr) /\ Untouched(tr, i, k - 1)

-----------------------------------------------------------------------------
(* The pass is a recursion over the events.                                *)

(* What the pass carries from event to event.                              *)
States(tr) == [open : [{tr[i].addr : i \in DOMAIN tr} -> Seq(Nat)], freed : [DOMAIN tr -> Nat]]

(* What is left of a stack is a stack.                                     *)
LEMMA FrontTyped ==
    ASSUME NEW s \in Seq(Nat), s # <<>>
    PROVE  Front(s) \in Seq(Nat)
BY DEF Front

(* An event takes the pass from state to state.                            *)
LEMMA ApplyTyped ==
    ASSUME NEW tr, Readable(tr), NEW i \in DOMAIN tr, NEW s \in States(tr)
    PROVE  Apply(s, i, tr[i]) \in States(tr)
<1>. DEFINE A == {tr[j].addr : j \in DOMAIN tr}
            a == tr[i].addr
<1>1. i \in Nat /\ i - 1 \in Nat
  BY DEF Readable
<1>2. s = [open |-> s.open, freed |-> s.freed] /\ s.open \in [A -> Seq(Nat)] /\ s.freed \in [DOMAIN tr -> Nat]
  BY DEF States
<1>3. Allocate1(s, i, a) \in States(tr)
  <2>1. Allocate1(s, i, a) = [open |-> [s.open EXCEPT ![a] = Append(@, i)], freed |-> s.freed]
    BY <1>2 DEF Allocate1
  <2>2. a \in A
    OBVIOUS
  <2>. HIDE DEF A, a
  <2>3. Append(s.open[a], i) \in Seq(Nat)
    BY <1>1, <1>2, <2>2
  <2>4. [s.open EXCEPT ![a] = Append(@, i)] \in [A -> Seq(Nat)]
    BY <1>2, <2>2, <2>3
  <2>. QED  BY <1>2, <2>1, <2>4 DEF States, A
<1>4. Free1(s, i, a) \in States(tr)
  <2>0. a \in A
    OBVIOUS
  <2>. HIDE DEF A, a
  <2>1. CASE s.open[a] = <<>>
    BY <2>1 DEF Free1
  <2>2. CASE s.open[a] # <<>>
    <3>1. Front(s.open[a]) \in Seq(Nat)
      BY <1>2, <2>0, <2>2, FrontTyped
    <3>2. [s.open EXCEPT ![a] = Front(@)] \in [A -> Seq(Nat)]
      BY <1>2, <2>0, <3>1
    <3>3. [s.freed EXCEPT ![Last(s.open[a])] = i - 1] \in [DOMAIN tr -> Nat]
      BY <1>1, <1>2
    <3>. QED  BY <2>2, <3>2, <3>3 DEF Free1, States, A
  <2>. QED  BY <2>1, <2>2
<1>. QED  BY <1>3, <1>4 DEF Apply

(* The pass begins with nothing open and applies the events in turn.       *)
LEMMA PassSteps ==
    ASSUME NEW tr, Readable(tr)
    PROVE  /\ Pass(tr) \in [0 .. Len(tr) -> States(tr)]
           /\ Pass(tr)[0] = Unread(tr)
           /\ \A i \in 1 .. Len(tr) : Pass(tr)[i] = Apply(Pass(tr)[i - 1], i, tr[i])
<1>. DEFINE n == Len(tr)
            X == States(tr)
            step == [p \in Nat \X X |-> IF p[1] + 1 \in 1 .. n THEN Apply(p[2], p[1] + 1, tr[p[1] + 1]) ELSE p[2]]
            Body(g) == [i \in 0 .. n |-> IF i = 0 THEN Unread(tr) ELSE Apply(g[i - 1], i, tr[i])]
<1>1. n \in Nat /\ DOMAIN tr = 1 .. n
  BY DEF Readable
<1>2. Unread(tr) \in X
  BY <1>1 DEF Unread, States
<1>3. step \in [Nat \X X -> X]
  <2>1. ASSUME NEW m \in Nat, NEW s \in X, m + 1 \in 1 .. n
        PROVE  Apply(s, m + 1, tr[m + 1]) \in X
    BY <1>1, <2>1, ApplyTyped
  <2>. HIDE DEF n, X
  <2>. QED  BY <2>1
<1>4. PICK g \in [0 .. n -> X] : Unfolds(g, n, Unread(tr), step)
  <2>. HIDE DEF step, X, n
  <2>. QED  BY <1>1, <1>2, <1>3, RecursionOnNat
<1>5. ASSUME NEW i \in 1 .. n
      PROVE  g[i] = Apply(g[i - 1], i, tr[i])
  <2>1. i - 1 \in Nat /\ i - 1 \in 0 .. n - 1 /\ i - 1 \in 0 .. n /\ (i - 1) + 1 = i
    BY <1>1
  <2>2. g[i] = step[<<i - 1, g[i - 1]>>]
    BY <1>4, <2>1 DEF Unfolds
  <2>3. <<i - 1, g[i - 1]>> \in Nat \X X
    BY <2>1, <1>4
  <2>. HIDE DEF X, n
  <2>. QED  BY <2>1, <2>2, <2>3
<1>. HIDE DEF step
<1>6. g = Body(g)
  <2>1. ASSUME NEW i \in 0 .. n
        PROVE  g[i] = IF i = 0 THEN Unread(tr) ELSE Apply(g[i - 1], i, tr[i])
    <3>1. CASE i = 0
      BY <1>4, <3>1 DEF Unfolds
    <3>2. CASE i # 0
      <4>1. i \in 1 .. n
        BY <1>1, <3>2
      <4>. QED  BY <1>5, <3>2, <4>1
    <3>. QED  BY <3>1, <3>2
  <2>. QED  BY <1>4, <2>1
<1>7. Pass(tr) = CHOOSE h : h = Body(h)
  BY DEF Pass
<1>8. Pass(tr) = Body(Pass(tr))
  <2>. HIDE DEF Body
  <2>. QED  BY <1>6, <1>7
<1>. DEFINE P == Pass(tr)
<1>9. P[0] = Unread(tr) /\ \A i \in 1 .. n : P[i] = Apply(P[i - 1], i, tr[i])
  <2>. HIDE DEF n, P
  <2>1. DOMAIN P = 0 .. n /\ \A i \in 0 .. n : P[i] = IF i = 0 THEN Unread(tr) ELSE Apply(P[i - 1], i, tr[i])
    BY <1>8 DEF P
  <2>. QED  BY <2>1, <1>1
<1>10. P = [i \in 0 .. n |-> P[i]]
  BY <1>8
<1>11. \A i \in 0 .. n : P[i] \in X
  <2>. HIDE DEF P, n, X
  <2>. DEFINE S == {m \in Nat : m <= n => P[m] \in X}
  <2>1. 0 \in S
    BY <1>9, <1>2
  <2>2. ASSUME NEW m \in Nat, m \in S
        PROVE  m + 1 \in S
    <3>1. m + 1 <= n => m + 1 \in 1 .. n /\ (m + 1) - 1 = m /\ P[m] \in X
      BY <1>1, <2>2
    <3>2. m + 1 <= n => P[m + 1] = Apply(P[m], m + 1, tr[m + 1])
      BY <3>1, <1>9
    <3>3. m + 1 <= n => Apply(P[m], m + 1, tr[m + 1]) \in X
      BY <3>1, <1>1, ApplyTyped DEF X
    <3>. QED  BY <3>2, <3>3
  <2>3. Nat \subseteq S
    <3>. HIDE DEF S
    <3>. QED  BY <2>1, <2>2, SetInduction
  <2>. QED  BY <2>3
<1>. HIDE DEF P
<1>. QED  BY <1>9, <1>10, <1>11 DEF P

-----------------------------------------------------------------------------
(* What the pass has found after n events: per address the one allocation  *)
(* that is open, and what ended the others.                                *)

(* After n events the allocation of event i has not been freed.            *)
OpenAt(tr, i, n) == i <= n /\ Untouched(tr, i, n)

OpenOnly(tr, i, a, n) == \A j \in Births(tr) : tr[j].addr = a /\ OpenAt(tr, j, n) <=> j = i

Found(tr, s, n) ==
    /\ \A a \in {tr[i].addr : i \in DOMAIN tr} :
         \/ s.open[a] = <<>> /\ \A i \in Births(tr) : tr[i].addr = a => ~OpenAt(tr, i, n)
         \/ \E i \in Births(tr) : OpenOnly(tr, i, a, n) /\ s.open[a] = <<i>>
    /\ \A i \in Births(tr) :
         \/ (i > n \/ OpenAt(tr, i, n)) /\ s.freed[i] = Len(tr)
         \/ \E k \in 1 .. n : FreedBy(tr, i, k) /\ s.freed[i] = k - 1

(* An event that opens or frees nothing.                                   *)
LEMMA FoundSkips ==
    ASSUME NEW tr, Readable(tr), NEW n \in Nat, n + 1 \in DOMAIN tr, NEW s \in States(tr),
           Found(tr, s, n), n + 1 \notin Births(tr),
           \A i \in Births(tr) : ~FreesAt(tr[n + 1], tr[i].addr)
    PROVE  Found(tr, s, n + 1)
<1>1. ASSUME NEW i \in Births(tr)
      PROVE  (i > n <=> i > n + 1) /\ (OpenAt(tr, i, n) <=> OpenAt(tr, i, n + 1))
  <2>1. i \in Nat /\ i # n + 1
    BY DEF Readable, Births
  <2>2. \A k \in i + 1 .. n + 1 : k = n + 1 \/ k \in i + 1 .. n
    BY <2>1
  <2>. QED  BY <2>1, <2>2 DEF OpenAt, Untouched
<1>2. \A k \in 1 .. n : k \in 1 .. n + 1
  OBVIOUS
<1>. QED  BY <1>1, <1>2 DEF Found, OpenOnly

(* An allocation, of an address that is not open.                          *)
LEMMA FoundAllocates ==
    ASSUME NEW tr, Readable(tr), FreedBetween(tr), NEW n \in Nat, n + 1 \in Births(tr),
           NEW s \in States(tr), Found(tr, s, n)
    PROVE  Found(tr, Allocate1(s, n + 1, tr[n + 1].addr), n + 1)
<1>. DEFINE A == {tr[i].addr : i \in DOMAIN tr}
            m == n + 1
            a == tr[m].addr
            t == Allocate1(s, m, a)
<1>0. m \in DOMAIN tr /\ a \in A /\ m \in Nat /\ m > n /\ IsAlloc(tr[m])
  BY DEF Births
<1>1. /\ t.freed = s.freed
      /\ t.open[a] = Append(s.open[a], m)
      /\ \A c \in A : c # a => t.open[c] = s.open[c]
  BY <1>0 DEF Allocate1, States
<1>2. \A i \in Births(tr) : i \in Nat
  BY DEF Births, Readable
<1>3. ASSUME NEW i \in Births(tr), i # m
      PROVE  (i > n <=> i > m) /\ (OpenAt(tr, i, n) <=> OpenAt(tr, i, m))
  <2>1. \A k \in i + 1 .. m : k = m \/ k \in i + 1 .. n
    BY <1>2
  <2>2. \A k \in i + 1 .. n : k \in i + 1 .. m
    BY <1>2
  <2>3. ~IsFree(tr[m])
    BY <1>0 DEF IsAlloc, IsFree
  <2>. QED  BY <1>2, <1>3, <2>1, <2>2, <2>3 DEF OpenAt, Untouched, FreesAt
<1>4. OpenAt(tr, m, m)
  BY <1>0 DEF OpenAt, Untouched
<1>5. \A i \in Births(tr) : tr[i].addr = a => ~OpenAt(tr, i, n)
  <2>1. SUFFICES ASSUME NEW i \in Births(tr), tr[i].addr = a, OpenAt(tr, i, n)
                 PROVE  FALSE
    OBVIOUS
  <2>2. i < m
    BY <1>0, <1>2, <2>1 DEF OpenAt
  <2>3. PICK k \in i + 1 .. m - 1 : FreesAt(tr[k], tr[i].addr)
    BY <2>1, <2>2 DEF FreedBetween
  <2>4. k \in i + 1 .. n
    BY <1>2, <2>3
  <2>. QED  BY <2>1, <2>3, <2>4 DEF OpenAt, Untouched
<1>6. t.open[a] = <<m>>
  <2>1. s.open[a] = <<>>
    BY <1>0, <1>5 DEF Found, OpenOnly
  <2>. QED  BY <1>1, <2>1
<1>. HIDE DEF t
<1>7. ASSUME NEW c \in A
      PROVE  \/ t.open[c] = <<>> /\ \A i \in Births(tr) : tr[i].addr = c => ~OpenAt(tr, i, m)
             \/ \E i \in Births(tr) : OpenOnly(tr, i, c, m) /\ t.open[c] = <<i>>
  <2>1. CASE c = a
    BY <1>0, <1>3, <1>4, <1>5, <1>6, <2>1 DEF OpenOnly
  <2>2. CASE c # a
    <3>1. \A i \in Births(tr) : tr[i].addr = c => i # m
      BY <2>2
    <3>. QED  BY <1>1, <1>3, <2>2, <3>1 DEF Found, OpenOnly
  <2>. QED  BY <2>1, <2>2
<1>8. ASSUME NEW i \in Births(tr)
      PROVE  \/ (i > m \/ OpenAt(tr, i, m)) /\ t.freed[i] = Len(tr)
             \/ \E k \in 1 .. m : FreedBy(tr, i, k) /\ t.freed[i] = k - 1
  <2>1. \A k \in 1 .. n : k \in 1 .. m /\ k < m
    OBVIOUS
  <2>2. CASE i = m
    <3>1. ~\E k \in 1 .. n : FreedBy(tr, i, k)
      BY <2>1, <2>2 DEF FreedBy
    <3>. QED  BY <1>1, <1>4, <2>2, <3>1 DEF Found
  <2>3. CASE i # m
    BY <1>1, <1>3, <2>1, <2>3 DEF Found
  <2>. QED  BY <2>2, <2>3
<1>9. Found(tr, t, m)
  BY <1>7, <1>8 DEF Found
<1>. QED  BY <1>9 DEF t

(* A free ends the lifetime of the allocation that is open at its address, *)
(* if there is one.                                                        *)
LEMMA FoundFrees ==
    ASSUME NEW tr, Readable(tr), NEW n \in Nat, n + 1 \in DOMAIN tr, IsFree(tr[n + 1]),
           NEW s \in States(tr), Found(tr, s, n)
    PROVE  Found(tr, Free1(s, n + 1, tr[n + 1].addr), n + 1)
<1>. DEFINE A == {tr[i].addr : i \in DOMAIN tr}
            m == n + 1
            a == tr[m].addr
            t == Free1(s, m, a)
<1>0. m \in DOMAIN tr /\ a \in A /\ m \in Nat /\ m > n /\ m - 1 = n
  OBVIOUS
<1>1. m \notin Births(tr)
  BY DEF Births, IsAlloc, IsFree
<1>2. \A i \in Births(tr) : i \in Nat /\ i \in DOMAIN tr
  BY DEF Births, Readable
<1>3. ASSUME NEW i \in Births(tr)
      PROVE  /\ i > n <=> i > m
             /\ OpenAt(tr, i, m) <=> OpenAt(tr, i, n) /\ tr[i].addr # a
             /\ OpenAt(tr, i, n) /\ tr[i].addr = a => FreedBy(tr, i, m)
  <2>1. \A k \in i + 1 .. m : k = m \/ k \in i + 1 .. n
    BY <1>2
  <2>2. \A k \in i + 1 .. n : k \in i + 1 .. m
    BY <1>2
  <2>3. i # m
    BY <1>1
  <2>4. i <= n <=> i <= m
    BY <1>2, <2>3
  <2>5. i <= n => m \in i + 1 .. m
    BY <1>2
  <2>. QED  BY <1>0, <1>2, <2>1, <2>2, <2>4, <2>5 DEF OpenAt, Untouched, FreesAt, FreedBy
<1>4. ASSUME NEW c \in A, c # a
      PROVE  t.open[c] = s.open[c]
  BY <1>0, <1>4 DEF Free1, States
<1>5. CASE s.open[a] = <<>>
  <2>1. t = s
    BY <1>5 DEF Free1
  <2>2. \A i \in Births(tr) : tr[i].addr = a => ~OpenAt(tr, i, n)
    <3>1. \A i : s.open[a] # <<i>>
      BY <1>5
    <3>. HIDE DEF a, m
    <3>. QED  BY <1>0, <3>1 DEF Found
  <2>3. \A k \in 1 .. n : k \in 1 .. m
    OBVIOUS
  <2>. HIDE DEF t, m
  <2>4. Found(tr, s, m)
    BY <1>3, <2>2, <2>3 DEF Found, OpenOnly
  <2>. QED  BY <2>1, <2>4 DEF t, m
<1>6. ASSUME NEW o \in Births(tr), OpenOnly(tr, o, a, n), s.open[a] = <<o>>
      PROVE  Found(tr, t, m)
  <2>1. Last(s.open[a]) = o /\ Front(s.open[a]) = <<>> /\ s.open[a] # <<>>
    BY <1>6 DEF Last, Front
  <2>2. t.open[a] = <<>> /\ t.freed = [s.freed EXCEPT ![o] = m - 1]
    BY <1>0, <2>1 DEF Free1, States
  <2>3. s.freed \in [DOMAIN tr -> Nat]
    BY DEF States
  <2>4. t.freed[o] = m - 1 /\ \A i \in Births(tr) : i # o => t.freed[i] = s.freed[i]
    BY <1>2, <2>2, <2>3
  <2>5. \A i \in Births(tr) : tr[i].addr = a /\ OpenAt(tr, i, n) => i = o
    BY <1>6 DEF OpenOnly
  <2>. HIDE DEF t
  <2>6. ASSUME NEW c \in A
        PROVE  \/ t.open[c] = <<>> /\ \A i \in Births(tr) : tr[i].addr = c => ~OpenAt(tr, i, m)
               \/ \E i \in Births(tr) : OpenOnly(tr, i, c, m) /\ t.open[c] = <<i>>
    <3>1. CASE c = a
      BY <1>3, <2>2, <3>1
    <3>2. CASE c # a
      BY <1>3, <1>4, <3>2 DEF Found, OpenOnly
    <3>. QED  BY <3>1, <3>2
  <2>7. ASSUME NEW i \in Births(tr)
        PROVE  \/ (i > m \/ OpenAt(tr, i, m)) /\ t.freed[i] = Len(tr)
               \/ \E k \in 1 .. m : FreedBy(tr, i, k) /\ t.freed[i] = k - 1
    <3>1. \A k \in 1 .. n : k \in 1 .. m
      OBVIOUS
    <3>2. m \in 1 .. m
      OBVIOUS
    <3>3. CASE i = o
      BY <1>3, <1>6, <2>4, <3>2, <3>3 DEF OpenOnly
    <3>4. CASE i # o
      BY <1>3, <2>4, <2>5, <3>1, <3>4 DEF Found
    <3>. QED  BY <3>3, <3>4
  <2>. QED  BY <2>6, <2>7 DEF Found
<1>. QED  BY <1>0, <1>5, <1>6 DEF Found

(* After every event the pass has found what there is to find.             *)
LEMMA PassFinds ==
    ASSUME NEW tr, Readable(tr), FreedBetween(tr)
    PROVE  \A n \in 0 .. Len(tr) : Found(tr, Pass(tr)[n], n)
<1>. DEFINE S == {n \in Nat : n <= Len(tr) => Found(tr, Pass(tr)[n], n)}
<1>1. 0 \in S
  <2>1. Pass(tr)[0] = Unread(tr)
    BY PassSteps
  <2>2. \A i \in Births(tr) : i \in DOMAIN tr /\ i > 0 /\ ~OpenAt(tr, i, 0)
    BY DEF Births, Readable, OpenAt
  <2>3. Found(tr, Unread(tr), 0)
    BY <2>2 DEF Found, Unread
  <2>. QED  BY <2>1, <2>3
<1>2. ASSUME NEW n \in Nat, n \in S
      PROVE  n + 1 \in S
  <2>. SUFFICES ASSUME n + 1 <= Len(tr)
                PROVE  Found(tr, Pass(tr)[n + 1], n + 1)
    OBVIOUS
  <2>. DEFINE s == Pass(tr)[n]
              ev == tr[n + 1]
  <2>1. n + 1 \in 1 .. Len(tr) /\ n \in 0 .. Len(tr) /\ (n + 1) - 1 = n /\ n <= Len(tr)
    BY DEF Readable
  <2>2. Found(tr, s, n)
    BY <1>2, <2>1
  <2>3. s \in States(tr) /\ Pass(tr)[n + 1] = Apply(s, n + 1, ev)
    BY <2>1, PassSteps
  <2>4. n + 1 \in DOMAIN tr /\ ev.addr \in Int
    BY <2>1 DEF Readable
  <2>. HIDE DEF s
  <2>5. CASE n + 1 \in Births(tr)
    <3>1. Apply(s, n + 1, ev) = Allocate1(s, n + 1, ev.addr)
      BY <2>4, <2>5 DEF Births, Apply
    <3>. QED  BY <2>2, <2>3, <2>5, <3>1, FoundAllocates
  <2>6. CASE n + 1 \notin Births(tr) /\ ev.addr >= 0 /\ IsFree(ev)
    <3>1. Apply(s, n + 1, ev) = Free1(s, n + 1, ev.addr)
      BY <2>4, <2>6 DEF Apply, IsAlloc, IsFree
    <3>. QED  BY <2>2, <2>3, <2>4, <2>6, <3>1, FoundFrees
  <2>7. CASE n + 1 \notin Births(tr) /\ ~(ev.addr >= 0 /\ IsFree(ev))
    <3>1. Apply(s, n + 1, ev) = s
      BY <2>4, <2>7 DEF Births, Apply
    <3>2. \A i \in Births(tr) : ~FreesAt(tr[n + 1], tr[i].addr)
      BY <2>7 DEF Births, FreesAt
    <3>. QED  BY <2>2, <2>3, <2>4, <2>7, <3>1, <3>2, FoundSkips
  <2>. QED  BY <2>5, <2>6, <2>7
<1>3. Nat \subseteq S
  <2>. HIDE DEF S
  <2>. QED  BY <1>1, <1>2, SetInduction
<1>. QED  BY <1>3

(* What _extract_allocations returns: for every allocation its address, its *)
(* size and its ordinal, and the ordinal of the first free of its address   *)
(* after it, the end of the trace if there is none.                        *)
THEOREM ExtractPairsFrees ==
    ASSUME NEW tr, Readable(tr), FreedBetween(tr)
    PROVE  \A a : a \in Extract(tr) <=>
             \E i \in Births(tr), f \in Nat :
                /\ a = [addr |-> tr[i].addr, size |-> tr[i].size, alloc |-> i - 1, free |-> f]
                /\ \/ Untouched(tr, i, Len(tr)) /\ f = Len(tr)
                   \/ f + 1 \in DOMAIN tr /\ FreedBy(tr, i, f + 1)
<1>. DEFINE n == Len(tr)
            freed == Pass(tr)[n].freed
            Ends(i, f) == \/ Untouched(tr, i, n) /\ f = n
                          \/ f + 1 \in DOMAIN tr /\ FreedBy(tr, i, f + 1)
<1>1. n \in Nat /\ n \in 0 .. n /\ DOMAIN tr = 1 .. n
  BY DEF Readable
<1>2. Extract(tr) = {[addr |-> tr[i].addr, size |-> tr[i].size, alloc |-> i - 1, free |-> freed[i]] : i \in Births(tr)}
  BY DEF Extract
<1>3. Pass(tr)[n] \in States(tr)
  BY <1>1, PassSteps
<1>4. Found(tr, Pass(tr)[n], n)
  BY <1>1, PassFinds
<1>. HIDE DEF n
<1>5. ASSUME NEW i \in Births(tr)
      PROVE  freed[i] \in Nat /\ Ends(i, freed[i]) /\ \A f \in Nat : Ends(i, f) => f = freed[i]
  <2>1. i \in DOMAIN tr /\ i \in Nat /\ i <= n
    BY <1>1 DEF Births
  <2>2. freed[i] \in Nat
    BY <1>3, <2>1 DEF States
  <2>3. Ends(i, freed[i])
    <3>1. CASE Untouched(tr, i, n) /\ freed[i] = n
      BY <3>1
    <3>2. ASSUME NEW k \in 1 .. n, FreedBy(tr, i, k), freed[i] = k - 1
          PROVE  Ends(i, freed[i])
      <4>1. freed[i] + 1 = k
        BY <3>2
      <4>. QED  BY <1>1, <3>2, <4>1
    <3>. QED  BY <1>1, <1>4, <2>1, <3>1, <3>2 DEF Found, OpenAt, n
  <2>4. ASSUME NEW f \in Nat, Ends(i, f), NEW g \in Nat, Ends(i, g)
        PROVE  ~ f < g
    <3>1. SUFFICES ASSUME f < g
                   PROVE  FALSE
      OBVIOUS
    <3>2. f # n
      BY <1>1, <2>4, <3>1
    <3>3. f + 1 \in DOMAIN tr /\ f + 1 > i /\ FreesAt(tr[f + 1], tr[i].addr)
      BY <2>4, <3>2 DEF FreedBy
    <3>4. f + 1 \in i + 1 .. n
      BY <1>1, <2>1, <3>3
    <3>5. CASE Untouched(tr, i, n)
      BY <3>3, <3>4, <3>5 DEF Untouched
    <3>6. CASE FreedBy(tr, i, g + 1)
      <4>1. f + 1 \in i + 1 .. (g + 1) - 1
        BY <2>1, <3>1, <3>3
      <4>. QED  BY <3>3, <3>6, <4>1 DEF FreedBy, Untouched
    <3>. QED  BY <2>4, <3>5, <3>6
  <2>5. ASSUME NEW f \in Nat, Ends(i, f)
        PROVE  f = freed[i]
    <3>1. ~ f < freed[i] /\ ~ freed[i] < f
      BY <2>2, <2>3, <2>4, <2>5
    <3>. QED  BY <2>2, <3>1
  <2>. QED  BY <2>2, <2>3, <2>5
<1>. HIDE DEF freed, Ends
<1>6. \A a : a \in Extract(tr) <=>
             \E i \in Births(tr), f \in Nat :
                /\ a = [addr |-> tr[i].addr, size |-> tr[i].size, alloc |-> i - 1, free |-> f]
                /\ Ends(i, f)
  BY <1>2, <1>5
<1>. QED  BY <1>6 DEF Ends, n
=============================================================================
