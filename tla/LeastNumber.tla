---------------------------- MODULE LeastNumber -----------------------------
(***************************************************************************)
(* Induction for the proofs of this project, as the least number           *)
(* principle of a set: what fails for some number fails for a first one;   *)
(* and what follows from it of repeated steps and of growing sets.         *)
(***************************************************************************)
EXTENDS Integers, FiniteSetTheorems, TLAPS

Below(n) == 0..(n - 1)

(* Every nonempty set of numbers has a least element.                      *)
LEMMA HasLeast ==
  ASSUME NEW T, T \subseteq Nat, T # {}
  PROVE  \E m \in T : \A n \in T : m <= n
<1> DEFINE S == {Below(n) : n \in T}
<1>1. IsWellFoundedOn(StrictSubsetOrdering(Nat), FiniteSubsetsOf(Nat))
  BY FS_StrictSubsetOrderingWellFounded
<1>2. S \subseteq FiniteSubsetsOf(Nat)
  <2> SUFFICES ASSUME NEW n \in T PROVE Below(n) \in FiniteSubsetsOf(Nat)
    OBVIOUS
  <2>1. IsFiniteSet(0..(n - 1))
    BY FS_Interval
  <2> QED BY <2>1 DEF FiniteSubsetsOf, Below
<1>3. S # {}
  OBVIOUS
<1> HIDE DEF S
<1>4. PICK x \in S : \A y \in S : ~ (<<y, x>> \in StrictSubsetOrdering(Nat))
  BY <1>1, <1>2, <1>3, WFMin
<1>5. PICK m \in T : x = Below(m)
  BY <1>4 DEF S
<1>6. ASSUME NEW n \in T PROVE m <= n
  <2> SUFFICES ASSUME n < m PROVE FALSE
    OBVIOUS
  <2>1. Below(n) \in S
    BY DEF S
  <2>2. Below(n) \subseteq Below(m) /\ n \in Below(m) /\ n \notin Below(n)
    BY DEF Below
  <2>3. <<Below(n), Below(m)>> \in StrictSubsetOrdering(Nat)
    BY <2>2 DEF StrictSubsetOrdering, Below
  <2> QED BY <1>4, <1>5, <2>1, <2>3
<1> QED BY <1>6

-----------------------------------------------------------------------------
(* Repetition of a step, and ways up a tree.                               *)

(* f goes on by steps from the first value. *)
IsIteration(f, n, first, step) ==
  f = [k \in 0..n |-> IF k = 0 THEN first ELSE step[f[k - 1]]]

(* A step can be repeated any number of times: the recursive functions on  *)
(* 0..n are what they are defined to be.                                   *)
LEMMA Iterates ==
  ASSUME NEW S, NEW first \in S, NEW step \in [S -> S], NEW n \in Nat
  PROVE  \E f \in [0..n -> S] : IsIteration(f, n, first, step)
<1> USE DEF IsIteration
<1> DEFINE Good(m) ==
      \E f \in [0..m -> S] : f = [k \in 0..m |-> IF k = 0 THEN first ELSE step[f[k - 1]]]
<1> DEFINE T == {m \in Nat : ~ Good(m)}
<1>1. SUFFICES T = {}
  OBVIOUS
<1>2. SUFFICES ASSUME T # {} PROVE FALSE
  OBVIOUS
<1>3. PICK m \in T : \A k \in T : m <= k
  <2>1. T \subseteq Nat
    OBVIOUS
  <2> HIDE DEF T
  <2> QED BY <1>2, <2>1, HasLeast
<1>4. CASE m = 0
  <2> DEFINE f == [k \in 0..0 |-> first]
  <2>1. f \in [0..0 -> S] /\ f = [k \in 0..0 |-> IF k = 0 THEN first ELSE step[f[k - 1]]]
    OBVIOUS
  <2>2. Good(0)
    BY <2>1
  <2> QED BY <1>4, <2>2
<1>5. CASE m # 0
  <2>1. m - 1 \in Nat /\ m - 1 \notin T
    BY <1>3, <1>5
  <2>2. Good(m - 1)
    BY <2>1
  <2>3. PICK h \in [0..(m - 1) -> S] :
          h = [k \in 0..(m - 1) |-> IF k = 0 THEN first ELSE step[h[k - 1]]]
    BY <2>2
  <2> DEFINE f == [k \in 0..m |-> IF k = 0 THEN first ELSE step[h[k - 1]]]
  <2>4. \A k \in 1..m : k - 1 \in 0..(m - 1) /\ h[k - 1] \in S
    BY <1>3, <1>5
  <2>5. f \in [0..m -> S]
    BY <1>3, <2>4
  <2>6. \A k \in 1..m : f[k - 1] = h[k - 1]
    BY <1>3, <1>5, <2>3, <2>4
  <2>7. f = [k \in 0..m |-> IF k = 0 THEN first ELSE step[f[k - 1]]]
    <3> SUFFICES ASSUME NEW k \in 0..m
                 PROVE  (IF k = 0 THEN first ELSE step[h[k - 1]])
                          = (IF k = 0 THEN first ELSE step[f[k - 1]])
      OBVIOUS
    <3> HIDE DEF f
    <3> QED BY <1>3, <2>6
  <2> HIDE DEF f
  <2>8. Good(m)
    BY <2>5, <2>7
  <2> QED BY <1>3, <2>8
<1> QED BY <1>4, <1>5

(* v is in each set that holds the root and all whose parents it holds.    *)
Hangs(V, parent, root, v) ==
  \A T \in SUBSET V : root \in T /\ (\A u \in V : parent[u] \in T => u \in T) => v \in T

(* f leads in k steps from v to its parent and on to the root. *)
IsWayUp(f, k, parent, root, v) ==
  /\ f[0] = v /\ f[k] = root
  /\ \A i \in 0..(k - 1) : f[i + 1] = parent[f[i]]

(* Who hangs from the root is fewer steps from it than there are nodes.    *)
LEMMA ShortClimb ==
  ASSUME NEW n \in Nat, NEW V, IsFiniteSet(V), Cardinality(V) = n,
         NEW parent, NEW root \in V, NEW v \in V, Hangs(V, parent, root, v)
  PROVE  \E k \in Nat : k < n /\ \E f \in [0..k -> V] : IsWayUp(f, k, parent, root, v)
<1> USE DEF Hangs, IsWayUp
<1> DEFINE Way(u, k, f) == IsWayUp(f, k, parent, root, u)
<1> DEFINE T == {u \in V : \E k \in Nat : \E f \in [0..k -> V] : Way(u, k, f)}
<1>1. root \in T
  <2> DEFINE f == [i \in 0..0 |-> root]
  <2>1. f \in [0..0 -> V] /\ Way(root, 0, f)
    OBVIOUS
  <2> HIDE DEF f
  <2> QED BY <2>1
<1>2. ASSUME NEW u \in V, parent[u] \in T PROVE u \in T
  <2>1. PICK k \in Nat : \E h \in [0..k -> V] : Way(parent[u], k, h)
    BY <1>2
  <2>9. PICK h \in [0..k -> V] : Way(parent[u], k, h)
    BY <2>1
  <2> DEFINE f == [i \in 0..(k + 1) |-> IF i = 0 THEN u ELSE h[i - 1]]
  <2>2. f \in [0..(k + 1) -> V]
    OBVIOUS
  <2>3. f[0] = u /\ f[k + 1] = root
    <3>1. f[k + 1] = h[k]
      OBVIOUS
    <3> QED BY <2>9, <3>1
  <2>4. \A i \in 0..k : f[i + 1] = parent[f[i]]
    <3> TAKE i \in 0..k
    <3>1. f[i + 1] = h[i]
      OBVIOUS
    <3>2. CASE i = 0
      <4>1. f[i] = u /\ h[i] = parent[u]
        BY <2>9, <3>2
      <4> HIDE DEF f
      <4> QED BY <3>1, <4>1
    <3>3. CASE i # 0
      <4>1. i - 1 \in 0..(k - 1) /\ i \in 0..(k + 1) /\ f[i] = h[i - 1]
        BY <3>3
      <4>2. h[(i - 1) + 1] = parent[h[i - 1]]
        BY <2>9, <4>1
      <4> HIDE DEF f
      <4> QED BY <3>1, <4>1, <4>2
    <3> QED BY <3>2, <3>3
  <2> HIDE DEF f
  <2>5. Way(u, k + 1, f) /\ k + 1 \in Nat
    BY <2>3, <2>4
  <2> QED BY <2>2, <2>5
<1>3. v \in T
  <2>1. T \in SUBSET V
    OBVIOUS
  <2> HIDE DEF T
  <2> QED BY <1>1, <1>2, <2>1
<1> DEFINE K == {k \in Nat : \E f \in [0..k -> V] : Way(v, k, f)}
<1>4. PICK k \in K : \A j \in K : k <= j
  <2>1. K \subseteq Nat /\ K # {}
    BY <1>3
  <2> HIDE DEF K
  <2> QED BY <2>1, HasLeast
<1>5. k \in Nat
  OBVIOUS
<1>6. PICK f \in [0..k -> V] : Way(v, k, f)
  OBVIOUS
<1>7. ASSUME NEW i \in 0..k, NEW j \in 0..k, i < j, f[i] = f[j] PROVE FALSE
  <2> DEFINE d == j - i
  <2> DEFINE h == [m \in 0..(k - d) |-> IF m <= i THEN f[m] ELSE f[m + d]]
  <2>0. d \in 1..k /\ k - d \in Nat /\ i <= k - d
    BY <1>5, <1>7
  <2>1. h \in [0..(k - d) -> V]
    BY <1>5, <1>7
  <2>2. h[0] = v
    BY <1>5, <1>6, <1>7
  <2>3. h[k - d] = root
    <3>1. CASE k - d <= i
      <4>1. k - d = i /\ j = k
        BY <1>5, <1>7, <3>1
      <4> QED BY <1>5, <1>6, <1>7, <4>1
    <3>2. CASE ~ (k - d <= i)
      BY <1>5, <1>6, <1>7, <3>2
    <3> QED BY <3>1, <3>2
  <2>4. ASSUME NEW m \in 0..(k - d - 1) PROVE h[m + 1] = parent[h[m]]
    <3>1. CASE m + 1 <= i
      <4>1. m \in 0..(k - 1) /\ h[m] = f[m] /\ h[m + 1] = f[m + 1]
        BY <1>5, <1>7, <3>1
      <4> QED BY <1>6, <4>1
    <3>2. CASE m = i
      <4>1. j \in 0..(k - 1) /\ m \in 0..(k - d) /\ m + 1 \in 0..(k - d)
            /\ ~ (m + 1 <= i) /\ (m + 1) + d = j + 1
        BY <1>5, <1>7, <2>0, <3>2
      <4>2. h[m] = f[j] /\ h[m + 1] = f[j + 1]
        BY <1>7, <3>2, <4>1
      <4> QED BY <1>6, <4>1, <4>2
    <3>3. CASE m > i
      <4>1. m + d \in 0..(k - 1) /\ h[m] = f[m + d] /\ h[m + 1] = f[(m + d) + 1]
        BY <1>5, <1>7, <3>3
      <4> HIDE DEF h, d
      <4> QED BY <1>6, <4>1
    <3> QED BY <1>5, <1>7, <3>1, <3>2, <3>3
  <2> HIDE DEF h
  <2>5. Way(v, k - d, h)
    BY <2>2, <2>3, <2>4
  <2>6. k - d \in K
    BY <2>0, <2>1, <2>5
  <2> QED BY <1>4, <1>5, <2>0, <2>6
<1>8. k < n
  <2> SUFFICES ASSUME n <= k PROVE FALSE
    BY <1>5
  <2>1. IsFiniteSet(0..k) /\ Cardinality(0..k) = k + 1
    BY <1>5, FS_Interval
  <2>2. Cardinality(V) < Cardinality(0..k)
    BY <1>5, <2>1
  <2>3. PICK x, y \in 0..k : x # y /\ f[x] = f[y]
    BY <2>1, <2>2, FS_PigeonHole
  <2> QED BY <1>5, <1>7, <2>3
<1> QED BY <1>5, <1>6, <1>8

-----------------------------------------------------------------------------
(* Growing sets.                                                           *)

(* A step from sets of V to sets of V that only adds.                      *)
Grows(step, V) ==
  /\ step \in [SUBSET V -> SUBSET V]
  /\ \A X \in SUBSET V : X \subseteq step[X]

(* The least set above the first that the step adds nothing to.            *)
IsLeastAbove(A, first, step, V) ==
  /\ A \in SUBSET V /\ first \subseteq A /\ step[A] = A
  /\ \A X \in SUBSET V :
       first \subseteq X /\ (\A Y \in SUBSET X : step[Y] \subseteq X) => A \subseteq X

(* Repeating such a step as often as there are elements to add ends there. *)
LEMMA Saturates ==
  ASSUME NEW V, IsFiniteSet(V), NEW first, first \in SUBSET V, first # {},
         NEW step, Grows(step, V),
         NEW n, n \in Nat, Cardinality(V) <= n,
         NEW f, IsIteration(f, n, first, step)
  PROVE  IsLeastAbove(f[n], first, step, V)
<1> USE DEF Grows
<1> DEFINE Least(A) ==
      \A X \in SUBSET V :
        first \subseteq X /\ (\A Y \in SUBSET X : step[Y] \subseteq X) => A \subseteq X
<1> DEFINE Good(m) ==
      /\ f[m] \in SUBSET V /\ first \subseteq f[m] /\ Least(f[m])
      /\ step[f[m]] = f[m] \/ Cardinality(f[m]) >= m + 1
<1> DEFINE T == {m \in 0..n : ~ Good(m)}
<1>1. T = {}
  <2> SUFFICES ASSUME T # {} PROVE FALSE
    OBVIOUS
  <2>1. PICK m \in T : \A k \in T : m <= k
    <3>1. T \subseteq Nat
      OBVIOUS
    <3> HIDE DEF T
    <3> QED BY <3>1, HasLeast
  <2>2. CASE m = 0
    <3>1. f[0] = first
      BY DEF IsIteration
    <3>2. IsFiniteSet(first) /\ Cardinality(first) \in Nat /\ Cardinality(first) # 0
      BY FS_Subset, FS_CardinalityType, FS_EmptySet
    <3>3. Least(first)
      OBVIOUS
    <3>4. Cardinality(first) >= 0 + 1
      BY <3>2
    <3>5. Good(0)
      BY <3>1, <3>3, <3>4
    <3> QED BY <2>1, <2>2, <3>5
  <2>3. CASE m # 0
    <3>1. m - 1 \in 0..n /\ m \in 1..n /\ m - 1 \notin T
      BY <2>1, <2>3
    <3>2. Good(m - 1)
      BY <3>1
    <3>3. f[m] = step[f[m - 1]]
      <4>1. m \in 0..n /\ m # 0
        BY <3>1
      <4> QED BY <4>1, Zenon DEF IsIteration
    <3>4. f[m - 1] \subseteq f[m] /\ f[m] \in SUBSET V
      BY <3>2, <3>3
    <3>5. Least(f[m])
      BY <3>2, <3>3
    <3>6. step[f[m]] = f[m] \/ Cardinality(f[m]) >= m + 1
      <4>1. CASE step[f[m - 1]] = f[m - 1]
        BY <4>1, <3>3
      <4>2. CASE step[f[m - 1]] # f[m - 1]
        <5>1. Cardinality(f[m - 1]) >= m
          BY <4>2, <3>1, <3>2
        <5>2. IsFiniteSet(f[m]) /\ f[m - 1] # f[m]
          BY <4>2, <3>3, <3>4, FS_Subset
        <5>3. /\ Cardinality(f[m - 1]) < Cardinality(f[m])
              /\ Cardinality(f[m]) \in Nat /\ Cardinality(f[m - 1]) \in Nat
          BY <3>4, <5>2, FS_Subset, FS_CardinalityType
        <5> QED BY <5>1, <5>3, <3>1
      <4> QED BY <4>1, <4>2
    <3>7. Good(m)
      BY <3>2, <3>4, <3>5, <3>6
    <3> QED BY <2>1, <3>7
  <2> QED BY <2>2, <2>3
<1>2. Good(n)
  BY <1>1
<1>3. ~ (Cardinality(f[n]) >= n + 1)
  <2>1. Cardinality(f[n]) <= Cardinality(V) /\ Cardinality(f[n]) \in Nat /\ Cardinality(V) \in Nat
    BY <1>2, FS_Subset, FS_CardinalityType
  <2> QED BY <2>1
<1> QED BY <1>2, <1>3 DEF IsLeastAbove

=============================================================================
