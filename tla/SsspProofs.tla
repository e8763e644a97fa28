----------------------------- MODULE SsspProofs ------------------------------
(***************************************************************************)
(* Theorems about Sssp, for every graph, its lengths finite or not.        *)
(*                                                                         *)
(* First what the labels of a graph are that the search ends with: a fixed *)
(* point, the only one.  Then what the transform makes of a graph, and     *)
(* that the labels of the two agree; at the end the steps of the run.      *)
(***************************************************************************)
EXTENDS Sssp, LeastNumber

Nodes(t) == 0..(t.n - 1)

(* A graph to be searched. *)
IsGraph(t) ==
  /\ t.n \in Nat \ {0} /\ t.source \in Nodes(t)
  /\ t.edges \subseteq Nodes(t) \X Nodes(t) \X (0..(Infinity - 1))

LabelsOf(t) == [at : Nodes(t), len : Nat, hops : Nat, pred : Nodes(t) \cup {-1}]

-----------------------------------------------------------------------------
(* The order of labels.                                                     *)

LEMMA InfinityNat == Infinity \in Nat /\ Infinity > 0
  BY SsspAssumption

(* Labels are what their fields are. *)
LEMMA FieldsOf ==
  ASSUME NEW t, NEW p \in LabelsOf(t)
  PROVE  /\ p.at \in Nodes(t) /\ p.len \in Nat /\ p.hops \in Nat /\ p.pred \in Nodes(t) \cup {-1}
         /\ p.pred \in Int
         /\ p = [at |-> p.at, len |-> p.len, hops |-> p.hops, pred |-> p.pred]
  BY DEF LabelsOf, Nodes

(* NotAfter orders the labels of a vertex. *)
LEMMA OrderOfLabels ==
  ASSUME NEW t, NEW p \in LabelsOf(t), NEW q \in LabelsOf(t), NEW r \in LabelsOf(t)
  PROVE  /\ NotAfter(p, p)
         /\ NotAfter(p, q) /\ NotAfter(q, r) => NotAfter(p, r)
         /\ NotAfter(p, q) /\ NotAfter(q, p) /\ p.at = q.at => p = q
         /\ NotAfter(p, q) => p.len <= q.len
         /\ NotAfter(p, q) /\ p.len = q.len => p.hops <= q.hops
<1>1. /\ p.len \in Nat /\ p.hops \in Nat /\ p.pred \in Int
      /\ q.len \in Nat /\ q.hops \in Nat /\ q.pred \in Int
      /\ r.len \in Nat /\ r.hops \in Nat /\ r.pred \in Int
  BY FieldsOf
<1>2. NotAfter(p, q) /\ NotAfter(q, p) => p.len = q.len /\ p.hops = q.hops /\ p.pred = q.pred
  BY <1>1 DEF NotAfter
<1>3. NotAfter(p, q) /\ NotAfter(q, p) /\ p.at = q.at => p = q
  <2>1. /\ p = [at |-> p.at, len |-> p.len, hops |-> p.hops, pred |-> p.pred]
        /\ q = [at |-> q.at, len |-> q.len, hops |-> q.hops, pred |-> q.pred]
    BY FieldsOf
  <2> QED BY <1>2, <2>1
<1> QED BY <1>1, <1>3 DEF NotAfter

(* There is a first one of any labels. *)
LEMMA FirstOf ==
  ASSUME NEW t, NEW S, S \subseteq LabelsOf(t), S # {}
  PROVE  \E p \in S : \A q \in S : NotAfter(p, q)
<1>1. \A p \in S : p.len \in Nat /\ p.hops \in Nat /\ p.pred + 1 \in Nat /\ p.pred \in Int
  BY FieldsOf DEF Nodes
<1>2. PICK l \in {p.len : p \in S} : \A m \in {p.len : p \in S} : l <= m
  <2>1. {p.len : p \in S} \subseteq Nat /\ {p.len : p \in S} # {}
    BY <1>1
  <2> QED BY <2>1, HasLeast
<1>3. PICK h \in {p.hops : p \in {x \in S : x.len = l}} :
         \A m \in {p.hops : p \in {x \in S : x.len = l}} : h <= m
  <2>1. {p.hops : p \in {x \in S : x.len = l}} \subseteq Nat
        /\ {p.hops : p \in {x \in S : x.len = l}} # {}
    BY <1>1, <1>2
  <2> QED BY <2>1, HasLeast
<1>4. PICK c \in {p.pred + 1 : p \in {x \in S : x.len = l /\ x.hops = h}} :
         \A m \in {p.pred + 1 : p \in {x \in S : x.len = l /\ x.hops = h}} : c <= m
  <2>1. {p.pred + 1 : p \in {x \in S : x.len = l /\ x.hops = h}} \subseteq Nat
        /\ {p.pred + 1 : p \in {x \in S : x.len = l /\ x.hops = h}} # {}
    BY <1>1, <1>3
  <2> QED BY <2>1, HasLeast
<1>5. PICK p \in S : p.len = l /\ p.hops = h /\ p.pred + 1 = c
  BY <1>4
<1>6. ASSUME NEW q \in S PROVE NotAfter(p, q)
  <2>1. l <= q.len
    BY <1>2
  <2>2. q.len = l => h <= q.hops
    BY <1>3
  <2>3. q.len = l /\ q.hops = h => c <= q.pred + 1
    BY <1>4
  <2> QED BY <1>1, <1>5, <2>1, <2>2, <2>3 DEF NotAfter
<1> QED BY <1>6

(* An edge gives its head a label, and for a better label of its tail a     *)
(* better one, unless the sums overflow.                                   *)
LEMMA AlongEdge ==
  ASSUME NEW t, IsGraph(t), NEW p \in LabelsOf(t), NEW q \in LabelsOf(t), NEW e \in t.edges
  PROVE  /\ e[1] \in Nodes(t) /\ e[2] \in Nodes(t) /\ e[3] \in Nat /\ e[3] < Infinity
         /\ Along(p, e) \in LabelsOf(t)
         /\ Along(p, e).at = e[2] /\ Along(p, e).pred = e[1]
         /\ Along(p, e).hops = p.hops + 1
         /\ Along(p, e).len = Plus(p.len, e[3])
         /\ Along(p, e).len < Infinity => Along(p, e).len = p.len + e[3]
         /\ NotAfter(p, q) /\ Along(q, e).len < Infinity => NotAfter(Along(p, e), Along(q, e))
<1>1. /\ e[1] \in Nodes(t) /\ e[2] \in Nodes(t) /\ e[3] \in Nat /\ e[3] < Infinity
  BY InfinityNat DEF IsGraph
<1>2. p.len \in Nat /\ p.hops \in Nat /\ q.len \in Nat /\ q.hops \in Nat /\ p.pred \in Int /\ q.pred \in Int
  BY FieldsOf
<1>3. /\ Along(p, e) = [at |-> e[2], len |-> Plus(p.len, e[3]), hops |-> p.hops + 1, pred |-> e[1]]
      /\ Along(q, e) = [at |-> e[2], len |-> Plus(q.len, e[3]), hops |-> q.hops + 1, pred |-> e[1]]
  BY DEF Along
<1>4. /\ Plus(p.len, e[3]) \in Nat /\ Plus(q.len, e[3]) \in Nat
      /\ Plus(p.len, e[3]) < Infinity => Plus(p.len, e[3]) = p.len + e[3]
      /\ p.len <= q.len => Plus(p.len, e[3]) <= Plus(q.len, e[3])
  BY <1>1, <1>2, InfinityNat DEF Plus
<1>5. Along(p, e) \in LabelsOf(t)
  BY <1>1, <1>2, <1>3, <1>4 DEF LabelsOf
<1>6. NotAfter(p, q) /\ Along(q, e).len < Infinity => NotAfter(Along(p, e), Along(q, e))
  <2> SUFFICES ASSUME NotAfter(p, q), Plus(q.len, e[3]) < Infinity
               PROVE  NotAfter(Along(p, e), Along(q, e))
    BY <1>3
  <2>1. p.len <= q.len /\ (p.len = q.len => p.hops <= q.hops)
    BY OrderOfLabels
  <2>2. e[1] \in Int
    BY <1>1 DEF Nodes
  <2>3. Plus(q.len, e[3]) = q.len + e[3] /\ Plus(p.len, e[3]) = p.len + e[3]
    BY <1>1, <1>2, <2>1, InfinityNat DEF Plus
  <2>4. \/ Plus(p.len, e[3]) < Plus(q.len, e[3])
        \/ Plus(p.len, e[3]) = Plus(q.len, e[3]) /\ p.hops + 1 <= q.hops + 1
    BY <1>1, <1>2, <2>1, <2>3
  <2> QED BY <1>2, <1>3, <2>2, <2>4 DEF NotAfter
<1> QED BY <1>1, <1>3, <1>4, <1>5, <1>6

-----------------------------------------------------------------------------
(* The rounds of a search.                                                  *)

Round(t, B) == Firsts(Extended(t, B))

(* C has a label at least as good for each of B. *)
Improves(B, C) == \A p \in B : \E q \in C : q.at = p.at /\ NotAfter(q, p)

(* p came along an edge, from a label for which B has one as good. *)
ComesAlong(t, B, p) ==
  \E e \in t.edges, q \in LabelsOf(t), r \in B :
    /\ q.at = e[1] /\ p = Along(q, e)
    /\ r.at = e[1] /\ NotAfter(r, q)

(* What the labels of every round are. *)
Proper(t, B) ==
  /\ B \subseteq LabelsOf(t)
  /\ \A p \in B : p.len < Infinity
  /\ \A p, q \in B : p.at = q.at => p = q
  /\ Root(t) \in B
  /\ \A p \in B : p = Root(t) \/ ComesAlong(t, B, p)

LEMMA RootFirst ==
  ASSUME NEW t, IsGraph(t)
  PROVE  /\ Root(t) \in LabelsOf(t)
         /\ Root(t).at = t.source /\ Root(t).len = 0 /\ Root(t).hops = 0 /\ Root(t).pred = -1
         /\ \A q \in LabelsOf(t) : NotAfter(Root(t), q)
<1>1. /\ Root(t) \in LabelsOf(t)
      /\ Root(t).at = t.source /\ Root(t).len = 0 /\ Root(t).hops = 0 /\ Root(t).pred = -1
  BY DEF Root, IsGraph, LabelsOf
<1>2. ASSUME NEW q \in LabelsOf(t) PROVE NotAfter(Root(t), q)
  <2>1. q.len \in Nat /\ q.hops \in Nat /\ q.pred \in Int /\ q.pred >= -1
    BY FieldsOf DEF Nodes
  <2> QED BY <1>1, <2>1 DEF NotAfter
<1> QED BY <1>1, <1>2

LEMMA ExtendedLabels ==
  ASSUME NEW t, IsGraph(t), NEW B, B \subseteq LabelsOf(t)
  PROVE  /\ Extended(t, B) \subseteq LabelsOf(t)
         /\ B \subseteq Extended(t, B)
         /\ \A p \in Extended(t, B) :
              p \in B \/ \E q \in B, e \in t.edges : q.at = e[1] /\ p = Along(q, e)
         /\ \A q \in B, e \in t.edges : q.at = e[1] => Along(q, e) \in Extended(t, B)
<1>1. \A p \in Extended(t, B) :
        p \in B \/ \E q \in B, e \in t.edges : q.at = e[1] /\ p = Along(q, e)
  <2> TAKE p \in Extended(t, B)
  <2> SUFFICES ASSUME p \notin B PROVE \E q \in B, e \in t.edges : q.at = e[1] /\ p = Along(q, e)
    OBVIOUS
  <2>1. PICK x \in {y \in B \X t.edges : y[1].at = y[2][1]} : p = Along(x[1], x[2])
    BY DEF Extended
  <2>2. x[1] \in B /\ x[2] \in t.edges
    OBVIOUS
  <2> QED BY <2>1, <2>2
<1>2. \A q \in B, e \in t.edges : q.at = e[1] => Along(q, e) \in Extended(t, B)
  <2> TAKE q \in B, e \in t.edges
  <2> HAVE q.at = e[1]
  <2>1. <<q, e>> \in {y \in B \X t.edges : y[1].at = y[2][1]}
    OBVIOUS
  <2>2. Along(q, e) = Along(<<q, e>>[1], <<q, e>>[2])
    OBVIOUS
  <2> QED BY <2>1, <2>2 DEF Extended
<1>3. B \subseteq Extended(t, B)
  BY DEF Extended
<1>4. Extended(t, B) \subseteq LabelsOf(t)
  BY <1>1, AlongEdge
<1> QED BY <1>1, <1>2, <1>3, <1>4

(* A round has a label as good as any finite one it was made from. *)
LEMMA RoundFirst ==
  ASSUME NEW t, IsGraph(t), NEW B, B \subseteq LabelsOf(t),
         NEW p \in Extended(t, B), p.len < Infinity
  PROVE  \E q \in Round(t, B) : q.at = p.at /\ NotAfter(q, p)
<1> DEFINE S == {q \in Extended(t, B) : q.at = p.at}
<1>1. S \subseteq LabelsOf(t) /\ S # {} /\ p \in S
  BY ExtendedLabels
<1>2. PICK q \in S : \A r \in S : NotAfter(q, r)
  <2> HIDE DEF S
  <2> QED BY <1>1, FirstOf
<1>3. q \in Extended(t, B) /\ q.at = p.at /\ NotAfter(q, p)
  BY <1>1, <1>2
<1>4. q.len < Infinity
  <2>1. q \in LabelsOf(t) /\ p \in LabelsOf(t)
    BY <1>1
  <2>2. q.len <= p.len /\ q.len \in Nat /\ p.len \in Nat
    BY <1>3, <2>1, OrderOfLabels, FieldsOf
  <2> QED BY <2>2, InfinityNat
<1>5. q \in Round(t, B)
  BY <1>2, <1>3, <1>4 DEF Round, Firsts
<1> QED BY <1>3, <1>5

LEMMA RoundOnly ==
  ASSUME NEW t, NEW B, NEW p \in Round(t, B)
  PROVE  /\ p \in Extended(t, B) /\ p.len < Infinity
         /\ \A q \in Extended(t, B) : q.at = p.at => NotAfter(p, q)
  BY DEF Round, Firsts

LEMMA RoundProper ==
  ASSUME NEW t, IsGraph(t), NEW B, Proper(t, B)
  PROVE  Proper(t, Round(t, B)) /\ Improves(B, Round(t, B))
<1> DEFINE C == Round(t, B)
<1>1. B \subseteq LabelsOf(t) /\ Extended(t, B) \subseteq LabelsOf(t) /\ B \subseteq Extended(t, B)
      /\ C \subseteq Extended(t, B)
  BY ExtendedLabels, RoundOnly DEF Proper
<1>2. Improves(B, C)
  <2> SUFFICES ASSUME NEW p \in B PROVE \E q \in C : q.at = p.at /\ NotAfter(q, p)
    BY DEF Improves
  <2>1. p \in Extended(t, B) /\ p.len < Infinity
    BY <1>1 DEF Proper
  <2> QED BY <1>1, <2>1, RoundFirst
<1>3. ASSUME NEW p \in C, NEW q \in C, p.at = q.at PROVE p = q
  <2>1. NotAfter(p, q) /\ NotAfter(q, p) /\ p \in LabelsOf(t) /\ q \in LabelsOf(t)
    BY <1>1, <1>3, RoundOnly
  <2> QED BY <1>3, <2>1, OrderOfLabels
<1>4. Root(t) \in C
  <2>1. Root(t) \in Extended(t, B) /\ Root(t).len < Infinity
    BY <1>1, RootFirst, InfinityNat DEF Proper
  <2>2. \A q \in Extended(t, B) : NotAfter(Root(t), q)
    BY <1>1, RootFirst
  <2> QED BY <2>1, <2>2 DEF Round, Firsts
<1>5. ASSUME NEW p \in C, p # Root(t) PROVE ComesAlong(t, C, p)
  <2>1. PICK e \in t.edges, q \in LabelsOf(t), r \in B :
          q.at = e[1] /\ p = Along(q, e) /\ r.at = e[1] /\ NotAfter(r, q)
    <3>1. CASE p \in B
      BY <1>5, <3>1 DEF Proper, ComesAlong
    <3>2. CASE p \notin B
      <4>1. PICK q \in B, e \in t.edges : q.at = e[1] /\ p = Along(q, e)
        BY <1>1, <3>2, ExtendedLabels
      <4>2. q \in LabelsOf(t) /\ NotAfter(q, q)
        BY <1>1, OrderOfLabels
      <4> QED BY <4>1, <4>2
    <3> QED BY <3>1, <3>2
  <2>2. PICK s \in C : s.at = r.at /\ NotAfter(s, r)
    BY <1>2 DEF Improves
  <2>3. NotAfter(s, q)
    <3>1. s \in LabelsOf(t) /\ r \in LabelsOf(t)
      BY <1>1
    <3> QED BY <2>1, <2>2, <3>1, OrderOfLabels
  <2> HIDE DEF C
  <2> QED BY <2>1, <2>2, <2>3 DEF ComesAlong
<1>6. C \subseteq LabelsOf(t) /\ \A p \in C : p.len < Infinity
  BY <1>1, RoundOnly
<1> HIDE DEF C
<1>7. Proper(t, C)
  BY <1>3, <1>4, <1>5, <1>6 DEF Proper
<1> QED BY <1>2, <1>7 DEF C

(* R is a search of m rounds. *)
AreRounds(t, R, m) ==
  /\ R[0] = {Root(t)}
  /\ \A k \in 1..m : R[k] = Round(t, R[k - 1])

LEMMA BestByRounds ==
  ASSUME NEW t, IsGraph(t)
  PROVE  \E R : AreRounds(t, R, t.n) /\ BestLabels(t) = R[t.n - 1]
<1> DEFINE S == SUBSET LabelsOf(t)
<1> DEFINE step == [B \in S |-> Round(t, B)]
<1>1. step \in [S -> S] /\ {Root(t)} \in S
  <2>1. ASSUME NEW B \in S PROVE Round(t, B) \in S
    BY ExtendedLabels, RoundOnly
  <2>2. {Root(t)} \in S
    BY RootFirst
  <2> QED BY <2>1, <2>2
<1>2. t.n \in Nat /\ t.n - 1 \in Nat
  BY DEF IsGraph
<1>3. PICK f \in [0..(t.n - 1) -> S] : IsIteration(f, t.n - 1, {Root(t)}, step)
  <2> HIDE DEF S, step
  <2> QED BY <1>1, <1>2, Iterates
<1>4. /\ f[0] = {Root(t)}
      /\ \A k \in 1..(t.n - 1) : k - 1 \in 0..(t.n - 1) /\ f[k] = Round(t, f[k - 1])
  <2>1. f[0] = {Root(t)}
    BY <1>2, <1>3 DEF IsIteration
  <2>2. ASSUME NEW k \in 1..(t.n - 1)
        PROVE  k - 1 \in 0..(t.n - 1) /\ f[k] = step[f[k - 1]] /\ f[k - 1] \in S
    <3>1. k - 1 \in 0..(t.n - 1) /\ k \in 0..(t.n - 1) /\ k # 0
      BY <1>2
    <3> HIDE DEF S, step
    <3> QED BY <1>3, <3>1 DEF IsIteration
  <2> QED BY <2>1, <2>2
<1> DEFINE Is(u) ==
      u = [k \in 0..(t.n - 1) |-> IF k = 0 THEN {Root(t)} ELSE Firsts(Extended(t, u[k - 1]))]
<1>5. Is(f)
  <2> SUFFICES ASSUME NEW k \in 0..(t.n - 1)
               PROVE  f[k] = IF k = 0 THEN {Root(t)} ELSE Firsts(Extended(t, f[k - 1]))
    BY <1>3
  <2>1. k # 0 => k \in 1..(t.n - 1)
    BY <1>2
  <2> HIDE DEF S, step
  <2> QED BY <1>4, <2>1 DEF Round
<1> HIDE DEF S, step
<1>6. PICK u : Is(u) /\ BestLabels(t) = u[t.n - 1]
  <2>1. Is(CHOOSE u : Is(u))
    <3> HIDE DEF Is
    <3> QED BY <1>5
  <2>2. BestLabels(t) = (CHOOSE u : Is(u))[t.n - 1]
    BY Zenon DEF BestLabels
  <2> HIDE DEF Is
  <2> QED BY <2>1, <2>2
<1> DEFINE R == [k \in 0..t.n |-> IF k < t.n THEN u[k] ELSE Round(t, u[t.n - 1])]
<1>7. u[0] = {Root(t)} /\ \A k \in 1..(t.n - 1) : u[k] = Round(t, u[k - 1])
  <2>1. 0 \in 0..(t.n - 1) /\ \A k \in 1..(t.n - 1) : k \in 0..(t.n - 1) /\ k # 0
    BY <1>2
  <2>2. \A k \in 0..(t.n - 1) :
          u[k] = IF k = 0 THEN {Root(t)} ELSE Firsts(Extended(t, u[k - 1]))
    BY <1>6
  <2> QED BY <2>1, <2>2, Zenon DEF Round
<1>8. R[0] = {Root(t)} /\ R[t.n - 1] = u[t.n - 1]
  BY <1>2, <1>7
<1>9. ASSUME NEW k \in 1..t.n PROVE R[k] = Round(t, R[k - 1])
  <2>1. k - 1 \in 0..t.n /\ k - 1 < t.n /\ k \in 0..t.n
    BY <1>2
  <2>2. R[k - 1] = u[k - 1]
    BY <2>1
  <2>3. CASE k < t.n
    <3>1. k \in 1..(t.n - 1) /\ R[k] = u[k]
      BY <1>2, <2>1, <2>3
    <3> QED BY <1>7, <2>2, <3>1
  <2>4. CASE k = t.n
    <3>1. R[k] = Round(t, u[k - 1])
      BY <1>2, <2>1, <2>4
    <3> QED BY <2>2, <3>1
  <2> QED BY <1>2, <2>3, <2>4
<1> HIDE DEF R, Is
<1>10. AreRounds(t, R, t.n)
  BY <1>8, <1>9 DEF AreRounds
<1> QED BY <1>6, <1>8, <1>10

LEMMA RoundsProper ==
  ASSUME NEW t, IsGraph(t), NEW m \in Nat, NEW R, AreRounds(t, R, m), NEW k \in 0..m
  PROVE  Proper(t, R[k]) /\ \A j \in 0..k : Improves(R[j], R[k])
<1> DEFINE Good(i) == Proper(t, R[i]) /\ \A j \in 0..i : Improves(R[j], R[i])
<1> DEFINE T == {i \in 0..m : ~ Good(i)}
<1>1. SUFFICES ASSUME T # {} PROVE FALSE
  OBVIOUS
<1>2. PICK i \in T : \A j \in T : i <= j
  <2>1. T \subseteq Nat
    OBVIOUS
  <2> HIDE DEF T
  <2> QED BY <1>1, <2>1, HasLeast
<1>3. ASSUME NEW B, Proper(t, B) PROVE Improves(B, B)
  BY <1>3, OrderOfLabels DEF Improves, Proper
<1>4. CASE i = 0
  <2>1. Proper(t, {Root(t)})
    BY RootFirst, InfinityNat DEF Proper
  <2>2. Good(0)
    <3>1. \A j \in 0..0 : j = 0
      OBVIOUS
    <3> QED BY <1>3, <2>1, <3>1 DEF AreRounds
  <2> QED BY <1>2, <1>4, <2>2
<1>5. CASE i # 0
  <2>1. i - 1 \in 0..m /\ i \in 1..m /\ i - 1 \notin T
    BY <1>2, <1>5
  <2>2. Good(i - 1)
    BY <2>1
  <2>3. Proper(t, R[i]) /\ Improves(R[i - 1], R[i])
    BY <2>1, <2>2, RoundProper DEF AreRounds
  <2>4. ASSUME NEW j \in 0..(i - 1) PROVE Improves(R[j], R[i])
    <3> SUFFICES ASSUME NEW p \in R[j] PROVE \E q \in R[i] : q.at = p.at /\ NotAfter(q, p)
      BY DEF Improves
    <3>1. PICK r \in R[i - 1] : r.at = p.at /\ NotAfter(r, p)
      BY <2>2 DEF Improves
    <3>2. PICK q \in R[i] : q.at = r.at /\ NotAfter(q, r)
      BY <2>3 DEF Improves
    <3>3. p \in LabelsOf(t) /\ r \in LabelsOf(t) /\ q \in LabelsOf(t)
      <4>1. j \in 0..m /\ j \notin T
        BY <1>2, <2>1
      <4>2. Proper(t, R[j])
        BY <4>1
      <4> QED BY <2>2, <2>3, <4>2 DEF Proper
    <3> QED BY <3>1, <3>2, <3>3, OrderOfLabels
  <2>5. Good(i)
    <3>1. \A j \in 0..i : j \in 0..(i - 1) \/ j = i
      BY <2>1
    <3> QED BY <1>3, <2>3, <2>4, <3>1
  <2> QED BY <1>2, <2>5
<1> QED BY <1>4, <1>5

(* A label that is new in round k came by a way through k + 1 vertices.    *)
Traced(t, R, k, p) ==
  \E V \in SUBSET Nodes(t) :
    /\ Cardinality(V) = k + 1 /\ p.at \in V
    /\ \A x \in V : \E j \in 0..k : \E c \in R[j] :
         c.at = x /\ c.len <= p.len /\ c.hops <= p.hops

NewIn(R, k) == IF k = 0 THEN R[0] ELSE R[k] \ R[k - 1]

(* How many numbers there are below n, and from 1 to n. *)
LEMMA Intervals ==
  ASSUME NEW n \in Nat
  PROVE  /\ IsFiniteSet(0..(n - 1)) /\ Cardinality(0..(n - 1)) = n
         /\ IsFiniteSet(1..n) /\ Cardinality(1..n) = n
<1>1. 0 \in Int /\ 1 \in Int /\ n \in Int /\ n - 1 \in Int
  OBVIOUS
<1>2. IsFiniteSet(0..(n - 1)) /\ Cardinality(0..(n - 1)) = IF 0 > n - 1 THEN 0 ELSE (n - 1) - 0 + 1
  BY <1>1, FS_Interval, Zenon
<1>3. IsFiniteSet(1..n) /\ Cardinality(1..n) = IF 1 > n THEN 0 ELSE n - 1 + 1
  BY <1>1, FS_Interval, Zenon
<1> QED BY <1>2, <1>3

LEMMA NodesFinite ==
  ASSUME NEW t, IsGraph(t)
  PROVE  IsFiniteSet(Nodes(t)) /\ Cardinality(Nodes(t)) = t.n
<1>1. t.n \in Nat
  BY DEF IsGraph
<1> QED BY <1>1, Intervals DEF Nodes

LEMMA NewByWay ==
  ASSUME NEW t, IsGraph(t), NEW m \in Nat, NEW R, AreRounds(t, R, m),
         NEW k \in 0..m, NEW p \in NewIn(R, k)
  PROVE  Traced(t, R, k, p)
<1> DEFINE Good(i) == \A q \in NewIn(R, i) : Traced(t, R, i, q)
<1> DEFINE T == {i \in 0..m : ~ Good(i)}
<1>1. SUFFICES ASSUME T # {} PROVE FALSE
  OBVIOUS
<1>2. PICK i \in T : \A j \in T : i <= j
  <2>1. T \subseteq Nat
    OBVIOUS
  <2> HIDE DEF T
  <2> QED BY <1>1, <2>1, HasLeast
<1>3. CASE i = 0
  <2>1. ASSUME NEW q \in NewIn(R, 0) PROVE Traced(t, R, 0, q)
    <3>1. q = Root(t) /\ R[0] = {Root(t)} /\ q.at \in Nodes(t)
      BY <2>1, RootFirst DEF NewIn, AreRounds, IsGraph
    <3>2. Cardinality({q.at}) = 0 + 1
      <4>1. Cardinality({q.at}) = 1
        BY FS_Singleton
      <4> QED BY <4>1
    <3>3. q.len <= q.len /\ q.hops <= q.hops
      BY <3>1, RootFirst
    <3> QED BY <3>1, <3>2, <3>3 DEF Traced
  <2>2. i \in 0..m /\ ~ Good(i)
    BY <1>2
  <2> QED BY <1>3, <2>1, <2>2
<1>4. CASE i # 0
  <2>1. i - 1 \in 0..m /\ i \in 1..m /\ i - 1 \notin T
    BY <1>2, <1>4
  <2>2. Good(i - 1)
    BY <2>1
  <2>3. PICK q \in NewIn(R, i) : ~ Traced(t, R, i, q)
    BY <1>2
  <2>4. R[i] = Round(t, R[i - 1]) /\ q \in R[i] /\ q \notin R[i - 1]
    BY <2>1, <2>3 DEF NewIn, AreRounds
  <2>5. Proper(t, R[i - 1]) /\ Proper(t, R[i])
    BY <2>1, RoundsProper
  <2>6. q \in LabelsOf(t) /\ q.len < Infinity /\ R[i - 1] \subseteq LabelsOf(t)
    BY <2>4, <2>5 DEF Proper
  <2>7. PICK r \in R[i - 1], e \in t.edges : r.at = e[1] /\ q = Along(r, e)
    BY <2>4, <2>6, RoundOnly, ExtendedLabels
  <2>8. /\ r \in LabelsOf(t) /\ q.hops = r.hops + 1 /\ r.len <= q.len
        /\ r.len \in Nat /\ r.hops \in Nat /\ q.len \in Nat /\ q.hops \in Nat
        /\ q.at \in Nodes(t)
    <3>1. r \in LabelsOf(t)
      BY <2>6
    <3>2. /\ r.len \in Nat /\ r.hops \in Nat /\ q.len \in Nat /\ q.hops \in Nat
          /\ q.at \in Nodes(t)
      BY <2>6, <3>1, FieldsOf
    <3>3. q.hops = r.hops + 1 /\ q.len = r.len + e[3] /\ e[3] \in Nat
      BY <2>6, <2>7, <3>1, AlongEdge
    <3> QED BY <3>1, <3>2, <3>3
  <2>9. r \in NewIn(R, i - 1)
    <3> SUFFICES ASSUME i - 1 # 0, r \in R[(i - 1) - 1] PROVE FALSE
      BY <2>7 DEF NewIn
    <3>1. i - 1 \in 1..m /\ (i - 1) - 1 \in 0..m
      BY <2>1
    <3>2. R[i - 1] = Round(t, R[(i - 1) - 1])
      BY <3>1 DEF AreRounds
    <3>3. R[(i - 1) - 1] \subseteq LabelsOf(t)
      BY <3>1, RoundsProper DEF Proper
    <3>4. q \in Extended(t, R[(i - 1) - 1])
      BY <2>7, <3>3, ExtendedLabels
    <3>5. PICK s \in R[i - 1] : s.at = q.at /\ NotAfter(s, q)
      BY <2>6, <3>2, <3>3, <3>4, RoundFirst
    <3>6. s \in Extended(t, R[i - 1]) /\ s \in LabelsOf(t)
      BY <2>6, ExtendedLabels
    <3>7. NotAfter(q, s)
      BY <2>4, <3>5, <3>6, RoundOnly
    <3>8. s = q
      BY <2>6, <3>5, <3>6, <3>7, OrderOfLabels
    <3> QED BY <2>4, <3>8
  <2>10. PICK V \in SUBSET Nodes(t) :
           /\ Cardinality(V) = (i - 1) + 1 /\ r.at \in V
           /\ \A x \in V : \E j \in 0..(i - 1) : \E c \in R[j] :
                c.at = x /\ c.len <= r.len /\ c.hops <= r.hops
    BY <2>2, <2>9 DEF Traced
  <2>11. ASSUME NEW j \in 0..(i - 1), NEW c \in R[j], c.len <= r.len, c.hops <= r.hops
         PROVE  c.at # q.at /\ c.len <= q.len /\ c.hops <= q.hops /\ j \in 0..i
    <3>1. j \in 0..m /\ j \in 0..i /\ i \in 0..m
      BY <2>1
    <3>2. c \in LabelsOf(t)
      BY <3>1, RoundsProper DEF Proper
    <3>3. c.len \in Nat /\ c.hops \in Nat
      BY <3>2, FieldsOf
    <3>4. c.len <= q.len /\ c.hops < q.hops
      BY <2>8, <2>11, <3>3
    <3>5. ASSUME c.at = q.at PROVE FALSE
      <4>1. Improves(R[j], R[i])
        BY <3>1, RoundsProper
      <4>2. PICK s \in R[i] : s.at = c.at /\ NotAfter(s, c)
        BY <4>1 DEF Improves
      <4>3. s = q
        BY <2>4, <2>5, <3>5, <4>2 DEF Proper
      <4>4. q.len <= c.len /\ (q.len = c.len => q.hops <= c.hops)
        BY <2>6, <3>2, <4>2, <4>3, OrderOfLabels
      <4> QED BY <2>8, <3>3, <3>4, <4>4
    <3> QED BY <2>8, <3>1, <3>3, <3>4, <3>5
  <2>12. Traced(t, R, i, q)
    <3> DEFINE W == V \cup {q.at}
    <3>1. q.at \notin V
      BY <2>10, <2>11
    <3>2. Cardinality(W) = i + 1
      <4>1. IsFiniteSet(V)
        BY NodesFinite, FS_Subset
      <4>2. Cardinality(W) = Cardinality(V) + 1
        BY <3>1, <4>1, FS_AddElement
      <4> QED BY <2>1, <2>10, <4>2
    <3>3. ASSUME NEW x \in W
          PROVE  \E j \in 0..i : \E c \in R[j] : c.at = x /\ c.len <= q.len /\ c.hops <= q.hops
      <4>1. CASE x \in V
        BY <2>10, <2>11, <4>1
      <4>2. CASE x = q.at
        BY <2>1, <2>4, <2>8, <4>2
      <4> QED BY <4>1, <4>2
    <3>4. W \in SUBSET Nodes(t) /\ q.at \in W
      BY <2>8
    <3> HIDE DEF W
    <3> QED BY <3>2, <3>3, <3>4 DEF Traced
  <2> QED BY <2>3, <2>12
<1> QED BY <1>3, <1>4

(* The rounds of a search end. *)
LEMMA BestLabelsEnd ==
  ASSUME NEW t, IsGraph(t)
  PROVE  Proper(t, BestLabels(t)) /\ Round(t, BestLabels(t)) \subseteq BestLabels(t)
<1>1. PICK R : AreRounds(t, R, t.n) /\ BestLabels(t) = R[t.n - 1]
  BY BestByRounds
<1>2. t.n \in Nat /\ t.n - 1 \in 0..t.n /\ t.n \in 1..t.n /\ t.n \in 0..t.n /\ t.n # 0
  BY DEF IsGraph
<1>3. Proper(t, R[t.n - 1])
  BY <1>1, <1>2, RoundsProper
<1>4. ASSUME NEW p \in R[t.n], p \notin R[t.n - 1] PROVE FALSE
  <2>1. p \in NewIn(R, t.n)
    BY <1>2, <1>4 DEF NewIn
  <2>2. PICK V \in SUBSET Nodes(t) : Cardinality(V) = t.n + 1
    <3>1. Traced(t, R, t.n, p)
      BY <1>1, <1>2, <2>1, NewByWay
    <3> QED BY <3>1 DEF Traced
  <2>3. Cardinality(V) <= t.n
    BY NodesFinite, FS_Subset
  <2> QED BY <1>2, <2>2, <2>3
<1>5. R[t.n] = Round(t, R[t.n - 1])
  BY <1>1, <1>2 DEF AreRounds
<1> QED BY <1>1, <1>3, <1>4, <1>5

(* The best labels hold one as good as any that an edge gives.             *)
LEMMA BestFeasible ==
  ASSUME NEW t, IsGraph(t), NEW q \in BestLabels(t), NEW e \in t.edges, q.at = e[1],
         Along(q, e).len < Infinity
  PROVE  \E r \in BestLabels(t) : r.at = e[2] /\ NotAfter(r, Along(q, e))
<1> DEFINE B == BestLabels(t)
<1>1. B \subseteq LabelsOf(t) /\ Round(t, B) \subseteq B
  BY BestLabelsEnd DEF Proper
<1> HIDE DEF B
<1>2. Along(q, e) \in Extended(t, B) /\ Along(q, e).at = e[2]
  <2>1. q \in B
    BY DEF B
  <2> QED BY <1>1, <2>1, ExtendedLabels, AlongEdge
<1>3. PICK r \in Round(t, B) : r.at = Along(q, e).at /\ NotAfter(r, Along(q, e))
  BY <1>1, <1>2, RoundFirst
<1> QED BY <1>1, <1>2, <1>3 DEF B

(* And all but that of the source came along an edge from one of them. *)
LEMMA BestTight ==
  ASSUME NEW t, IsGraph(t), NEW p \in BestLabels(t), p # Root(t)
  PROVE  \E e \in t.edges, q \in BestLabels(t) : q.at = e[1] /\ p = Along(q, e)
<1>1. Proper(t, BestLabels(t))
  BY BestLabelsEnd
<1>2. PICK e \in t.edges, q \in LabelsOf(t), r \in BestLabels(t) :
        q.at = e[1] /\ p = Along(q, e) /\ r.at = e[1] /\ NotAfter(r, q)
  BY <1>1 DEF Proper, ComesAlong
<1>3. p \in LabelsOf(t) /\ p.len < Infinity /\ r \in LabelsOf(t)
  BY <1>1 DEF Proper
<1>4. /\ NotAfter(Along(r, e), p) /\ Along(r, e) \in LabelsOf(t) /\ Along(r, e).at = e[2]
      /\ p.at = e[2]
  BY <1>2, <1>3, AlongEdge
<1>5. Along(r, e).len < Infinity
  <2>1. Along(r, e).len <= p.len /\ Along(r, e).len \in Nat /\ p.len \in Nat
    BY <1>3, <1>4, OrderOfLabels, FieldsOf
  <2> QED BY <1>3, <2>1, InfinityNat
<1>6. PICK s \in BestLabels(t) : s.at = e[2] /\ NotAfter(s, Along(r, e))
  BY <1>2, <1>5, BestFeasible
<1>7. s = p /\ s \in LabelsOf(t)
  BY <1>1, <1>4, <1>6 DEF Proper
<1>8. Along(r, e) = p
  BY <1>3, <1>4, <1>6, <1>7, OrderOfLabels
<1> QED BY <1>2, <1>8

Lengths == 0..Infinity

(* What the labels are that a search ends with: of the source the empty     *)
(* path's; no edge gives a better one; and those of finite length come      *)
(* along an edge from their predecessor, of one edge less.                  *)
LEMMA LabelsAre ==
  ASSUME NEW t, IsGraph(t)
  PROVE  /\ \A x \in Nodes(t) :
              /\ Labels(t)[x].len \in Lengths /\ Labels(t)[x].hops \in Nat
              /\ Labels(t)[x].pred \in Nodes(t) \cup {-1}
         /\ Labels(t)[t.source].len = 0 /\ Labels(t)[t.source].pred = -1
         /\ \A e \in t.edges : Labels(t)[e[2]].len <= Plus(Labels(t)[e[1]].len, e[3])
         /\ \A x \in Nodes(t) \ {t.source} :
              IF Labels(t)[x].len < Infinity
              THEN \E e \in t.edges :
                     /\ e[2] = x /\ e[1] = Labels(t)[x].pred
                     /\ Labels(t)[x].len = Labels(t)[e[1]].len + e[3]
                     /\ Labels(t)[e[1]].len < Infinity
                     /\ Labels(t)[x].hops = Labels(t)[e[1]].hops + 1
              ELSE Labels(t)[x].pred = -1
<1> DEFINE B == BestLabels(t)
<1> DEFINE L == Labels(t)
<1>1. Proper(t, B)
  BY BestLabelsEnd
<1>2. \A p \in B : p \in LabelsOf(t) /\ p.len < Infinity /\ p.at \in Nodes(t) /\ p.len \in Nat
  BY <1>1, FieldsOf DEF Proper
<1>3. ASSUME NEW p \in B PROVE L[p.at] = p
  <2>1. L[p.at] = CHOOSE q \in B : q.at = p.at
    BY <1>2 DEF Labels, Nodes
  <2>2. \A q \in B : q.at = p.at => q = p
    BY <1>1 DEF Proper
  <2> HIDE DEF B, L
  <2> QED BY <2>1, <2>2
<1>4. ASSUME NEW x \in Nodes(t), \A p \in B : p.at # x
      PROVE  L[x].len = Infinity /\ L[x].hops = 0 /\ L[x].pred = -1
  <2>1. L[x] = [at |-> x, len |-> Infinity, hops |-> 0, pred |-> -1]
    BY <1>4 DEF Labels, Nodes
  <2> HIDE DEF L
  <2> QED BY <2>1
<1> HIDE DEF B, L
<1>5. ASSUME NEW x \in Nodes(t), L[x].len < Infinity PROVE \E p \in B : p.at = x /\ L[x] = p
  BY <1>3, <1>4, <1>5, InfinityNat
<1>6. ASSUME NEW x \in Nodes(t)
      PROVE  L[x].len \in Lengths /\ L[x].hops \in Nat /\ L[x].pred \in Nodes(t) \cup {-1}
  <2>1. CASE \E p \in B : p.at = x
    <3>1. PICK p \in B : p.at = x
      BY <2>1
    <3>2. L[x] = p /\ p \in LabelsOf(t) /\ p.len < Infinity
      BY <1>2, <1>3, <3>1
    <3>3. p.len \in Nat /\ p.hops \in Nat /\ p.pred \in Nodes(t) \cup {-1}
      BY <3>2, FieldsOf
    <3> QED BY <3>2, <3>3, InfinityNat DEF Lengths
  <2>2. CASE ~ \E p \in B : p.at = x
    BY <1>4, <2>2, InfinityNat DEF Lengths
  <2> QED BY <2>1, <2>2
<1>7. L[t.source] = Root(t) /\ Root(t).len = 0 /\ Root(t).pred = -1
  BY <1>1, <1>3, RootFirst DEF Proper
<1>8. ASSUME NEW e \in t.edges PROVE L[e[2]].len <= Plus(L[e[1]].len, e[3])
  <2>1. e[1] \in Nodes(t) /\ e[2] \in Nodes(t) /\ e[3] \in Nat
    BY InfinityNat DEF IsGraph
  <2>2. L[e[1]].len \in 0..Infinity /\ L[e[2]].len \in 0..Infinity
    BY <1>6, <2>1 DEF Lengths
  <2>3. CASE Plus(L[e[1]].len, e[3]) >= Infinity
    BY <2>2, <2>3, InfinityNat, <2>1 DEF Plus
  <2>4. CASE L[e[1]].len + e[3] < Infinity
    <3>1. L[e[1]].len < Infinity
      BY <2>1, <2>2, <2>4, InfinityNat
    <3>2. PICK q \in B : q.at = e[1] /\ L[e[1]] = q
      BY <1>5, <2>1, <3>1
    <3>3. q \in LabelsOf(t) /\ Along(q, e).len = Plus(L[e[1]].len, e[3])
      BY <1>2, <3>2, AlongEdge
    <3>4. Along(q, e).len < Infinity /\ Along(q, e) \in LabelsOf(t)
      BY <2>1, <2>2, <2>4, <3>3, InfinityNat, AlongEdge DEF Plus
    <3>5. PICK r \in B : r.at = e[2] /\ NotAfter(r, Along(q, e))
      BY <3>2, <3>4, BestFeasible DEF B
    <3>6. r.len <= Along(q, e).len /\ L[e[2]] = r
      BY <1>2, <1>3, <3>4, <3>5, OrderOfLabels
    <3> QED BY <3>3, <3>6
  <2> QED BY <2>1, <2>2, <2>3, <2>4, InfinityNat DEF Plus
<1>9. ASSUME NEW x \in Nodes(t), x # t.source, L[x].len < Infinity
      PROVE  \E e \in t.edges :
               /\ e[2] = x /\ e[1] = L[x].pred /\ L[x].len = L[e[1]].len + e[3]
               /\ L[e[1]].len < Infinity /\ L[x].hops = L[e[1]].hops + 1
  <2>1. PICK p \in B : p.at = x /\ L[x] = p
    BY <1>5, <1>9
  <2>2. p # Root(t)
    BY <1>9, <2>1, RootFirst
  <2>3. PICK e \in t.edges, q \in B : q.at = e[1] /\ p = Along(q, e)
    BY <2>2, BestTight DEF B
  <2>4. q \in LabelsOf(t) /\ q.len < Infinity /\ L[e[1]] = q /\ p.len < Infinity
    BY <1>2, <1>3, <2>3
  <2>5. p.at = e[2] /\ p.pred = e[1] /\ p.hops = q.hops + 1 /\ p.len = q.len + e[3]
    BY <2>3, <2>4, AlongEdge
  <2> QED BY <2>1, <2>4, <2>5
<1>10. ASSUME NEW x \in Nodes(t), ~ (L[x].len < Infinity) PROVE L[x].pred = -1
  <2>1. \A p \in B : p.at # x
    BY <1>2, <1>3, <1>10
  <2> QED BY <1>4, <2>1
<1> QED BY <1>6, <1>7, <1>8, <1>9, <1>10 DEF L

(* They are at least as long as any D that no edge shortens. *)
LEMMA LeastSolution ==
  ASSUME NEW t, IsGraph(t), NEW D, \A x \in Nodes(t) : D[x] \in Lengths,
         D[t.source] = 0,
         \A e \in t.edges : D[e[2]] <= Plus(D[e[1]], e[3]),
         NEW z \in Nodes(t)
  PROVE  D[z] <= Labels(t)[z].len
<1> DEFINE L == Labels(t)
<1> DEFINE Bad(x) == x \in Nodes(t) /\ ~ (D[x] <= L[x].len)
<1> DEFINE H == {L[x].hops : x \in {y \in Nodes(t) : Bad(y)}}
<1>1. SUFFICES ASSUME Bad(z) PROVE FALSE
  OBVIOUS
<1>2. PICK m \in H : \A k \in H : m <= k
  <2>1. H \subseteq Nat /\ H # {}
    BY <1>1, LabelsAre
  <2> HIDE DEF H
  <2> QED BY <2>1, HasLeast
<1>3. PICK x \in Nodes(t) : Bad(x) /\ L[x].hops = m
  OBVIOUS
<1>4. L[x].len \in 0..Infinity /\ D[x] \in 0..Infinity
  BY LabelsAre DEF Lengths
<1>5. x # t.source
  BY <1>3, <1>4, LabelsAre
<1>6. L[x].len < Infinity
  BY <1>3, <1>4, InfinityNat
<1>7. PICK e \in t.edges :
        /\ e[2] = x /\ e[1] = L[x].pred /\ L[x].len = L[e[1]].len + e[3]
        /\ L[e[1]].len < Infinity /\ L[x].hops = L[e[1]].hops + 1
  BY <1>5, <1>6, LabelsAre
<1>8. e[1] \in Nodes(t) /\ e[3] \in Nat
  BY InfinityNat DEF IsGraph
<1>9. L[e[1]].hops \in Nat /\ L[e[1]].len \in 0..Infinity /\ D[e[1]] \in 0..Infinity
  BY <1>8, LabelsAre DEF Lengths
<1>10. ~ Bad(e[1])
  <2> SUFFICES ASSUME Bad(e[1]) PROVE FALSE
    OBVIOUS
  <2>1. L[e[1]].hops \in H
    BY <1>8
  <2>2. m <= L[e[1]].hops
    BY <1>2, <2>1
  <2> QED BY <1>3, <1>7, <1>9, <2>2
<1>11. D[x] <= Plus(D[e[1]], e[3])
  BY <1>7
<1> QED BY <1>3, <1>4, <1>6, <1>7, <1>8, <1>9, <1>10, <1>11, InfinityNat DEF Plus

-----------------------------------------------------------------------------
(* The transform.                                                           *)

(* A graph whose input has passed the checks. *)
IsInput(h) ==
  /\ h.n \in Nat /\ h.source \in Nat
  /\ h.edges \in Seq(Nat \X Nat \X (Int \cup {NaN}))
  /\ Sound(h)

LEMMA InputEdges ==
  ASSUME NEW h, IsInput(h)
  PROVE  /\ Len(h.edges) \in Nat /\ DOMAIN h.edges = 1..Len(h.edges)
         /\ \A i \in DOMAIN h.edges :
              h.edges[i] \in Vertices(h) \X Vertices(h) \X (0..(Infinity - 1))
         /\ h.n \in Nat \ {0} /\ h.source \in Vertices(h)
<1>1. Len(h.edges) \in Nat /\ DOMAIN h.edges = 1..Len(h.edges)
  BY DEF IsInput
<1>2. ASSUME NEW i \in DOMAIN h.edges
      PROVE  h.edges[i] \in Vertices(h) \X Vertices(h) \X (0..(Infinity - 1))
  <2>1. h.edges[i] \in Nat \X Nat \X (Int \cup {NaN})
    BY <1>1 DEF IsInput
  <2>2. h.edges[i][1] < h.n /\ h.edges[i][2] < h.n /\ ~ IsBad(h.edges[i][3])
    BY DEF IsInput, Sound, InRange
  <2>3. h.edges[i][3] \in 0..(Infinity - 1)
    BY <2>1, <2>2, InfinityNat DEF IsBad
  <2>4. h.edges[i][1] \in Vertices(h) /\ h.edges[i][2] \in Vertices(h)
    BY <2>1, <2>2 DEF Vertices, IsInput
  <2> QED BY <2>1, <2>3, <2>4
<1>3. h.n \in Nat \ {0} /\ h.source \in Vertices(h)
  BY DEF IsInput, Sound, Vertices
<1> QED BY <1>1, <1>2, <1>3

LEMMA ItselfIsGraph ==
  ASSUME NEW h, IsInput(h)
  PROVE  IsGraph(Itself(h)) /\ Nodes(Itself(h)) = Vertices(h)
<1>1. Itself(h).n = h.n /\ Itself(h).source = h.source
      /\ Itself(h).edges = {h.edges[i] : i \in DOMAIN h.edges}
  BY DEF Itself
<1>2. Nodes(Itself(h)) = Vertices(h)
  BY <1>1 DEF Nodes, Vertices
<1>3. Itself(h).edges \subseteq Vertices(h) \X Vertices(h) \X (0..(Infinity - 1))
  BY <1>1, InputEdges
<1> QED BY <1>1, <1>2, <1>3, InputEdges DEF IsGraph

(* The ends of the edges. *)
LEMMA EndsOfEdges ==
  ASSUME NEW h, IsInput(h)
  PROVE  /\ \A p \in Ends(h) : VertexAt(h, p) \in Vertices(h) /\ p \in Nat
         /\ \A i \in DOMAIN h.edges :
              /\ 2 * i - 1 \in Ends(h) /\ VertexAt(h, 2 * i - 1) = h.edges[i][1]
              /\ 2 * i \in Ends(h) /\ VertexAt(h, 2 * i) = h.edges[i][2]
<1>1. Len(h.edges) \in Nat /\ DOMAIN h.edges = 1..Len(h.edges)
  BY InputEdges
<1>2. ASSUME NEW p \in Ends(h) PROVE VertexAt(h, p) \in Vertices(h) /\ p \in Nat
  <2>1. p \in Nat /\ (p + 1) \div 2 \in 1..Len(h.edges)
    BY <1>1 DEF Ends
  <2>2. h.edges[(p + 1) \div 2] \in Vertices(h) \X Vertices(h) \X (0..(Infinity - 1))
    BY <1>1, <2>1, InputEdges
  <2> QED BY <2>1, <2>2 DEF VertexAt
<1>3. ASSUME NEW i \in DOMAIN h.edges
      PROVE  /\ 2 * i - 1 \in Ends(h) /\ VertexAt(h, 2 * i - 1) = h.edges[i][1]
             /\ 2 * i \in Ends(h) /\ VertexAt(h, 2 * i) = h.edges[i][2]
  <2>1. 2 * i - 1 \in Ends(h) /\ 2 * i \in Ends(h)
    BY <1>1 DEF Ends
  <2>2. ((2 * i - 1) + 1) \div 2 = i /\ (2 * i - 1) % 2 = 1 /\ (2 * i + 1) \div 2 = i /\ (2 * i) % 2 = 0
    BY <1>1
  <2> QED BY <2>1, <2>2 DEF VertexAt
<1> QED BY <1>2, <1>3

Width(h, u) == Max({1, Degree(h, u)})

LEMMA WidthIs ==
  ASSUME NEW h, IsInput(h), NEW u
  PROVE  /\ Degree(h, u) \in Nat
         /\ Width(h, u) = IF Degree(h, u) >= 1 THEN Degree(h, u) ELSE 1
<1>1. IsFiniteSet({p \in Ends(h) : VertexAt(h, p) = u})
  <2>1. IsFiniteSet(1..(2 * Len(h.edges)))
    <3>1. 1 \in Int /\ 2 * Len(h.edges) \in Int
      BY InputEdges
    <3> QED BY <3>1, FS_Interval
  <2> QED BY <2>1, FS_Subset DEF Ends
<1>2. Degree(h, u) \in Nat
  BY <1>1, FS_CardinalityType DEF Degree
<1>3. ASSUME NEW d \in Nat PROVE Max({1, d}) = IF d >= 1 THEN d ELSE 1
  <2>1. PICK x \in {1, d} : \A y \in {1, d} : x >= y
    <3>1. CASE d >= 1
      BY <3>1
    <3>2. CASE ~ (d >= 1)
      BY <3>2
    <3> QED BY <3>1, <3>2
  <2>2. /\ Max({1, d}) \in {1, d} /\ \A y \in {1, d} : Max({1, d}) >= y
    BY <2>1 DEF Max
  <2> QED BY <2>2
<1> QED BY <1>2, <1>3 DEF Width

LEMMA BasesAre ==
  ASSUME NEW h, IsInput(h)
  PROVE  Bases(h)[0] = 0 /\ \A u \in Vertices(h) : Bases(h)[u + 1] = Bases(h)[u] + Width(h, u)
<1> DEFINE S == Nat \X Nat
<1> DEFINE step == [y \in S |-> <<y[1] + 1, y[2] + Width(h, y[1])>>]
<1>1. step \in [S -> S] /\ <<0, 0>> \in S
  <2>1. ASSUME NEW y \in S PROVE <<y[1] + 1, y[2] + Width(h, y[1])>> \in S
    BY WidthIs
  <2> QED BY <2>1
<1>2. h.n \in Nat
  BY DEF IsInput
<1>3. PICK f \in [0..h.n -> S] : IsIteration(f, h.n, <<0, 0>>, step)
  <2> HIDE DEF S, step
  <2> QED BY <1>1, <1>2, Iterates
<1>4. f[0] = <<0, 0>>
  BY <1>2, <1>3 DEF IsIteration
<1>5. ASSUME NEW k \in 1..h.n
      PROVE  /\ k - 1 \in 0..h.n
             /\ f[k] = <<f[k - 1][1] + 1, f[k - 1][2] + Width(h, f[k - 1][1])>>
  <2>1. k - 1 \in 0..h.n /\ k \in 0..h.n /\ k # 0
    BY <1>2
  <2>2. f[k] = step[f[k - 1]]
    <3> HIDE DEF S, step
    <3> QED BY <1>3, <2>1 DEF IsIteration
  <2>3. f[k - 1] \in S
    BY <1>3, <2>1
  <2> QED BY <2>1, <2>2, <2>3
<1> HIDE DEF S, step
<1>6. \A k \in 0..h.n : f[k][1] = k
  <2> DEFINE T == {k \in 0..h.n : f[k][1] # k}
  <2>1. SUFFICES ASSUME T # {} PROVE FALSE
    OBVIOUS
  <2>2. PICK k \in T : \A j \in T : k <= j
    <3>1. T \subseteq Nat
      OBVIOUS
    <3> HIDE DEF T
    <3> QED BY <2>1, <3>1, HasLeast
  <2>3. k # 0
    BY <1>4
  <2>4. k \in 1..h.n /\ k - 1 \notin T
    BY <2>2, <2>3
  <2>5. f[k - 1][1] = k - 1
    BY <1>5, <2>4
  <2> QED BY <1>5, <2>4, <2>5
<1> DEFINE Is(b) ==
      b = [u \in 0..h.n |-> IF u = 0 THEN 0 ELSE b[u - 1] + Max({1, Degree(h, u - 1)})]
<1> DEFINE c == [k \in 0..h.n |-> f[k][2]]
<1>7. Is(c)
  <2> SUFFICES ASSUME NEW u \in 0..h.n
               PROVE  c[u] = IF u = 0 THEN 0 ELSE c[u - 1] + Max({1, Degree(h, u - 1)})
    OBVIOUS
  <2>1. CASE u = 0
    BY <1>4, <2>1
  <2>2. CASE u # 0
    <3>1. u \in 1..h.n
      BY <2>2
    <3>2. u - 1 \in 0..h.n /\ f[u] = <<f[u - 1][1] + 1, f[u - 1][2] + Width(h, f[u - 1][1])>>
      BY <1>5, <3>1
    <3>3. f[u][2] = f[u - 1][2] + Width(h, u - 1)
      BY <1>6, <3>2
    <3> QED BY <2>2, <3>2, <3>3 DEF Width
  <2> QED BY <2>1, <2>2
<1>8. PICK b : Is(b) /\ Bases(h) = b
  <2> HIDE DEF c
  <2>1. Is(CHOOSE b : Is(b))
    <3> HIDE DEF Is
    <3> QED BY <1>7
  <2>2. Bases(h) = CHOOSE b : Is(b)
    BY Zenon DEF Bases
  <2> HIDE DEF Is
  <2> QED BY <2>1, <2>2
<1>9. b[0] = 0
  BY <1>2, <1>8
<1>10. ASSUME NEW u \in Vertices(h) PROVE b[u + 1] = b[u] + Width(h, u)
  <2>1. u + 1 \in 0..h.n /\ u + 1 # 0 /\ (u + 1) - 1 = u
    BY <1>2 DEF Vertices
  <2>2. b[u + 1] = b[(u + 1) - 1] + Max({1, Degree(h, (u + 1) - 1)})
    BY <1>8, <2>1
  <2> QED BY <2>1, <2>2 DEF Width
<1> QED BY <1>8, <1>9, <1>10

LEMMA BasesNat ==
  ASSUME NEW h, IsInput(h)
  PROVE  \A u \in 0..h.n : Bases(h)[u] \in Nat
<1> DEFINE T == {u \in 0..h.n : Bases(h)[u] \notin Nat}
<1>1. SUFFICES ASSUME T # {} PROVE FALSE
  OBVIOUS
<1>2. PICK u \in T : \A j \in T : u <= j
  <2>1. T \subseteq Nat
    OBVIOUS
  <2> HIDE DEF T
  <2> QED BY <1>1, <2>1, HasLeast
<1>3. u # 0
  BY <1>2, BasesAre
<1>4. u - 1 \in Vertices(h) /\ u - 1 \in 0..h.n /\ (u - 1) + 1 = u /\ u - 1 \notin T
  BY <1>2, <1>3, InputEdges DEF Vertices
<1>5. Bases(h)[u] = Bases(h)[u - 1] + Width(h, u - 1)
  BY <1>4, BasesAre
<1> QED BY <1>2, <1>4, <1>5, WidthIs

LEMMA BasesOrder ==
  ASSUME NEW h, IsInput(h), NEW u \in Vertices(h), NEW w \in 0..h.n, u < w
  PROVE  Bases(h)[u] + Width(h, u) <= Bases(h)[w]
<1> DEFINE T == {k \in (u + 1)..h.n : ~ (Bases(h)[u] + Width(h, u) <= Bases(h)[k])}
<1>0. h.n \in Nat /\ u \in 0..h.n /\ u \in Nat /\ u + 1 \in 0..h.n
  BY InputEdges DEF Vertices
<1>1. SUFFICES ASSUME T # {} PROVE FALSE
  BY <1>0
<1>2. PICK k \in T : \A j \in T : k <= j
  <2>1. T \subseteq Nat
    BY <1>0
  <2> HIDE DEF T
  <2> QED BY <1>1, <2>1, HasLeast
<1>3. Bases(h)[u] \in Nat /\ Width(h, u) \in Nat /\ Bases(h)[u + 1] = Bases(h)[u] + Width(h, u)
  BY <1>0, BasesNat, BasesAre, WidthIs
<1>4. k # u + 1
  BY <1>2, <1>3
<1>5. k - 1 \in (u + 1)..h.n /\ k - 1 \in Vertices(h) /\ (k - 1) + 1 = k /\ k - 1 \notin T
      /\ k - 1 \in 0..h.n
  BY <1>0, <1>2, <1>4 DEF Vertices
<1>6. Bases(h)[k] = Bases(h)[k - 1] + Width(h, k - 1) /\ Width(h, k - 1) \in Nat
      /\ Bases(h)[k - 1] \in Nat
  BY <1>5, BasesAre, WidthIs, BasesNat
<1> QED BY <1>2, <1>3, <1>5, <1>6

(* x is one of the slots of u. *)
InSlots(h, u, x) == Bases(h)[u] <= x /\ x < Bases(h)[u] + Width(h, u)

(* Slots are a vertex's own, and every vertex has one. *)
LEMMA SlotsApart ==
  ASSUME NEW h, IsInput(h)
  PROVE  /\ \A u \in Vertices(h) :
              /\ Bases(h)[u] \in 0..(Bases(h)[h.n] - 1) /\ InSlots(h, u, Bases(h)[u])
              /\ \A x \in Int : InSlots(h, u, x) => x \in 0..(Bases(h)[h.n] - 1)
         /\ \A u, w \in Vertices(h), x \in Int : InSlots(h, u, x) /\ InSlots(h, w, x) => u = w
         /\ \A x \in 0..(Bases(h)[h.n] - 1) : \E u \in Vertices(h) : InSlots(h, u, x)
<1>1. h.n \in Nat /\ h.n > 0 /\ Vertices(h) = 0..(h.n - 1)
  BY InputEdges DEF Vertices
<1>2. \A u \in 0..h.n : Bases(h)[u] \in Nat
  BY BasesNat
<1>3. \A u \in Vertices(h) : Width(h, u) \in Nat /\ Width(h, u) >= 1
  BY WidthIs
<1>4. \A u \in Vertices(h), w \in 0..h.n : u < w => Bases(h)[u] + Width(h, u) <= Bases(h)[w]
  BY BasesOrder
<1>5. ASSUME NEW u \in Vertices(h)
      PROVE  /\ Bases(h)[u] \in 0..(Bases(h)[h.n] - 1) /\ InSlots(h, u, Bases(h)[u])
             /\ \A x \in Int : InSlots(h, u, x) => x \in 0..(Bases(h)[h.n] - 1)
  <2>1. Bases(h)[u] \in Nat /\ Bases(h)[h.n] \in Nat /\ Width(h, u) \in Nat /\ Width(h, u) >= 1
        /\ Bases(h)[u] + Width(h, u) <= Bases(h)[h.n]
    BY <1>1, <1>2, <1>3, <1>4
  <2> QED BY <2>1 DEF InSlots
<1>6. ASSUME NEW u \in Vertices(h), NEW w \in Vertices(h), NEW x \in Int,
             InSlots(h, u, x), InSlots(h, w, x)
      PROVE  u = w
  <2>1. /\ Bases(h)[u] \in Nat /\ Bases(h)[w] \in Nat
        /\ Width(h, u) \in Nat /\ Width(h, w) \in Nat
        /\ u < w => Bases(h)[u] + Width(h, u) <= Bases(h)[w]
        /\ w < u => Bases(h)[w] + Width(h, w) <= Bases(h)[u]
    BY <1>1, <1>2, <1>3, <1>4
  <2>2. ~ (u < w) /\ ~ (w < u)
    BY <1>6, <2>1 DEF InSlots
  <2> QED BY <1>1, <2>2
<1>7. ASSUME NEW x \in 0..(Bases(h)[h.n] - 1) PROVE \E u \in Vertices(h) : InSlots(h, u, x)
  <2> DEFINE T == {k \in 0..h.n : x < Bases(h)[k]}
  <2>1. h.n \in T /\ T \subseteq Nat
    BY <1>1, <1>2
  <2>2. PICK k \in T : \A j \in T : k <= j
    <3> HIDE DEF T
    <3> QED BY <2>1, HasLeast
  <2>3. k # 0
    BY BasesAre
  <2>4. k - 1 \in Vertices(h) /\ k - 1 \in 0..h.n /\ (k - 1) + 1 = k /\ k - 1 \notin T
    BY <1>1, <2>2, <2>3
  <2>5. Bases(h)[k] = Bases(h)[k - 1] + Width(h, k - 1) /\ Bases(h)[k - 1] \in Nat
    BY <1>2, <2>4, BasesAre
  <2>6. InSlots(h, k - 1, x)
    BY <2>2, <2>4, <2>5 DEF InSlots
  <2> QED BY <2>4, <2>6
<1> QED BY <1>5, <1>6, <1>7

(* The ends of the edges get slots of their vertices, no two the same.     *)
LEMMA SlotOfEnd ==
  ASSUME NEW h, IsInput(h), NEW p \in Ends(h)
  PROVE  /\ Slot(h, Bases(h), p) \in Int
         /\ Bases(h)[VertexAt(h, p)] <= Slot(h, Bases(h), p)
         /\ Slot(h, Bases(h), p) < Bases(h)[VertexAt(h, p)] + Degree(h, VertexAt(h, p))
         /\ InSlots(h, VertexAt(h, p), Slot(h, Bases(h), p))
<1> DEFINE u == VertexAt(h, p)
<1> DEFINE Before == {q \in 1..(p - 1) : VertexAt(h, q) = u}
<1> DEFINE All == {q \in Ends(h) : VertexAt(h, q) = u}
<1>1. u \in Vertices(h) /\ p \in Nat /\ Len(h.edges) \in Nat
  BY EndsOfEdges, InputEdges
<1>2. IsFiniteSet(All)
  <2>1. IsFiniteSet(1..(2 * Len(h.edges)))
    <3>1. 1 \in Int /\ 2 * Len(h.edges) \in Int
      BY <1>1
    <3> QED BY <3>1, FS_Interval
  <2> QED BY <2>1, FS_Subset DEF Ends
<1>3. Before \in SUBSET All /\ p \in All /\ p \notin Before
  BY <1>1 DEF Ends
<1>4. Cardinality(Before) \in Nat /\ Cardinality(Before) < Cardinality(All)
  <2> HIDE DEF Before, All
  <2> QED BY <1>2, <1>3, FS_Subset, FS_CardinalityType
<1>5. Slot(h, Bases(h), p) = Bases(h)[u] + Cardinality(Before) /\ Degree(h, u) = Cardinality(All)
  BY DEF Slot, Degree
<1>6. Bases(h)[u] \in Nat /\ Width(h, u) >= Degree(h, u) /\ Width(h, u) \in Nat /\ Degree(h, u) \in Nat
  BY <1>1, BasesNat, WidthIs, InputEdges DEF Vertices
<1> QED BY <1>4, <1>5, <1>6 DEF InSlots

LEMMA SlotsDiffer ==
  ASSUME NEW h, IsInput(h), NEW p \in Ends(h), NEW q \in Ends(h),
         Slot(h, Bases(h), p) = Slot(h, Bases(h), q)
  PROVE  p = q
<1>1. VertexAt(h, p) = VertexAt(h, q)
  BY SlotOfEnd, EndsOfEdges, SlotsApart
<1>2. ASSUME NEW a \in Ends(h), NEW b \in Ends(h), a < b, VertexAt(h, a) = VertexAt(h, b)
      PROVE  Slot(h, Bases(h), a) < Slot(h, Bases(h), b)
  <2> DEFINE u == VertexAt(h, a)
  <2> DEFINE BeforeA == {x \in 1..(a - 1) : VertexAt(h, x) = u}
  <2> DEFINE BeforeB == {x \in 1..(b - 1) : VertexAt(h, x) = u}
  <2>1. a \in Nat /\ b \in Nat /\ a >= 1 /\ u \in Vertices(h)
    BY EndsOfEdges, InputEdges DEF Ends
  <2>2. IsFiniteSet(BeforeB)
    <3>1. IsFiniteSet(1..(b - 1))
      <4>1. 1 \in Int /\ b - 1 \in Int
        BY <2>1
      <4> QED BY <4>1, FS_Interval
    <3> QED BY <3>1, FS_Subset
  <2>3. BeforeA \in SUBSET BeforeB /\ a \in BeforeB /\ a \notin BeforeA
    BY <1>2, <2>1
  <2>4. /\ Cardinality(BeforeA) \in Nat /\ Cardinality(BeforeB) \in Nat
        /\ Cardinality(BeforeA) < Cardinality(BeforeB)
    <3> HIDE DEF BeforeA, BeforeB
    <3> QED BY <2>2, <2>3, FS_Subset, FS_CardinalityType
  <2>5. /\ Slot(h, Bases(h), a) = Bases(h)[u] + Cardinality(BeforeA)
        /\ Slot(h, Bases(h), b) = Bases(h)[u] + Cardinality(BeforeB)
    BY <1>2 DEF Slot
  <2>6. Bases(h)[u] \in Nat
    BY <2>1, BasesNat, InputEdges DEF Vertices
  <2> QED BY <2>4, <2>5, <2>6
<1>3. p \in Nat /\ q \in Nat /\ Slot(h, Bases(h), p) \in Int
  BY EndsOfEdges, SlotOfEnd
<1> QED BY <1>1, <1>2, <1>3

LEMMA CycleNext ==
  ASSUME NEW d \in Nat, d >= 2, NEW i \in 0..(d - 1)
  PROVE  (i + 1) % d = IF i + 1 < d THEN i + 1 ELSE 0
<1>1. CASE i + 1 < d
  BY <1>1
<1>2. CASE i + 1 = d
  BY <1>2
<1> QED BY <1>1, <1>2

(* From a slot to the next one round the cycle. *)
NextSlot(h, u, i) == Bases(h)[u] + IF i + 1 < Degree(h, u) THEN i + 1 ELSE 0

LEMMA CycleEdgesAre ==
  ASSUME NEW h, IsInput(h), NEW u \in Vertices(h)
  PROVE  /\ \A e \in CycleEdges(h, Bases(h), u) :
              /\ Degree(h, u) >= 2
              /\ \E i \in 0..(Degree(h, u) - 1) : e = <<Bases(h)[u] + i, NextSlot(h, u, i), 0>>
         /\ Degree(h, u) >= 2 =>
              \A i \in 0..(Degree(h, u) - 1) :
                <<Bases(h)[u] + i, NextSlot(h, u, i), 0>> \in CycleEdges(h, Bases(h), u)
         /\ \A i \in 0..(Degree(h, u) - 1) :
              /\ Bases(h)[u] + i \in Int /\ NextSlot(h, u, i) \in Int
              /\ InSlots(h, u, Bases(h)[u] + i) /\ InSlots(h, u, NextSlot(h, u, i))
<1> DEFINE d == Degree(h, u)
<1> DEFINE b == Bases(h)
<1>1. d \in Nat /\ b[u] \in Nat /\ Width(h, u) = IF d >= 1 THEN d ELSE 1
  BY WidthIs, BasesNat, InputEdges DEF Vertices
<1>2. ASSUME NEW e \in CycleEdges(h, b, u)
      PROVE  d >= 2 /\ \E i \in 0..(d - 1) : e = <<b[u] + i, NextSlot(h, u, i), 0>>
  <2>1. PICK i \in IF d >= 2 THEN 0..(d - 1) ELSE {} : e = <<b[u] + i, b[u] + ((i + 1) % d), 0>>
    BY DEF CycleEdges
  <2>2. d >= 2 /\ i \in 0..(d - 1)
    OBVIOUS
  <2>3. (i + 1) % d = IF i + 1 < d THEN i + 1 ELSE 0
    BY <1>1, <2>2, CycleNext
  <2> QED BY <2>1, <2>2, <2>3 DEF NextSlot
<1>3. ASSUME d >= 2, NEW i \in 0..(d - 1)
      PROVE  <<b[u] + i, NextSlot(h, u, i), 0>> \in CycleEdges(h, b, u)
  <2>1. (i + 1) % d = IF i + 1 < d THEN i + 1 ELSE 0
    BY <1>1, <1>3, CycleNext
  <2> QED BY <1>3, <2>1 DEF CycleEdges, NextSlot
<1>4. ASSUME NEW i \in 0..(d - 1)
      PROVE  /\ b[u] + i \in Int /\ NextSlot(h, u, i) \in Int
             /\ InSlots(h, u, b[u] + i) /\ InSlots(h, u, NextSlot(h, u, i))
  BY <1>1 DEF NextSlot, InSlots
<1> QED BY <1>2, <1>3, <1>4

CrossEdge(h, i) == <<Slot(h, Bases(h), 2 * i - 1), Slot(h, Bases(h), 2 * i), h.edges[i][3]>>

LEMMA TransformedIs ==
  ASSUME NEW h
  PROVE  /\ Transformed(h).n = Bases(h)[h.n] /\ Transformed(h).source = Bases(h)[h.source]
         /\ Nodes(Transformed(h)) = 0..(Bases(h)[h.n] - 1)
         /\ \A u \in Vertices(h) : Transformed(h).rep[u] = Bases(h)[u]
         /\ \A u \in Vertices(h) : \A e \in CycleEdges(h, Bases(h), u) : e \in Transformed(h).edges
         /\ \A i \in DOMAIN h.edges : CrossEdge(h, i) \in Transformed(h).edges
         /\ \A e \in Transformed(h).edges :
              \/ \E u \in Vertices(h) : e \in CycleEdges(h, Bases(h), u)
              \/ \E i \in DOMAIN h.edges : e = CrossEdge(h, i)
<1>1. Transformed(h).edges
        = (UNION {CycleEdges(h, Bases(h), u) : u \in Vertices(h)})
            \cup {CrossEdge(h, i) : i \in DOMAIN h.edges}
  BY DEF Transformed, CrossEdges, CrossEdge
<1>2. Transformed(h).n = Bases(h)[h.n] /\ Transformed(h).source = Bases(h)[h.source]
      /\ Transformed(h).rep = [u \in Vertices(h) |-> Bases(h)[u]]
  BY DEF Transformed
<1>3. \A u \in Vertices(h) : \A e \in CycleEdges(h, Bases(h), u) : e \in Transformed(h).edges
  <2> TAKE u \in Vertices(h)
  <2> TAKE e \in CycleEdges(h, Bases(h), u)
  <2>1. e \in UNION {CycleEdges(h, Bases(h), w) : w \in Vertices(h)}
    OBVIOUS
  <2> QED BY <1>1, <2>1
<1>4. \A i \in DOMAIN h.edges : CrossEdge(h, i) \in Transformed(h).edges
  BY <1>1
<1>5. \A e \in Transformed(h).edges :
        \/ \E u \in Vertices(h) : e \in CycleEdges(h, Bases(h), u)
        \/ \E i \in DOMAIN h.edges : e = CrossEdge(h, i)
  <2> TAKE e \in Transformed(h).edges
  <2>1. \/ e \in (UNION {CycleEdges(h, Bases(h), u) : u \in Vertices(h)})
        \/ e \in {CrossEdge(h, i) : i \in DOMAIN h.edges}
    BY <1>1
  <2> QED BY <2>1
<1> QED BY <1>2, <1>3, <1>4, <1>5 DEF Nodes

LEMMA OwnerIs ==
  ASSUME NEW h, IsInput(h)
  PROVE  /\ \A x \in Nodes(Transformed(h)) :
              Transformed(h).owner[x] \in Vertices(h) /\ InSlots(h, Transformed(h).owner[x], x)
         /\ \A u \in Vertices(h), x \in Int : InSlots(h, u, x) =>
              x \in Nodes(Transformed(h)) /\ Transformed(h).owner[x] = u
<1> DEFINE Of(x) == CHOOSE u \in Vertices(h) : Bases(h)[u] <= x /\ x < Bases(h)[u + 1]
<1>1. \A x \in Nodes(Transformed(h)) : Transformed(h).owner[x] = Of(x)
  BY TransformedIs DEF Transformed
<1>2. ASSUME NEW x, NEW u \in Vertices(h)
      PROVE  InSlots(h, u, x) <=> Bases(h)[u] <= x /\ x < Bases(h)[u + 1]
  BY BasesAre DEF InSlots
<1>3. ASSUME NEW x \in Nodes(Transformed(h)) PROVE Of(x) \in Vertices(h) /\ InSlots(h, Of(x), x)
  <2>1. \E u \in Vertices(h) : InSlots(h, u, x)
    BY TransformedIs, SlotsApart
  <2>2. \E u \in Vertices(h) : Bases(h)[u] <= x /\ x < Bases(h)[u + 1]
    BY <1>2, <2>1
  <2>3. Of(x) \in Vertices(h) /\ Bases(h)[Of(x)] <= x /\ x < Bases(h)[Of(x) + 1]
    BY <2>2
  <2> HIDE DEF Of
  <2> QED BY <1>2, <2>3
<1> HIDE DEF Of
<1>4. ASSUME NEW u \in Vertices(h), NEW x \in Int, InSlots(h, u, x)
      PROVE  x \in Nodes(Transformed(h)) /\ Transformed(h).owner[x] = u
  <2>1. x \in Nodes(Transformed(h))
    <3>1. x \in 0..(Bases(h)[h.n] - 1)
      BY <1>4, SlotsApart
    <3> QED BY <3>1, TransformedIs
  <2>2. Of(x) \in Vertices(h) /\ InSlots(h, Of(x), x)
    BY <1>3, <2>1
  <2> QED BY <1>1, <1>4, <2>1, <2>2, SlotsApart
<1> QED BY <1>1, <1>3, <1>4

(* A cross edge leads from a slot of its tail to one of its head. *)
LEMMA CrossEdgeIs ==
  ASSUME NEW h, IsInput(h), NEW i \in DOMAIN h.edges
  PROVE  /\ CrossEdge(h, i)[1] \in Int /\ InSlots(h, h.edges[i][1], CrossEdge(h, i)[1])
         /\ CrossEdge(h, i)[2] \in Int /\ InSlots(h, h.edges[i][2], CrossEdge(h, i)[2])
         /\ CrossEdge(h, i)[3] = h.edges[i][3]
         /\ h.edges[i][1] \in Vertices(h) /\ h.edges[i][2] \in Vertices(h)
         /\ h.edges[i][3] \in 0..(Infinity - 1)
<1>1. /\ 2 * i - 1 \in Ends(h) /\ VertexAt(h, 2 * i - 1) = h.edges[i][1]
      /\ 2 * i \in Ends(h) /\ VertexAt(h, 2 * i) = h.edges[i][2]
  BY EndsOfEdges
<1>2. h.edges[i] \in Vertices(h) \X Vertices(h) \X (0..(Infinity - 1))
  BY InputEdges
<1> QED BY <1>1, <1>2, SlotOfEnd DEF CrossEdge

LEMMA TransformIsGraph ==
  ASSUME NEW h, IsInput(h)
  PROVE  IsGraph(Transformed(h))
<1> DEFINE N == Nodes(Transformed(h))
<1>1. Transformed(h).n \in Nat \ {0} /\ Transformed(h).source \in N
  <2>1. Bases(h)[h.source] \in 0..(Bases(h)[h.n] - 1)
    BY InputEdges, SlotsApart
  <2>2. Bases(h)[h.n] \in Nat
    BY InputEdges, BasesNat
  <2> QED BY <2>1, <2>2, TransformedIs
<1>2. ASSUME NEW e \in Transformed(h).edges PROVE e \in N \X N \X (0..(Infinity - 1))
  <2>1. CASE \E u \in Vertices(h) : e \in CycleEdges(h, Bases(h), u)
    <3>1. PICK u \in Vertices(h) : e \in CycleEdges(h, Bases(h), u)
      BY <2>1
    <3>2. PICK i \in 0..(Degree(h, u) - 1) : e = <<Bases(h)[u] + i, NextSlot(h, u, i), 0>>
      BY <3>1, CycleEdgesAre
    <3>3. Bases(h)[u] + i \in N /\ NextSlot(h, u, i) \in N
      BY CycleEdgesAre, OwnerIs
    <3>4. 0 \in 0..(Infinity - 1)
      BY InfinityNat
    <3> HIDE DEF N
    <3> QED BY <3>2, <3>3, <3>4
  <2>2. CASE \E i \in DOMAIN h.edges : e = CrossEdge(h, i)
    <3>1. PICK i \in DOMAIN h.edges : e = CrossEdge(h, i)
      BY <2>2
    <3>2. CrossEdge(h, i)[1] \in N /\ CrossEdge(h, i)[2] \in N
          /\ CrossEdge(h, i)[3] \in 0..(Infinity - 1)
      BY CrossEdgeIs, OwnerIs
    <3> HIDE DEF N
    <3> QED BY <3>1, <3>2 DEF CrossEdge
  <2> QED BY <2>1, <2>2, TransformedIs
<1> QED BY <1>1, <1>2 DEF IsGraph

(* All slots of a vertex are equally far. *)
LEMMA SlotsAlike ==
  ASSUME NEW h, IsInput(h), NEW u \in Vertices(h), NEW x \in Int, InSlots(h, u, x)
  PROVE  Labels(Transformed(h))[x].len = Labels(Transformed(h))[Bases(h)[u]].len
<1> DEFINE d == Degree(h, u)
<1> DEFINE b == Bases(h)[u]
<1> DEFINE far(i) == Labels(Transformed(h))[b + i].len
<1>1. d \in Nat /\ b \in Nat /\ Width(h, u) = IF d >= 1 THEN d ELSE 1
  BY WidthIs, BasesNat, InputEdges DEF Vertices
<1>2. CASE d < 2
  <2>1. x = b
    BY <1>1, <1>2 DEF InSlots
  <2> QED BY <2>1
<1>3. CASE d >= 2
  <2>1. ASSUME NEW i \in 0..(d - 1)
        PROVE  far(i) \in 0..Infinity /\ far(IF i + 1 < d THEN i + 1 ELSE 0) <= far(i)
    <3> DEFINE e == <<b + i, NextSlot(h, u, i), 0>>
    <3>1. e \in Transformed(h).edges
      BY <1>3, CycleEdgesAre, TransformedIs
    <3>2. Labels(Transformed(h))[e[2]].len <= Plus(Labels(Transformed(h))[e[1]].len, e[3])
      <4> HIDE DEF e
      <4> QED BY <3>1, TransformIsGraph, LabelsAre
    <3>3. b + i \in Nodes(Transformed(h))
      BY CycleEdgesAre, OwnerIs
    <3>4. far(i) \in 0..Infinity
      BY <3>3, TransformIsGraph, LabelsAre DEF Lengths
    <3>5. Plus(far(i), 0) = far(i)
      BY <3>4, InfinityNat DEF Plus
    <3>6. e[1] = b + i /\ e[2] = b + (IF i + 1 < d THEN i + 1 ELSE 0) /\ e[3] = 0
      BY DEF NextSlot
    <3> QED BY <3>2, <3>4, <3>5, <3>6
  <2> HIDE DEF far
  <2>2. ASSUME NEW j \in 0..(d - 1) PROVE \A i \in 0..j : far(j) <= far(i)
    <3> DEFINE T == {k \in 0..(d - 1) : ~ \A i \in 0..k : far(k) <= far(i)}
    <3>1. SUFFICES ASSUME T # {} PROVE FALSE
      OBVIOUS
    <3>2. PICK k \in T : \A m \in T : k <= m
      <4>1. T \subseteq Nat
        OBVIOUS
      <4> HIDE DEF T
      <4> QED BY <3>1, <4>1, HasLeast
    <3>3. PICK i \in 0..k : ~ (far(k) <= far(i))
      OBVIOUS
    <3>4. k \in 0..(d - 1) /\ i \in 0..(d - 1) /\ k \in Nat /\ i \in Nat /\ far(k) \in 0..Infinity
      BY <1>1, <2>1, <3>2
    <3>5. i # k /\ i <= k - 1 /\ k - 1 \in 0..(d - 1) /\ k - 1 \notin T
      BY <1>1, <3>2, <3>3, <3>4
    <3>6. far(k - 1) <= far(i)
      BY <3>4, <3>5
    <3>7. far(k) <= far(k - 1)
      <4>1. (k - 1) + 1 < d /\ (k - 1) + 1 = k
        BY <1>1, <3>4
      <4> QED BY <2>1, <3>5, <4>1
    <3>8. far(k - 1) \in 0..Infinity /\ far(i) \in 0..Infinity
      BY <2>1, <3>4, <3>5
    <3> QED BY <3>3, <3>4, <3>6, <3>7, <3>8, InfinityNat
  <2>3. x - b \in 0..(d - 1) /\ d - 1 \in 0..(d - 1) /\ 0 \in 0..(x - b) /\ x - b \in 0..(d - 1)
        /\ 0 \in 0..(d - 1)
    BY <1>1, <1>3 DEF InSlots
  <2>4. far(x - b) <= far(0) /\ far(d - 1) <= far(x - b)
    BY <2>2, <2>3
  <2>5. far(0) <= far(d - 1)
    <3>1. ~ ((d - 1) + 1 < d)
      BY <1>1
    <3> QED BY <2>1, <2>3, <3>1
  <2>6. far(0) \in 0..Infinity /\ far(d - 1) \in 0..Infinity /\ far(x - b) \in 0..Infinity
    BY <2>1, <2>3
  <2>7. far(x - b) = far(0)
    BY <2>4, <2>5, <2>6, InfinityNat
  <2>8. b + (x - b) = x /\ b + 0 = b
    BY <1>1
  <2> QED BY <2>7, <2>8 DEF far
<1> QED BY <1>1, <1>2, <1>3

(* The lengths of the two graphs agree. *)
LEMMA SameLengths ==
  ASSUME NEW h, IsInput(h), NEW u \in Vertices(h)
  PROVE  Labels(Transformed(h))[Bases(h)[u]].len = Labels(Itself(h))[u].len
<1> DEFINE t == Transformed(h)
<1> DEFINE E == [x \in Nodes(t) |-> Labels(Itself(h))[t.owner[x]].len]
<1> DEFINE D == [w \in Vertices(h) |-> Labels(t)[Bases(h)[w]].len]
<1>1. IsGraph(t) /\ IsGraph(Itself(h)) /\ Nodes(Itself(h)) = Vertices(h)
      /\ Itself(h).source = h.source /\ h.source \in Vertices(h)
      /\ Itself(h).edges = {h.edges[i] : i \in DOMAIN h.edges}
  BY TransformIsGraph, ItselfIsGraph, InputEdges DEF Itself
<1>2. ASSUME NEW w \in Vertices(h)
      PROVE  Bases(h)[w] \in Nodes(t) /\ t.owner[Bases(h)[w]] = w /\ Bases(h)[w] \in Int
  <2>1. Bases(h)[w] \in Int /\ InSlots(h, w, Bases(h)[w])
    BY SlotsApart
  <2> QED BY <2>1, OwnerIs
<1>3. \A w \in Vertices(h) : Labels(Itself(h))[w].len \in Lengths
  BY <1>1, LabelsAre
<1>4. \A w \in Vertices(h) : Labels(t)[Bases(h)[w]].len \in Lengths
  BY <1>1, <1>2, LabelsAre
<1>5. Labels(Itself(h))[u].len <= Labels(t)[Bases(h)[u]].len
  <2>1. \A x \in Nodes(t) : t.owner[x] \in Vertices(h) /\ E[x] \in Lengths
    BY <1>3, OwnerIs
  <2>2. E[t.source] = 0
    <3>1. t.source = Bases(h)[h.source]
      BY TransformedIs
    <3>2. E[t.source] = Labels(Itself(h))[h.source].len
      BY <1>1, <1>2, <3>1
    <3> QED BY <1>1, <3>2, LabelsAre
  <2>3. ASSUME NEW e \in t.edges PROVE E[e[2]] <= Plus(E[e[1]], e[3])
    <3>1. CASE \E w \in Vertices(h) : e \in CycleEdges(h, Bases(h), w)
      <4>1. PICK w \in Vertices(h) : e \in CycleEdges(h, Bases(h), w)
        BY <3>1
      <4>2. PICK i \in 0..(Degree(h, w) - 1) : e = <<Bases(h)[w] + i, NextSlot(h, w, i), 0>>
        BY <4>1, CycleEdgesAre
      <4>3. /\ Bases(h)[w] + i \in Nodes(t) /\ t.owner[Bases(h)[w] + i] = w
            /\ NextSlot(h, w, i) \in Nodes(t) /\ t.owner[NextSlot(h, w, i)] = w
        BY CycleEdgesAre, OwnerIs
      <4>4. E[e[1]] = Labels(Itself(h))[w].len /\ E[e[2]] = Labels(Itself(h))[w].len /\ e[3] = 0
        BY <4>2, <4>3
      <4>5. Labels(Itself(h))[w].len \in 0..Infinity
        BY <1>3 DEF Lengths
      <4> HIDE DEF E
      <4> QED BY <4>4, <4>5, InfinityNat DEF Plus
    <3>2. CASE \E i \in DOMAIN h.edges : e = CrossEdge(h, i)
      <4>1. PICK i \in DOMAIN h.edges : e = CrossEdge(h, i)
        BY <3>2
      <4>2. /\ e[1] \in Nodes(t) /\ t.owner[e[1]] = h.edges[i][1]
            /\ e[2] \in Nodes(t) /\ t.owner[e[2]] = h.edges[i][2]
            /\ e[3] = h.edges[i][3]
        BY <4>1, CrossEdgeIs, OwnerIs
      <4>3. h.edges[i] \in Itself(h).edges
        BY <1>1
      <4>4. Labels(Itself(h))[h.edges[i][2]].len <= Plus(Labels(Itself(h))[h.edges[i][1]].len, h.edges[i][3])
        BY <1>1, <4>3, LabelsAre
      <4>5. E[e[1]] = Labels(Itself(h))[h.edges[i][1]].len /\ E[e[2]] = Labels(Itself(h))[h.edges[i][2]].len
        BY <4>2
      <4> HIDE DEF E
      <4> QED BY <4>2, <4>4, <4>5
    <3> QED BY <3>1, <3>2, TransformedIs
  <2>4. E[Bases(h)[u]] <= Labels(t)[Bases(h)[u]].len
    <3>1. Bases(h)[u] \in Nodes(t)
      BY <1>2
    <3> HIDE DEF E, t
    <3> QED BY <1>1, <2>1, <2>2, <2>3, <3>1, LeastSolution
  <2> QED BY <1>2, <2>4
<1>6. Labels(t)[Bases(h)[u]].len <= Labels(Itself(h))[u].len
  <2>1. \A w \in Nodes(Itself(h)) : D[w] \in Lengths
    BY <1>1, <1>4
  <2>2. D[Itself(h).source] = 0
    <3>1. D[Itself(h).source] = Labels(t)[t.source].len
      BY <1>1, TransformedIs
    <3> HIDE DEF t, D
    <3> QED BY <1>1, <3>1, LabelsAre
  <2>3. ASSUME NEW e \in Itself(h).edges PROVE D[e[2]] <= Plus(D[e[1]], e[3])
    <3>1. PICK i \in DOMAIN h.edges : e = h.edges[i]
      BY <1>1
    <3> DEFINE c == CrossEdge(h, i)
    <3>2. c \in t.edges
      BY TransformedIs
    <3>3. Labels(t)[c[2]].len <= Plus(Labels(t)[c[1]].len, c[3])
      <4> HIDE DEF c, t
      <4> QED BY <1>1, <3>2, LabelsAre
    <3>4. /\ Labels(t)[c[1]].len = Labels(t)[Bases(h)[e[1]]].len
          /\ Labels(t)[c[2]].len = Labels(t)[Bases(h)[e[2]]].len
          /\ c[3] = e[3] /\ e[1] \in Vertices(h) /\ e[2] \in Vertices(h)
      BY <3>1, CrossEdgeIs, SlotsAlike
    <3> HIDE DEF c, t
    <3> QED BY <3>3, <3>4
  <2>4. D[u] <= Labels(Itself(h))[u].len
    <3> HIDE DEF D
    <3> QED BY <1>1, <2>1, <2>2, <2>3, LeastSolution
  <2> QED BY <2>4
<1> QED BY <1>3, <1>4, <1>5, <1>6, InfinityNat DEF Lengths

LEMMA OneOfEach ==
  ASSUME NEW S, NEW A, NEW C, S \subseteq A \cup C,
         \A a, b \in A : a = b, \A a, b \in C : a = b
  PROVE  IsFiniteSet(S) /\ Cardinality(S) <= 2
<1>1. ASSUME NEW T, \A a, b \in T : a = b
      PROVE  IsFiniteSet(T) /\ Cardinality(T) \in Nat /\ Cardinality(T) <= 1
  <2>1. CASE T = {}
    <3>1. IsFiniteSet(T) /\ Cardinality(T) = 0
      BY <2>1, FS_EmptySet
    <3> QED BY <3>1
  <2>2. CASE T # {}
    <3>1. PICK a \in T : T = {a}
      BY <1>1, <2>2
    <3>2. IsFiniteSet(T) /\ Cardinality(T) = 1
      BY <3>1, FS_Singleton
    <3> QED BY <3>2
  <2> QED BY <2>1, <2>2
<1>2. /\ IsFiniteSet(A) /\ Cardinality(A) \in Nat /\ Cardinality(A) <= 1
      /\ IsFiniteSet(C) /\ Cardinality(C) \in Nat /\ Cardinality(C) <= 1
  BY <1>1
<1>3. /\ IsFiniteSet(A \cup C) /\ IsFiniteSet(A \cap C)
      /\ Cardinality(A \cup C) = Cardinality(A) + Cardinality(C) - Cardinality(A \cap C)
  BY <1>2, FS_Union, FS_Intersection
<1>4. /\ Cardinality(A \cap C) \in Nat
      /\ IsFiniteSet(S) /\ Cardinality(S) \in Nat /\ Cardinality(S) <= Cardinality(A \cup C)
      /\ Cardinality(A \cup C) \in Nat
  BY <1>3, FS_Subset, FS_CardinalityType
<1> QED BY <1>2, <1>3, <1>4

EdgesAt(edges, x, side) == {e \in edges : e[side] = x}

(* At each slot at most one edge of the cycle and one of the caller's, out *)
(* as well as in.                                                          *)
LEMMA DegreesOfTransform ==
  ASSUME NEW h, IsInput(h), NEW x, NEW side \in {1, 2}
  PROVE  Cardinality(EdgesAt(Transformed(h).edges, x, side)) <= 2
<1> DEFINE A == {e \in Transformed(h).edges :
                  e[side] = x /\ \E u \in Vertices(h) : e \in CycleEdges(h, Bases(h), u)}
<1> DEFINE C == {e \in Transformed(h).edges :
                  e[side] = x /\ \E i \in DOMAIN h.edges : e = CrossEdge(h, i)}
<1>1. EdgesAt(Transformed(h).edges, x, side) \subseteq A \cup C
  BY TransformedIs DEF EdgesAt
<1>2. ASSUME NEW e \in A, NEW f \in A PROVE e = f
  <2>10. PICK u \in Vertices(h) : e \in CycleEdges(h, Bases(h), u)
    OBVIOUS
  <2>20. PICK w \in Vertices(h) : f \in CycleEdges(h, Bases(h), w)
    OBVIOUS
  <2>1. PICK i \in 0..(Degree(h, u) - 1) : e = <<Bases(h)[u] + i, NextSlot(h, u, i), 0>>
    BY <2>10, CycleEdgesAre
  <2>2. PICK j \in 0..(Degree(h, w) - 1) : f = <<Bases(h)[w] + j, NextSlot(h, w, j), 0>>
    BY <2>20, CycleEdgesAre
  <2>3. e[side] = x /\ f[side] = x
    OBVIOUS
  <2> HIDE DEF A
  <2>4. InSlots(h, u, x) /\ InSlots(h, w, x) /\ x \in Int
    BY <2>1, <2>2, <2>3, CycleEdgesAre
  <2>5. u = w
    BY <2>4, SlotsApart
  <2>6. Bases(h)[u] \in Nat /\ Degree(h, u) \in Nat
    BY BasesNat, WidthIs, InputEdges DEF Vertices
  <2>7. i = j
    <3>1. CASE side = 1
      BY <2>1, <2>2, <2>3, <2>5, <2>6, <3>1
    <3>2. CASE side = 2
      BY <2>1, <2>2, <2>3, <2>5, <2>6, <3>2 DEF NextSlot
    <3> QED BY <3>1, <3>2
  <2> QED BY <2>1, <2>2, <2>5, <2>7
<1>3. ASSUME NEW e \in C, NEW f \in C PROVE e = f
  <2>1. PICK i \in DOMAIN h.edges : e = CrossEdge(h, i)
    OBVIOUS
  <2>2. PICK j \in DOMAIN h.edges : f = CrossEdge(h, j)
    OBVIOUS
  <2>3. e[side] = x /\ f[side] = x
    OBVIOUS
  <2> HIDE DEF C
  <2>4. /\ 2 * i - 1 \in Ends(h) /\ 2 * i \in Ends(h) /\ i \in Nat
        /\ 2 * j - 1 \in Ends(h) /\ 2 * j \in Ends(h) /\ j \in Nat
    <3>1. DOMAIN h.edges = 1..Len(h.edges) /\ Len(h.edges) \in Nat
      BY InputEdges
    <3>2. i \in Nat /\ j \in Nat
      BY <3>1
    <3> QED BY <3>2, EndsOfEdges
  <2>5. i = j
    <3>1. CASE side = 1
      <4>1. 2 * i - 1 = 2 * j - 1
        BY <2>1, <2>2, <2>3, <2>4, <3>1, SlotsDiffer DEF CrossEdge
      <4> QED BY <2>4, <4>1
    <3>2. CASE side = 2
      <4>1. 2 * i = 2 * j
        BY <2>1, <2>2, <2>3, <2>4, <3>2, SlotsDiffer DEF CrossEdge
      <4> QED BY <2>4, <4>1
    <3> QED BY <3>1, <3>2
  <2> QED BY <2>1, <2>2, <2>5
<1> HIDE DEF A, C
<1> QED BY <1>1, <1>2, <1>3, OneOfEach

(* A step back from a slot of a vertex that is reached: to another of its   *)
(* slots, by an edge less, or across an edge that accounts for its length. *)
LEMMA StepBack ==
  ASSUME NEW h, IsInput(h), NEW u \in Vertices(h), u # h.source,
         Labels(Transformed(h))[Bases(h)[u]].len # Infinity,
         NEW x \in Nodes(Transformed(h)), Transformed(h).owner[x] = u
  PROVE  LET L == Labels(Transformed(h))
             p == L[x].pred
             o == Transformed(h).owner[p]
         IN  /\ p \in Nodes(Transformed(h)) /\ o \in Vertices(h)
             /\ L[p].hops \in Nat /\ L[x].hops = L[p].hops + 1
             /\ o # u => \E i \in DOMAIN h.edges :
                  /\ h.edges[i][1] = o /\ h.edges[i][2] = u
                  /\ L[Bases(h)[u]].len = Plus(L[Bases(h)[o]].len, h.edges[i][3])
<1> DEFINE t == Transformed(h)
<1> DEFINE L == Labels(t)
<1> DEFINE p == L[x].pred
<1> DEFINE o == t.owner[p]
<1>1. IsGraph(t) /\ x \in Int /\ InSlots(h, u, x)
  BY TransformIsGraph, OwnerIs DEF Nodes
<1>2. L[x].len = L[Bases(h)[u]].len /\ L[x].len \in Lengths /\ L[x].len < Infinity
  <2>1. L[x].len = L[Bases(h)[u]].len
    BY <1>1, SlotsAlike
  <2>2. L[x].len \in Lengths
    BY <1>1, LabelsAre
  <2> HIDE DEF L
  <2>3. L[Bases(h)[u]].len # Infinity
    BY DEF L
  <2> QED BY <2>1, <2>2, <2>3, InfinityNat DEF Lengths
<1>3. x # t.source
  <2>1. t.source = Bases(h)[h.source] /\ InSlots(h, h.source, Bases(h)[h.source])
        /\ Bases(h)[h.source] \in Int /\ h.source \in Vertices(h)
    BY TransformedIs, SlotsApart, InputEdges
  <2> QED BY <1>1, <2>1, SlotsApart
<1>4. PICK e \in t.edges :
        /\ e[2] = x /\ e[1] = p /\ L[x].len = L[e[1]].len + e[3]
        /\ L[e[1]].len < Infinity /\ L[x].hops = L[e[1]].hops + 1
  <2>1. x \in Nodes(t) \ {t.source}
    BY <1>3
  <2> HIDE DEF t
  <2> QED BY <1>1, <1>2, <2>1, LabelsAre
<1>5. p \in Nodes(t) /\ o \in Vertices(h) /\ p \in Int /\ InSlots(h, o, p) /\ L[p].hops \in Nat
  <2>1. p \in Nodes(t)
    BY <1>1, <1>4 DEF IsGraph
  <2>2. L[p].hops \in Nat
    <3> HIDE DEF p, t
    <3> QED BY <1>1, <2>1, LabelsAre
  <2> QED BY <2>1, <2>2, OwnerIs DEF Nodes
<1>6. ASSUME o # u
      PROVE  \E i \in DOMAIN h.edges :
               /\ h.edges[i][1] = o /\ h.edges[i][2] = u
               /\ L[Bases(h)[u]].len = Plus(L[Bases(h)[o]].len, h.edges[i][3])
  <2>1. ASSUME NEW w \in Vertices(h), e \in CycleEdges(h, Bases(h), w) PROVE FALSE
    <3>1. PICK i \in 0..(Degree(h, w) - 1) : e = <<Bases(h)[w] + i, NextSlot(h, w, i), 0>>
      BY <2>1, CycleEdgesAre
    <3>2. InSlots(h, w, e[1]) /\ InSlots(h, w, e[2])
      BY <3>1, CycleEdgesAre
    <3> HIDE DEF o, p
    <3>3. w = u /\ w = o
      BY <1>1, <1>4, <1>5, <3>2, SlotsApart
    <3> QED BY <1>6, <3>3
  <2>2. PICK i \in DOMAIN h.edges : e = CrossEdge(h, i)
    BY <2>1, TransformedIs
  <2>3. /\ InSlots(h, h.edges[i][1], p) /\ InSlots(h, h.edges[i][2], x)
        /\ h.edges[i][1] \in Vertices(h) /\ h.edges[i][2] \in Vertices(h)
        /\ e[3] = h.edges[i][3]
    BY <1>4, <2>2, CrossEdgeIs
  <2>4. h.edges[i][1] = o /\ h.edges[i][2] = u
    <3> HIDE DEF o, p
    <3> QED BY <1>1, <1>5, <2>3, SlotsApart
  <2>5. L[p].len = L[Bases(h)[o]].len
    BY <1>5, SlotsAlike
  <2>6. L[x].len = Plus(L[p].len, e[3])
    <3> HIDE DEF L, p
    <3> QED BY <1>2, <1>4, InfinityNat DEF Plus, Lengths
  <2> QED BY <1>2, <2>3, <2>4, <2>5, <2>6
<1> QED BY <1>4, <1>5, <1>6

-----------------------------------------------------------------------------
(* build_csr.                                                               *)

Triples == Nat \X Nat \X (Int \cup {NaN})

(* The edges have a place each. *)
LEMMA PlacesDiffer ==
  ASSUME NEW h, h.edges \in Seq(Triples)
  PROVE  /\ \A i \in DOMAIN h.edges : PlaceOf(h, i) \in 1..Len(h.edges)
         /\ \A i, j \in DOMAIN h.edges : PlaceOf(h, i) = PlaceOf(h, j) => i = j
<1> DEFINE I == DOMAIN h.edges
<1> DEFINE Upto(i) ==
      {j \in I : \/ h.edges[j][1] < h.edges[i][1]
                 \/ h.edges[j][1] = h.edges[i][1] /\ j <= i}
<1>1. I = 1..Len(h.edges) /\ Len(h.edges) \in Nat
  OBVIOUS
<1>2. \A i \in I : h.edges[i][1] \in Nat /\ i \in Nat
  BY <1>1 DEF Triples
<1>3. IsFiniteSet(I) /\ Cardinality(I) = Len(h.edges)
  BY <1>1, Intervals
<1>4. ASSUME NEW i \in I PROVE PlaceOf(h, i) = Cardinality(Upto(i))
  BY DEF PlaceOf
<1>5. ASSUME NEW i \in I PROVE PlaceOf(h, i) \in 1..Len(h.edges)
  <2>1. Upto(i) \in SUBSET I /\ i \in Upto(i)
    BY <1>2
  <2> HIDE DEF Upto
  <2>2. IsFiniteSet(Upto(i)) /\ Cardinality(Upto(i)) <= Len(h.edges)
    BY <1>3, <2>1, FS_Subset
  <2>3. Cardinality(Upto(i)) \in Nat /\ Cardinality(Upto(i)) # 0
    BY <2>1, <2>2, FS_CardinalityType, FS_EmptySet
  <2> QED BY <1>1, <1>4, <2>2, <2>3
<1>6. ASSUME NEW i \in I, NEW j \in I,
             h.edges[i][1] < h.edges[j][1] \/ (h.edges[i][1] = h.edges[j][1] /\ i < j)
      PROVE  PlaceOf(h, i) # PlaceOf(h, j)
  <2>1. Upto(i) \in SUBSET Upto(j) /\ j \in Upto(j) /\ j \notin Upto(i) /\ Upto(j) \in SUBSET I
    BY <1>2, <1>6
  <2> HIDE DEF Upto
  <2>2. Cardinality(Upto(i)) # Cardinality(Upto(j))
    BY <1>3, <2>1, FS_Subset
  <2> QED BY <1>4, <2>2
<1> HIDE DEF Upto, I
<1>7. ASSUME NEW i \in I, NEW j \in I, PlaceOf(h, i) = PlaceOf(h, j) PROVE i = j
  <2>1. h.edges[i][1] \in Nat /\ h.edges[j][1] \in Nat /\ i \in Nat /\ j \in Nat
    BY <1>2
  <2>2. ~ (h.edges[i][1] < h.edges[j][1]) /\ ~ (h.edges[j][1] < h.edges[i][1])
    BY <1>6, <1>7
  <2>3. h.edges[i][1] = h.edges[j][1]
    BY <2>1, <2>2
  <2>4. ~ (i < j) /\ ~ (j < i)
    BY <1>6, <1>7, <2>3
  <2> QED BY <2>1, <2>4
<1> QED BY <1>5, <1>7 DEF I

(* build_csr reorders the edges, and loses none. *)
LEMMA EnumeratedIs ==
  ASSUME NEW h, h.edges \in Seq(Triples)
  PROVE  /\ Enumerated(h) \in Seq(Triples) /\ DOMAIN Enumerated(h) = DOMAIN h.edges
         /\ \A p \in DOMAIN Enumerated(h) : \E i \in DOMAIN h.edges :
              PlaceOf(h, i) = p /\ Enumerated(h)[p] = h.edges[i]
         /\ \A i \in DOMAIN h.edges : Enumerated(h)[PlaceOf(h, i)] = h.edges[i]
<1> DEFINE I == 1..Len(h.edges)
<1> DEFINE f == [i \in I |-> PlaceOf(h, i)]
<1>1. DOMAIN h.edges = I /\ Len(h.edges) \in Nat
  OBVIOUS
<1>2. f \in Injection(I, I)
  <2>1. \A i \in I : f[i] \in I
    BY <1>1, PlacesDiffer
  <2>2. \A i, j \in I : f[i] = f[j] => i = j
    BY <1>1, PlacesDiffer
  <2>3. f \in [I -> I]
    BY <2>1
  <2> HIDE DEF f, I
  <2> QED BY <2>2, <2>3 DEF Injection, IsInjective
<1>3. f \in Surjection(I, I)
  <2>1. IsFiniteSet(I)
    BY <1>1, Intervals
  <2> HIDE DEF f, I
  <2> QED BY <1>2, <2>1, FS_Injection
<1>4. ASSUME NEW p \in I PROVE \E i \in I : PlaceOf(h, i) = p
  BY <1>3 DEF Surjection
<1>5. ASSUME NEW p \in I
      PROVE  \E i \in I : PlaceOf(h, i) = p /\ Enumerated(h)[p] = h.edges[i]
  <2> DEFINE i == CHOOSE i \in I : PlaceOf(h, i) = p
  <2>1. i \in I /\ PlaceOf(h, i) = p
    BY <1>4
  <2>2. Enumerated(h)[p] = h.edges[i]
    BY <1>1 DEF Enumerated
  <2> QED BY <2>1, <2>2
<1>6. DOMAIN Enumerated(h) = I
  BY DEF Enumerated
<1>7. Enumerated(h) \in Seq(Triples)
  <2>1. \A p \in I : Enumerated(h)[p] \in Triples
    <3> TAKE p \in I
    <3>1. PICK i \in I : Enumerated(h)[p] = h.edges[i]
      BY <1>5
    <3> QED BY <1>1, <3>1
  <2>2. Enumerated(h) \in [1..Len(h.edges) -> Triples]
    BY <1>6, <2>1 DEF Enumerated
  <2> QED BY <1>1, <2>2
<1>8. ASSUME NEW i \in I PROVE Enumerated(h)[PlaceOf(h, i)] = h.edges[i]
  <2>1. PlaceOf(h, i) \in I
    BY <1>1, PlacesDiffer
  <2>2. PICK j \in I : PlaceOf(h, j) = PlaceOf(h, i) /\ Enumerated(h)[PlaceOf(h, i)] = h.edges[j]
    BY <1>5, <2>1
  <2> QED BY <1>1, <2>2, PlacesDiffer
<1> QED BY <1>1, <1>5, <1>6, <1>7, <1>8

-----------------------------------------------------------------------------
(* The run.                                                                 *)

LEMMA InputNow ==
  ASSUME IInv, result = "Ok", pc \notin {"build", "check"}
  PROVE  /\ IsInput(g) /\ tr = IF g.transform THEN Transformed(g) ELSE Itself(g)
         /\ g.source \in Vertices(g) /\ g.n \in Nat \ {0}
<1>1. IsInput(g)
  BY DEF IInv, TypeOK, Searching, IsInput, Callers
<1> QED BY <1>1, InputEdges DEF IInv, Searching

(* What recover_pred works on. *)
LEMMA Recovering ==
  ASSUME IInv, pc \in {"next", "walk"}
  PROVE  /\ IsInput(g) /\ tr = Transformed(g) /\ lab = Labels(Transformed(g))
         /\ g.n \in Nat /\ g.source \in Vertices(g) /\ result = "Ok" /\ g.transform
         /\ v \in 0..g.n
         /\ \A u \in Vertices(g) :
              /\ tr.rep[u] = Bases(g)[u]
              /\ dist[u] = lab[Bases(g)[u]].len
              /\ IF u < v THEN Accounted(u) ELSE pred[u] = -1
         /\ dist = [u \in Vertices(g) |-> lab[tr.rep[u]].len]
         /\ pred \in [Vertices(g) -> {-1} \cup Vertices(g)]
<1>1. result = "Ok" /\ pc \notin {"build", "check", "search"}
  BY DEF IInv, TypeOK
<1>2. IsInput(g) /\ g.transform /\ tr = Transformed(g) /\ g.source \in Vertices(g) /\ g.n \in Nat
  BY <1>1, InputNow DEF IInv, Recovered
<1>3. /\ lab = Labels(tr) /\ dist = [u \in Vertices(g) |-> lab[tr.rep[u]].len]
      /\ pred \in [Vertices(g) -> {-1} \cup Vertices(g)]
  BY <1>1 DEF IInv, Found
<1>4. \A u \in Vertices(g) : tr.rep[u] = Bases(g)[u] /\ dist[u] = lab[Bases(g)[u]].len
  BY <1>2, <1>3, TransformedIs
<1>5. v \in 0..g.n /\ \A u \in Vertices(g) : IF u < v THEN Accounted(u) ELSE pred[u] = -1
  BY DEF IInv, Recovered
<1> QED BY <1>1, <1>2, <1>3, <1>4, <1>5

LEMMA InitHolds ==
  ASSUME Init
  PROVE  IInv
<1>1. TypeOK
  BY SsspAssumption DEF Init, TypeOK
<1> QED BY <1>1 DEF Init, IInv, Searching, Found, Recovered, Walking, PredsTight, Answered

LEMMA BuildStep ==
  ASSUME IInv, BuildPanic \/ Build
  PROVE  IInv'
<1>1. CASE BuildPanic
  BY <1>1 DEF BuildPanic, Fail, IInv, TypeOK, Searching, Found, Recovered, Walking, PredsTight, Answered
<1>2. CASE Build
  <2>1. g.edges \in Seq(Triples) /\ g.n \in Nat /\ g.source \in Nat /\ g.transform \in BOOLEAN
        /\ InRange(g) /\ result = "Ok" /\ v = 0
    BY <1>2 DEF Build, IInv, TypeOK, Triples, Recovered, Callers
  <2>2. /\ g' = [g EXCEPT !.edges = Enumerated(g)] /\ pc' = "check"
        /\ result' = result /\ v' = v
    BY <1>2 DEF Build
  <2>3. PICK G : G = g'
    OBVIOUS
  <2>4. G \in Callers /\ InRange(G)
    <3>1. /\ Enumerated(g) \in Seq(Triples)
          /\ \A p \in DOMAIN Enumerated(g) : \E i \in DOMAIN g.edges : Enumerated(g)[p] = g.edges[i]
      BY <2>1, EnumeratedIs
    <3>2. G.n = g.n /\ G.source = g.source /\ G.transform = g.transform
      BY <2>2, <2>3
    <3>3. G.edges = Enumerated(g) /\ G \in Callers
      BY <2>1, <2>2, <2>3, <3>1 DEF IInv, TypeOK, Callers, Triples
    <3>4. InRange(G)
      BY <2>1, <3>1, <3>2, <3>3 DEF InRange
    <3> QED BY <2>1, <3>1, <3>2, <3>3, <3>4
  <2> QED BY <2>1, <2>2, <2>3, <2>4
          DEF IInv, TypeOK, Searching, Found, Recovered, Walking, PredsTight, Answered
<1> QED BY <1>1, <1>2

LEMMA RefuseStep ==
  ASSUME IInv, Refuse
  PROVE  IInv'
BY DEF Refuse, Fail, IInv, TypeOK, Searching, Found, Recovered, Walking, PredsTight, Answered

LEMMA TransformStep ==
  ASSUME IInv, Transform
  PROVE  IInv'
<1>1. /\ pc = "check" /\ g.source < g.n /\ ~ HasBadWeight /\ InRange(g) /\ v = 0 /\ result = "Ok"
      /\ tr' = IF g.transform THEN Transformed(g) ELSE Itself(g)
      /\ pc' = "search" /\ g' = g /\ result' = result /\ v' = v /\ g \in Callers
  BY DEF Transform, IInv, TypeOK, Recovered
<1>2. Sound(g)
  BY <1>1 DEF Sound, HasBadWeight
<1>3. PICK G : G = g
  OBVIOUS
<1> QED BY <1>1, <1>2, <1>3
        DEF IInv, TypeOK, Searching, Found, Recovered, Walking, PredsTight, Answered

(* Without the transform, the labels are the answer. *)
LEMMA AnsweredAtOnce ==
  ASSUME NEW h, IsInput(h), NEW u \in Vertices(h), NEW q \in PredsAt(Itself(h), u)
  PROVE  LET L == Labels(Itself(h))
         IN  \/ (u = h.source \/ L[u].len = Infinity) /\ q = -1
             \/ /\ u # h.source /\ L[u].len # Infinity
                /\ \E i \in DOMAIN h.edges :
                     /\ h.edges[i][1] = q /\ h.edges[i][2] = u
                     /\ L[u].len = Plus(L[q].len, h.edges[i][3])
             \/ L[u].len = Infinity /\ Tails(Itself(h), u) # {}
<1> DEFINE t == Itself(h)
<1> DEFINE L == Labels(t)
<1>1. /\ IsGraph(t) /\ Nodes(t) = Vertices(h) /\ t.source = h.source
      /\ t.edges = {h.edges[i] : i \in DOMAIN h.edges}
  BY ItselfIsGraph DEF Itself
<1>2. q \in IF L[u].len < Infinity THEN {L[u].pred} ELSE {-1} \cup Tails(t, u)
  BY DEF PredsAt
<1> SUFFICES \/ (u = h.source \/ L[u].len = Infinity) /\ q = -1
             \/ /\ u # h.source /\ L[u].len # Infinity
                /\ \E i \in DOMAIN h.edges :
                     /\ h.edges[i][1] = q /\ h.edges[i][2] = u
                     /\ L[u].len = Plus(L[q].len, h.edges[i][3])
             \/ L[u].len = Infinity /\ Tails(t, u) # {}
  OBVIOUS
<1> HIDE DEF t
<1>3. L[u].len \in 0..Infinity /\ L[t.source].len = 0 /\ L[t.source].pred = -1
  BY <1>1, LabelsAre DEF Lengths
<1>4. CASE u = h.source
  BY <1>1, <1>2, <1>3, <1>4, InfinityNat
<1>5. CASE u # h.source /\ L[u].len < Infinity
  <2>1. q = L[u].pred
    BY <1>2, <1>5
  <2>2. PICK e \in t.edges :
          /\ e[2] = u /\ e[1] = L[u].pred /\ L[u].len = L[e[1]].len + e[3]
    <3>1. u \in Nodes(t) \ {t.source}
      BY <1>1, <1>5
    <3> QED BY <1>1, <1>5, <3>1, LabelsAre
  <2>3. L[u].len = Plus(L[e[1]].len, e[3])
    BY <1>3, <1>5, <2>2, InfinityNat DEF Plus
  <2>4. L[u].len # Infinity
    BY <1>3, <1>5, InfinityNat
  <2> QED BY <1>1, <1>5, <2>1, <2>2, <2>3, <2>4
<1>6. CASE u # h.source /\ ~ (L[u].len < Infinity)
  <2>1. L[u].len = Infinity
    BY <1>3, <1>6, InfinityNat
  <2>2. CASE q = -1
    BY <2>1, <2>2
  <2>3. CASE q # -1
    BY <1>2, <1>6, <2>1, <2>3
  <2> QED BY <2>2, <2>3
<1> QED BY <1>4, <1>5, <1>6

LEMMA SearchStep ==
  ASSUME IInv, Search
  PROVE  IInv'
<1>1. pc = "search" /\ result = "Ok" /\ v = 0 /\ g \in Callers /\ Sound(g)
  BY DEF Search, IInv, TypeOK, Recovered, Searching
<1>2. /\ IsInput(g) /\ tr = IF g.transform THEN Transformed(g) ELSE Itself(g)
      /\ g.source \in Vertices(g) /\ g.n \in Nat \ {0}
  BY <1>1, InputNow
<1>3. /\ lab' = Labels(tr) /\ dist' = [u \in Vertices(g) |-> lab'[tr.rep[u]].len]
      /\ g' = g /\ result' = result /\ tr' = tr /\ v' = v
  BY DEF Search
<1>4. TypeOK' /\ Searching' /\ pc' \in {"next", "done"}
  BY <1>1, <1>3 DEF Search, IInv, TypeOK, Searching
<1>5. CASE g.transform
  <2>1. pred' = [u \in Vertices(g) |-> -1] /\ pc' = "next"
    BY <1>5 DEF Search
  <2>2. Recovered'
    <3>1. v' \in 0..g'.n /\ \A u \in Vertices(g') : ~ (u < v') /\ pred'[u] = -1
      BY <1>1, <1>2, <1>3, <2>1 DEF Vertices
    <3> QED BY <1>3, <1>5, <2>1, <3>1 DEF Recovered
  <2>3. Found'
    BY <1>3, <2>1 DEF Found
  <2> QED BY <1>4, <2>1, <2>2, <2>3 DEF IInv, Walking, PredsTight, Answered
<1>6. CASE ~ g.transform
  <2>1. /\ pred' \in [Vertices(g) -> {-1} \cup Vertices(g)] /\ pc' = "done"
        /\ \A u \in Vertices(g) : pred'[u] \in PredsAt(tr, u)
    BY <1>6 DEF Search
  <2>2. tr = Itself(g) /\ \A u \in Vertices(g) : tr.rep[u] = u
    BY <1>2, <1>6 DEF Itself
  <2>3. \A u \in Vertices(g) : dist'[u] = Labels(Itself(g))[u].len
    BY <1>3, <2>2
  <2>4. ASSUME NEW u \in Vertices(g) PROVE Overflown(u)' \/ Accounted(u)'
    <3>1. pred'[u] \in PredsAt(Itself(g), u)
      BY <2>1, <2>2
    <3> DEFINE L == Labels(Itself(g))
    <3>2. \/ (u = g.source \/ L[u].len = Infinity) /\ pred'[u] = -1
          \/ /\ u # g.source /\ L[u].len # Infinity
             /\ \E i \in DOMAIN g.edges :
                  /\ g.edges[i][1] = pred'[u] /\ g.edges[i][2] = u
                  /\ L[u].len = Plus(L[pred'[u]].len, g.edges[i][3])
          \/ L[u].len = Infinity /\ Tails(Itself(g), u) # {}
      BY <1>2, <3>1, AnsweredAtOnce
    <3>3. CASE (u = g.source \/ L[u].len = Infinity) /\ pred'[u] = -1
      BY <1>3, <2>3, <3>3 DEF Accounted
    <3>4. CASE /\ u # g.source /\ L[u].len # Infinity
               /\ \E i \in DOMAIN g.edges :
                    /\ g.edges[i][1] = pred'[u] /\ g.edges[i][2] = u
                    /\ L[u].len = Plus(L[pred'[u]].len, g.edges[i][3])
      <4>1. PICK i \in DOMAIN g.edges :
              /\ g.edges[i][1] = pred'[u] /\ g.edges[i][2] = u
              /\ L[u].len = Plus(L[pred'[u]].len, g.edges[i][3])
        BY <3>4
      <4>2. pred'[u] \in Vertices(g)
        BY <1>2, <4>1, InputEdges
      <4>3. dist'[u] = Plus(dist'[pred'[u]], g'.edges[i][3])
        BY <1>3, <2>3, <4>1, <4>2
      <4> QED BY <1>3, <2>3, <3>4, <4>1, <4>3 DEF Accounted
    <3>5. CASE L[u].len = Infinity /\ Tails(Itself(g), u) # {}
      <4>1. g' = g /\ dist'[u] = Infinity
        BY <1>3, <2>3, <3>5
      <4>2. Tails(Itself(g), u)' # {}
        BY <3>5, <4>1
      <4> QED BY <1>6, <4>1, <4>2 DEF Overflown
    <3> QED BY <3>2, <3>3, <3>4, <3>5
  <2>5. PredsTight'
    BY <1>3, <2>4 DEF PredsTight
  <2>6. Found'
    BY <1>3, <2>1 DEF Found
  <2> QED BY <1>4, <2>1, <2>5, <2>6 DEF IInv, Walking, Recovered
<1> QED BY <1>5, <1>6

LEMMA SkipStep ==
  ASSUME IInv, Skip
  PROVE  IInv'
<1>1. /\ pc = "next" /\ v < g.n /\ (v = g.source \/ lab[tr.rep[v]].len = Infinity)
      /\ v' = v + 1 /\ UNCHANGED <<g, pc, result, tr, lab, dist, pred, cur>>
  BY DEF Skip, outputs
<1>2. /\ g.n \in Nat /\ v \in 0..g.n /\ result = "Ok" /\ g.transform
      /\ \A u \in Vertices(g) :
           /\ tr.rep[u] = Bases(g)[u] /\ dist[u] = lab[Bases(g)[u]].len
           /\ IF u < v THEN Accounted(u) ELSE pred[u] = -1
  BY <1>1, Recovering
<1>3. v \in Vertices(g) /\ v + 1 \in 0..g.n
  BY <1>1, <1>2 DEF Vertices
<1>4. pred[v] = -1
  BY <1>2, <1>3 DEF Vertices
<1>5. v = g.source \/ dist[v] = Infinity
  BY <1>1, <1>2, <1>3
<1>6. Accounted(v)
  BY <1>4, <1>5 DEF Accounted
<1>7. Recovered'
  <2>1. ASSUME NEW u \in Vertices(g) PROVE IF u < v + 1 THEN Accounted(u) ELSE pred[u] = -1
    <3>1. u < v + 1 <=> u < v \/ u = v
      BY <1>2 DEF Vertices
    <3> QED BY <1>2, <1>6, <3>1
  <2>2. \A u \in Vertices(g) : Accounted(u)' <=> Accounted(u)
    BY <1>1 DEF Accounted
  <2> QED BY <1>1, <1>2, <1>3, <2>1, <2>2 DEF Recovered
<1> QED BY <1>1, <1>7 DEF IInv, TypeOK, Searching, Found, Walking, PredsTight, Answered, Accounted

LEMMA StartWalkStep ==
  ASSUME IInv, StartWalk
  PROVE  IInv'
<1>1. /\ pc = "next" /\ v < g.n /\ v # g.source /\ lab[tr.rep[v]].len # Infinity
      /\ cur' = tr.rep[v] /\ pc' = "walk" /\ UNCHANGED <<g, result, tr, lab, dist, pred, v>>
  BY DEF StartWalk, outputs
<1>2. /\ IsInput(g) /\ tr = Transformed(g) /\ g.n \in Nat /\ v \in 0..g.n /\ result = "Ok"
      /\ \A u \in Vertices(g) :
           /\ tr.rep[u] = Bases(g)[u] /\ dist[u] = lab[Bases(g)[u]].len
  BY <1>1, Recovering
<1>3. v \in Vertices(g)
  BY <1>1, <1>2 DEF Vertices
<1>4. dist[v] # Infinity /\ cur' = Bases(g)[v]
  BY <1>1, <1>2, <1>3
<1>5. cur' \in Nodes(tr) /\ tr.owner[cur'] = v
  BY <1>2, <1>3, <1>4, SlotsApart, OwnerIs
<1>6. Walking'
  BY <1>1, <1>4, <1>5 DEF Walking, Nodes
<1>7. Recovered'
  <2>1. \A u \in Vertices(g) : Accounted(u)' <=> Accounted(u)
    BY <1>1 DEF Accounted
  <2> QED BY <1>1, <2>1 DEF IInv, Recovered
<1> QED BY <1>1, <1>2, <1>6, <1>7 DEF IInv, TypeOK, Searching, Found, PredsTight, Answered

(* What a walk's next step back is. *)
LEMMA WalkIs ==
  ASSUME IInv, pc = "walk"
  PROVE  /\ v \in Vertices(g) /\ v # g.source /\ dist[v] # Infinity
         /\ cur \in Nodes(tr) /\ tr.owner[cur] = v
         /\ Prev \in Nodes(tr) /\ Prev >= 0 /\ tr.owner[Prev] \in Vertices(g)
         /\ lab[Prev].hops \in Nat /\ lab[cur].hops = lab[Prev].hops + 1
         /\ tr.owner[Prev] # v => \E i \in DOMAIN g.edges :
              /\ g.edges[i][1] = tr.owner[Prev] /\ g.edges[i][2] = v
              /\ dist[v] = Plus(dist[tr.owner[Prev]], g.edges[i][3])
<1>1. /\ IsInput(g) /\ tr = Transformed(g) /\ lab = Labels(Transformed(g)) /\ g.n \in Nat
      /\ v \in 0..g.n
      /\ \A u \in Vertices(g) : dist[u] = lab[Bases(g)[u]].len
  BY Recovering
<1>2. v < g.n /\ v # g.source /\ dist[v] # Infinity /\ cur \in Nodes(tr) /\ tr.owner[cur] = v
  BY DEF IInv, Walking, Nodes
<1>3. v \in Vertices(g)
  BY <1>1, <1>2 DEF Vertices
<1>4. lab[Bases(g)[v]].len # Infinity
  BY <1>1, <1>2, <1>3
<1>5. LET p == lab[cur].pred
          o == tr.owner[p]
      IN  /\ p \in Nodes(tr) /\ o \in Vertices(g)
          /\ lab[p].hops \in Nat /\ lab[cur].hops = lab[p].hops + 1
          /\ o # v => \E i \in DOMAIN g.edges :
               /\ g.edges[i][1] = o /\ g.edges[i][2] = v
               /\ lab[Bases(g)[v]].len = Plus(lab[Bases(g)[o]].len, g.edges[i][3])
  BY <1>1, <1>2, <1>3, <1>4, StepBack
<1>6. Prev \in Nodes(tr) /\ Prev >= 0 /\ tr.owner[Prev] \in Vertices(g)
      /\ lab[Prev].hops \in Nat /\ lab[cur].hops = lab[Prev].hops + 1
  BY <1>5 DEF Prev, Nodes
<1>7. ASSUME tr.owner[Prev] # v
      PROVE  \E i \in DOMAIN g.edges :
               /\ g.edges[i][1] = tr.owner[Prev] /\ g.edges[i][2] = v
               /\ dist[v] = Plus(dist[tr.owner[Prev]], g.edges[i][3])
  <2>1. PICK i \in DOMAIN g.edges :
          /\ g.edges[i][1] = tr.owner[Prev] /\ g.edges[i][2] = v
          /\ lab[Bases(g)[v]].len = Plus(lab[Bases(g)[tr.owner[Prev]]].len, g.edges[i][3])
    BY <1>5, <1>7 DEF Prev
  <2>2. dist[v] = lab[Bases(g)[v]].len /\ dist[tr.owner[Prev]] = lab[Bases(g)[tr.owner[Prev]]].len
    BY <1>1, <1>3, <1>6
  <2> QED BY <2>1, <2>2
<1> QED BY <1>2, <1>3, <1>6, <1>7

LEMMA WalkBackStep ==
  ASSUME IInv, WalkBack
  PROVE  IInv'
<1>1. /\ pc = "walk" /\ ~ Leaves /\ cur' = Prev
      /\ UNCHANGED <<g, pc, result, tr, lab, dist, pred, v>>
  BY DEF WalkBack, outputs
<1>2. Prev \in Nodes(tr) /\ Prev >= 0 /\ tr.owner[Prev] = v
  BY <1>1, WalkIs DEF Leaves
<1>3. Walking'
  BY <1>1, <1>2 DEF IInv, Walking, Nodes
<1>4. Recovered'
  <2>1. \A u \in Vertices(g) : Accounted(u)' <=> Accounted(u)
    BY <1>1 DEF Accounted
  <2> QED BY <1>1, <2>1 DEF IInv, Recovered
<1> QED BY <1>1, <1>3, <1>4 DEF IInv, TypeOK, Searching, Found, PredsTight, Answered

LEMMA EndWalkStep ==
  ASSUME IInv, EndWalk
  PROVE  IInv'
<1>1. /\ pc = "walk" /\ v' = v + 1 /\ pc' = "next" /\ UNCHANGED <<g, result, tr, lab, dist, cur>>
      /\ Prev < 0 \/ Leaves
      /\ pred' = [pred EXCEPT ![v] = IF Prev < 0 THEN @ ELSE tr.owner[Prev]]
  BY DEF EndWalk
<1>2. /\ g.n \in Nat /\ v \in 0..g.n /\ result = "Ok" /\ g.transform
      /\ pred \in [Vertices(g) -> {-1} \cup Vertices(g)]
      /\ \A u \in Vertices(g) : IF u < v THEN Accounted(u) ELSE pred[u] = -1
  BY <1>1, Recovering
<1>3. /\ v \in Vertices(g) /\ v # g.source /\ dist[v] # Infinity
      /\ Prev \in Nodes(tr) /\ Prev >= 0 /\ tr.owner[Prev] \in Vertices(g)
  BY <1>1, WalkIs
<1>4. ~ (Prev < 0)
  BY <1>3 DEF Nodes
<1>5. tr.owner[Prev] # v
  BY <1>1, <1>4 DEF Leaves
<1>6. PICK i \in DOMAIN g.edges :
        /\ g.edges[i][1] = tr.owner[Prev] /\ g.edges[i][2] = v
        /\ dist[v] = Plus(dist[tr.owner[Prev]], g.edges[i][3])
  BY <1>1, <1>5, WalkIs
<1>7. PICK o \in Vertices(g) : o = tr.owner[Prev]
  BY <1>3
<1>8. pred' = [pred EXCEPT ![v] = o]
  BY <1>1, <1>4, <1>7
<1>9. pred' \in [Vertices(g) -> {-1} \cup Vertices(g)] /\ pred'[v] = o
      /\ \A u \in Vertices(g) : u # v => pred'[u] = pred[u]
  BY <1>2, <1>3, <1>8
<1>10. ASSUME NEW u \in Vertices(g), u = v PROVE Accounted(u)'
  BY <1>1, <1>3, <1>6, <1>7, <1>9, <1>10 DEF Accounted
<1>11. ASSUME NEW u \in Vertices(g), u # v PROVE Accounted(u)' <=> Accounted(u)
  BY <1>1, <1>9, <1>11 DEF Accounted
<1>12. Recovered'
  <2>1. v + 1 \in 0..g.n
    BY <1>2, <1>3 DEF Vertices
  <2>2. ASSUME NEW u \in Vertices(g) PROVE IF u < v + 1 THEN Accounted(u)' ELSE pred'[u] = -1
    <3>1. CASE u = v
      BY <1>2, <1>10, <3>1
    <3>2. CASE u # v
      <4>1. u < v + 1 <=> u < v
        BY <1>2, <3>2 DEF Vertices
      <4> QED BY <1>2, <1>9, <1>11, <3>2, <4>1
    <3> QED BY <3>1, <3>2
  <2> QED BY <1>1, <1>2, <2>1, <2>2 DEF Recovered
<1> QED BY <1>1, <1>2, <1>9, <1>12 DEF IInv, TypeOK, Searching, Found, Walking, PredsTight, Answered

LEMMA ReturnStep ==
  ASSUME IInv, Return
  PROVE  IInv'
<1>1. /\ pc = "next" /\ v = g.n /\ pc' = "done"
      /\ UNCHANGED <<g, result, tr, lab, dist, pred, v, cur>>
  BY DEF Return, outputs
<1>2. g.n \in Nat /\ \A u \in Vertices(g) : IF u < v THEN Accounted(u) ELSE pred[u] = -1
  BY <1>1, Recovering
<1>3. \A u \in Vertices(g) : Accounted(u)'
  <2> TAKE u \in Vertices(g)
  <2>1. u < v
    BY <1>1, <1>2 DEF Vertices
  <2>2. Accounted(u)
    BY <1>2, <2>1
  <2> QED BY <1>1, <2>2 DEF Accounted
<1>4. PredsTight'
  BY <1>1, <1>3 DEF PredsTight
<1> QED BY <1>1, <1>4 DEF IInv, TypeOK, Searching, Found, Recovered, Walking

LEMMA StutterStep ==
  ASSUME IInv, UNCHANGED vars
  PROVE  IInv'
BY DEF vars, outputs, IInv, TypeOK, Searching, Found, Recovered, Walking, PredsTight, Answered, Accounted, Overflown

(* The types of the variables, and what recover_pred has done and has yet   *)
(* to do: the invariant that the steps preserve.                           *)
THEOREM TypeCorrect == Spec => []IInv
<1>1. Init => IInv
  BY InitHolds
<1>2. IInv /\ [Next]_vars => IInv'
  <2> SUFFICES ASSUME IInv, [Next]_vars PROVE IInv'
    OBVIOUS
  <2>1. CASE BuildPanic \/ Build
    BY <2>1, BuildStep
  <2>2. CASE Refuse
    BY <2>2, RefuseStep
  <2>3. CASE Transform
    BY <2>3, TransformStep
  <2>4. CASE Search
    BY <2>4, SearchStep
  <2>5. CASE RecoverPred
    BY <2>5, SkipStep, StartWalkStep, WalkBackStep, EndWalkStep, ReturnStep DEF RecoverPred
  <2>6. CASE UNCHANGED vars
    BY <2>6, StutterStep
  <2> QED BY <2>1, <2>2, <2>3, <2>4, <2>5, <2>6 DEF Next
<1> QED BY <1>1, <1>2, PTL DEF Spec

(* Every predecessor accounts for its vertex's length, and at infinite      *)
(* length the recovery leaves none: walking back round the cycles ends at  *)
(* an edge into the vertex, from the one that is reported (recover_pred,   *)
(* bmssp.rs:694).                                                          *)
THEOREM PredsAreTight == Spec => []PredsTight
<1>1. IInv => PredsTight
  BY DEF IInv
<1> QED BY <1>1, TypeCorrect, PTL

(* The transform to constant degree keeps every distance: those of the     *)
(* representatives in the graph that is searched are those of the caller's *)
(* vertices in the caller's, rounded to Infinity or not.                   *)
THEOREM DistancesAgree == Spec => []Distances
<1>1. ASSUME IInv PROVE Distances
  <2> SUFFICES ASSUME Answered PROVE dist = [u \in Vertices(g) |-> Labels(Itself(g))[u].len]
    BY DEF Distances
  <2>1. pc = "done" /\ result = "Ok"
    BY DEF Answered
  <2>2. IsInput(g) /\ tr = IF g.transform THEN Transformed(g) ELSE Itself(g)
    BY <1>1, <2>1, InputNow
  <2>3. lab = Labels(tr) /\ dist = [u \in Vertices(g) |-> lab[tr.rep[u]].len]
    BY <1>1, <2>1 DEF IInv, Found
  <2>4. ASSUME NEW u \in Vertices(g) PROVE lab[tr.rep[u]].len = Labels(Itself(g))[u].len
    <3>1. CASE g.transform
      <4>1. tr = Transformed(g) /\ tr.rep[u] = Bases(g)[u]
        BY <2>2, <3>1, TransformedIs
      <4> QED BY <2>2, <2>3, <4>1, SameLengths
    <3>2. CASE ~ g.transform
      <4>1. tr = Itself(g) /\ tr.rep[u] = u
        BY <2>2, <3>2 DEF Itself
      <4> QED BY <2>3, <4>1
    <3> QED BY <3>1, <3>2
  <2> QED BY <2>3, <2>4
<1> QED BY <1>1, TypeCorrect, PTL

(* Whatever the degrees in the caller's graph, the graph that is searched   *)
(* has at most two edges out of a vertex and two in.                       *)
THEOREM DegreeIsConstant == Spec => []ConstantDegree
<1>1. ASSUME IInv PROVE ConstantDegree
  <2> SUFFICES ASSUME g.transform, pc = "search", NEW x \in 0..(tr.n - 1), NEW side \in {1, 2}
               PROVE  Cardinality({e \in tr.edges : e[side] = x}) <= 2
    BY DEF ConstantDegree
  <2>1. result = "Ok"
    BY <1>1 DEF IInv, TypeOK
  <2>2. IsInput(g) /\ tr = Transformed(g)
    BY <1>1, <2>1, InputNow
  <2>3. Cardinality(EdgesAt(tr.edges, x, side)) <= 2
    BY <2>2, DegreesOfTransform
  <2> QED BY <2>3 DEF EdgesAt
<1> QED BY <1>1, TypeCorrect, PTL

(* The walk round a cycle ends: each step back is to a slot that is fewer   *)
(* edges from the source, so that it comes to no slot twice                *)
(* (bmssp.rs:688-700).                                                     *)
THEOREM WalksDescend ==
  Spec => [][WalkBack => lab[cur'].hops \in Nat /\ lab[cur'].hops < lab[cur].hops]_vars
<1>1. ASSUME IInv, WalkBack PROVE lab[cur'].hops \in Nat /\ lab[cur'].hops < lab[cur].hops
  <2>1. pc = "walk" /\ cur' = Prev
    BY <1>1 DEF WalkBack
  <2> QED BY <1>1, <2>1, WalkIs
<1>2. IInv /\ [Next]_vars =>
        [WalkBack => lab[cur'].hops \in Nat /\ lab[cur'].hops < lab[cur].hops]_vars
  BY <1>1
<1> QED BY <1>2, TypeCorrect, PTL DEF Spec

-----------------------------------------------------------------------------
(* Positive weights.                                                        *)

Positive == \A i \in DOMAIN g.edges : g.edges[i][3] # 0

Reached == {u \in Vertices(g) : dist[u] # Infinity}

(* What has been answered. *)
LEMMA AnswerIs ==
  ASSUME IInv, Answered, Positive
  PROVE  /\ g.n \in Nat /\ g.source \in Reached
         /\ pred \in [Vertices(g) -> {-1} \cup Vertices(g)]
         /\ \A u \in Reached : dist[u] \in Nat
         /\ \A u \in Reached \ {g.source} : pred[u] \in Reached /\ dist[pred[u]] < dist[u]
<1>1. pc = "done" /\ result = "Ok"
  BY DEF Answered
<1>2. /\ IsInput(g) /\ tr = IF g.transform THEN Transformed(g) ELSE Itself(g)
      /\ g.source \in Vertices(g) /\ g.n \in Nat
  BY <1>1, InputNow
<1>3. /\ lab = Labels(tr) /\ dist = [u \in Vertices(g) |-> lab[tr.rep[u]].len]
      /\ pred \in [Vertices(g) -> {-1} \cup Vertices(g)]
  BY <1>1 DEF IInv, Found
<1>4. IsGraph(tr) /\ tr.rep[g.source] = tr.source /\ \A u \in Vertices(g) : tr.rep[u] \in Nodes(tr)
  <2>1. CASE g.transform
    <3>1. tr = Transformed(g) /\ IsGraph(tr) /\ tr.source = Bases(g)[g.source]
          /\ Nodes(tr) = 0..(Bases(g)[g.n] - 1)
          /\ \A u \in Vertices(g) : tr.rep[u] = Bases(g)[u]
      BY <1>2, <2>1, TransformIsGraph, TransformedIs
    <3>2. \A u \in Vertices(g) : Bases(g)[u] \in 0..(Bases(g)[g.n] - 1)
      BY <1>2, SlotsApart
    <3> QED BY <1>2, <3>1, <3>2
  <2>2. CASE ~ g.transform
    <3>1. tr = Itself(g) /\ Nodes(tr) = Vertices(g) /\ IsGraph(tr)
      BY <1>2, <2>2, ItselfIsGraph
    <3>2. tr.rep[g.source] = tr.source /\ \A u \in Vertices(g) : tr.rep[u] = u
      BY <1>2, <3>1 DEF Itself
    <3> QED BY <3>1, <3>2
  <2> QED BY <2>1, <2>2
<1>5. \A u \in Vertices(g) : dist[u] \in 0..Infinity
  BY <1>3, <1>4, LabelsAre DEF Lengths
<1>6. dist[g.source] = 0
  BY <1>2, <1>3, <1>4, LabelsAre
<1>7. ASSUME NEW u \in Reached \ {g.source} PROVE pred[u] \in Reached /\ dist[pred[u]] < dist[u]
  <2>1. u \in Vertices(g) /\ dist[u] # Infinity /\ Accounted(u)
    BY DEF Reached, IInv, PredsTight, Overflown
  <2>2. PICK i \in DOMAIN g.edges :
          /\ g.edges[i][1] = pred[u] /\ g.edges[i][2] = u
          /\ dist[u] = Plus(dist[pred[u]], g.edges[i][3])
    BY <2>1 DEF Accounted
  <2>3. pred[u] \in Vertices(g) /\ g.edges[i][3] \in Nat /\ g.edges[i][3] # 0
    BY <1>2, <2>2, InputEdges, InfinityNat DEF Positive
  <2>4. dist[pred[u]] \in 0..Infinity /\ dist[u] \in 0..Infinity
    BY <1>5, <2>1, <2>3
  <2>5. dist[pred[u]] < dist[u] /\ dist[pred[u]] # Infinity
    BY <2>1, <2>2, <2>3, <2>4, InfinityNat DEF Plus
  <2> QED BY <2>3, <2>5 DEF Reached
<1>8. g.source \in Reached
  BY <1>2, <1>6, InfinityNat DEF Reached
<1>9. \A u \in Reached : dist[u] \in Nat
  BY <1>5, InfinityNat DEF Reached
<1> QED BY <1>2, <1>3, <1>7, <1>8, <1>9

(* The trail of a vertex is the way up the predecessors. *)
LEMMA TrailIs ==
  ASSUME g.n \in Nat, pred \in [Vertices(g) -> {-1} \cup Vertices(g)], NEW u \in Vertices(g)
  PROVE  \E f : /\ Trail(u) = {f[k] : k \in 0..g.n}
                /\ f[0] = u
                /\ \A k \in 1..g.n : f[k] = IF f[k - 1] = -1 THEN -1 ELSE pred[f[k - 1]]
<1> DEFINE S == {-1} \cup Vertices(g)
<1> DEFINE step == [x \in S |-> IF x = -1 THEN -1 ELSE pred[x]]
<1>1. step \in [S -> S] /\ u \in S
  OBVIOUS
<1>2. PICK f \in [0..g.n -> S] : IsIteration(f, g.n, u, step)
  <2> HIDE DEF S, step
  <2> QED BY <1>1, Iterates
<1> DEFINE Is(h) ==
      h = [k \in 0..g.n |-> IF k = 0 THEN u ELSE IF h[k - 1] = -1 THEN -1 ELSE pred[h[k - 1]]]
<1>3. Is(f)
  <2> SUFFICES ASSUME NEW k \in 0..g.n
               PROVE  f[k] = IF k = 0 THEN u ELSE IF f[k - 1] = -1 THEN -1 ELSE pred[f[k - 1]]
    BY <1>2
  <2>1. k # 0 => k - 1 \in 0..g.n
    OBVIOUS
  <2>2. f[k] = IF k = 0 THEN u ELSE step[f[k - 1]]
    <3> HIDE DEF S, step
    <3> QED BY <1>2 DEF IsIteration
  <2> QED BY <2>1, <2>2
<1>4. PICK h : Is(h) /\ Trail(u) = {h[k] : k \in 0..g.n}
  <2>1. Is(CHOOSE h : Is(h))
    <3> HIDE DEF Is
    <3> QED BY <1>3
  <2>2. Trail(u) = {(CHOOSE h : Is(h))[k] : k \in 0..g.n}
    BY Zenon DEF Trail
  <2> HIDE DEF Is
  <2> QED BY <2>1, <2>2
<1>5. h[0] = u /\ \A k \in 1..g.n : h[k] = IF h[k - 1] = -1 THEN -1 ELSE pred[h[k - 1]]
  <2>1. 0 \in 0..g.n /\ \A k \in 1..g.n : k \in 0..g.n /\ k # 0
    OBVIOUS
  <2>2. \A k \in 0..g.n :
          h[k] = IF k = 0 THEN u ELSE IF h[k - 1] = -1 THEN -1 ELSE pred[h[k - 1]]
    BY <1>4
  <2> QED BY <2>1, <2>2
<1> QED BY <1>4, <1>5

(* Where no edge is of length 0 the predecessors do lead to the source      *)
(* (bmssp.rs:659): a walk that leaves a cycle and comes back is longer than *)
(* one that stays.                                                          *)
THEOREM PositiveWeightsLeadBack == Spec => [](Positive => PredsLeadToSource)
<1>1. ASSUME IInv, Positive PROVE PredsLeadToSource
  <2> SUFFICES ASSUME Answered, NEW u \in Vertices(g), dist[u] # Infinity
               PROVE  g.source \in Trail(u)
    BY DEF PredsLeadToSource
  <2>1. /\ g.n \in Nat /\ g.source \in Reached
        /\ pred \in [Vertices(g) -> {-1} \cup Vertices(g)]
        /\ \A w \in Reached : dist[w] \in Nat
        /\ \A w \in Reached \ {g.source} : pred[w] \in Reached /\ dist[pred[w]] < dist[w]
    BY <1>1, AnswerIs
  <2>2. u \in Reached /\ Reached \subseteq Vertices(g)
    BY DEF Reached
  <2>3. Hangs(Reached, pred, g.source, u)
    <3> SUFFICES ASSUME NEW T \in SUBSET Reached, g.source \in T,
                        \A w \in Reached : pred[w] \in T => w \in T
                 PROVE  u \in T
      BY DEF Hangs
    <3> DEFINE Out == {dist[w] : w \in Reached \ T}
    <3>1. SUFFICES ASSUME u \notin T PROVE FALSE
      OBVIOUS
    <3>2. PICK d \in Out : \A e \in Out : d <= e
      <4>1. Out \subseteq Nat /\ Out # {}
        BY <2>1, <2>2, <3>1
      <4> HIDE DEF Out
      <4> QED BY <4>1, HasLeast
    <3>3. PICK w \in Reached \ T : dist[w] = d
      OBVIOUS
    <3>4. w # g.source /\ pred[w] \in Reached /\ dist[pred[w]] < dist[w]
      BY <2>1, <3>3
    <3>5. pred[w] \notin T
      BY <3>3
    <3>6. d <= dist[pred[w]]
      BY <3>2, <3>4, <3>5
    <3> QED BY <2>1, <3>3, <3>4, <3>6
  <2>4. IsFiniteSet(Reached) /\ Cardinality(Reached) \in Nat /\ Cardinality(Reached) <= g.n
    <3>1. IsFiniteSet(0..(g.n - 1)) /\ Cardinality(0..(g.n - 1)) = g.n
      BY <2>1, Intervals
    <3> QED BY <2>2, <3>1, FS_Subset, FS_CardinalityType DEF Vertices
  <2>5. PICK k \in Nat : k < Cardinality(Reached) /\ \E w \in [0..k -> Reached] : IsWayUp(w, k, pred, g.source, u)
    BY <2>1, <2>2, <2>3, <2>4, ShortClimb
  <2>6. PICK w \in [0..k -> Reached] : IsWayUp(w, k, pred, g.source, u)
    BY <2>5
  <2>7. PICK f : /\ Trail(u) = {f[i] : i \in 0..g.n}
                 /\ f[0] = u
                 /\ \A i \in 1..g.n : f[i] = IF f[i - 1] = -1 THEN -1 ELSE pred[f[i - 1]]
    BY <2>1, TrailIs
  <2>8. \A i \in 0..k : f[i] = w[i]
    <3> DEFINE T == {i \in 0..k : f[i] # w[i]}
    <3>1. SUFFICES ASSUME T # {} PROVE FALSE
      OBVIOUS
    <3>2. PICK i \in T : \A j \in T : i <= j
      <4>1. T \subseteq Nat
        OBVIOUS
      <4> HIDE DEF T
      <4> QED BY <3>1, <4>1, HasLeast
    <3>3. i # 0
      BY <2>6, <2>7 DEF IsWayUp
    <3>4. i - 1 \in 0..(k - 1) /\ i - 1 \in 0..k /\ i \in 1..g.n /\ i - 1 \notin T /\ (i - 1) + 1 = i
      BY <2>1, <2>4, <2>5, <3>2, <3>3
    <3>5. f[i - 1] = w[i - 1] /\ w[i - 1] \in Reached
      BY <3>4
    <3>6. w[i] = pred[w[i - 1]]
      <4>1. w[(i - 1) + 1] = pred[w[i - 1]]
        BY <2>6, <3>4 DEF IsWayUp
      <4> QED BY <3>4, <4>1
    <3>7. w[i - 1] # -1
      BY <2>1, <2>2, <3>5 DEF Vertices
    <3>8. f[i] = pred[f[i - 1]]
      BY <2>7, <3>4, <3>5, <3>7
    <3> QED BY <3>2, <3>5, <3>6, <3>8
  <2>9. f[k] = g.source /\ k \in 0..g.n
    BY <2>1, <2>4, <2>5, <2>6, <2>8 DEF IsWayUp
  <2> QED BY <2>7, <2>9
<1> QED BY <1>1, TypeCorrect, PTL

=============================================================================
