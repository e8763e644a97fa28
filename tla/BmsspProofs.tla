----------------------------- MODULE BmsspProofs -----------------------------
(***************************************************************************)
(* Theorems about Bmssp, and about its fork VariantEngine: of every graph,  *)
(* whatever the orders in which the calls visit their sets.                *)
(*                                                                         *)
(* First what the shortest labels and paths are, then what a relaxation    *)
(* does to the labels, then how the stack and the calls on it change, one  *)
(* lemma for each action, then what the fork's heaps and its oracle add,   *)
(* and at the end the theorems.                                            *)
(***************************************************************************)
EXTENDS BmsspInv, LeastNumber

(* Addition is that of the integers.                                       *)
Exact == \A d, w \in Nat : Add(d, w) = d + w

-----------------------------------------------------------------------------
(* Keys.                                                                    *)

(* The vertices are finitely many numbers, N of them, and -1 is none.       *)
LEMMA VertexFacts ==
  /\ N \in Nat \ {0} /\ Source \in Vertex /\ MaxLen \in Nat
  /\ IsFiniteSet(Vertex) /\ Cardinality(Vertex) = N
  /\ Vertex \subseteq Nat /\ -1 \notin Vertex
<1>1. N \in Nat \ {0} /\ Source \in 0..(N - 1) /\ MaxLen \in Nat
  BY BmsspAssumption
<1>2. 0 \in Int /\ N - 1 \in Int
  BY <1>1
<1>3. IsFiniteSet(0..(N - 1)) /\ Cardinality(0..(N - 1)) = IF 0 > N - 1 THEN 0 ELSE (N - 1) - 0 + 1
  BY <1>2, FS_Interval, Zenon
<1>4. Cardinality(0..(N - 1)) = N
  BY <1>1, <1>3
<1> QED BY <1>1, <1>3, <1>4 DEF Vertex

(* The codes and keys of vertices that are not reached are numbers.         *)
LEMMA UnreachedFacts ==
  /\ Unreached \in Nat /\ Unreached > 0 /\ KeyInf \in Nat
  /\ PathCode(0, 0) = 0
<1> USE VertexFacts
<1>1. InfLen \in Nat /\ InfLen >= 1 /\ InfHops \in Nat /\ InfHops >= 1
  BY DEF InfLen, InfHops
<1>2. InfLen * (N + 1) \in Nat
  BY <1>1
<1>3. Unreached \in Nat /\ Unreached > 0
  BY <1>1, <1>2 DEF Unreached, PathCode
<1>4. (Unreached + 1) * N \in Nat
  BY <1>3
<1>5. KeyInf \in Nat
  BY <1>3, <1>4 DEF KeyInf, KeyOf, Unreached
<1> QED BY <1>3, <1>5 DEF PathCode

(* Keys compare as code and id do. *)
LEMMA KeyOrder ==
  ASSUME NEW c \in Nat, NEW d \in Nat, NEW v \in Vertex, NEW w \in Vertex
  PROVE  /\ KeyOf(c, v) \in Nat
         /\ c < d => KeyOf(c, v) < KeyOf(d, w)
         /\ KeyOf(c, v) <= KeyOf(d, w) => c <= d
         /\ c <= d => KeyOf(c, v) <= KeyOf(d, v)
         /\ KeyOf(c, v) <= KeyOf(d, v) => c <= d
         /\ KeyOf(c, v) = KeyOf(d, w) => c = d /\ v = w
<1>1. N \in Nat \ {0} /\ v \in 0..(N - 1) /\ w \in 0..(N - 1)
  BY VertexFacts DEF Vertex
<1>2. c * N \in Nat /\ d * N \in Nat
  BY <1>1
<1>3. c < d => c * N + v < d * N + w
  BY <1>1
<1>4. d < c => d * N + w < c * N + v
  BY <1>1
<1>5. c * N + v \in Nat /\ d * N + w \in Nat
  BY <1>1, <1>2
<1> QED BY <1>1, <1>2, <1>3, <1>4, <1>5 DEF KeyOf

(* KEY_INF is above the keys of the codes up to that of an unreached        *)
(* vertex, and of them only; the id is the last digit of a key.             *)
LEMMA KeyInfAbove ==
  ASSUME NEW c \in Nat, NEW v \in Vertex
  PROVE  /\ c <= Unreached <=> KeyOf(c, v) < KeyInf
         /\ KeyOf(c, v) < KeyInf => IdOf[KeyOf(c, v)] = v
<1>1. N \in Nat \ {0} /\ v \in 0..(N - 1) /\ 0 \in 0..(N - 1) /\ Unreached \in Nat
  BY VertexFacts, UnreachedFacts DEF Vertex
<1>2. c < Unreached + 1 => c * N + v < (Unreached + 1) * N + 0
  BY <1>1
<1>3. Unreached + 1 <= c => (Unreached + 1) * N + 0 <= c * N + v
  <2>1. CASE Unreached + 1 = c
    BY <1>1, <2>1
  <2>2. CASE Unreached + 1 < c
    BY <1>1, <2>2
  <2> QED BY <2>1, <2>2, <1>1
<1>4. c * N + v \in Nat /\ (Unreached + 1) * N + 0 \in Nat
  BY <1>1
<1>5. (c * N + v) % N = v
  BY <1>1
<1>6. KeyInf = (Unreached + 1) * N + 0 /\ KeyOf(c, v) = c * N + v
  BY DEF KeyInf, KeyOf, Unreached
<1>7. c <= Unreached <=> KeyOf(c, v) < KeyInf
  BY <1>1, <1>2, <1>3, <1>4, <1>6
<1>8. ASSUME KeyOf(c, v) < KeyInf PROVE KeyOf(c, v) \in 0..(KeyInf - 1)
  BY <1>4, <1>6, <1>8
<1> QED BY <1>5, <1>6, <1>7, <1>8 DEF IdOf

-----------------------------------------------------------------------------
(* The shortest codes.                                                      *)

Codes == [Vertex -> 0..Unreached]

(* b is the least solution of the equations of shortest paths. *)
IsShortest(b, g) ==
  /\ b \in Codes
  /\ b[Source] = 0
  /\ \A u, v \in Vertex :
       <<u, v>> \in DOMAIN g /\ b[u] < Unreached => b[v] <= b[u] + Om(g, u, v)
  /\ \A v \in Vertex \ {Source} :
       b[v] < Unreached =>
         \E u \in Vertex : <<u, v>> \in DOMAIN g /\ b[v] = b[u] + Om(g, u, v)

(* The ends of an edge are vertices, and its weight a number.               *)
LEMMA GraphFacts ==
  ASSUME NEW g \in Graphs
  PROVE  /\ \A e \in DOMAIN g : e[1] \in Vertex /\ e[2] \in Vertex /\ e = <<e[1], e[2]>>
         /\ \A u, v : <<u, v>> \in DOMAIN g =>
              /\ u \in Vertex /\ v \in Vertex
              /\ g[<<u, v>>] \in Nat /\ Om(g, u, v) \in Nat \ {0}
<1>1. DOMAIN g \subseteq Vertex \X Vertex /\ \A e \in DOMAIN g : g[e] \in Nat
  BY BmsspAssumption DEF Vertex
<1>2. ASSUME NEW u, NEW v, <<u, v>> \in DOMAIN g
      PROVE  /\ u \in Vertex /\ v \in Vertex
             /\ g[<<u, v>>] \in Nat /\ Om(g, u, v) \in Nat \ {0}
  <2>1. u \in Vertex /\ v \in Vertex /\ g[<<u, v>>] \in Nat
    BY <1>1, <1>2
  <2>2. g[<<u, v>>] * (N + 1) \in Nat
    BY <2>1, VertexFacts
  <2> QED BY <2>1, <2>2 DEF Om
<1> QED BY <1>1, <1>2

(* Division leaves a remainder.                                             *)
LEMMA DivMod ==
  ASSUME NEW a \in Nat, NEW M \in Nat \ {0}
  PROVE  a = (a \div M) * M + (a % M) /\ a \div M \in Nat /\ a % M \in 0..(M - 1)
OBVIOUS

(* Going on along an edge of weight w adds w to the length and 1 to the     *)
(* hops.                                                                    *)
LEMMA ExtendIs ==
  ASSUME Exact, NEW c \in Nat, NEW w \in Nat
  PROVE  Extend(c, w) = c + (w * (N + 1) + 1)
<1> DEFINE M == N + 1
<1>1. M \in Nat \ {0}
  BY VertexFacts
<1> HIDE DEF M
<1>2. c = (c \div M) * M + (c % M) /\ c \div M \in Nat /\ c % M \in 0..(M - 1)
  BY <1>1, DivMod
<1>3. Add(c \div M, w) = (c \div M) + w
  BY <1>2 DEF Exact
<1>4. ((c \div M) + w) * M + ((c % M) + 1) = (c \div M) * M + (c % M) + w * M + 1
  BY <1>1, <1>2
<1>5. w * M \in Nat
  BY <1>1
<1> QED BY <1>1, <1>2, <1>3, <1>4, <1>5 DEF Extend, PathCode, M

(* One round of Shortest: no code gets worse, each is as good as the        *)
(* edges into its vertex make it, and what is new comes from an edge.       *)
LEMMA BetterIs ==
  ASSUME Exact, NEW g \in Graphs, NEW codes \in Codes
  PROVE  /\ Better(codes, g) \in Codes
         /\ \A v \in Vertex :
              /\ Better(codes, g)[v] <= codes[v]
              /\ \A u \in Vertex :
                   <<u, v>> \in DOMAIN g /\ codes[u] < Unreached =>
                     Better(codes, g)[v] <= codes[u] + Om(g, u, v)
              /\ \/ Better(codes, g)[v] = codes[v]
                 \/ \E u \in Vertex :
                      /\ <<u, v>> \in DOMAIN g
                      /\ codes[u] < Unreached
                      /\ Better(codes, g)[v] = codes[u] + Om(g, u, v)
<1> DEFINE Cs(v) == Via(codes, g, v) \cup {codes[v]}
<1> DEFINE all == [v \in Vertex |-> CHOOSE c \in Cs(v) : IsLeast(c, Cs(v))]
<1>1. Better(codes, g) = all
  BY DEF Better
<1>2. ASSUME NEW v \in Vertex
      PROVE  /\ Via(codes, g, v) \subseteq Nat
             /\ \A u \in Vertex :
                  <<u, v>> \in DOMAIN g /\ codes[u] < Unreached =>
                    codes[u] + Om(g, u, v) \in Via(codes, g, v)
             /\ \A c \in Via(codes, g, v) : \E u \in Vertex :
                  <<u, v>> \in DOMAIN g /\ codes[u] < Unreached /\ c = codes[u] + Om(g, u, v)
  <2>1. ASSUME NEW u \in Vertex, <<u, v>> \in DOMAIN g
        PROVE  /\ Extend(codes[u], g[<<u, v>>]) = codes[u] + Om(g, u, v)
               /\ codes[u] + Om(g, u, v) \in Nat
    <3>1. codes[u] \in Nat /\ g[<<u, v>>] \in Nat /\ Om(g, u, v) \in Nat
      BY <2>1, GraphFacts, UnreachedFacts DEF Codes
    <3> QED BY <3>1, ExtendIs DEF Om
  <2>2. ASSUME NEW u \in Vertex, <<u, v>> \in DOMAIN g, codes[u] < Unreached
        PROVE  codes[u] + Om(g, u, v) \in Via(codes, g, v)
    <3>1. <<u, v>>[1] = u /\ <<u, v>>[2] = v
      OBVIOUS
    <3>2. Extend(codes[<<u, v>>[1]], g[<<u, v>>]) \in Via(codes, g, v)
      BY <2>2, <3>1 DEF Via
    <3> QED BY <3>1, <3>2, <2>1, <2>2
  <2>3. ASSUME NEW c \in Via(codes, g, v)
        PROVE  \E u \in Vertex :
                 <<u, v>> \in DOMAIN g /\ codes[u] < Unreached /\ c = codes[u] + Om(g, u, v)
    <3>1. PICK e \in DOMAIN g : e[2] = v /\ codes[e[1]] < Unreached /\ c = Extend(codes[e[1]], g[e])
      BY DEF Via
    <3>2. e[1] \in Vertex /\ e = <<e[1], v>>
      BY <3>1, GraphFacts
    <3> QED BY <3>1, <3>2, <2>1
  <2>4. Via(codes, g, v) \subseteq Nat
    BY <2>1, <2>3
  <2> QED BY <2>2, <2>3, <2>4
<1>3. ASSUME NEW v \in Vertex
      PROVE  all[v] \in Cs(v) /\ \A c \in Cs(v) : all[v] <= c
  <2>1. Cs(v) \subseteq Nat /\ Cs(v) # {}
    BY <1>2, UnreachedFacts DEF Codes
  <2> HIDE DEF Cs
  <2>2. \E c \in Cs(v) : IsLeast(c, Cs(v))
    BY <2>1, HasLeast DEF IsLeast
  <2>3. all[v] \in Cs(v) /\ IsLeast(all[v], Cs(v))
    BY <2>2
  <2> QED BY <2>3 DEF IsLeast
<1>4. ASSUME NEW v \in Vertex PROVE all[v] \in 0..Unreached
  <2>1. all[v] \in Nat /\ all[v] <= codes[v] /\ codes[v] \in 0..Unreached
    <3>1. codes[v] \in 0..Unreached /\ codes[v] \in Cs(v) /\ Cs(v) \subseteq Nat
      BY <1>2, UnreachedFacts DEF Codes
    <3> HIDE DEF Cs, all
    <3> QED BY <1>3, <3>1
  <2> HIDE DEF all
  <2> QED BY <2>1, UnreachedFacts
<1>5. all \in Codes
  BY <1>4 DEF Codes
<1> HIDE DEF all
<1> QED BY <1>1, <1>2, <1>3, <1>5

(* The number of vertices with a code below u's grows with the rounds that  *)
(* still improve u, so that the last round improves none.                  *)
LEMMA ShortestIs ==
  ASSUME Exact, NEW g \in Graphs
  PROVE  IsShortest(Shortest(g), g)
<1> DEFINE step == [c \in Codes |-> Better(c, g)]
<1>1. StartCodes \in Codes /\ StartCodes[Source] = 0
      /\ \A v \in Vertex \ {Source} : StartCodes[v] = Unreached
  BY VertexFacts, UnreachedFacts DEF StartCodes, Codes
<1>2. step \in [Codes -> Codes]
  BY BetterIs
<1>3. PICK f \in [0..N -> Codes] : IsIteration(f, N, StartCodes, step)
  <2> HIDE DEF step
  <2> QED BY <1>1, <1>2, Iterates, VertexFacts
<1>4. /\ f[0] = StartCodes
      /\ \A n \in 1..N : n - 1 \in 0..N /\ f[n] = Better(f[n - 1], g) /\ f[n - 1] \in Codes
  <2>1. f[0] = StartCodes
    BY <1>3, VertexFacts DEF IsIteration
  <2>2. ASSUME NEW n \in 1..N
        PROVE  n - 1 \in 0..N /\ f[n] = Better(f[n - 1], g) /\ f[n - 1] \in Codes
    <3>1. n - 1 \in 0..N /\ n \in 0..N /\ n # 0
      BY <2>2, VertexFacts
    <3>2. f[n] = step[f[n - 1]]
      BY <1>3, <3>1, Zenon DEF IsIteration
    <3> QED BY <3>1, <3>2
  <2> QED BY <2>1, <2>2
<1>5. Shortest(g) = f[N]
  <2> DEFINE IsPaths(h) == h = [n \in 0..N |-> IF n = 0 THEN StartCodes ELSE Better(h[n - 1], g)]
  <2>1. ASSUME NEW h, IsPaths(h), NEW n \in 0..N
        PROVE  h[n] = IF n = 0 THEN StartCodes ELSE Better(h[n - 1], g)
    BY <2>1
  <2>2. IsPaths(f)
    <3>1. \A n \in 0..N : f[n] = IF n = 0 THEN StartCodes ELSE Better(f[n - 1], g)
      BY <1>4, VertexFacts
    <3>2. f = [n \in 0..N |-> f[n]]
      BY <1>3
    <3> QED BY <3>1, <3>2, Zenon
  <2>3. ASSUME NEW h, IsPaths(h), h # f PROVE FALSE
    <3> DEFINE T == {n \in 0..N : h[n] # f[n]}
    <3>1. T # {}
      <4>1. h = [n \in 0..N |-> h[n]]
        BY <2>3, Zenon
      <4>2. f = [n \in 0..N |-> f[n]]
        BY <1>3
      <4>3. \E n \in 0..N : h[n] # f[n]
        BY <4>1, <4>2, <2>3, Zenon
      <4> QED BY <4>3
    <3>2. T \subseteq Nat
      OBVIOUS
    <3>3. PICK n \in T : \A m \in T : n <= m
      <4> HIDE DEF T
      <4> QED BY <3>1, <3>2, HasLeast
    <3>4. n \in 0..N /\ h[n] # f[n]
      BY <3>3
    <3>5. n # 0
      BY <3>4, <2>1, <2>3, <1>4
    <3>6. n \in 1..N /\ n - 1 \in 0..N /\ n - 1 < n
      BY <3>4, <3>5, VertexFacts
    <3>7. n - 1 \notin T
      <4> HIDE DEF T
      <4> QED BY <3>2, <3>3, <3>6
    <3>8. h[n - 1] = f[n - 1]
      BY <3>6, <3>7
    <3>9. h[n] = Better(h[n - 1], g)
      BY <3>4, <3>5, <2>1, <2>3
    <3> QED BY <3>4, <3>6, <3>8, <3>9, <1>4
  <2>4. (CHOOSE h : IsPaths(h)) = f
    <3>1. IsPaths(CHOOSE h : IsPaths(h))
      <4> HIDE DEF IsPaths
      <4> QED BY <2>2
    <3> HIDE DEF IsPaths
    <3> QED BY <2>3, <3>1
  <2> QED BY <2>4, Zenon DEF Shortest
<1> HIDE DEF step
<1> DEFINE Lower(n, u) == {x \in Vertex : f[n][x] < f[n][u]}
<1> DEFINE Good(n) ==
      /\ f[n][Source] = 0
      /\ \A v \in Vertex \ {Source} :
           f[n][v] < Unreached =>
             \E u \in Vertex : <<u, v>> \in DOMAIN g /\ f[n][u] + Om(g, u, v) <= f[n][v]
      /\ n # 0 => \A u \in Vertex : f[n][u] < f[n - 1][u] => Cardinality(Lower(n, u)) >= n
<1>6. ASSUME NEW n \in 0..N, NEW u \in Vertex
      PROVE  /\ f[n] \in Codes /\ f[n][u] \in Nat
             /\ IsFiniteSet(Lower(n, u)) /\ Cardinality(Lower(n, u)) \in Nat
  <2>1. f[n] \in Codes
    BY <1>3
  <2>2. f[n][u] \in Nat
    BY <2>1, UnreachedFacts DEF Codes
  <2> QED BY <2>1, <2>2, VertexFacts, FS_Subset, FS_CardinalityType
<1> DEFINE T == {n \in 0..N : ~ Good(n)}
<1>7. T = {}
  <2> SUFFICES ASSUME T # {} PROVE FALSE
    OBVIOUS
  <2>1. PICK n \in T : \A m \in T : n <= m
    <3>1. T \subseteq Nat
      OBVIOUS
    <3> HIDE DEF T
    <3> QED BY <3>1, HasLeast
  <2>2. CASE n = 0
    <3>1. Good(0)
      BY <1>1, <1>4, UnreachedFacts
    <3> QED BY <2>1, <2>2, <3>1
  <2>3. CASE n # 0
    <3>0. n \in 0..N /\ ~ Good(n)
      BY <2>1
    <3> HIDE DEF Good
    <3>1. PICK p \in 0..N : p = n - 1 /\ n \in 1..N /\ n \in 0..N
      BY <2>3, <3>0, VertexFacts
    <3>2. Good(p)
      <4>1. p < n /\ n \in Nat /\ p \in Nat
        BY <3>1, VertexFacts
      <4>2. ~ (n <= p)
        BY <4>1
      <4> QED BY <2>1, <4>2, <3>1
    <3>3. f[n] = Better(f[p], g) /\ f[p] \in Codes /\ f[n] \in Codes
      BY <1>4, <1>6, <3>1, VertexFacts
    <3> USE DEF Good
    <3>4. \A v \in Vertex :
            /\ f[n][v] <= f[p][v]
            /\ \A u \in Vertex :
                 <<u, v>> \in DOMAIN g /\ f[p][u] < Unreached => f[n][v] <= f[p][u] + Om(g, u, v)
            /\ \/ f[n][v] = f[p][v]
               \/ \E u \in Vertex :
                    /\ <<u, v>> \in DOMAIN g
                    /\ f[p][u] < Unreached
                    /\ f[n][v] = f[p][u] + Om(g, u, v)
      BY <3>3, BetterIs
    <3>5. f[n][Source] = 0
      <4>1. f[n][Source] <= f[p][Source] /\ f[p][Source] = 0 /\ f[n][Source] \in Nat
        BY <3>1, <3>2, <3>4, <1>6, VertexFacts
      <4> QED BY <4>1
    <3>6. ASSUME NEW v \in Vertex \ {Source}, f[n][v] < Unreached
          PROVE  \E u \in Vertex : <<u, v>> \in DOMAIN g /\ f[n][u] + Om(g, u, v) <= f[n][v]
      <4>1. CASE f[n][v] = f[p][v]
        <5>1. PICK u \in Vertex : <<u, v>> \in DOMAIN g /\ f[p][u] + Om(g, u, v) <= f[p][v]
          BY <3>2, <3>6, <4>1
        <5>2. Om(g, u, v) \in Nat /\ f[n][u] <= f[p][u] /\ f[n][u] \in Nat /\ f[p][u] \in Nat /\ f[p][v] \in Nat
          BY <5>1, <1>6, <3>1, <3>4, GraphFacts
        <5> QED BY <5>1, <5>2, <4>1
      <4>2. CASE f[n][v] # f[p][v]
        <5>1. PICK u \in Vertex : <<u, v>> \in DOMAIN g /\ f[n][v] = f[p][u] + Om(g, u, v)
          BY <3>4, <4>2
        <5>2. Om(g, u, v) \in Nat /\ f[n][u] <= f[p][u] /\ f[n][u] \in Nat /\ f[p][u] \in Nat
          BY <5>1, <1>6, <3>1, <3>4, GraphFacts
        <5> QED BY <5>1, <5>2
      <4> QED BY <4>1, <4>2
    <3>7. ASSUME NEW u \in Vertex, f[n][u] < f[p][u]
          PROVE  Cardinality(Lower(n, u)) >= n
      <4>1. PICK x \in Vertex : /\ <<x, u>> \in DOMAIN g
                                /\ f[p][x] < Unreached
                                /\ f[n][u] = f[p][x] + Om(g, x, u)
        <5>1. f[n][u] \in Nat /\ f[p][u] \in Nat
          BY <1>6, <3>1
        <5>2. f[n][u] # f[p][u]
          BY <5>1, <3>7
        <5> QED BY <3>4, <5>2
      <4>2. /\ Om(g, x, u) \in Nat \ {0}
            /\ f[n][x] \in Nat /\ f[p][x] \in Nat /\ f[n][u] \in Nat /\ f[p][u] \in Nat
            /\ f[n][x] <= f[p][x]
        BY <4>1, <1>6, <3>1, <3>4, GraphFacts
      <4>3. x \in Lower(n, u)
        BY <4>1, <4>2
      <4>4. CASE p = 0
        <5>1. Cardinality(Lower(n, u)) # 0
          BY <4>3, <1>6, <3>1, FS_EmptySet
        <5>2. n = 1 /\ Cardinality(Lower(n, u)) \in Nat
          <6>1. n = 1
            BY <3>1, <4>4, VertexFacts
          <6> HIDE DEF Lower
          <6> QED BY <6>1, <1>6, <3>1
        <5> HIDE DEF Lower
        <5> QED BY <5>1, <5>2
      <4>5. CASE p # 0
        <5>1. p \in 1..N /\ p - 1 \in 0..N
          BY <4>5, <3>1, VertexFacts
        <5>2. f[p] = Better(f[p - 1], g) /\ f[p - 1] \in Codes
          BY <5>1, <1>4
        <5>3. /\ f[p][x] <= f[p - 1][x] /\ f[p - 1][x] \in Nat
              /\ f[p - 1][x] < Unreached => f[p][u] <= f[p - 1][x] + Om(g, x, u)
          BY <5>1, <5>2, <4>1, <1>6, BetterIs
        <5>4. f[p][x] < f[p - 1][x]
          <6>1. CASE f[p - 1][x] < Unreached
            BY <6>1, <5>3, <4>1, <4>2, <3>7, SMTT(30)
          <6>2. CASE ~ (f[p - 1][x] < Unreached)
            BY <6>2, <5>3, <4>1, <4>2, UnreachedFacts, SMTT(30)
          <6> QED BY <6>1, <6>2
        <5>5. Cardinality(Lower(p, x)) >= p
          BY <5>4, <3>2, <4>5
        <5>6. x \notin Lower(p, x) /\ Lower(p, x) \cup {x} \subseteq Lower(n, u)
          <6>1. ASSUME NEW y \in Lower(p, x) PROVE y \in Lower(n, u)
            <7>1. y \in Vertex /\ f[p][y] < f[p][x] /\ f[n][y] <= f[p][y] /\ f[n][y] \in Nat /\ f[p][y] \in Nat
              BY <6>1, <3>4, <1>6, <3>1
            <7> QED BY <7>1, <4>1, <4>2
          <6> QED BY <6>1, <4>2, <4>3
        <5>7. Cardinality(Lower(p, x) \cup {x}) = Cardinality(Lower(p, x)) + 1
          <6>1. IsFiniteSet(Lower(p, x)) /\ x \notin Lower(p, x)
            BY <5>6, <1>6, <3>1
          <6> HIDE DEF Lower
          <6> QED BY <6>1, FS_AddElement
        <5>8. /\ Cardinality(Lower(p, x) \cup {x}) <= Cardinality(Lower(n, u))
              /\ Cardinality(Lower(p, x)) \in Nat /\ Cardinality(Lower(n, u)) \in Nat
          BY <5>6, <1>6, <3>1, FS_Subset
        <5> HIDE DEF Lower
        <5> QED BY <5>5, <5>7, <5>8, <3>1
      <4> QED BY <4>4, <4>5
    <3>8. Good(n)
      BY <3>1, <3>5, <3>6, <3>7
    <3> QED BY <3>0, <3>8
  <2> QED BY <2>2, <2>3
<1>8. N \in 1..N /\ N \in 0..N /\ N - 1 \in 0..N /\ Good(N)
  <2>1. N \in 1..N /\ N \in 0..N /\ N - 1 \in 0..N
    BY VertexFacts
  <2> QED BY <2>1, <1>7
<1>9. f[N] = f[N - 1]
  <2>1. ASSUME NEW u \in Vertex PROVE f[N][u] = f[N - 1][u]
    <3>1. f[N][u] <= f[N - 1][u] /\ f[N][u] \in Nat /\ f[N - 1][u] \in Nat
      BY <1>4, <1>6, <1>8, BetterIs
    <3>2. ~ (f[N][u] < f[N - 1][u])
      <4> SUFFICES ASSUME f[N][u] < f[N - 1][u] PROVE FALSE
        OBVIOUS
      <4>1. Cardinality(Lower(N, u)) >= N
        BY <1>8, VertexFacts
      <4>2. Lower(N, u) \subseteq Vertex /\ Lower(N, u) # Vertex
        BY <3>1
      <4>3. Cardinality(Lower(N, u)) < N /\ Cardinality(Lower(N, u)) \in Nat
        BY <4>2, <1>6, <1>8, VertexFacts, FS_Subset
      <4> QED BY <4>1, <4>3, VertexFacts
    <3> QED BY <3>1, <3>2
  <2>2. f[N] \in Codes /\ f[N - 1] \in Codes
    BY <1>6, <1>8, VertexFacts
  <2> QED BY <2>1, <2>2 DEF Codes
<1>10. f[N] \in Codes /\ f[N] = Better(f[N], g)
  BY <1>4, <1>8, <1>9
<1>11. ASSUME NEW v \in Vertex \ {Source}, f[N][v] < Unreached
       PROVE  \E u \in Vertex : <<u, v>> \in DOMAIN g /\ f[N][v] = f[N][u] + Om(g, u, v)
  <2>1. PICK u \in Vertex : <<u, v>> \in DOMAIN g /\ f[N][u] + Om(g, u, v) <= f[N][v]
    BY <1>8, <1>11
  <2>2. Om(g, u, v) \in Nat \ {0} /\ f[N][u] \in Nat /\ f[N][v] \in Nat
    BY <2>1, <1>6, <1>8, GraphFacts
  <2>3. f[N][u] < Unreached
    BY <2>1, <2>2, <1>11, UnreachedFacts
  <2>4. f[N][v] <= f[N][u] + Om(g, u, v)
    BY <2>1, <2>3, <1>10, BetterIs
  <2> QED BY <2>1, <2>2, <2>4
<1>12. \A u, v \in Vertex :
         <<u, v>> \in DOMAIN g /\ f[N][u] < Unreached => f[N][v] <= f[N][u] + Om(g, u, v)
  BY <1>10, BetterIs
<1> QED BY <1>5, <1>8, <1>10, <1>11, <1>12 DEF IsShortest

-----------------------------------------------------------------------------
(* The shortest paths, which are a tree.                                    *)

Ground == Exact /\ wt \in Graphs /\ IsShortest(best, wt)

(* The true keys are numbers, no two vertices have the same, and they are   *)
(* ordered as the true codes are.                                           *)
LEMMA TrueFacts ==
  ASSUME Ground
  PROVE  /\ \A v \in Vertex : best[v] \in Nat /\ best[v] <= Unreached /\ TrueKey(v) \in Nat
         /\ \A v \in Vertex : Reached(v) <=> best[v] < Unreached
         /\ Source \in ReachedOnes
         /\ \A x, y \in Vertex : TrueKey(x) = TrueKey(y) => x = y
         /\ \A x, y \in Vertex : best[x] < best[y] => TrueKey(x) < TrueKey(y)
<1>1. \A v \in Vertex : best[v] \in Nat /\ best[v] <= Unreached
  BY UnreachedFacts DEF Ground, IsShortest, Codes
<1>2. \A v \in Vertex : Reached(v) <=> best[v] < Unreached
  BY DEF Reached, Unreached
<1>3. Source \in ReachedOnes
  BY <1>2, VertexFacts, UnreachedFacts DEF Ground, IsShortest, ReachedOnes
<1> QED BY <1>1, <1>2, <1>3, KeyOrder DEF TrueKey

(* The parent of a vertex is the least tail of an edge that accounts for    *)
(* the true code; its true key is smaller.                                  *)
LEMMA ParentFacts ==
  ASSUME Ground, NEW v \in ReachedOnes, v # Source
  PROVE  /\ Parent(v) \in ReachedOnes
         /\ <<Parent(v), v>> \in DOMAIN wt
         /\ best[v] = best[Parent(v)] + Om(wt, Parent(v), v)
         /\ Om(wt, Parent(v), v) \in Nat \ {0}
         /\ TrueKey(Parent(v)) < TrueKey(v)
         /\ \A x \in Vertex :
              <<x, v>> \in DOMAIN wt /\ best[x] + Om(wt, x, v) = best[v] => Parent(v) <= x
<1> DEFINE tails == {x \in Vertex : /\ <<x, v>> \in DOMAIN wt
                                    /\ Extend(best[x], wt[<<x, v>>]) = best[v]}
<1>1. v \in Vertex /\ best[v] < Unreached
  BY TrueFacts DEF ReachedOnes
<1>2. ASSUME NEW x \in Vertex, <<x, v>> \in DOMAIN wt
      PROVE  /\ Extend(best[x], wt[<<x, v>>]) = best[x] + Om(wt, x, v)
             /\ Om(wt, x, v) \in Nat \ {0} /\ best[x] \in Nat
  <2>1. best[x] \in Nat /\ wt[<<x, v>>] \in Nat /\ Om(wt, x, v) \in Nat \ {0}
    BY <1>2, TrueFacts, GraphFacts DEF Ground
  <2> QED BY <2>1, ExtendIs DEF Ground, Om
<1>3. tails \subseteq Nat /\ tails # {}
  <2>1. PICK u \in Vertex : <<u, v>> \in DOMAIN wt /\ best[v] = best[u] + Om(wt, u, v)
    BY <1>1 DEF Ground, IsShortest
  <2>2. u \in tails
    BY <2>1, <1>2
  <2> QED BY <2>2, VertexFacts
<1>4. Parent(v) \in Vertex /\ IsLeast(Parent(v), tails)
  <2>1. \E u \in tails : IsLeast(u, tails)
    <3> HIDE DEF tails
    <3> QED BY <1>3, HasLeast DEF IsLeast
  <2>2. \E u \in Vertex : IsLeast(u, tails)
    BY <2>1
  <2> QED BY <2>2 DEF Parent, ShortestPred
<1>5. /\ Parent(v) \in tails
      /\ \A x \in tails : Parent(v) <= x
  BY <1>4 DEF IsLeast
<1>6. /\ <<Parent(v), v>> \in DOMAIN wt
      /\ best[v] = best[Parent(v)] + Om(wt, Parent(v), v)
      /\ Om(wt, Parent(v), v) \in Nat \ {0}
  BY <1>2, <1>5
<1>7. best[Parent(v)] < best[v] /\ best[Parent(v)] < Unreached
  BY <1>1, <1>4, <1>6, TrueFacts, UnreachedFacts
<1>8. \A x \in Vertex :
        <<x, v>> \in DOMAIN wt /\ best[x] + Om(wt, x, v) = best[v] => Parent(v) <= x
  BY <1>2, <1>5
<1> QED BY <1>1, <1>4, <1>6, <1>7, <1>8, TrueFacts DEF ReachedOnes

(* PathTo is the least set that holds v and the parents of its members.    *)
LEMMA PathIs ==
  ASSUME Ground, NEW v \in ReachedOnes
  PROVE  /\ PathTo(v) \subseteq ReachedOnes /\ v \in PathTo(v)
         /\ \A x \in PathTo(v) : x # Source => Parent(x) \in PathTo(v)
         /\ \A X \in SUBSET ReachedOnes :
              v \in X /\ (\A x \in X : x # Source => Parent(x) \in X) => PathTo(v) \subseteq X
<1> DEFINE R == ReachedOnes
<1> DEFINE Grow(X) == X \cup {ShortestPred(x) : x \in X \ {Source}}
<1> DEFINE step == [X \in SUBSET R |-> Grow(X)]
<1>1. \A X \in SUBSET R : Grow(X) \in SUBSET R /\ X \subseteq Grow(X)
  BY ParentFacts DEF Parent
<1>2. step \in [SUBSET R -> SUBSET R] /\ \A X \in SUBSET R : X \subseteq step[X]
  BY <1>1
<1>3. IsFiniteSet(R) /\ Cardinality(R) <= N /\ {v} \in SUBSET R /\ {v} # {} /\ N \in Nat
  BY VertexFacts, FS_Subset DEF ReachedOnes
<1>4. PICK f \in [0..N -> SUBSET R] : IsIteration(f, N, {v}, step)
  <2> HIDE DEF step, R
  <2> QED BY <1>2, <1>3, Iterates
<1>5. PathTo(v) = f[N]
  <2> DEFINE IsBack(h) ==
        h = [n \in 0..N |-> IF n = 0 THEN {v} ELSE Grow(h[n - 1])]
  <2>1. ASSUME NEW h, IsBack(h), NEW n \in 0..N
        PROVE  h[n] = IF n = 0 THEN {v} ELSE Grow(h[n - 1])
    BY <2>1
  <2>2. ASSUME NEW n \in 0..N, n # 0 PROVE n - 1 \in 0..N /\ f[n] = Grow(f[n - 1])
    <3>1. n - 1 \in 0..N /\ f[n - 1] \in SUBSET R
      BY <2>2, <1>3, <1>4
    <3>2. f[n] = step[f[n - 1]]
      BY <1>4, <2>2, Zenon DEF IsIteration
    <3> QED BY <3>1, <3>2
  <2>3. 0 \in 0..N /\ f[0] = {v}
    BY <1>3, <1>4 DEF IsIteration
  <2>4. IsBack(f)
    <3>1. \A n \in 0..N : f[n] = IF n = 0 THEN {v} ELSE Grow(f[n - 1])
      BY <2>2, <2>3
    <3>2. f = [n \in 0..N |-> f[n]]
      BY <1>4
    <3> HIDE DEF Grow
    <3> QED BY <3>1, <3>2, Zenon
  <2>5. ASSUME NEW h, IsBack(h), h # f PROVE FALSE
    <3> DEFINE T == {n \in 0..N : h[n] # f[n]}
    <3>1. T # {}
      <4>1. h = [n \in 0..N |-> h[n]]
        BY <2>5, Zenon
      <4>2. f = [n \in 0..N |-> f[n]]
        BY <1>4
      <4>3. \E n \in 0..N : h[n] # f[n]
        BY <4>1, <4>2, <2>5, Zenon
      <4> QED BY <4>3
    <3>2. T \subseteq Nat
      OBVIOUS
    <3>3. PICK n \in T : \A m \in T : n <= m
      <4> HIDE DEF T
      <4> QED BY <3>1, <3>2, HasLeast
    <3>4. n \in 0..N /\ h[n] # f[n]
      BY <3>3
    <3>5. n # 0
      BY <3>4, <2>1, <2>5, <2>3
    <3>6. n - 1 \in 0..N /\ n - 1 < n
      BY <3>4, <3>5, <1>3
    <3>7. n - 1 \notin T
      <4> HIDE DEF T
      <4> QED BY <3>2, <3>3, <3>6
    <3>8. h[n - 1] = f[n - 1]
      BY <3>6, <3>7
    <3>9. h[n] = Grow(h[n - 1])
      BY <3>4, <3>5, <2>1, <2>5
    <3> HIDE DEF Grow
    <3> QED BY <3>4, <3>5, <3>8, <3>9, <2>2
  <2>6. (CHOOSE h : IsBack(h)) = f
    <3>1. IsBack(CHOOSE h : IsBack(h))
      <4> HIDE DEF IsBack
      <4> QED BY <2>4
    <3> HIDE DEF IsBack
    <3> QED BY <2>5, <3>1
  <2> QED BY <2>6, Zenon DEF PathTo
<1>6. /\ f[N] \in SUBSET R /\ {v} \subseteq f[N] /\ step[f[N]] = f[N]
      /\ \A X \in SUBSET R :
           {v} \subseteq X /\ (\A Y \in SUBSET X : step[Y] \subseteq X) => f[N] \subseteq X
  <2> HIDE DEF step, R
  <2>1. Grows(step, R)
    BY <1>2 DEF Grows
  <2>2. IsLeastAbove(f[N], {v}, step, R)
    BY <2>1, <1>3, <1>4, Saturates
  <2> QED BY <2>2 DEF IsLeastAbove
<1>7. \A x \in f[N] : x # Source => Parent(x) \in f[N]
  BY <1>6 DEF Parent
<1>8. ASSUME NEW X \in SUBSET R, v \in X, \A x \in X : x # Source => Parent(x) \in X
      PROVE  f[N] \subseteq X
  <2>1. \A Y \in SUBSET X : step[Y] \subseteq X
    BY <1>8 DEF Parent
  <2> HIDE DEF step
  <2> QED BY <2>1, <1>6, <1>8
<1> HIDE DEF step
<1> QED BY <1>5, <1>6, <1>7, <1>8

(* The path to a vertex is the one to its parent and the vertex.            *)
LEMMA PathStep ==
  ASSUME Ground, NEW v \in ReachedOnes, v # Source
  PROVE  PathTo(v) = {v} \cup PathTo(Parent(v))
<1>1. Parent(v) \in ReachedOnes
  BY ParentFacts
<1>2. /\ PathTo(v) \subseteq ReachedOnes /\ v \in PathTo(v)
      /\ \A x \in PathTo(v) : x # Source => Parent(x) \in PathTo(v)
  BY PathIs
<1>3. /\ PathTo(Parent(v)) \subseteq ReachedOnes /\ Parent(v) \in PathTo(Parent(v))
      /\ \A x \in PathTo(Parent(v)) : x # Source => Parent(x) \in PathTo(Parent(v))
  BY <1>1, PathIs
<1>4. PathTo(v) \subseteq {v} \cup PathTo(Parent(v))
  <2> DEFINE X == {v} \cup PathTo(Parent(v))
  <2>1. X \in SUBSET ReachedOnes /\ v \in X /\ \A x \in X : x # Source => Parent(x) \in X
    BY <1>3
  <2> HIDE DEF X
  <2>2. PathTo(v) \subseteq X
    BY <2>1, PathIs
  <2> QED BY <2>2 DEF X
<1>5. PathTo(Parent(v)) \subseteq PathTo(v)
  BY <1>1, <1>2, PathIs
<1> QED BY <1>2, <1>4, <1>5

(* The path to the source is the source.                                    *)
LEMMA PathOfSource ==
  ASSUME Ground
  PROVE  PathTo(Source) = {Source}
<1>1. Source \in ReachedOnes
  BY TrueFacts
<1>2. {Source} \in SUBSET ReachedOnes /\ \A x \in {Source} : x # Source => Parent(x) \in {Source}
  BY <1>1
<1> QED BY <1>1, <1>2, PathIs

(* The path to a vertex on a path is part of it.                            *)
LEMMA PathTrans ==
  ASSUME Ground, NEW v \in ReachedOnes, NEW y \in PathTo(v)
  PROVE  y \in ReachedOnes /\ PathTo(y) \subseteq PathTo(v)
<1>1. y \in ReachedOnes
  BY PathIs
<1> QED BY <1>1, PathIs

(* The vertices of a path have smaller keys than its end.                  *)
LEMMA PathKeys ==
  ASSUME Ground, NEW v \in ReachedOnes, NEW y \in PathTo(v)
  PROVE  /\ TrueKey(y) <= TrueKey(v)
         /\ y # v => TrueKey(y) < TrueKey(v)
<1> DEFINE X == {x \in ReachedOnes : x = v \/ TrueKey(x) < TrueKey(v)}
<1>1. \A x \in ReachedOnes : TrueKey(x) \in Nat
  BY TrueFacts DEF ReachedOnes
<1>2. ASSUME NEW x \in X, x # Source PROVE Parent(x) \in X
  <2>1. Parent(x) \in ReachedOnes /\ TrueKey(Parent(x)) < TrueKey(x)
    BY <1>2, ParentFacts
  <2> QED BY <2>1, <1>1
<1>3. PathTo(v) \subseteq X
  <2>1. X \in SUBSET ReachedOnes /\ v \in X
    OBVIOUS
  <2> HIDE DEF X
  <2> QED BY <2>1, <1>2, PathIs
<1> QED BY <1>1, <1>3

(* A path that starts below a bound and ends above it crosses it.          *)
LEMMA Crossing ==
  ASSUME Ground, NEW v \in ReachedOnes, NEW y \in PathTo(v), NEW bound \in Nat,
         TrueKey(y) < bound, bound <= TrueKey(v)
  PROVE  \E z \in PathTo(v) :
           /\ z # Source /\ z # y /\ TrueKey(z) >= bound
           /\ TrueKey(Parent(z)) < bound
           /\ Parent(z) \in PathTo(v) /\ y \in PathTo(Parent(z))
<1> DEFINE Z == {z \in PathTo(v) : y \in PathTo(z) /\ TrueKey(z) >= bound}
<1> DEFINE T == {TrueKey(z) : z \in Z}
<1>1. /\ PathTo(v) \subseteq ReachedOnes /\ v \in PathTo(v)
      /\ \A x \in PathTo(v) : TrueKey(x) \in Nat
  BY PathIs, TrueFacts DEF ReachedOnes
<1>2. PICK z \in Z : \A x \in Z : TrueKey(z) <= TrueKey(x)
  <2>1. T \subseteq Nat /\ T # {}
    BY <1>1
  <2>2. PICK m \in T : \A n \in T : m <= n
    <3> HIDE DEF T
    <3> QED BY <2>1, HasLeast
  <2> QED BY <2>2
<1>3. z \in ReachedOnes /\ z # y
  BY <1>1, <1>2
<1>4. z # Source
  BY <1>2, <1>3, PathOfSource
<1>5. PathTo(z) = {z} \cup PathTo(Parent(z)) /\ Parent(z) \in PathTo(v)
  BY <1>2, <1>3, <1>4, PathStep, PathIs
<1>6. y \in PathTo(Parent(z))
  BY <1>2, <1>3, <1>5
<1>7. TrueKey(Parent(z)) < TrueKey(z)
  BY <1>3, <1>4, ParentFacts
<1>8. TrueKey(Parent(z)) < bound
  BY <1>1, <1>2, <1>5, <1>6, <1>7
<1> QED BY <1>2, <1>3, <1>4, <1>5, <1>6, <1>8

-----------------------------------------------------------------------------
(* The labels.                                                              *)

(* Codes and keys are numbers.                                              *)
LEMMA CodeFacts ==
  ASSUME dhat \in [Vertex -> Nat], hops \in [Vertex -> Nat], NEW v \in Vertex
  PROVE  /\ Code(v) \in Nat /\ Key(v) = KeyOf(Code(v), v) /\ Key(v) \in Nat
<1>1. dhat[v] \in Nat /\ hops[v] \in Nat /\ dhat[v] * (N + 1) \in Nat
  BY VertexFacts
<1>2. Code(v) \in Nat
  BY <1>1 DEF Code, PathCode
<1> QED BY <1>2, KeyOrder DEF Key, Code

(* A key is never below the true one, is below KEY_INF and names its        *)
(* vertex; keys are ordered as codes are.                                   *)
LEMMA KeyFacts ==
  ASSUME Ground, LabelsOk
  PROVE  /\ \A v \in Vertex : /\ Key(v) \in Nat /\ Code(v) \in Nat
                              /\ Key(v) < KeyInf /\ IdOf[Key(v)] = v
                              /\ TrueKey(v) <= Key(v)
                              /\ TrueKey(v) < KeyInf /\ IdOf[TrueKey(v)] = v
         /\ \A v \in Vertex : Key(v) = TrueKey(v) <=> Code(v) = best[v]
         /\ \A x, y \in Vertex : Key(x) = Key(y) => x = y
         /\ \A x, y \in Vertex : Key(x) <= Key(y) => Code(x) <= Code(y)
         /\ \A x, y \in Vertex : Code(x) < Code(y) => Key(x) < Key(y)
<1>1. ASSUME NEW v \in Vertex
      PROVE  /\ Code(v) \in Nat /\ Key(v) = KeyOf(Code(v), v) /\ Key(v) \in Nat
             /\ best[v] \in Nat /\ best[v] <= Unreached
             /\ best[v] <= Code(v) /\ Code(v) <= Unreached
  BY CodeFacts, TrueFacts DEF LabelsOk
<1>2. ASSUME NEW v \in Vertex
      PROVE  /\ Key(v) < KeyInf /\ IdOf[Key(v)] = v /\ TrueKey(v) < KeyInf /\ IdOf[TrueKey(v)] = v
             /\ TrueKey(v) <= Key(v)
             /\ Key(v) = TrueKey(v) <=> Code(v) = best[v]
  BY <1>1, KeyInfAbove, KeyOrder DEF TrueKey
<1>3. \A x, y \in Vertex : Key(x) = Key(y) => x = y
  BY <1>1, KeyOrder
<1>4. \A x, y \in Vertex : Key(x) <= Key(y) => Code(x) <= Code(y)
  BY <1>1, KeyOrder
<1>5. \A x, y \in Vertex : Code(x) < Code(y) => Key(x) < Key(y)
  BY <1>1, KeyOrder
<1> QED BY <1>1, <1>2, <1>3, <1>4, <1>5

(* A final vertex has its true code, key and predecessor.                   *)
LEMMA FinalFacts ==
  ASSUME Ground, LabelsOk, NEW v \in Finals
  PROVE  /\ v \in Vertex /\ v \in ReachedOnes
         /\ Code(v) = best[v] /\ Key(v) = TrueKey(v)
         /\ v # Source => pred[v] = Parent(v)
BY KeyFacts DEF Finals, Final, ReachedOnes

(* The same, to be used of the state after a step.                         *)
LEMMA KeysBetween ==
  Ground /\ LabelsOk =>
    /\ \A v \in Vertex : /\ Key(v) \in Nat /\ Code(v) \in Nat
                         /\ Key(v) < KeyInf /\ IdOf[Key(v)] = v
                         /\ TrueKey(v) <= Key(v) /\ TrueKey(v) \in Nat
    /\ \A v \in Finals : v \in ReachedOnes /\ Key(v) = TrueKey(v)
<1> SUFFICES ASSUME Ground, LabelsOk
             PROVE  /\ \A v \in Vertex : /\ Key(v) \in Nat /\ Code(v) \in Nat
                                          /\ Key(v) < KeyInf /\ IdOf[Key(v)] = v
                                          /\ TrueKey(v) <= Key(v) /\ TrueKey(v) \in Nat
                    /\ \A v \in Finals : v \in ReachedOnes /\ Key(v) = TrueKey(v)
  OBVIOUS
<1> QED BY KeyFacts, FinalFacts, TrueFacts

(* KeysBetween, of the state after a step.                                  *)
LEMMA KeysNext ==
  ASSUME Ground', LabelsOk'
  PROVE  /\ \A v \in Vertex : /\ Key(v)' \in Nat /\ Code(v)' \in Nat
                              /\ Key(v)' < KeyInf /\ IdOf[Key(v)'] = v
                              /\ TrueKey(v)' <= Key(v)' /\ TrueKey(v)' \in Nat
         /\ \A v \in Finals' : v \in ReachedOnes' /\ Key(v)' = TrueKey(v)'
<1>1. (Ground /\ LabelsOk =>
         /\ \A v \in Vertex : /\ Key(v) \in Nat /\ Code(v) \in Nat
                              /\ Key(v) < KeyInf /\ IdOf[Key(v)] = v
                              /\ TrueKey(v) <= Key(v) /\ TrueKey(v) \in Nat
         /\ \A v \in Finals : v \in ReachedOnes /\ Key(v) = TrueKey(v))'
  BY KeysBetween, PTL
<1> QED BY <1>1

(* The digits of lengths and hops add up separately.                        *)
LEMMA LengthsAdd ==
  ASSUME NEW d \in Nat, NEW w \in Nat, NEW h \in Nat, NEW M \in Nat
  PROVE  (d + w) * M + (h + 1) = (d * M + h) + (w * M + 1)
<1>1. d * M \in Nat /\ w * M \in Nat /\ (d + w) * M = d * M + w * M
  OBVIOUS
<1> QED BY <1>1

(* What an edge offers its head: its tail's code and the edge, above its    *)
(* tail's key.  Passes is the comparison of codes, ties going to the        *)
(* lesser tail.                                                             *)
LEMMA CandFacts ==
  ASSUME Ground, LabelsOk, NEW u \in Vertex, NEW v \in Succ(u)
  PROVE  /\ v \in Vertex /\ <<u, v>> \in DOMAIN wt /\ wt[<<u, v>>] \in Nat
         /\ Om(wt, u, v) \in Nat \ {0}
         /\ Add(dhat[u], wt[<<u, v>>]) = dhat[u] + wt[<<u, v>>]
         /\ Cand(u, v) = Code(u) + Om(wt, u, v) /\ Cand(u, v) \in Nat
         /\ CandKey(u, v) = KeyOf(Cand(u, v), v) /\ CandKey(u, v) \in Nat
         /\ Key(u) < CandKey(u, v)
         /\ Passes(u, v) <=> \/ Cand(u, v) < Code(v)
                             \/ Cand(u, v) = Code(v) /\ u <= pred[v]
<1>1. v \in Vertex /\ <<u, v>> \in DOMAIN wt
  BY DEF Succ
<1>2. wt[<<u, v>>] \in Nat /\ Om(wt, u, v) \in Nat \ {0}
  BY <1>1, GraphFacts DEF Ground
<1>3. dhat[u] \in Nat /\ hops[u] \in Nat
  BY DEF LabelsOk
<1>4. Add(dhat[u], wt[<<u, v>>]) = dhat[u] + wt[<<u, v>>]
  BY <1>2, <1>3 DEF Ground, Exact
<1>5. Code(u) \in Nat /\ Key(u) = KeyOf(Code(u), u) /\ Key(u) \in Nat
  BY CodeFacts DEF LabelsOk
<1>6. (dhat[u] + wt[<<u, v>>]) * (N + 1) + (hops[u] + 1)
        = (dhat[u] * (N + 1) + hops[u]) + (wt[<<u, v>>] * (N + 1) + 1)
  <2>1. N + 1 \in Nat
    BY VertexFacts
  <2> QED BY <1>2, <1>3, <2>1, LengthsAdd
<1>7. Cand(u, v) = Code(u) + Om(wt, u, v)
  BY <1>4, <1>6 DEF Cand, PathCode, Code, Om
<1>8. Cand(u, v) \in Nat /\ Code(u) < Cand(u, v)
  BY <1>2, <1>5, <1>7
<1>9. CandKey(u, v) = KeyOf(Cand(u, v), v) /\ CandKey(u, v) \in Nat /\ Key(u) < CandKey(u, v)
  BY <1>1, <1>5, <1>8, KeyOrder DEF CandKey
<1>10. Passes(u, v) <=> \/ Cand(u, v) < Code(v)
                        \/ Cand(u, v) = Code(v) /\ u <= pred[v]
  BY DEF Passes, Code
<1> QED BY <1>1, <1>2, <1>4, <1>7, <1>8, <1>9, <1>10

(* Relaxing the edges out of u gives new labels to the vertices of R, which *)
(* take part only if the test lets them.                                   *)
Relaxes(u, R) ==
  /\ R \subseteq {v \in Succ(u) : Passes(u, v)}
  /\ Relabel(u, R)
  /\ wt' = wt /\ best' = best

(* A relaxation from u changes the labels of the vertices in R only, and    *)
(* makes no code worse.                                                     *)
LEMMA RelaxCodes ==
  ASSUME Ground, LabelsOk, NEW u \in Vertex, NEW R, Relaxes(u, R)
  PROVE  /\ \A v \in Vertex \ R :
              /\ Code(v)' = Code(v) /\ pred'[v] = pred[v] /\ hops'[v] = hops[v]
              /\ dhat'[v] = dhat[v] /\ Key(v)' = Key(v)
         /\ \A v \in R : /\ v \in Succ(u) /\ v \in Vertex /\ Passes(u, v)
                         /\ Code(v)' = Cand(u, v) /\ pred'[v] = u /\ hops'[v] = hops[u] + 1
                         /\ Key(v)' = CandKey(u, v)
         /\ \A v \in Vertex : Code(v)' <= Code(v) /\ Code(v)' \in Nat
         /\ u \notin R
         /\ dhat' \in [Vertex -> Nat] /\ hops' \in [Vertex -> Nat]
         /\ pred' \in [Vertex -> Vertex \cup {-1}]
<1>1. R \subseteq {v \in Succ(u) : Passes(u, v)} /\ R \subseteq Vertex
      /\ dhat' = [v \in Vertex |-> IF v \in R THEN Add(dhat[u], wt[<<u, v>>]) ELSE dhat[v]]
      /\ hops' = [v \in Vertex |-> IF v \in R THEN hops[u] + 1 ELSE hops[v]]
      /\ pred' = [v \in Vertex |-> IF v \in R THEN u ELSE pred[v]]
  BY DEF Relaxes, Relabel, Succ
<1>2. \A v \in Vertex : Code(v) \in Nat
  BY CodeFacts DEF LabelsOk
<1>3. ASSUME NEW v \in R
      PROVE  /\ v \in Succ(u) /\ v \in Vertex /\ Passes(u, v)
             /\ dhat'[v] = Add(dhat[u], wt[<<u, v>>]) /\ dhat'[v] \in Nat
             /\ hops'[v] = hops[u] + 1 /\ hops'[v] \in Nat
             /\ pred'[v] = u
             /\ Code(v)' = Cand(u, v) /\ Key(v)' = CandKey(u, v)
             /\ Cand(u, v) <= Code(v) /\ Cand(u, v) \in Nat
             /\ Code(u) < Cand(u, v)
  <2>1. v \in Succ(u) /\ v \in Vertex /\ Passes(u, v)
    BY <1>1
  <2>2. dhat'[v] = Add(dhat[u], wt[<<u, v>>]) /\ hops'[v] = hops[u] + 1 /\ pred'[v] = u
    BY <1>1, <2>1
  <2>3. Code(v)' = Cand(u, v) /\ Key(v)' = CandKey(u, v)
    BY <2>2 DEF Code, Cand, Key, CandKey
  <2>4. dhat[u] \in Nat /\ hops[u] \in Nat
    BY DEF LabelsOk
  <2> QED BY <1>2, <2>1, <2>2, <2>3, <2>4, CandFacts
<1>4. ASSUME NEW v \in Vertex \ R
      PROVE  /\ dhat'[v] = dhat[v] /\ hops'[v] = hops[v] /\ pred'[v] = pred[v]
             /\ Code(v)' = Code(v) /\ Key(v)' = Key(v)
  <2>1. dhat'[v] = dhat[v] /\ hops'[v] = hops[v] /\ pred'[v] = pred[v]
    BY <1>1
  <2> QED BY <2>1 DEF Code, Key
<1>5. u \notin R
  <2> SUFFICES ASSUME u \in R PROVE FALSE
    OBVIOUS
  <2>1. Code(u) \in Nat /\ Cand(u, u) \in Nat /\ Code(u) < Cand(u, u) /\ Cand(u, u) <= Code(u)
    BY <1>2, <1>3
  <2> QED BY <2>1
<1>6. dhat' \in [Vertex -> Nat] /\ hops' \in [Vertex -> Nat] /\ pred' \in [Vertex -> Vertex \cup {-1}]
  <2>1. \A v \in Vertex : dhat'[v] \in Nat /\ hops'[v] \in Nat /\ pred'[v] \in Vertex \cup {-1}
    BY <1>3, <1>4 DEF LabelsOk
  <2> QED BY <1>1, <2>1
<1>7. \A v \in Vertex : Code(v)' <= Code(v) /\ Code(v)' \in Nat
  <2> SUFFICES ASSUME NEW v \in Vertex PROVE Code(v)' <= Code(v) /\ Code(v)' \in Nat
    OBVIOUS
  <2>1. CASE v \in R
    BY <1>3, <2>1
  <2>2. CASE v \notin R
    <3>1. Code(v)' = Code(v) /\ Code(v) \in Nat
      BY <1>2, <1>4, <2>2
    <3> QED BY <3>1
  <2> QED BY <2>1, <2>2
<1> QED BY <1>3, <1>4, <1>5, <1>6, <1>7

(* Relaxing keeps the labels sound, and final ones as they are.            *)
LEMMA RelaxLabels ==
  ASSUME Ground, LabelsOk, NEW u \in Vertex, NEW R, Relaxes(u, R)
  PROVE  LabelsOk' /\ Ground'
<1>1. /\ \A v \in Vertex \ R :
           /\ Code(v)' = Code(v) /\ pred'[v] = pred[v] /\ hops'[v] = hops[v]
      /\ \A v \in R : /\ v \in Succ(u) /\ v \in Vertex /\ Passes(u, v)
                      /\ Code(v)' = Cand(u, v) /\ pred'[v] = u /\ hops'[v] = hops[u] + 1
      /\ \A v \in Vertex : Code(v)' <= Code(v) /\ Code(v)' \in Nat
      /\ u \notin R
      /\ dhat' \in [Vertex -> Nat] /\ hops' \in [Vertex -> Nat]
      /\ pred' \in [Vertex -> Vertex \cup {-1}]
      /\ wt' = wt /\ best' = best
  BY RelaxCodes DEF Relaxes
<1>2. \A v \in Vertex : /\ Code(v) \in Nat /\ best[v] \in Nat /\ best[v] <= Code(v) /\ Code(v) <= Unreached
                        /\ hops[v] \in Nat
  BY CodeFacts, TrueFacts DEF LabelsOk
<1>3. Unreached \in Nat /\ N \in Nat /\ -1 \notin Vertex /\ Vertex \subseteq Nat
  BY UnreachedFacts, VertexFacts
<1>4. ASSUME NEW v \in R
      PROVE  /\ Cand(u, v) = Code(u) + Om(wt, u, v) /\ Cand(u, v) \in Nat
             /\ Om(wt, u, v) \in Nat \ {0} /\ <<u, v>> \in DOMAIN wt
             /\ Cand(u, v) < Unreached /\ Code(u) < Unreached /\ Code(u) < Cand(u, v)
             /\ best[v] <= Cand(u, v)
             /\ v # Source
  <2>1. /\ Cand(u, v) = Code(u) + Om(wt, u, v) /\ Cand(u, v) \in Nat
        /\ Om(wt, u, v) \in Nat \ {0} /\ <<u, v>> \in DOMAIN wt
        /\ \/ Cand(u, v) < Code(v)
           \/ Cand(u, v) = Code(v) /\ u <= pred[v]
        /\ v \in Vertex
    BY <1>1, <1>4, CandFacts
  <2>2. Cand(u, v) < Unreached
    <3>1. CASE Cand(u, v) < Code(v)
      BY <3>1, <2>1, <1>2, <1>3
    <3>2. CASE Cand(u, v) = Code(v) /\ u <= pred[v]
      <4>1. pred[v] # -1
        BY <3>2, <1>3
      <4> QED BY <4>1, <3>2, <2>1 DEF LabelsOk
    <3> QED BY <2>1, <3>1, <3>2
  <2>3. Code(u) < Cand(u, v) /\ Code(u) < Unreached
    BY <2>1, <2>2, <1>2, <1>3
  <2>4. best[v] <= best[u] + Om(wt, u, v)
    BY <2>1, <2>3, <1>2, <1>3 DEF Ground, IsShortest
  <2>5. best[v] <= Cand(u, v)
    BY <2>1, <2>4, <1>2
  <2>6. v # Source
    <3>1. Cand(u, v) <= Code(v) /\ Cand(u, v) # 0
      BY <2>1, <2>3, <1>2
    <3> QED BY <3>1, <2>1 DEF LabelsOk
  <2> QED BY <2>1, <2>2, <2>3, <2>5, <2>6
<1>5. Ground'
  BY <1>1 DEF Ground, IsShortest, Exact
<1>6. ASSUME NEW v \in Vertex PROVE best'[v] <= Code(v)' /\ Code(v)' <= Unreached
  <2>1. CASE v \in R
    <3>1. Code(v)' = Cand(u, v) /\ best' = best
      BY <2>1, <1>1
    <3>2. best[v] <= Cand(u, v) /\ Cand(u, v) < Unreached /\ Cand(u, v) \in Nat
      BY <2>1, <1>4
    <3> QED BY <3>1, <3>2, <1>3
  <2>2. CASE v \notin R
    BY <2>2, <1>1, <1>2
  <2> QED BY <2>1, <2>2
<1>7. Code(Source)' = 0
  BY <1>1, <1>4, VertexFacts DEF LabelsOk
<1>8. ASSUME NEW v \in Vertex, pred'[v] # -1
      PROVE  /\ v # Source /\ Code(v)' < Unreached
             /\ <<pred'[v], v>> \in DOMAIN wt'
             /\ (Code(pred[v]) + Om(wt, pred[v], v) <= Code(v))'
  <2>0. ASSUME NEW p \in Vertex, p = pred'[v], (Code(p) + Om(wt, p, v) <= Code(v))'
        PROVE  (Code(pred[v]) + Om(wt, pred[v], v) <= Code(v))'
    BY <2>0 DEF Code, Om
  <2>1. CASE v \in R
    <3>1. pred'[v] = u /\ Code(u)' = Code(u) /\ Code(v)' = Cand(u, v)
      BY <2>1, <1>1
    <3>2. Code(u) \in Nat /\ Cand(u, v) = Code(u) + Om(wt, u, v) /\ Cand(u, v) \in Nat
          /\ <<u, v>> \in DOMAIN wt /\ Cand(u, v) < Unreached /\ v # Source
      BY <2>1, <1>2, <1>4
    <3>3. Om(wt, u, v)' = Om(wt, u, v)
      BY <1>1 DEF Om
    <3>4. (Code(u) + Om(wt, u, v))' <= Code(v)'
      BY <3>1, <3>2, <3>3
    <3> QED BY <3>1, <3>2, <3>4, <2>0, <1>1
  <2>2. CASE v \notin R
    <3>1. pred'[v] = pred[v] /\ Code(v)' = Code(v) /\ pred[v] # -1 /\ pred[v] \in Vertex
      BY <2>2, <1>1, <1>8 DEF LabelsOk
    <3>2. PICK p \in Vertex : p = pred[v]
      BY <3>1
    <3>3. v # Source /\ Code(v) < Unreached /\ <<p, v>> \in DOMAIN wt /\ Code(p) + Om(wt, p, v) <= Code(v)
      BY <3>1, <3>2 DEF LabelsOk
    <3>4. Om(wt, p, v) \in Nat /\ Om(wt, p, v)' = Om(wt, p, v)
      BY <3>3, <1>1, GraphFacts DEF Ground, Om
    <3>5. Code(p)' <= Code(p) /\ Code(p)' \in Nat
      BY <1>1
    <3>6. (Code(p) + Om(wt, p, v) <= Code(v))'
      BY <3>1, <3>3, <3>4, <3>5, <1>2
    <3> QED BY <3>1, <3>2, <3>3, <3>6, <2>0, <1>1
  <2> QED BY <2>1, <2>2
<1>9. ASSUME NEW v \in Vertex \ {Source}, Code(v)' < Unreached PROVE pred'[v] # -1
  <2>1. CASE v \in R
    BY <2>1, <1>1, <1>3
  <2>2. CASE v \notin R
    BY <2>2, <1>1, <1>9 DEF LabelsOk
  <2> QED BY <2>1, <2>2
<1>10. ASSUME NEW v \in Vertex
       PROVE  IF Code(v)' < Unreached THEN hops'[v] <= Cardinality(Before(v)') ELSE hops'[v] = N
  <2>1. Before(v)' = {x \in Vertex : Code(x)' < Code(v)'}
    BY DEF Before
  <2>2. IsFiniteSet(Before(v)') /\ Cardinality(Before(v)') \in Nat
        /\ \A x \in Vertex : IsFiniteSet(Before(x)) /\ Cardinality(Before(x)) \in Nat
    BY <2>1, VertexFacts, FS_Subset, FS_CardinalityType DEF Before
  <2>3. CASE v \in R
    <3>1. /\ Code(v)' = Cand(u, v) /\ hops'[v] = hops[u] + 1 /\ Code(u) < Cand(u, v)
          /\ Code(v)' < Unreached /\ hops[u] <= Cardinality(Before(u))
      BY <2>3, <1>1, <1>4, ZenonT(30) DEF LabelsOk
    <3>2. u \notin Before(u) /\ Before(u) \cup {u} \subseteq Before(v)'
      <4>1. ASSUME NEW x \in Before(u) \cup {u} PROVE x \in Vertex /\ Code(x)' < Code(v)'
        <5>1. x \in Vertex /\ Code(x) <= Code(u)
          BY <4>1, <1>2 DEF Before
        <5>2. Code(x)' <= Code(x) /\ Code(x)' \in Nat /\ Code(x) \in Nat /\ Code(u) \in Nat /\ Cand(u, v) \in Nat
          BY <5>1, <1>1, <1>2, <1>4, <2>3
        <5> QED BY <5>1, <5>2, <3>1
      <4>2. u \notin Before(u)
        BY <1>2 DEF Before
      <4> QED BY <4>1, <4>2, <2>1
    <3>3. Cardinality(Before(u) \cup {u}) = Cardinality(Before(u)) + 1
      BY <2>2, <3>2, FS_AddElement
    <3>4. Cardinality(Before(u) \cup {u}) <= Cardinality(Before(v)')
      BY <2>2, <3>2, FS_Subset
    <3> QED BY <2>2, <3>1, <3>3, <3>4, <1>2
  <2>4. CASE v \notin R
    <3>1. Code(v)' = Code(v) /\ hops'[v] = hops[v]
      BY <2>4, <1>1
    <3>2. CASE Code(v) < Unreached
      <4>1. Before(v) \subseteq Before(v)'
        <5>1. ASSUME NEW x \in Vertex, Code(x) < Code(v) PROVE Code(x)' < Code(v)'
          BY <5>1, <3>1, <1>1, <1>2
        <5> QED BY <5>1, <2>1 DEF Before
      <4>2. Cardinality(Before(v)) <= Cardinality(Before(v)')
        BY <2>2, <4>1, FS_Subset
      <4>3. hops[v] <= Cardinality(Before(v))
        BY <3>2 DEF LabelsOk
      <4> QED BY <2>2, <3>1, <3>2, <4>2, <4>3, <1>2
    <3>3. CASE ~ (Code(v) < Unreached)
      BY <3>1, <3>3 DEF LabelsOk
    <3> QED BY <3>2, <3>3
  <2> QED BY <2>3, <2>4
<1> QED BY <1>1, <1>5, <1>6, <1>7, <1>8, <1>9, <1>10 DEF LabelsOk

(* Nor a key; what is final stays so, and keys that change end up above     *)
(* that of u.                                                               *)
LEMMA RelaxFinals ==
  ASSUME Ground, LabelsOk, NEW u \in Vertex, NEW R, Relaxes(u, R)
  PROVE  /\ \A v \in Vertex : Key(v)' <= Key(v)
         /\ \A v \in Vertex : Key(v)' = Key(v) \/ Key(u) < Key(v)'
         /\ \A v \in Vertex : v \notin R => Key(v)' = Key(v) /\ pred'[v] = pred[v]
         /\ \A v \in R : Key(v)' = CandKey(u, v) /\ v \in Vertex /\ pred'[v] = u
         /\ Finals \subseteq Finals'
         /\ \A v \in Finals : Key(v)' = Key(v) /\ pred'[v] = pred[v]
         /\ \A v \in Vertex : TrueKey(v)' = TrueKey(v) /\ Parent(v)' = Parent(v) /\ PathTo(v)' = PathTo(v)
         /\ ReachedOnes' = ReachedOnes
<1>1. /\ \A v \in Vertex \ R : Code(v)' = Code(v) /\ pred'[v] = pred[v] /\ Key(v)' = Key(v)
      /\ \A v \in R : /\ v \in Succ(u) /\ v \in Vertex /\ Passes(u, v)
                      /\ Code(v)' = Cand(u, v) /\ pred'[v] = u /\ Key(v)' = CandKey(u, v)
      /\ \A v \in Vertex : Code(v)' <= Code(v) /\ Code(v)' \in Nat
      /\ dhat' \in [Vertex -> Nat] /\ hops' \in [Vertex -> Nat]
      /\ wt' = wt /\ best' = best
  BY RelaxCodes DEF Relaxes
<1>2. \A v \in Vertex : /\ Code(v) \in Nat /\ Key(v) = KeyOf(Code(v), v) /\ Key(v) \in Nat
                        /\ best[v] \in Nat /\ best[v] <= Code(v)
  BY CodeFacts, TrueFacts DEF LabelsOk
<1>3. \A v \in Vertex : Key(v)' = KeyOf(Code(v)', v)
  BY DEF Key, Code
<1>4. \A v \in Vertex : Key(v)' <= Key(v)
  BY <1>1, <1>2, <1>3, KeyOrder
<1>5. \A v \in R : Key(u) < CandKey(u, v)
  BY <1>1, CandFacts
<1>6. ASSUME NEW v \in Finals
      PROVE  v \in Vertex /\ Code(v)' = Code(v) /\ pred'[v] = pred[v] /\ Key(v)' = Key(v)
  <2>1. v \in Vertex /\ v \in ReachedOnes /\ Code(v) = best[v] /\ (v # Source => pred[v] = Parent(v))
    BY FinalFacts
  <2>2. CASE v \in R
    <3>1. /\ <<u, v>> \in DOMAIN wt /\ Om(wt, u, v) \in Nat \ {0}
          /\ Cand(u, v) = Code(u) + Om(wt, u, v)
          /\ Cand(u, v) < Code(v) \/ (Cand(u, v) = Code(v) /\ u <= pred[v])
      BY <2>2, <1>1, CandFacts
    <3>2. best[u] < Unreached
      <4>1. Cand(u, v) <= Code(v) /\ Code(v) < Unreached
        BY <2>1, <3>1, <1>2, TrueFacts DEF ReachedOnes
      <4>2. Code(u) \in Nat /\ best[u] \in Nat /\ best[u] <= Code(u) /\ Code(v) \in Nat /\ Unreached \in Nat
        BY <1>2, <2>1, UnreachedFacts
      <4> QED BY <4>1, <4>2, <3>1
    <3>3. best[v] <= best[u] + Om(wt, u, v)
      BY <3>1, <3>2, <2>1 DEF Ground, IsShortest
    <3>4. Cand(u, v) = Code(v) /\ u <= pred[v] /\ best[u] + Om(wt, u, v) = best[v]
      BY <3>1, <3>3, <2>1, <1>2
    <3>5. v # Source
      <4>1. Code(v) # 0
        BY <3>1, <3>4, <1>2
      <4> QED BY <4>1 DEF LabelsOk
    <3>6. Parent(v) <= u /\ pred[v] = Parent(v) /\ Parent(v) \in Vertex
      BY <2>1, <3>1, <3>4, <3>5, ParentFacts DEF ReachedOnes
    <3>7. u = pred[v]
      <4>1. u \in Nat /\ Parent(v) \in Nat
        BY <3>6, VertexFacts
      <4> QED BY <3>4, <3>6, <4>1
    <3>8. Key(v)' = Key(v)
      BY <3>4, <2>1, <2>2, <1>1, <1>2, <1>3
    <3> QED BY <3>4, <3>7, <3>8, <2>1, <2>2, <1>1
  <2>3. CASE v \notin R
    BY <2>1, <2>3, <1>1
  <2> QED BY <2>2, <2>3
<1>7. /\ \A v \in Vertex : TrueKey(v)' = TrueKey(v) /\ Parent(v)' = Parent(v) /\ PathTo(v)' = PathTo(v)
      /\ \A v \in Vertex : Reached(v)' <=> Reached(v)
      /\ ReachedOnes' = ReachedOnes
  BY <1>1 DEF TrueKey, Parent, ShortestPred, PathTo, ReachedOnes, Reached
<1>8. Finals \subseteq Finals'
  <2> SUFFICES ASSUME NEW v \in Finals PROVE v \in Finals'
    OBVIOUS
  <2>1. v \in Vertex /\ Reached(v) /\ Code(v) = best[v] /\ (v = Source \/ pred[v] = Parent(v))
    BY DEF Finals, Final
  <2>2. Reached(v)' /\ Code(v)' = best'[v] /\ (v = Source \/ pred'[v] = Parent(v)')
    BY <2>1, <1>1, <1>6, <1>7
  <2> QED BY <2>1, <2>2 DEF Finals, Final
<1> QED BY <1>1, <1>4, <1>5, <1>6, <1>7, <1>8

(* A final vertex makes the next one on a path final.                      *)
LEMMA NextFinal ==
  ASSUME Ground, LabelsOk, NEW z \in ReachedOnes, z # Source,
         Code(Parent(z)) = best[Parent(z)]
  PROVE  /\ Parent(z) \in Vertex /\ z \in Succ(Parent(z)) /\ Passes(Parent(z), z)
         /\ CandKey(Parent(z), z) = TrueKey(z)
         /\ \A R : Relaxes(Parent(z), R) /\ z \in R => z \in Finals'
<1> DEFINE u == Parent(z)
<1>1. /\ u \in Vertex /\ <<u, z>> \in DOMAIN wt /\ z \in Vertex
      /\ best[z] = best[u] + Om(wt, u, z) /\ Om(wt, u, z) \in Nat
      /\ \A x \in Vertex : <<x, z>> \in DOMAIN wt /\ best[x] + Om(wt, x, z) = best[z] => u <= x
  BY ParentFacts DEF ReachedOnes
<1>2. z \in Succ(u)
  BY <1>1 DEF Succ
<1> HIDE DEF u
<1>3. /\ Cand(u, z) = Code(u) + Om(wt, u, z) /\ CandKey(u, z) = KeyOf(Cand(u, z), z)
      /\ Passes(u, z) <=> (Cand(u, z) < Code(z) \/ (Cand(u, z) = Code(z) /\ u <= pred[z]))
  BY <1>1, <1>2, CandFacts
<1>4. Cand(u, z) = best[z] /\ CandKey(u, z) = TrueKey(z)
  BY <1>1, <1>3 DEF TrueKey, u
<1>5. \A v \in Vertex : /\ Code(v) \in Nat /\ best[v] \in Nat /\ best[v] <= Code(v)
  BY CodeFacts, TrueFacts DEF LabelsOk
<1>6. Passes(u, z)
  <2>1. CASE best[z] < Code(z)
    BY <2>1, <1>3, <1>4
  <2>2. CASE best[z] = Code(z)
    <3> DEFINE p == pred[z]
    <3>1. Code(z) < Unreached
      BY <2>2, TrueFacts DEF ReachedOnes
    <3>2. p # -1 /\ p \in Vertex
      BY <1>1, <3>1 DEF LabelsOk
    <3>3. <<p, z>> \in DOMAIN wt /\ Code(p) + Om(wt, p, z) <= Code(z)
      BY <1>1, <3>2 DEF LabelsOk
    <3>4. Om(wt, p, z) \in Nat \ {0}
      BY <3>3, GraphFacts DEF Ground
    <3> HIDE DEF p
    <3>5. best[p] < Unreached
      BY <3>1, <3>2, <3>3, <3>4, <1>1, <1>5, UnreachedFacts
    <3>6. best[z] <= best[p] + Om(wt, p, z)
      BY <1>1, <3>2, <3>3, <3>5 DEF Ground, IsShortest
    <3>7. best[p] + Om(wt, p, z) = best[z]
      BY <2>2, <3>2, <3>3, <3>4, <3>6, <1>1, <1>5
    <3>8. u <= p
      BY <1>1, <3>2, <3>3, <3>7
    <3> QED BY <2>2, <3>8, <1>3, <1>4 DEF p
  <2> QED BY <2>1, <2>2, <1>1, <1>5
<1>7. ASSUME NEW R, Relaxes(u, R), z \in R PROVE z \in Finals'
  <2>1. Code(z)' = Cand(u, z) /\ pred'[z] = u /\ best' = best /\ wt' = wt
    BY <1>1, <1>7, RelaxCodes DEF Relaxes
  <2>2. Parent(z)' = Parent(z) /\ (Reached(z)' <=> Reached(z)) /\ Reached(z)
    BY <2>1 DEF Parent, ShortestPred, Reached, ReachedOnes
  <2> QED BY <2>1, <2>2, <1>1, <1>4 DEF Finals, Final, u
<1> QED BY <1>1, <1>2, <1>4, <1>6, <1>7 DEF u

-----------------------------------------------------------------------------
(* A step that keeps the labels or relaxes.                                *)

Improves ==
  /\ wt' = wt /\ best' = best /\ prm' = prm
  /\ Finals \subseteq Finals'
  /\ \A v \in Vertex : Key(v)' <= Key(v)
  /\ \A v \in Finals : Key(v)' = Key(v) /\ pred'[v] = pred[v]
  /\ \A v \in Vertex : TrueKey(v)' = TrueKey(v) /\ Parent(v)' = Parent(v) /\ PathTo(v)' = PathTo(v)
  /\ ReachedOnes' = ReachedOnes
  /\ settled \subseteq settled'

(* A step that leaves the labels alone and unsettles nothing is an          *)
(* improvement.                                                             *)
LEMMA SameImproves ==
  ASSUME Ground, LabelsOk, UNCHANGED <<run, labels>>, settled \subseteq settled'
  PROVE  /\ Improves /\ Ground' /\ LabelsOk' /\ Finals' = Finals
         /\ \A v \in Vertex : Key(v)' = Key(v) /\ pred'[v] = pred[v]
<1>1. /\ wt' = wt /\ prm' = prm /\ best' = best
      /\ dhat' = dhat /\ hops' = hops /\ pred' = pred
  BY DEF run, labels
<1>2. Ground'
  BY <1>1 DEF Ground, IsShortest, Exact, Om
<1>3. /\ \A v \in Vertex : Key(v)' = Key(v) /\ pred'[v] = pred[v]
      /\ \A v \in Vertex : TrueKey(v)' = TrueKey(v) /\ Parent(v)' = Parent(v) /\ PathTo(v)' = PathTo(v)
      /\ \A v : Code(v)' = Code(v)
      /\ ReachedOnes' = ReachedOnes /\ \A v : Reached(v)' <=> Reached(v)
  BY <1>1 DEF Key, Code, TrueKey, Parent, ShortestPred, PathTo, ReachedOnes, Reached
<1>4. LabelsOk'
  BY <1>1 DEF LabelsOk, Code, Om, Before
<1>5. Finals' = Finals
  BY <1>1 DEF Finals, Final, Code, Reached, Parent, ShortestPred
<1>6. \A v \in Vertex : Key(v) \in Nat
  BY KeyFacts
<1>7. \A v \in Finals : v \in Vertex
  BY DEF Finals
<1> QED BY <1>1, <1>2, <1>3, <1>4, <1>5, <1>6, <1>7 DEF Improves

(* So is a relaxation.                                                      *)
LEMMA RelaxImproves ==
  ASSUME Ground, LabelsOk, NEW u \in Vertex, NEW R, Relaxes(u, R), prm' = prm, settled' = settled
  PROVE  Improves /\ Ground' /\ LabelsOk'
BY RelaxFinals, RelaxLabels DEF Improves, Relaxes

(* The vertices below a bound depend on the bound only.                     *)
LEMMA NearStays ==
  ASSUME Improves, NEW f
  PROVE  Near(f)' = Near(f) /\ \A g : g.b = f.b => Near(g)' = Near(f)
BY DEF Improves, Near, ReachedOnes

(* A call that goes on from a vertex before an improvement does so after    *)
(* it.                                                                      *)
LEMMA ActiveStays ==
  ASSUME Improves, NEW f, NEW y \in Vertex, Active(y, f)
  PROVE  Active(y, f)'
BY DEF Improves, Active

(* A vertex that is covered stays so, if the call does not change.          *)
LEMMA CoveredStays ==
  ASSUME Ground, Improves, NEW f, NEW v \in ReachedOnes, Covered(v, f)
  PROVE  Covered(v, f)'
<1>1. PICK y \in PathTo(v) : Active(y, f)
  BY DEF Covered
<1>2. y \in Vertex /\ v \in Vertex
  BY PathIs DEF ReachedOnes
<1>3. Active(y, f)' /\ PathTo(v)' = PathTo(v)
  BY <1>1, <1>2, ActiveStays DEF Improves
<1> QED BY <1>1, <1>3 DEF Covered

(* What f covered g covers, or else it is final and held by g.             *)
Carries(f, g) ==
  \A v \in Near(f) : Covered(v, f) => Covered(v, g)' \/ (v \in Finals' /\ v \in Held(g))

(* A call that becomes g keeps its vertices covered, if g carries on from   *)
(* f and gives up nothing it held.                                          *)
LEMMA CallStep ==
  ASSUME Ground, Improves, settled \subseteq Finals,
         NEW i, NEW f, NEW g,
         \A x \in f.S : x \in Near(f),
         NearCovered(i, f), BehindCovered(f),
         g.b = f.b, g.S = f.S, Held(f) \subseteq Held(g), Carries(f, g),
         \A v : v \in Held(g) \/ Upheld(v, i) => Upheld(v, i)'
  PROVE  NearCovered(i, g)' /\ BehindCovered(g)'
<1>1. Near(g)' = Near(f) /\ Near(f) \subseteq ReachedOnes
  BY NearStays DEF Near
<1>2. \A v \in ReachedOnes : v \in Vertex /\ PathTo(v) \subseteq ReachedOnes /\ PathTo(v)' = PathTo(v)
  BY PathIs DEF Improves, ReachedOnes
<1>3. NearCovered(i, g)'
  <2>1. ASSUME NEW v \in Near(f)
        PROVE  v \in settled' \/ (v \in Finals' /\ Upheld(v, i)') \/ Covered(v, g)'
    <3>1. CASE v \in settled
      BY <3>1 DEF Improves
    <3>2. CASE v \in Finals /\ Upheld(v, i)
      BY <3>2 DEF Improves
    <3>3. CASE Covered(v, f)
      BY <3>3 DEF Carries
    <3> QED BY <3>1, <3>2, <3>3 DEF NearCovered
  <2> QED BY <2>1, <1>1 DEF NearCovered
<1>4. BehindCovered(g)'
  <2>1. ASSUME NEW v \in Near(f), NEW y \in PathTo(v), y \in Finals', y \in f.S
        PROVE  (v \in Finals' /\ v \in Held(g)) \/ Covered(v, g)'
    <3>1. CASE y \in Finals
      <4>1. (v \in Finals /\ v \in Held(f)) \/ Covered(v, f)
        BY <3>1, <2>1 DEF BehindCovered
      <4> QED BY <4>1 DEF Carries, Improves
    <3>2. CASE y \notin Finals
      <4>1. y \in Near(f)
        BY <2>1
      <4>2. Covered(y, f)
        BY <3>2, <4>1 DEF NearCovered
      <4>3. PathTo(y) \subseteq PathTo(v)
        BY <1>1, PathTrans
      <4>4. Covered(v, f)
        BY <4>2, <4>3 DEF Covered
      <4> QED BY <4>4 DEF Carries
    <3> QED BY <3>1, <3>2
  <2>2. ASSUME NEW v \in Near(f), PathTo(v)' \cap Finals' \cap g.S # {}
        PROVE  (v \in Finals' /\ v \in Held(g)) \/ Covered(v, g)'
    BY <2>1, <2>2, <1>1, <1>2
  <2>3. Held(g)' = Held(g)
    BY DEF Held
  <2> QED BY <2>2, <2>3, <1>1 DEF BehindCovered
<1> QED BY <1>3, <1>4

(* The entries of a call that covers as before.                            *)
LEMMA EntryStays ==
  ASSUME Ground, Improves, NEW f, NEW g, NEW r, r \in Nat, r < f.b, g.b = f.b, f.b \in Nat,
         IdOf[r] \in ReachedOnes, Key(IdOf[r]) <= r, LabelsOk, Ground', LabelsOk',
         IdOf[r] \in settled' \/ Covered(IdOf[r], f),
         \A v \in Near(f) : Covered(v, f) => Covered(v, g)' \/ v \in settled'
  PROVE  /\ r \in Nat /\ r < g.b
         /\ IdOf[r] \in ReachedOnes' /\ (Key(IdOf[r]) <= r)'
         /\ IdOf[r] \in settled' \/ Covered(IdOf[r], g)'
<1>1. PICK v \in Vertex : v = IdOf[r]
  BY DEF ReachedOnes
<1>2. Key(v)' <= Key(v) /\ Key(v) \in Nat /\ TrueKey(v) <= Key(v) /\ TrueKey(v) \in Nat
  BY KeyFacts, TrueFacts DEF Improves
<1>3. Key(v)' \in Nat
    <2>1. (\A x \in Vertex : Key(x) \in Nat)'
      BY KeysNext
    <2> QED BY <2>1
<1>4. Key(v)' <= r
  BY <1>1, <1>2, <1>3
<1>5. v \in Near(f)
  BY <1>1, <1>2 DEF Near
<1> QED BY <1>1, <1>4, <1>5 DEF Improves

-----------------------------------------------------------------------------
(* The stack.                                                              *)

IsSeq(s) == \E X : s \in Seq(X)

(* Changing the innermost call leaves the others alone.                     *)
LEMMA SetTopIs ==
  ASSUME IsSeq(stack), Len(stack) > 0, NEW g, SetTop(g)
  PROVE  /\ IsSeq(stack') /\ Len(stack') = Len(stack) /\ stack'[Len(stack)] = g
         /\ \A i \in 1..Len(stack) : i # Len(stack) => stack'[i] = stack[i]
<1>1. PICK X : stack \in Seq(X)
  BY DEF IsSeq
<1>2. stack \in Seq(X \cup {g})
  BY <1>1
<1>3. stack' \in Seq(X \cup {g})
  BY <1>2 DEF SetTop
<1> QED BY <1>2, <1>3 DEF SetTop, IsSeq

(* The stack after a call of a callee.                                      *)
LEMMA PushIs ==
  ASSUME IsSeq(stack), Len(stack) > 0, NEW g, NEW c, Push(g, c)
  PROVE  /\ IsSeq(stack') /\ Len(stack') = Len(stack) + 1
         /\ stack'[Len(stack)] = g /\ stack'[Len(stack) + 1] = c
         /\ \A i \in 1..Len(stack) : i # Len(stack) => stack'[i] = stack[i]
<1>1. PICK X : stack \in Seq(X)
  BY DEF IsSeq
<1> DEFINE s == [stack EXCEPT ![Len(stack)] = g]
<1>2. stack \in Seq(X \cup {g, c}) /\ Len(stack) \in Nat
  BY <1>1
<1>3. /\ s \in Seq(X \cup {g, c}) /\ Len(s) = Len(stack) /\ s[Len(stack)] = g
      /\ \A i \in 1..Len(stack) : i # Len(stack) => s[i] = stack[i]
  BY <1>2
<1>4. stack' = Append(s, c)
  BY DEF Push
<1> HIDE DEF s
<1>5. /\ stack' \in Seq(X \cup {g, c}) /\ Len(stack') = Len(stack) + 1 /\ stack'[Len(stack) + 1] = c
      /\ \A i \in 1..Len(stack) : stack'[i] = s[i]
  BY <1>2, <1>3, <1>4
<1> QED BY <1>2, <1>3, <1>5 DEF IsSeq

(* The stack after a return.                                                *)
LEMMA PopIs ==
  ASSUME IsSeq(stack), Len(stack) > 0, Pop
  PROVE  /\ IsSeq(stack') /\ Len(stack') = Len(stack) - 1
         /\ \A i \in 1..(Len(stack) - 1) : stack'[i] = stack[i]
<1>1. PICK X : stack \in Seq(X)
  BY DEF IsSeq
<1> DEFINE n == Len(stack) - 1
<1>2. n \in Nat /\ Len(stack) \in Nat /\ n <= Len(stack) /\ \A i \in 1..n : stack[i] \in X
  BY <1>1
<1>3. stack' = SubSeq(stack, 1, n)
  BY DEF Pop
<1> HIDE DEF n
<1>4. /\ SubSeq(stack, 1, n) \in Seq(X) /\ Len(SubSeq(stack, 1, n)) = n
      /\ \A i \in 1..n : SubSeq(stack, 1, n)[i] = stack[i]
  BY <1>1, <1>2
<1>5. stack' \in Seq(X) /\ Len(stack') = n /\ \A i \in 1..n : stack'[i] = stack[i]
  BY <1>3, <1>4
<1> QED BY <1>5 DEF IsSeq, n

(* The sets of a call hold vertices with paths; those in its S are below    *)
(* its bound.                                                               *)
LEMMA FrameSets ==
  ASSUME Ground, LabelsOk, NEW i, NEW f, IsFrame(f), CallOk(i, f)
  PROVE  /\ \A x \in f.S : x \in Near(f)
         /\ \A x \in f.S \cup f.W \cup f.next \cup f.U \cup f.todo \cup f.fresh :
              /\ x \in ReachedOnes /\ x \in Vertex /\ TrueKey(x) \in Nat /\ Key(x) \in Nat
              /\ TrueKey(x) <= Key(x)
<1>1. \A x \in f.S \cup f.W \cup f.next \cup f.U \cup f.todo \cup f.fresh :
        /\ x \in ReachedOnes /\ x \in Vertex
  BY DEF CallOk, ReachedOnes
<1>2. \A x \in Vertex : TrueKey(x) \in Nat /\ Key(x) \in Nat /\ TrueKey(x) <= Key(x)
  BY KeyFacts, TrueFacts
<1>3. ASSUME NEW x \in f.S PROVE x \in Near(f)
  <2>1. Key(x) < f.b /\ f.b \in Nat
    BY DEF CallOk, IsFrame
  <2> QED BY <2>1, <1>1, <1>2 DEF Near
<1> QED BY <1>1, <1>2, <1>3

(* A call that waits for another one, which goes on.                       *)
LEMMA LowerCall ==
  ASSUME Ground, LabelsOk, Ground', LabelsOk', Improves, settled \subseteq Finals,
         NEW i \in Nat \ {0}, NEW f, f = stack[i], i < Len(stack), i < Len(stack)', Len(stack) \in Nat,
         Low(i)' = Low(i), Low(i) \in Nat, i + 1 \in Nat,
         stack'[i + 1].S = stack[i + 1].S, stack'[i + 1].b = stack[i + 1].b,
         \A v \in Vertex : Key(v)' = Key(v) \/ Low(i) <= Key(v)',
         \A j \in 1..i : F(j)' = F(j),
         FrameOk(i, f), NearCovered(i, f), BehindCovered(f), EntriesCovered(f)
  PROVE  /\ FrameOk(i, f)' /\ NearCovered(i, f)' /\ BehindCovered(f)' /\ EntriesCovered(f)'
<1>1. IsFrame(f) /\ CallOk(i, f) /\ LoopOk(i, f) /\ PulledOk(f) /\ WaitOk(i, f) /\ f.pc = "wait"
  BY DEF FrameOk, CallOk
<1>2. /\ \A x \in f.S : x \in Near(f)
      /\ \A x \in f.S \cup f.W \cup f.next \cup f.U \cup f.todo \cup f.fresh :
           /\ x \in ReachedOnes /\ x \in Vertex /\ Key(x) \in Nat /\ Key(x)' \in Nat
           /\ Key(x)' <= Key(x)
  BY <1>1, FrameSets, KeysNext DEF Improves
<1>3. IsFrame(f)'
  BY <1>1 DEF IsFrame
<1>4. CallOk(i, f)'
  <2>1. ASSUME NEW x \in f.S PROVE Key(x)' < f.b
    BY <1>1, <1>2 DEF CallOk, IsFrame
  <2>2. ASSUME NEW x \in f.S \cup f.W \cup f.next \cup f.U \cup f.todo PROVE Low(i) <= Key(x)'
    <3>1. Low(i) <= Key(x) /\ x \in Vertex
      BY <1>1, <1>2 DEF CallOk
    <3> QED BY <3>1
  <2> QED BY <1>1, <2>1, <2>2 DEF CallOk, Improves
<1>5. LoopOk(i, f)'
  <2>1. ASSUME NEW x \in f.U PROVE Key(x)' < f.last
    <3>1. x \in Finals /\ Key(x) < f.last
      BY <1>1 DEF LoopOk
    <3> QED BY <3>1 DEF Improves
  <2> QED BY <1>1, <2>1 DEF LoopOk, Improves
<1>6. PulledOk(f)'
  <2>1. ASSUME NEW x \in f.fresh PROVE Key(x)' < f.bi
    <3>1. Key(x) < f.bi /\ f.bi \in Nat
      BY <1>1 DEF PulledOk, IsFrame
    <3> QED BY <3>1, <1>2
  <2> QED BY <1>1, <2>1 DEF PulledOk
<1>7. WaitOk(i, f)' /\ BaseOk(i, f)' /\ ExpandOk(f)'
  BY <1>1 DEF WaitOk, BaseOk, ExpandOk
<1>8. FrameOk(i, f)'
  BY <1>3, <1>4, <1>5, <1>6, <1>7 DEF FrameOk
<1>9. Carries(f, f)
  BY CoveredStays DEF Carries, Near
<1>10. ASSUME NEW v, v \in Held(f) \/ Upheld(v, i) PROVE Upheld(v, i)'
  <2>1. i \in 1..i /\ F(i) = f
    <3>1. i # Len(stack)
      OBVIOUS
    <3> QED BY <3>1 DEF F
  <2>2. PICK j \in 1..i : v \in Held(F(j))
    BY <1>10, <2>1 DEF Upheld
  <2>3. F(j)' = F(j)
    OBVIOUS
  <2>4. v \in Held(F(j))'
    BY <2>2, <2>3 DEF Held
  <2> QED BY <2>4 DEF Upheld
<1>11. NearCovered(i, f)' /\ BehindCovered(f)'
  BY <1>2, <1>9, <1>10, CallStep
<1>12. EntriesCovered(f)'
  <2> SUFFICES ASSUME NEW r \in Entries(f)
               PROVE  /\ r \in Nat /\ r < f.b
                      /\ IdOf[r] \in ReachedOnes' /\ (Key(IdOf[r]) <= r)'
                      /\ IdOf[r] \in settled' \/ Covered(IdOf[r], f)'
    BY DEF EntriesCovered, Entries
  <2>1. /\ r \in Nat /\ r < f.b
        /\ IdOf[r] \in ReachedOnes /\ Key(IdOf[r]) <= r
        /\ IdOf[r] \in settled \/ Covered(IdOf[r], f)
    BY DEF EntriesCovered
  <2>2. \A v \in Near(f) : Covered(v, f) => Covered(v, f)' \/ v \in settled'
    BY CoveredStays DEF Near
  <2>3. f.b \in Nat /\ settled \subseteq settled'
    BY <1>1 DEF IsFrame, Improves
  <2> QED BY <2>1, <2>2, <2>3, EntryStays
<1> QED BY <1>8, <1>11, <1>12

(* What the invariant says of the calls in progress.                       *)
LEMMA CallsAre ==
  ASSUME Ground, IsSeq(stack), Inv
  PROVE  /\ Len(stack) \in Nat
         /\ \A i \in 1..Len(stack) :
              /\ Low(i) \in Nat
              /\ IsFrame(stack[i]) /\ FrameOk(i, stack[i])
              /\ NearCovered(i, F(i)) /\ BehindCovered(F(i)) /\ EntriesCovered(F(i))
              /\ i # Len(stack) => F(i) = stack[i] /\ stack[i].pc = "wait"
              /\ F(i).S = stack[i].S /\ F(i).b = stack[i].b
<1>1. Len(stack) \in Nat
  BY DEF IsSeq
<1>2. ASSUME NEW i \in 1..Len(stack) PROVE IsFrame(stack[i]) /\ FrameOk(i, stack[i])
  BY DEF Inv, FramesInv, FrameOk
<1>3. ASSUME NEW i \in 1..Len(stack) PROVE Low(i) \in Nat
  <2>1. CASE i = 1
    BY <2>1 DEF Low
  <2>2. CASE i # 1
    <3>1. i - 1 \in 1..Len(stack)
      BY <2>2, <1>1
    <3>2. IsFrame(stack[i - 1])
      BY <3>1, <1>2
    <3> QED BY <2>2, <3>2 DEF Low, IsFrame
  <2> QED BY <2>1, <2>2
<1>4. ASSUME NEW i \in 1..Len(stack)
      PROVE  /\ NearCovered(i, F(i)) /\ BehindCovered(F(i)) /\ EntriesCovered(F(i))
             /\ i # Len(stack) => F(i) = stack[i] /\ stack[i].pc = "wait"
             /\ F(i).S = stack[i].S /\ F(i).b = stack[i].b
  <2>1. NearCovered(i, F(i)) /\ BehindCovered(F(i)) /\ EntriesCovered(F(i))
    BY DEF Inv, FramesInv
  <2>2. i # Len(stack) => F(i) = stack[i] /\ stack[i].pc = "wait"
    BY <1>2 DEF F, FrameOk, CallOk
  <2>3. F(i).S = stack[i].S /\ F(i).b = stack[i].b
    BY <1>2 DEF F, Resumed, IsFrame, Fields
  <2> QED BY <2>1, <2>2, <2>3
<1> QED BY <1>1, <1>2, <1>3, <1>4

(* Changing the innermost call leaves the others, and what is completed     *)
(* before each, as they were.                                               *)
LEMMA TopIs ==
  ASSUME Ground, IsSeq(stack), Inv, NEW n, n = Len(stack), n > 0,
         NEW g, SetTop(g), g.pc # "wait"
  PROVE  /\ n \in Nat \ {0} /\ n \in 1..n /\ Low(n) \in Nat
         /\ IsSeq(stack') /\ Len(stack)' = n /\ stack'[n] = g /\ F(n)' = g
         /\ \A i \in 1..n : /\ Low(i)' = Low(i)
                            /\ i # n => stack'[i] = stack[i] /\ F(i)' = F(i)
<1>1. n \in Nat \ {0} /\ n \in 1..n /\ Low(n) \in Nat
  BY CallsAre
<1>2. /\ IsSeq(stack') /\ Len(stack') = n /\ stack'[n] = g
      /\ \A i \in 1..n : i # n => stack'[i] = stack[i]
  BY SetTopIs
<1>3. F(n)' = g
  BY <1>2 DEF F
<1>4. ASSUME NEW i \in 1..n PROVE Low(i)' = Low(i)
  <2>1. CASE i = 1
    BY <2>1 DEF Low
  <2>2. CASE i # 1
    <3>1. i - 1 \in 1..n /\ i - 1 # n
      BY <2>2, <1>1
    <3>2. stack'[i - 1] = stack[i - 1]
      BY <3>1, <1>2
    <3> QED BY <2>2, <3>2 DEF Low
  <2> QED BY <2>1, <2>2
<1>5. ASSUME NEW i \in 1..n, i # n PROVE F(i)' = F(i)
  BY <1>2, <1>5 DEF F
<1> QED BY <1>1, <1>2, <1>3, <1>4, <1>5

(* The callers of the innermost call after a step that leaves them.        *)
LEMMA CallersStay ==
  ASSUME Ground, IsSeq(stack), Inv, Improves, Ground', LabelsOk',
         NEW n, n = Len(stack), n > 0, Len(stack)' \in Nat, n <= Len(stack)',
         \A i \in 1..n : /\ Low(i)' = Low(i)
                         /\ i # n => stack'[i] = stack[i] /\ F(i)' = F(i),
         stack'[n].S = stack[n].S, stack'[n].b = stack[n].b,
         \A v \in Vertex : Key(v)' = Key(v) \/ Low(n) <= Key(v)',
         NEW i \in 1..n, i # n
  PROVE  \A h : h = stack[i] =>
           /\ stack'[i] = h /\ F(i)' = h
           /\ FrameOk(i, h)' /\ NearCovered(i, h)' /\ BehindCovered(h)' /\ EntriesCovered(h)'
<1> SUFFICES ASSUME NEW h, h = stack[i]
             PROVE  /\ stack'[i] = h /\ F(i)' = h
                    /\ FrameOk(i, h)' /\ NearCovered(i, h)' /\ BehindCovered(h)' /\ EntriesCovered(h)'
  OBVIOUS
<1>1. LabelsOk /\ settled \subseteq Finals /\ LowsRise /\ n \in Nat /\ n \in 1..n /\ Low(n) \in Nat
  BY CallsAre DEF Inv
<1>2. i \in Nat \ {0} /\ i < n /\ i + 1 \in 1..n /\ i + 1 \in Nat
  BY <1>1
<1>3. /\ FrameOk(i, h) /\ NearCovered(i, h) /\ BehindCovered(h) /\ EntriesCovered(h)
      /\ F(i) = h /\ Low(i) \in Nat
  BY CallsAre
<1>4. stack'[i + 1].S = stack[i + 1].S /\ stack'[i + 1].b = stack[i + 1].b
  BY <1>2
<1>5. \A v \in Vertex : Key(v)' = Key(v) \/ Low(i) <= Key(v)'
  <2>1. Low(i) <= Low(n)
    BY <1>1, <1>2 DEF LowsRise
  <2>2. \A v \in Vertex : Key(v)' \in Nat
    BY KeysNext
  <2> QED BY <2>1, <2>2, <1>1, <1>3
<1>6. \A j \in 1..i : F(j)' = F(j)
  BY <1>2
<1>7. stack'[i] = h /\ F(i)' = h /\ Low(i)' = Low(i) /\ i < Len(stack)'
  BY <1>1, <1>2, <1>3
<1>8. FrameOk(i, h)' /\ NearCovered(i, h)' /\ BehindCovered(h)' /\ EntriesCovered(h)'
  BY <1>1, <1>2, <1>3, <1>4, <1>5, <1>6, <1>7, LowerCall
<1> QED BY <1>7, <1>8

(* A step of the innermost call, which becomes g, keeps the invariant:      *)
(* what concerns g alone is left to be shown.                               *)
LEMMA TopStep ==
  ASSUME Ground, IsSeq(stack), Inv, Improves, Ground', LabelsOk', settled' = settled,
         NEW n, n = Len(stack), n > 0,
         NEW f, f = F(n), NEW g, SetTop(g), g.pc # "wait",
         g.b = f.b, g.S = f.S, Held(f) \subseteq Held(g),
         \A v \in Vertex : Key(v)' = Key(v) \/ Low(n) <= Key(v)',
         Carries(f, g), EntriesCovered(g)', FrameOk(n, g)',
         \A v \in settled : Key(v) < Floor(g)'
  PROVE  Inv' /\ IsSeq(stack')
<1>1. LabelsOk /\ settled \subseteq Finals /\ LowsRise
  BY DEF Inv
<1>2. /\ n \in Nat \ {0} /\ n \in 1..n /\ Low(n) \in Nat
      /\ IsSeq(stack') /\ Len(stack)' = n /\ stack'[n] = g /\ F(n)' = g
      /\ \A i \in 1..n : /\ Low(i)' = Low(i)
                         /\ i # n => stack'[i] = stack[i] /\ F(i)' = F(i)
  BY TopIs
<1>3. ASSUME NEW i \in 1..n, i # n, NEW h, h = stack[i]
      PROVE  /\ stack'[i] = h /\ F(i)' = h
             /\ FrameOk(i, h)' /\ NearCovered(i, h)' /\ BehindCovered(h)' /\ EntriesCovered(h)'
  <2>1. stack'[n].S = stack[n].S /\ stack'[n].b = stack[n].b
    BY <1>2, CallsAre
  <2> QED BY <2>1, <1>2, <1>3, CallersStay
<1>4. NearCovered(n, g)' /\ BehindCovered(g)'
  <2>1. IsFrame(stack[n]) /\ CallOk(n, stack[n]) /\ f.S = stack[n].S /\ f.b = stack[n].b
        /\ NearCovered(n, f) /\ BehindCovered(f)
    BY <1>2, CallsAre DEF FrameOk
  <2>2. \A x \in f.S : x \in Near(f)
    BY <2>1, <1>1, FrameSets DEF Near
  <2>3. ASSUME NEW v, v \in Held(g) \/ Upheld(v, n) PROVE Upheld(v, n)'
    <3>1. CASE v \in Held(g)
      <4>1. v \in Held(F(n))'
        BY <3>1, <1>2 DEF Held
      <4> QED BY <4>1, <1>2 DEF Upheld
    <3>2. CASE Upheld(v, n)
      <4>1. PICK j \in 1..n : v \in Held(F(j))
        BY <3>2 DEF Upheld
      <4>2. CASE j = n
        BY <4>1, <4>2, <3>1, <2>3
      <4>3. CASE j # n
        <5>1. F(j)' = F(j)
          BY <4>3, <1>2
        <5>2. v \in Held(F(j))'
          BY <4>1, <5>1 DEF Held
        <5> QED BY <5>2, <1>2 DEF Upheld
      <4> QED BY <4>2, <4>3
    <3> QED BY <3>1, <3>2, <2>3
  <2> QED BY <2>1, <2>2, <2>3, <1>1, CallStep
<1>5. FramesInv'
  <2>1. ASSUME NEW i \in 1..n
        PROVE  /\ \A h \in {stack'[i]} : FrameOk(i, h)'
               /\ \A h \in {F(i)'} : NearCovered(i, h)' /\ BehindCovered(h)' /\ EntriesCovered(h)'
    <3>1. CASE i = n
      BY <3>1, <1>2, <1>4
    <3>2. CASE i # n
      BY <3>2, <1>3
    <3> QED BY <3>1, <3>2
  <2> QED BY <2>1, <1>2 DEF FramesInv
<1>6. LowsRise'
  BY <1>1, <1>2 DEF LowsRise
<1>7. SettledBelow'
  <2>1. \A v \in settled : Key(v)' < Floor(g)'
    BY <1>1 DEF Improves
  <2> QED BY <2>1, <1>2 DEF SettledBelow
<1>8. AllDone' /\ (settled \subseteq Finals)'
  BY <1>1, <1>2 DEF AllDone, Improves
<1> QED BY <1>2, <1>5, <1>6, <1>7, <1>8 DEF Inv

-----------------------------------------------------------------------------
(* More of paths.                                                          *)

(* The first vertex of a path that is in X.                                *)
LEMMA FirstOnPath ==
  ASSUME Ground, NEW v \in ReachedOnes, NEW X, PathTo(v) \cap X # {}
  PROVE  \E y \in PathTo(v) \cap X : PathTo(y) \cap X = {y}
<1> DEFINE T == {TrueKey(y) : y \in PathTo(v) \cap X}
<1>1. PathTo(v) \subseteq ReachedOnes /\ \A y \in PathTo(v) : TrueKey(y) \in Nat
  BY PathIs, TrueFacts DEF ReachedOnes
<1>2. PICK y \in PathTo(v) \cap X : \A x \in PathTo(v) \cap X : TrueKey(y) <= TrueKey(x)
  <2>1. T \subseteq Nat /\ T # {}
    BY <1>1
  <2>2. PICK m \in T : \A n \in T : m <= n
    <3> HIDE DEF T
    <3> QED BY <2>1, HasLeast
  <2> QED BY <2>2
<1>3. ASSUME NEW x \in PathTo(y), x \in X, x # y PROVE FALSE
  <2>1. PathTo(y) \subseteq PathTo(v) /\ y \in ReachedOnes
    BY <1>2, PathTrans
  <2>2. TrueKey(x) < TrueKey(y) /\ TrueKey(y) <= TrueKey(x)
    BY <2>1, <1>2, <1>3, PathKeys
  <2> QED BY <2>1, <2>2, <1>1, <1>2
<1>4. y \in PathTo(y)
  BY <1>1, <1>2, PathIs
<1> QED BY <1>2, <1>3, <1>4

(* Every path starts at the source.                                         *)
LEMMA SourceOnPath ==
  ASSUME Ground, NEW v \in ReachedOnes
  PROVE  Source \in PathTo(v)
<1>1. v \in PathTo(v) /\ PathTo(v) \subseteq ReachedOnes
  BY PathIs
<1>2. PICK y \in PathTo(v) : PathTo(y) \cap ReachedOnes = {y}
  BY <1>1, FirstOnPath
<1>3. y \in ReachedOnes
  BY <1>1
<1>4. ASSUME y # Source PROVE FALSE
  <2>1. Parent(y) \in PathTo(y) /\ Parent(y) \in ReachedOnes /\ TrueKey(Parent(y)) < TrueKey(y) /\ TrueKey(y) \in Nat
    BY <1>3, <1>4, PathIs, ParentFacts, TrueFacts DEF ReachedOnes
  <2> QED BY <2>1, <1>2
<1> QED BY <1>4

(* The vertices of a path lie on the paths to its later ones.              *)
LEMMA PathLine ==
  ASSUME Ground, NEW v \in ReachedOnes, NEW x \in PathTo(v), NEW y \in PathTo(v),
         TrueKey(x) <= TrueKey(y)
  PROVE  x \in PathTo(y)
<1>1. y \in ReachedOnes /\ y \in PathTo(y)
  BY PathTrans, PathIs
<1> DEFINE X == {z \in PathTo(v) : y \in PathTo(z) \/ z \in PathTo(y)}
<1>2. X \in SUBSET ReachedOnes /\ v \in X
  BY PathIs
<1>3. ASSUME NEW z \in X, z # Source PROVE Parent(z) \in X
  <2>1. z \in ReachedOnes /\ Parent(z) \in PathTo(v)
    BY <1>2, <1>3, PathIs
  <2>2. CASE z \in PathTo(y)
    BY <2>1, <2>2, <1>1, <1>3, PathIs
  <2>3. CASE z \notin PathTo(y)
    <3>1. y \in PathTo(z) /\ z # y
      BY <2>3, <1>1
    <3>2. PathTo(z) = {z} \cup PathTo(Parent(z))
      BY <2>1, <1>3, PathStep
    <3> QED BY <3>1, <3>2, <2>1
  <2> QED BY <2>2, <2>3
<1>4. PathTo(v) \subseteq X
  <2> HIDE DEF X
  <2> QED BY <1>2, <1>3, PathIs
<1>5. CASE y \in PathTo(x) /\ x # y
  <2>1. x \in ReachedOnes
    BY PathTrans
  <2>2. TrueKey(y) < TrueKey(x) /\ TrueKey(x) \in Nat /\ TrueKey(y) \in Nat
    BY <2>1, <1>1, <1>5, PathKeys, TrueFacts DEF ReachedOnes
  <2> QED BY <2>2
<1> QED BY <1>1, <1>4, <1>5

(* After a vertex of a path that is not its end comes one whose parent it   *)
(* is.                                                                      *)
LEMMA NextOnPath ==
  ASSUME Ground, NEW v \in ReachedOnes, NEW u \in PathTo(v), u # v
  PROVE  \E z \in PathTo(v) : z # Source /\ Parent(z) = u
<1>1. u \in ReachedOnes /\ TrueKey(u) \in Nat /\ TrueKey(v) \in Nat /\ TrueKey(u) < TrueKey(v)
  BY PathTrans, PathKeys, TrueFacts DEF ReachedOnes
<1>2. PICK z \in PathTo(v) : /\ z # Source
                             /\ TrueKey(Parent(z)) < TrueKey(u) + 1
                             /\ u \in PathTo(Parent(z))
  <2>1. TrueKey(u) + 1 \in Nat /\ TrueKey(u) < TrueKey(u) + 1 /\ TrueKey(u) + 1 <= TrueKey(v)
    BY <1>1
  <2> QED BY <2>1, Crossing
<1>3. z \in ReachedOnes /\ Parent(z) \in ReachedOnes
  BY <1>2, PathTrans, ParentFacts
<1>4. u # Parent(z) => TrueKey(u) < TrueKey(Parent(z))
  BY <1>2, <1>3, PathKeys
<1>5. TrueKey(Parent(z)) \in Nat
  BY <1>3, TrueFacts DEF ReachedOnes
<1> QED BY <1>1, <1>2, <1>4, <1>5

(* The vertices from y to z on the path to z, one after the other.          *)
LEMMA ChainFacts ==
  ASSUME Ground, NEW z \in ReachedOnes, NEW y \in PathTo(z)
  PROVE  /\ Chain(y, z) \subseteq PathTo(z) /\ Chain(y, z) \subseteq ReachedOnes
         /\ y \in Chain(y, z) /\ z \in Chain(y, z)
         /\ IsFiniteSet(Chain(y, z)) /\ Cardinality(Chain(y, z)) \in Nat
         /\ Chain(y, z) \subseteq {y} => y = z
         /\ z # y => /\ z # Source /\ y \in PathTo(Parent(z))
                     /\ Chain(y, z) = Chain(y, Parent(z)) \cup {z}
<1>1. y \in ReachedOnes /\ PathTo(z) \subseteq ReachedOnes /\ z \in PathTo(z) /\ y \in PathTo(y)
  BY PathIs, PathTrans
<1>2. IsFiniteSet(ReachedOnes)
  BY VertexFacts, FS_Subset DEF ReachedOnes
<1>3. IsFiniteSet(Chain(y, z)) /\ Cardinality(Chain(y, z)) \in Nat
  BY <1>1, <1>2, FS_Subset, FS_CardinalityType DEF Chain
<1>4. ASSUME z # y
      PROVE  /\ z # Source /\ y \in PathTo(Parent(z))
             /\ Chain(y, z) = Chain(y, Parent(z)) \cup {z}
  <2>1. z # Source
    BY <1>4, PathOfSource
  <2>2. PathTo(z) = {z} \cup PathTo(Parent(z))
    BY <2>1, PathStep
  <2> QED BY <2>1, <2>2, <1>4 DEF Chain
<1> QED BY <1>1, <1>3, <1>4 DEF Chain

(* One vertex further on, the chain is longer by one.                       *)
LEMMA ChainGrows ==
  ASSUME Ground, NEW z \in ReachedOnes, z # Source, NEW y \in PathTo(Parent(z))
  PROVE  /\ y \in PathTo(z)
         /\ Chain(y, z) = Chain(y, Parent(z)) \cup {z}
         /\ Cardinality(Chain(y, z)) = Cardinality(Chain(y, Parent(z))) + 1
<1>1. Parent(z) \in ReachedOnes /\ PathTo(z) = {z} \cup PathTo(Parent(z))
      /\ TrueKey(Parent(z)) < TrueKey(z) /\ TrueKey(z) \in Nat
  BY ParentFacts, PathStep, TrueFacts DEF ReachedOnes
<1>2. y # z /\ z \notin PathTo(Parent(z))
  <2>1. \A x \in PathTo(Parent(z)) : TrueKey(x) <= TrueKey(Parent(z)) /\ x \in ReachedOnes
    BY <1>1, PathKeys, PathTrans
  <2>2. \A x \in ReachedOnes : TrueKey(x) \in Nat
    BY TrueFacts DEF ReachedOnes
  <2> QED BY <1>1, <2>1, <2>2
<1>3. Chain(y, z) = Chain(y, Parent(z)) \cup {z} /\ y \in PathTo(z)
  BY <1>1, <1>2, ChainFacts
<1>4. IsFiniteSet(Chain(y, Parent(z))) /\ z \notin Chain(y, Parent(z))
  BY <1>1, <1>2, ChainFacts
<1> QED BY <1>3, <1>4, FS_AddElement

-----------------------------------------------------------------------------
(* FindPivots: relaxing from a vertex of the frontier.                     *)

(* The innermost call, when it is not waiting.                             *)
LEMMA TopCall ==
  ASSUME Ground, IsSeq(stack), Inv, Len(stack) > 0, top.pc # "wait"
  PROVE  /\ Len(stack) \in Nat \ {0} /\ Len(stack) \in 1..Len(stack)
         /\ F(Len(stack)) = top /\ top = stack[Len(stack)]
         /\ IsFrame(top) /\ CallOk(Len(stack), top) /\ ExpandOk(top) /\ LoopOk(Len(stack), top)
         /\ PulledOk(top) /\ BaseOk(Len(stack), top)
         /\ NearCovered(Len(stack), top) /\ BehindCovered(top) /\ EntriesCovered(top)
         /\ Low(Len(stack)) \in Nat
         /\ \A v \in settled : Key(v) < Floor(top)
         /\ LabelsOk /\ settled \subseteq Finals
         /\ \A x \in top.S \cup top.W \cup top.next \cup top.U \cup top.todo \cup top.fresh :
              /\ x \in ReachedOnes /\ x \in Vertex /\ TrueKey(x) \in Nat /\ Key(x) \in Nat
              /\ TrueKey(x) <= Key(x)
<1>1. Len(stack) \in Nat \ {0} /\ Len(stack) \in 1..Len(stack)
  BY CallsAre
<1>2. F(Len(stack)) = top /\ top = stack[Len(stack)]
  BY DEF F, top
<1>3. /\ IsFrame(top) /\ FrameOk(Len(stack), top)
      /\ NearCovered(Len(stack), top) /\ BehindCovered(top) /\ EntriesCovered(top)
      /\ Low(Len(stack)) \in Nat
  BY <1>1, <1>2, CallsAre
<1>4. LabelsOk /\ settled \subseteq Finals /\ \A v \in settled : Key(v) < Floor(top)
  BY <1>1, <1>2 DEF Inv, SettledBelow
<1>5. /\ CallOk(Len(stack), top) /\ ExpandOk(top) /\ LoopOk(Len(stack), top)
      /\ PulledOk(top) /\ BaseOk(Len(stack), top)
  BY <1>3 DEF FrameOk
<1> QED BY <1>1, <1>2, <1>3, <1>4, <1>5, FrameSets

(* What relaxing from a vertex above the floor does. *)
LEMMA RelaxAbove ==
  ASSUME Ground, LabelsOk, NEW u \in Vertex, NEW R, Relaxes(u, R), prm' = prm, settled' = settled,
         NEW low \in Nat, low <= Key(u)
  PROVE  /\ Improves /\ Ground' /\ LabelsOk'
         /\ \A v \in Vertex : Key(v)' \in Nat /\ Key(v)' <= Key(v) /\ Key(v) \in Nat
         /\ \A v \in Vertex : Key(v)' = Key(v) \/ low <= Key(v)'
         /\ \A v \in Vertex : v \notin R => Key(v)' = Key(v) /\ pred'[v] = pred[v]
         /\ \A v \in R : /\ Key(v)' = CandKey(u, v) /\ pred'[v] = u /\ v \in Vertex
                         /\ v \in ReachedOnes /\ low <= CandKey(u, v) /\ Key(u) < CandKey(u, v)
                         /\ CandKey(u, v) \in Nat /\ TrueKey(v) <= CandKey(u, v)
                         /\ IdOf[CandKey(u, v)] = v
                         /\ (v \in Finals => TrueKey(v) = CandKey(u, v))
<1>1. Improves /\ Ground' /\ LabelsOk'
  BY RelaxImproves
<1>2. /\ \A v \in Vertex : Key(v)' \in Nat /\ TrueKey(v)' <= Key(v)' /\ IdOf[Key(v)'] = v
      /\ \A v \in Vertex : Key(v) \in Nat /\ TrueKey(v) \in Nat
      /\ \A v \in Finals : v \in Vertex /\ Key(v) = TrueKey(v)
  BY <1>1, KeysNext, KeysBetween DEF ReachedOnes
<1>3. /\ \A v \in Vertex : Key(v)' = Key(v) \/ Key(u) < Key(v)'
      /\ \A v \in Vertex : v \notin R => Key(v)' = Key(v) /\ pred'[v] = pred[v]
      /\ \A v \in R : Key(v)' = CandKey(u, v) /\ v \in Vertex /\ pred'[v] = u
  BY RelaxFinals
<1>4. ASSUME NEW v \in R
      PROVE  /\ v \in ReachedOnes /\ Key(u) < CandKey(u, v) /\ CandKey(u, v) \in Nat
             /\ TrueKey(v) <= CandKey(u, v) /\ IdOf[CandKey(u, v)] = v
             /\ (v \in Finals => TrueKey(v) = CandKey(u, v))
  <2>1. v \in Vertex /\ pred'[v] # -1
    BY <1>3, VertexFacts
  <2>2. Code(v)' < Unreached /\ best'[v] <= Code(v)' /\ Code(v)' \in Nat
    BY <2>1, <1>1, KeysNext DEF LabelsOk
  <2>3. best[v] \in Nat /\ best' = best
    BY <2>1, TrueFacts DEF Relaxes
  <2>4. v \in ReachedOnes
    BY <2>1, <2>2, <2>3, UnreachedFacts, TrueFacts DEF ReachedOnes
  <2>5. TrueKey(v)' = TrueKey(v) /\ (v \in Finals => Key(v)' = Key(v))
    BY <2>1, <1>1 DEF Improves
  <2>6. Key(u) < CandKey(u, v)
    BY CandFacts DEF Relaxes
  <2> QED BY <2>1, <2>4, <2>5, <2>6, <1>2, <1>3
<1>5. \A v \in Vertex : Key(v)' <= Key(v)
  BY <1>1 DEF Improves
<1> QED BY <1>1, <1>2, <1>3, <1>4, <1>5

(* Relaxing from u in FindPivots: the chains whose end was u now end one    *)
(* vertex later.                                                            *)
LEMMA GrownNext ==
  ASSUME Ground, LabelsOk, NEW f, NEW u \in f.todo, NEW R, u \in Vertex,
         f.round \in Nat, f.b \in Nat,
         R = {v \in Succ(u) : Passes(u, v)}, Relaxes(u, R), Improves, Grown(f),
         settled \subseteq Finals, NEW i, NEW g, f.pc = "expand",
         \A x \in f.S : x \in Near(f),
         NearCovered(i, f),
         g.S = f.S, g.W = f.W, g.b = f.b, g.round = f.round, f.todo \subseteq f.W,
         g.todo = f.todo \ {u}, g.next = f.next \cup {v \in R : CandKey(u, v) < f.b}
  PROVE  Grown(g)'
<1>1. Near(g)' = Near(f) /\ Near(f) \subseteq ReachedOnes
  BY NearStays DEF Near
<1>2. \A v \in ReachedOnes : /\ v \in Vertex /\ PathTo(v) \subseteq ReachedOnes
                             /\ PathTo(v)' = PathTo(v) /\ v \in PathTo(v)
  BY PathIs DEF Improves, ReachedOnes
<1>3. \A z \in ReachedOnes : \A y : Chain(y, z)' = Chain(y, z)
  BY <1>2 DEF Chain
<1> SUFFICES ASSUME NEW y \in f.S, y \in Finals', PathTo(y) \cap f.S \cap Finals' = {y},
                    NEW v \in Near(f), y \in PathTo(v)
             PROVE  \/ v \in Finals' /\ v \in g.W \cup g.next
                    \/ \E z \in PathTo(v) :
                         /\ y \in PathTo(z)
                         /\ Chain(y, z) \subseteq Finals' \cap (g.W \cup g.next)
                         /\ \/ z \in g.todo /\ Cardinality(Chain(y, z)) >= g.round
                            \/ z \in g.next /\ Cardinality(Chain(y, z)) >= g.round + 1
  BY <1>1, <1>2, <1>3 DEF Grown
<1>4. y \in Finals
  <2> SUFFICES ASSUME y \notin Finals PROVE FALSE
    OBVIOUS
  <2>1. Covered(y, f)
    BY DEF NearCovered
  <2>2. PICK x \in PathTo(y) : x \in Finals /\ x \in f.S
    BY <2>1 DEF Covered, Active
  <2> QED BY <2>2 DEF Improves
<1>5. PathTo(y) \cap f.S \cap Finals = {y}
  BY <1>1, <1>2, <1>4 DEF Improves
<1>6. CASE v \in Finals /\ v \in f.W \cup f.next
  BY <1>6 DEF Improves
<1>7. ASSUME NEW z \in PathTo(v), y \in PathTo(z), Chain(y, z) \subseteq Finals \cap (f.W \cup f.next),
             \/ z \in f.todo /\ Cardinality(Chain(y, z)) >= f.round
             \/ z \in f.next /\ Cardinality(Chain(y, z)) >= f.round + 1
      PROVE  \/ v \in Finals' /\ v \in g.W \cup g.next
             \/ \E x \in PathTo(v) :
                  /\ y \in PathTo(x)
                  /\ Chain(y, x) \subseteq Finals' \cap (g.W \cup g.next)
                  /\ \/ x \in g.todo /\ Cardinality(Chain(y, x)) >= g.round
                     \/ x \in g.next /\ Cardinality(Chain(y, x)) >= g.round + 1
  <2>1. Chain(y, z) \subseteq Finals' \cap (g.W \cup g.next) /\ z \in ReachedOnes
    BY <1>1, <1>2, <1>7 DEF Improves
  <2>2. CASE \/ z # u /\ z \in f.todo /\ Cardinality(Chain(y, z)) >= f.round
             \/ z \in f.next /\ Cardinality(Chain(y, z)) >= f.round + 1
    <3>1. \/ z \in g.todo /\ Cardinality(Chain(y, z)) >= g.round
          \/ z \in g.next /\ Cardinality(Chain(y, z)) >= g.round + 1
      BY <2>2
    <3> QED BY <2>1, <3>1, <1>7
  <2>3. CASE z = u /\ z \in f.todo /\ Cardinality(Chain(y, z)) >= f.round
    <3>1. u \in Finals /\ u \in ReachedOnes
      BY <2>1, <2>3, <1>7, ChainFacts
    <3>2. CASE v = u
      BY <3>1, <3>2 DEF Improves
    <3>3. CASE v # u
      <4>1. PICK x \in PathTo(v) : x # Source /\ Parent(x) = u
        BY <3>3, <2>3, <1>1, NextOnPath
      <4>2. x \in ReachedOnes /\ v \in ReachedOnes
        BY <1>1, <1>2
      <4>3. Code(Parent(x)) = best[Parent(x)]
        BY <4>1, <3>1, FinalFacts
      <4>4. /\ x \in Succ(u) /\ Passes(u, x) /\ CandKey(u, x) = TrueKey(x)
            /\ (Relaxes(u, R) /\ x \in R => x \in Finals')
        BY <4>1, <4>2, <4>3, NextFinal
      <4>5. x \in R /\ x \in Finals'
        BY <4>4
      <4>6. TrueKey(x) <= TrueKey(v) /\ TrueKey(v) < f.b
        BY <4>2, PathKeys DEF Near
      <4>7. x \in g.next
        <5>1. TrueKey(x) \in Nat /\ TrueKey(v) \in Nat
          BY <4>2, TrueFacts DEF ReachedOnes
        <5>2. CandKey(u, x) < f.b
          BY <5>1, <4>4, <4>6
        <5> QED BY <5>2, <4>5
      <4>8. /\ y \in PathTo(x) /\ Chain(y, x) = Chain(y, u) \cup {x}
            /\ Cardinality(Chain(y, x)) = Cardinality(Chain(y, u)) + 1
        BY <4>1, <4>2, <2>3, <1>7, ChainGrows
      <4>9. Cardinality(Chain(y, u)) \in Nat /\ Cardinality(Chain(y, u)) >= f.round
        BY <3>1, <2>3, <1>7, ChainFacts
      <4>10. Cardinality(Chain(y, x)) >= g.round + 1
        BY <4>8, <4>9
      <4> QED BY <4>1, <4>5, <4>7, <4>8, <4>10, <2>1, <2>3, ZenonT(30)
    <3> QED BY <3>2, <3>3
  <2> QED BY <2>2, <2>3, <1>7
<1> QED BY <1>4, <1>5, <1>6, <1>7 DEF Grown

(* A relaxation in FindPivots keeps the invariant.                          *)
LEMMA ExpandStep ==
  ASSUME Ground, IsSeq(stack), Inv, NEW u \in Vertex, Expand(u)
  PROVE  Inv' /\ IsSeq(stack') /\ Ground' /\ Improves
<1>a. PICK n : n = Len(stack)
  OBVIOUS
<1>b. PICK f : f = top
  OBVIOUS
<1>c. PICK R : R = {v \in Succ(u) : Passes(u, v)}
  OBVIOUS
<1>d. PICK g : g = [f EXCEPT !.todo = @ \ {u}, !.next = @ \cup {v \in R : CandKey(u, v) < f.b}]
  OBVIOUS
<1>1. /\ n > 0 /\ f.pc = "expand" /\ u \in f.todo
      /\ Relabel(u, R) /\ SetTop(g) /\ wt' = wt /\ prm' = prm /\ best' = best /\ settled' = settled
  BY <1>a, <1>b, <1>c, <1>d DEF Expand, At, run
<1>2. /\ n \in Nat \ {0} /\ n \in 1..n /\ F(n) = f /\ f = stack[n]
      /\ IsFrame(f) /\ CallOk(n, f) /\ ExpandOk(f)
      /\ NearCovered(n, f) /\ BehindCovered(f)
      /\ Low(n) \in Nat
      /\ \A v \in settled : Key(v) < Low(n)
      /\ LabelsOk /\ settled \subseteq Finals
      /\ \A x \in f.S \cup f.W \cup f.next \cup f.U \cup f.todo \cup f.fresh :
           /\ x \in ReachedOnes /\ x \in Vertex /\ Key(x) \in Nat
  BY <1>1, <1>a, <1>b, TopCall DEF Floor
<1>3. /\ g.pc = "expand" /\ g.l = f.l /\ g.b = f.b /\ g.S = f.S /\ g.round = f.round
      /\ g.todo = f.todo \ {u} /\ g.next = f.next \cup {v \in R : CandKey(u, v) < f.b}
      /\ g.W = f.W /\ g.D = f.D /\ g.U = f.U /\ g.last = f.last /\ g.bi = f.bi
      /\ g.fresh = f.fresh /\ g.Kept = f.Kept /\ g.heap = f.heap /\ IsFrame(g)
  BY <1>1, <1>2, <1>d DEF IsFrame, Fields
<1>4. Relaxes(u, R) /\ R = {v \in Succ(u) : Passes(u, v)}
  BY <1>1, <1>c DEF Relaxes
<1>5. Low(n) <= Key(u)
  BY <1>1, <1>2 DEF CallOk
<1>6. /\ Improves /\ Ground' /\ LabelsOk'
      /\ \A v \in Vertex : Key(v)' \in Nat /\ Key(v)' <= Key(v)
      /\ \A v \in Vertex : Key(v)' = Key(v) \/ Low(n) <= Key(v)'
      /\ \A v \in Vertex : v \notin R => pred'[v] = pred[v]
      /\ \A v \in R : /\ Key(v)' = CandKey(u, v) /\ pred'[v] = u
                      /\ v \in ReachedOnes /\ Low(n) <= CandKey(u, v)
  BY <1>1, <1>2, <1>4, <1>5, RelaxAbove
<1>7. /\ Len(stack)' = n /\ Low(n)' = Low(n)
  BY <1>1, <1>2, <1>3, <1>a, TopIs
<1>8. Carries(f, g)
  <2> SUFFICES ASSUME NEW v \in Near(f), Covered(v, f) PROVE Covered(v, g)'
    BY DEF Carries
  <2>1. Covered(v, f)'
    BY <1>6, CoveredStays DEF Near
  <2>2. \A y : Active(y, f)' => Active(y, g)'
    BY <1>1, <1>3 DEF Active
  <2> QED BY <2>1, <2>2 DEF Covered
<1>9. \A x \in f.S : x \in Near(f)
  BY <1>2, FrameSets
<1>10. CallOk(n, g)'
  <2>1. g.S \cup g.W \cup g.next \cup g.U \cup g.todo \cup g.fresh \subseteq ReachedOnes'
    <3>1. g.S \cup g.W \cup g.next \cup g.U \cup g.todo \cup g.fresh \subseteq ReachedOnes
      BY <1>2, <1>3, <1>6 DEF CallOk
    <3> QED BY <3>1, <1>6 DEF Improves
  <2>2. ASSUME NEW x \in g.S PROVE Key(x)' < g.b
    <3>1. x \in Vertex /\ Key(x) < f.b /\ Key(x) \in Nat /\ f.b \in Nat
      BY <1>2, <1>3 DEF CallOk, IsFrame
    <3>2. Key(x)' <= Key(x) /\ Key(x)' \in Nat
      BY <3>1, <1>6
    <3> QED BY <3>1, <3>2, <1>3
  <2>3. ASSUME NEW x \in g.S \cup g.W \cup g.next \cup g.U \cup g.todo PROVE Low(n) <= Key(x)'
    <3>1. CASE x \in R
      BY <3>1, <1>6
    <3>2. CASE x \notin R
      <4>1. x \in f.S \cup f.W \cup f.next \cup f.U \cup f.todo
        BY <3>2, <1>3
      <4>2. Low(n) <= Key(x) /\ x \in Vertex
        BY <4>1, <1>2 DEF CallOk
      <4> QED BY <4>2, <1>6
    <3> QED BY <3>1, <3>2
  <2> QED BY <2>1, <2>2, <2>3, <1>1, <1>2, <1>3, <1>7 DEF CallOk
<1>11. ExpandOk(g)'
  <2>1. Grown(g)'
    <3>1. Grown(f) /\ f.todo \subseteq f.W
      BY <1>1, <1>2 DEF ExpandOk
    <3>2. f.round \in Nat /\ f.b \in Nat
      BY <1>2 DEF IsFrame
    <3> QED BY <3>1, <3>2, <1>1, <1>2, <1>3, <1>4, <1>6, <1>9, GrownNext
  <2>2. ASSUME NEW x \in (g.W \cup g.next) \ g.S PROVE pred'[x] \in g.W
    <3>1. CASE x \in R
      BY <3>1, <1>1, <1>2, <1>3, <1>6 DEF ExpandOk
    <3>2. CASE x \notin R
      <4>1. x \in (f.W \cup f.next) \ f.S /\ x \in Vertex
        BY <3>2, <1>2, <1>3
      <4>2. pred[x] \in f.W
        BY <4>1, <1>1, <1>2 DEF ExpandOk
      <4> QED BY <3>2, <4>1, <4>2, <1>3, <1>6
    <3> QED BY <3>1, <3>2
  <2> QED BY <2>1, <2>2, <1>1, <1>2, <1>3 DEF ExpandOk
<1>12. FrameOk(n, g)'
  <2>1. IsFrame(g)' /\ LoopOk(n, g)' /\ PulledOk(g)' /\ WaitOk(n, g)' /\ BaseOk(n, g)'
    BY <1>3 DEF IsFrame, LoopOk, PulledOk, WaitOk, BaseOk
  <2> QED BY <2>1, <1>10, <1>11 DEF FrameOk
<1>13. EntriesCovered(g)'
  BY <1>1, <1>2, <1>3 DEF EntriesCovered, Entries, ExpandOk
<1>14. Held(f) \subseteq Held(g) /\ \A v \in settled : Key(v) < Floor(g)'
  BY <1>1, <1>2, <1>3, <1>7 DEF Held, Floor
<1>15. g.pc # "wait"
  BY <1>3
<1> QED BY <1>a, <1>1, <1>2, <1>3, <1>6, <1>8, <1>12, <1>13, <1>14, <1>15, TopStep

-----------------------------------------------------------------------------
(* FindPivots: the end of a round.                                         *)

(* The digits of a number are unique.                                       *)
LEMMA DigitsAre ==
  ASSUME NEW M \in Nat, NEW a \in Nat, NEW c \in Nat, NEW b \in 0..(M - 1), NEW d \in 0..(M - 1),
         a * M + b = c * M + d
  PROVE  a = c /\ b = d
<1>1. a < c => a * M + b < c * M + d
  OBVIOUS
<1>2. c < a => c * M + d < a * M + b
  OBVIOUS
<1>3. a * M + b \in Nat
  OBVIOUS
<1>4. a = c
  BY <1>1, <1>2, <1>3
<1> QED BY <1>4

(* A label of a reached vertex counts fewer than N edges: there are that    *)
(* many vertices with a smaller code.                                       *)
LEMMA HopsSmall ==
  ASSUME Ground, LabelsOk, NEW v \in Vertex
  PROVE  hops[v] \in Nat /\ hops[v] <= N /\ (Code(v) < Unreached => hops[v] < N)
<1>1. hops[v] \in Nat
  BY DEF LabelsOk
<1>2. CASE Code(v) < Unreached
  <2>1. Code(v) \in Nat
    BY KeyFacts
  <2>2. v \notin Before(v) /\ Before(v) \subseteq Vertex
    BY <2>1 DEF Before
  <2>3. Cardinality(Before(v)) < N /\ Cardinality(Before(v)) \in Nat
    BY <2>2, VertexFacts, FS_Subset, FS_CardinalityType
  <2>4. hops[v] <= Cardinality(Before(v))
    BY <1>2 DEF LabelsOk
  <2> QED BY <1>1, <2>3, <2>4, VertexFacts
<1>3. CASE ~ (Code(v) < Unreached)
  BY <1>3, <1>1, VertexFacts DEF LabelsOk
<1> QED BY <1>2, <1>3, <1>1

(* Of a final vertex whose parent is final, the last edge is tight.         *)
LEMMA FinalIsTight ==
  ASSUME Ground, LabelsOk, NEW x \in Finals, x # Source, Parent(x) \in Finals
  PROVE  Tight(x) /\ pred[x] = Parent(x)
<1>1. PICK p \in Vertex : p = Parent(x)
  BY DEF Finals
<1>2. /\ x \in ReachedOnes /\ x \in Vertex /\ Code(x) = best[x] /\ pred[x] = p /\ Code(p) = best[p]
      /\ p \in Nat
  BY <1>1, FinalFacts, VertexFacts
<1>3. /\ <<p, x>> \in DOMAIN wt /\ best[x] = best[p] + Om(wt, p, x) /\ x \in Succ(p)
  BY <1>1, <1>2, ParentFacts DEF Succ
<1>4. /\ Add(dhat[p], wt[<<p, x>>]) = dhat[p] + wt[<<p, x>>] /\ Cand(p, x) = Code(p) + Om(wt, p, x)
      /\ wt[<<p, x>>] \in Nat
  BY <1>3, CandFacts
<1>5. Code(x) = Cand(p, x)
  BY <1>2, <1>3, <1>4
<1>6. /\ dhat[x] \in Nat /\ dhat[p] \in Nat /\ dhat[p] + wt[<<p, x>>] \in Nat
      /\ N \in Nat /\ N + 1 \in Nat /\ (N + 1) - 1 = N
  BY <1>2, <1>4, VertexFacts DEF LabelsOk
<1>7. hops[x] \in 0..N /\ hops[p] + 1 \in 0..N
  <2>1. hops[x] \in Nat /\ hops[x] <= N /\ hops[p] \in Nat
    BY <1>2, HopsSmall
  <2>2. p \in ReachedOnes
    BY <1>1, FinalFacts
  <2>3. Code(p) < Unreached
    BY <1>2, <2>2, TrueFacts DEF ReachedOnes
  <2>4. hops[p] < N
    BY <2>3, HopsSmall
  <2> QED BY <2>1, <2>4, <1>6
<1>8. dhat[x] * (N + 1) + hops[x] = (dhat[p] + wt[<<p, x>>]) * (N + 1) + (hops[p] + 1)
  BY <1>4, <1>5 DEF Code, Cand, PathCode
<1>9. dhat[x] = dhat[p] + wt[<<p, x>>] /\ hops[x] = hops[p] + 1
  <2>1. PICK M \in Nat : M = N + 1
    BY <1>6
  <2>2. PICK a \in Nat : a = dhat[x]
    BY <1>6
  <2>3. PICK c \in Nat : c = dhat[p] + wt[<<p, x>>]
    BY <1>6
  <2>4. PICK b \in 0..(M - 1) : b = hops[x]
    BY <1>6, <1>7, <2>1
  <2>5. PICK d \in 0..(M - 1) : d = hops[p] + 1
    BY <1>6, <1>7, <2>1
  <2>6. a * M + b = c * M + d
    BY <1>8, <2>1, <2>2, <2>3, <2>4, <2>5
  <2>7. a = c /\ b = d
    BY <2>6, DigitsAre
  <2> QED BY <2>2, <2>3, <2>4, <2>5, <2>7
<1> QED BY <1>1, <1>2, <1>3, <1>4, <1>9 DEF Tight

(* The tree of u in the forest holds u and is closed under tight edges.     *)
LEMMA TreeIs ==
  ASSUME NEW W, IsFiniteSet(W), NEW u \in W
  PROVE  /\ Tree(u, W) \subseteq W /\ u \in Tree(u, W)
         /\ \A v \in W : Tight(v) /\ pred[v] \in Tree(u, W) => v \in Tree(u, W)
<1> DEFINE Grow(X) == X \cup {v \in W : Tight(v) /\ pred[v] \in X}
<1> DEFINE step == [X \in SUBSET W |-> Grow(X)]
<1>1. PICK n : n = Cardinality(W)
  OBVIOUS
<1>2. n \in Nat
  BY <1>1, FS_CardinalityType
<1>3. step \in [SUBSET W -> SUBSET W] /\ \A X \in SUBSET W : X \subseteq step[X]
  OBVIOUS
<1>4. PICK f \in [0..n -> SUBSET W] : IsIteration(f, n, {u}, step)
  <2>1. {u} \in SUBSET W
    OBVIOUS
  <2> HIDE DEF step
  <2> QED BY <1>2, <1>3, <2>1, Iterates
<1>5. Tree(u, W) = f[n]
  <2> DEFINE IsBelow(h) ==
        h = [k \in 0..n |-> IF k = 0 THEN {u} ELSE Grow(h[k - 1])]
  <2>1. ASSUME NEW h, IsBelow(h), NEW k \in 0..n
        PROVE  h[k] = IF k = 0 THEN {u} ELSE Grow(h[k - 1])
    BY <2>1
  <2>2. ASSUME NEW k \in 0..n, k # 0 PROVE k - 1 \in 0..n /\ f[k] = Grow(f[k - 1])
    <3>1. k - 1 \in 0..n /\ f[k - 1] \in SUBSET W
      BY <2>2, <1>2, <1>4
    <3>2. f[k] = step[f[k - 1]]
      BY <1>4, <2>2, Zenon DEF IsIteration
    <3> QED BY <3>1, <3>2
  <2>3. 0 \in 0..n /\ f[0] = {u}
    BY <1>2, <1>4 DEF IsIteration
  <2>4. IsBelow(f)
    <3>1. \A k \in 0..n : f[k] = IF k = 0 THEN {u} ELSE Grow(f[k - 1])
      BY <2>2, <2>3
    <3>2. f = [k \in 0..n |-> f[k]]
      BY <1>4
    <3> HIDE DEF Grow
    <3> QED BY <3>1, <3>2, Zenon
  <2>5. ASSUME NEW h, IsBelow(h), h # f PROVE FALSE
    <3> DEFINE T == {k \in 0..n : h[k] # f[k]}
    <3>1. T # {}
      <4>1. h = [k \in 0..n |-> h[k]]
        BY <2>5, Zenon
      <4>2. f = [k \in 0..n |-> f[k]]
        BY <1>4
      <4>3. \E k \in 0..n : h[k] # f[k]
        BY <4>1, <4>2, <2>5, Zenon
      <4> QED BY <4>3
    <3>2. T \subseteq Nat
      OBVIOUS
    <3>3. PICK k \in T : \A m \in T : k <= m
      <4> HIDE DEF T
      <4> QED BY <3>1, <3>2, HasLeast
    <3>4. k \in 0..n /\ h[k] # f[k]
      BY <3>3
    <3>5. k # 0
      BY <3>4, <2>1, <2>5, <2>3
    <3>6. k - 1 \in 0..n /\ k - 1 < k
      BY <3>4, <3>5, <1>2
    <3>7. k - 1 \notin T
      <4> HIDE DEF T
      <4> QED BY <3>2, <3>3, <3>6
    <3>8. h[k - 1] = f[k - 1]
      BY <3>6, <3>7
    <3>9. h[k] = Grow(h[k - 1])
      BY <3>4, <3>5, <2>1, <2>5
    <3> HIDE DEF Grow
    <3> QED BY <3>4, <3>5, <3>8, <3>9, <2>2
  <2>6. (CHOOSE h : IsBelow(h)) = f
    <3>1. IsBelow(CHOOSE h : IsBelow(h))
      <4> HIDE DEF IsBelow
      <4> QED BY <2>4
    <3> HIDE DEF IsBelow
    <3> QED BY <2>5, <3>1
  <2> QED BY <2>6, <1>1, Zenon DEF Tree
<1>6. /\ f[n] \in SUBSET W /\ {u} \subseteq f[n] /\ step[f[n]] = f[n]
  <2>1. {u} \in SUBSET W /\ {u} # {} /\ Cardinality(W) <= n
    BY <1>1, <1>2
  <2> HIDE DEF step
  <2>2. Grows(step, W)
    BY <1>3 DEF Grows
  <2>3. IsLeastAbove(f[n], {u}, step, W)
    BY <2>1, <2>2, <1>2, <1>4, Saturates
  <2> QED BY <2>3 DEF IsLeastAbove
<1> QED BY <1>5, <1>6

(* A vertex of S on the path to one below the bound, the first on it, is a *)
(* pivot unless the rounds have reached the end of the path.               *)
LEMMA PivotCovers ==
  ASSUME Ground, LabelsOk, settled \subseteq Finals,
         NEW i, NEW f, f.pc = "expand", f.todo = {}, f.round \in Nat, f.b \in Nat,
         f.W \cup f.next \subseteq ReachedOnes,
         \A x \in f.S : x \in Near(f),
         NearCovered(i, f),
         \A x \in (f.W \cup f.next) \ f.S : pred[x] \in f.W,
         Grown(f),
         NEW W, W = f.W \cup f.next, NEW m \in Nat, m <= f.round + 1,
         NEW y \in f.S \cap Finals, PathTo(y) \cap f.S \cap Finals = {y},
         NEW v \in Near(f), y \in PathTo(v)
  PROVE  (v \in Finals /\ v \in W) \/ y \in PivotsOf(f.S, W, m)
<1> SUFFICES ASSUME ~ (v \in Finals /\ v \in W)
             PROVE  y \in PivotsOf(f.S, W, m)
  OBVIOUS
<1>1. PICK z \in PathTo(v) : /\ y \in PathTo(z)
                             /\ Chain(y, z) \subseteq Finals \cap W
                             /\ Cardinality(Chain(y, z)) >= f.round + 1
  BY DEF Grown
<1>2. /\ v \in ReachedOnes /\ z \in ReachedOnes /\ y \in ReachedOnes /\ y \in Vertex
      /\ PathTo(y) \subseteq ReachedOnes /\ y \in Near(f)
  <2>1. v \in ReachedOnes
    BY DEF Near
  <2>2. z \in ReachedOnes /\ y \in ReachedOnes
    BY <2>1, <1>1, PathTrans
  <2> QED BY <2>1, <2>2, PathIs DEF ReachedOnes
<1>3. IsFiniteSet(W)
  BY VertexFacts, FS_Subset DEF ReachedOnes
<1>4. /\ IsFiniteSet(Chain(y, z)) /\ Cardinality(Chain(y, z)) \in Nat
      /\ y \in Chain(y, z) /\ Chain(y, z) \subseteq ReachedOnes
  BY <1>1, <1>2, ChainFacts
<1>5. /\ Tree(y, W) \subseteq W /\ y \in Tree(y, W)
      /\ \A x \in W : Tight(x) /\ pred[x] \in Tree(y, W) => x \in Tree(y, W)
  BY <1>1, <1>3, <1>4, TreeIs
<1>6. Chain(y, z) \subseteq Tree(y, W)
  <2> SUFFICES ASSUME ~ (Chain(y, z) \subseteq Tree(y, W)) PROVE FALSE
    OBVIOUS
  <2>0. PICK X : X = Chain(y, z) \ Tree(y, W)
    OBVIOUS
  <2>1. PICK x \in X : PathTo(x) \cap X = {x}
    <3>1. PathTo(z) \cap X # {} /\ PathTo(z) \cap X \subseteq X
      BY <2>0 DEF Chain
    <3>2. z \in ReachedOnes /\ PathTo(z) \cap X # {}
      BY <3>1, <1>2
    <3>3. \E q \in PathTo(z) \cap X : PathTo(q) \cap X = {q}
      BY <3>2, FirstOnPath
    <3> QED BY <3>1, <3>3
  <2>2. x \in PathTo(z) /\ y \in PathTo(x) /\ x # y /\ x \in ReachedOnes /\ x \in Finals /\ x \in W
    BY <2>0, <1>1, <1>4, <1>5 DEF Chain
  <2>3. x # Source /\ y \in PathTo(Parent(x))
    BY <2>2, ChainFacts
  <2>4. Parent(x) \in PathTo(x) /\ Parent(x) \in PathTo(z) /\ Parent(x) # x
    <3>1. Parent(x) \in PathTo(x) /\ PathTo(x) \subseteq PathTo(z)
      BY <2>2, <2>3, <1>2, PathIs, PathTrans
    <3>2. TrueKey(Parent(x)) < TrueKey(x) /\ TrueKey(x) \in Nat
      BY <2>2, <2>3, ParentFacts, TrueFacts DEF ReachedOnes
    <3> QED BY <3>1, <3>2
  <2>5. Parent(x) \in Chain(y, z)
    BY <2>3, <2>4 DEF Chain
  <2>6. Parent(x) \in Tree(y, W) /\ Parent(x) \in Finals
    BY <2>0, <2>1, <2>4, <2>5, <1>1
  <2>7. Tight(x) /\ pred[x] = Parent(x)
    BY <2>2, <2>3, <2>6, FinalIsTight
  <2> QED BY <2>0, <2>2, <2>6, <2>7, <1>5
<1>7. Cardinality(Tree(y, W)) >= m
  <2>1. IsFiniteSet(Tree(y, W))
    BY <1>3, <1>5, FS_Subset
  <2>2. Cardinality(Chain(y, z)) <= Cardinality(Tree(y, W)) /\ Cardinality(Tree(y, W)) \in Nat
    BY <2>1, <1>6, FS_Subset, FS_CardinalityType
  <2> QED BY <2>2, <1>1, <1>4
<1>8. ~ (Tight(y) /\ pred[y] \in W)
  <2> SUFFICES ASSUME Tight(y), pred[y] \in W PROVE FALSE
    OBVIOUS
  <2>1. y # Source
    <3>1. pred[y] # -1
      BY VertexFacts DEF Tight
    <3> QED BY <3>1, <1>2 DEF LabelsOk
  <2>2. ASSUME NEW x \in PathTo(y), x # y
        PROVE  x \in Finals /\ x \notin f.S
    <3>1. x \in ReachedOnes /\ TrueKey(x) < TrueKey(y) /\ TrueKey(y) < f.b
          /\ TrueKey(x) \in Nat /\ TrueKey(y) \in Nat /\ PathTo(x) \subseteq PathTo(y)
          /\ TrueKey(x) <= TrueKey(y)
      BY <2>2, <1>2, PathKeys, PathTrans, TrueFacts DEF Near, ReachedOnes
    <3>2. x \in Near(f)
      BY <3>1 DEF Near
    <3>3. ~ Covered(x, f)
      <4> SUFFICES ASSUME NEW w \in PathTo(x), Active(w, f) PROVE FALSE
        BY DEF Covered
      <4>1. w \in Finals /\ w \in f.S
        BY DEF Active
      <4>2. w = y
        BY <4>1, <3>1
      <4>3. TrueKey(y) <= TrueKey(x)
        BY <4>2, <3>1, PathKeys
      <4> QED BY <4>3, <3>1
    <3>4. x \in Finals
      BY <3>2, <3>3 DEF NearCovered
    <3> QED BY <3>4, <2>2
  <2>0. PICK X : X = {x \in PathTo(y) : x # y /\ x \in W}
    OBVIOUS
  <2>3. Parent(y) \in X
    <3>1. pred[y] = Parent(y)
      BY <2>1, FinalFacts
    <3>2. Parent(y) \in PathTo(y) /\ TrueKey(Parent(y)) < TrueKey(y) /\ TrueKey(y) \in Nat
      BY <2>1, <1>2, PathIs, ParentFacts, TrueFacts
    <3> QED BY <2>0, <3>1, <3>2
  <2>4. PICK x \in X : PathTo(x) \cap X = {x}
    <3>1. PathTo(y) \cap X # {} /\ PathTo(y) \cap X \subseteq X
      BY <2>0, <2>3
    <3>2. y \in ReachedOnes /\ PathTo(y) \cap X # {}
      BY <3>1, <1>2
    <3>3. \E q \in PathTo(y) \cap X : PathTo(q) \cap X = {q}
      BY <3>2, FirstOnPath
    <3> QED BY <3>1, <3>3
  <2>5. x \in Finals /\ x \notin f.S /\ x \in W /\ x \in ReachedOnes /\ x \in PathTo(y)
    BY <2>0, <2>2, <2>4, <1>2
  <2>6. pred[x] \in f.W
    BY <2>5
  <2>7. x # Source
    <3>1. pred[x] # -1 /\ x \in Vertex
      BY <2>6, <2>5, VertexFacts DEF ReachedOnes
    <3> QED BY <3>1 DEF LabelsOk
  <2>8. pred[x] = Parent(x) /\ Parent(x) \in W
    BY <2>5, <2>6, <2>7, FinalFacts
  <2>9. Parent(x) \in PathTo(x) /\ Parent(x) \in PathTo(y) /\ TrueKey(Parent(x)) < TrueKey(x)
        /\ TrueKey(x) \in Nat /\ TrueKey(x) <= TrueKey(y) /\ TrueKey(y) \in Nat
    <3>1. Parent(x) \in PathTo(x) /\ PathTo(x) \subseteq PathTo(y)
      BY <2>5, <2>7, <1>2, PathIs, PathTrans
    <3>2. TrueKey(Parent(x)) < TrueKey(x)
      BY <2>5, <2>7, ParentFacts
    <3>3. TrueKey(x) <= TrueKey(y) /\ TrueKey(x) \in Nat /\ TrueKey(y) \in Nat
      BY <2>5, <1>2, PathKeys, TrueFacts DEF ReachedOnes
    <3> QED BY <3>1, <3>2, <3>3
  <2>10. Parent(x) # y /\ Parent(x) # x
    BY <2>9
  <2> QED BY <2>0, <2>4, <2>8, <2>9, <2>10
<1> QED BY <1>7, <1>8 DEF PivotsOf

(* The next round of FindPivots keeps the invariant.                        *)
LEMMA NextRoundStep ==
  ASSUME Ground, IsSeq(stack), Inv, At("expand"), top.todo = {},
         \/ SetTop([top EXCEPT !.round = @ + 1, !.todo = top.next, !.next = {}, !.W = @ \cup top.next])
         \/ SetTop([top EXCEPT !.round = @ + 1, !.todo = top.next, !.next = {}, !.W = @ \cup top.next,
                               !.width = Cardinality(top.next)]),
         UNCHANGED <<run, labels, settled, result>>
  PROVE  Inv' /\ IsSeq(stack') /\ Ground' /\ Improves
<1>a. PICK n : n = Len(stack)
  OBVIOUS
<1>b. PICK f : f = top
  OBVIOUS
<1>c. PICK g : /\ SetTop(g)
               /\ \/ g = [f EXCEPT !.round = @ + 1, !.todo = f.next, !.next = {}, !.W = @ \cup f.next]
                  \/ g = [f EXCEPT !.round = @ + 1, !.todo = f.next, !.next = {}, !.W = @ \cup f.next,
                                   !.width = Cardinality(f.next)]
  BY <1>b
<1>1. n > 0 /\ f.pc = "expand" /\ f.todo = {} /\ SetTop(g) /\ settled' = settled
  BY <1>a, <1>b, <1>c DEF At
<1>2. /\ n \in Nat \ {0} /\ n \in 1..n /\ F(n) = f /\ f = stack[n]
      /\ IsFrame(f) /\ CallOk(n, f) /\ ExpandOk(f)
      /\ NearCovered(n, f) /\ BehindCovered(f)
      /\ Low(n) \in Nat
      /\ \A v \in settled : Key(v) < Low(n)
      /\ LabelsOk /\ settled \subseteq Finals
      /\ \A x \in f.S \cup f.W \cup f.next \cup f.U \cup f.todo \cup f.fresh : x \in Vertex
  BY <1>1, <1>a, <1>b, TopCall DEF Floor
<1>3. /\ g.pc = "expand" /\ g.l = f.l /\ g.b = f.b /\ g.S = f.S /\ g.round = f.round + 1
      /\ g.todo = f.next /\ g.next = {} /\ g.W = f.W \cup f.next
      /\ g.D = f.D /\ g.U = f.U /\ g.last = f.last /\ g.bi = f.bi
      /\ g.fresh = f.fresh /\ g.Kept = f.Kept /\ g.heap = f.heap /\ IsFrame(g)
  <2>1. CASE g = [f EXCEPT !.round = @ + 1, !.todo = f.next, !.next = {}, !.W = @ \cup f.next]
    BY <2>1, <1>1, <1>2 DEF IsFrame, Fields
  <2>2. CASE g = [f EXCEPT !.round = @ + 1, !.todo = f.next, !.next = {}, !.W = @ \cup f.next,
                           !.width = Cardinality(f.next)]
    BY <2>2, <1>1, <1>2 DEF IsFrame, Fields
  <2> QED BY <2>1, <2>2, <1>c
<1>4. /\ Improves /\ Ground' /\ LabelsOk' /\ Finals' = Finals
      /\ \A v \in Vertex : Key(v)' = Key(v) /\ pred'[v] = pred[v]
  BY <1>2, SameImproves
<1>5. Len(stack)' = n /\ Low(n)' = Low(n)
  BY <1>1, <1>2, <1>3, <1>a, TopIs
<1>6. Carries(f, g)
  <2> SUFFICES ASSUME NEW v \in Near(f), Covered(v, f) PROVE Covered(v, g)'
    BY DEF Carries
  <2>1. Covered(v, f)'
    BY <1>4, CoveredStays DEF Near
  <2>2. \A y : Active(y, f)' => Active(y, g)'
    BY <1>1, <1>3 DEF Active
  <2> QED BY <2>1, <2>2 DEF Covered
<1>7. CallOk(n, g)'
  <2>1. ASSUME NEW x \in g.S PROVE Key(x)' < g.b
    BY <1>2, <1>3, <1>4 DEF CallOk
  <2>2. ASSUME NEW x \in g.S \cup g.W \cup g.next \cup g.U \cup g.todo PROVE Low(n) <= Key(x)'
    BY <1>2, <1>3, <1>4 DEF CallOk
  <2>3. g.S \cup g.W \cup g.next \cup g.U \cup g.todo \cup g.fresh \subseteq ReachedOnes'
    BY <1>2, <1>3, <1>4 DEF CallOk, Improves
  <2> QED BY <2>1, <2>2, <2>3, <1>1, <1>2, <1>3, <1>4, <1>5 DEF CallOk, Improves
<1>8. ExpandOk(g)'
  <2>1. ASSUME NEW x \in (g.W \cup g.next) \ g.S PROVE pred'[x] \in g.W
    BY <1>1, <1>2, <1>3, <1>4 DEF ExpandOk
  <2>2. Grown(g)'
    <3>1. Near(g)' = Near(f) /\ Near(f) \subseteq ReachedOnes
      BY <1>3, <1>4, NearStays DEF Near
    <3>2. \A v \in ReachedOnes : /\ v \in Vertex /\ PathTo(v) \subseteq ReachedOnes
                                 /\ PathTo(v)' = PathTo(v)
      BY <1>4, PathIs DEF Improves, ReachedOnes
    <3>3. \A z \in ReachedOnes : \A y : Chain(y, z)' = Chain(y, z)
      BY <3>2 DEF Chain
    <3>4. ASSUME NEW y \in f.S, y \in Finals, PathTo(y) \cap f.S \cap Finals = {y},
                 NEW v \in Near(f), y \in PathTo(v)
          PROVE  \/ v \in Finals /\ v \in g.W \cup g.next
                 \/ \E z \in PathTo(v) :
                      /\ y \in PathTo(z)
                      /\ Chain(y, z) \subseteq Finals \cap (g.W \cup g.next)
                      /\ \/ z \in g.todo /\ Cardinality(Chain(y, z)) >= g.round
                         \/ z \in g.next /\ Cardinality(Chain(y, z)) >= g.round + 1
      <4>1. Grown(f)
        BY <1>1, <1>2 DEF ExpandOk
      <4>2. \/ v \in Finals /\ v \in f.W \cup f.next
            \/ \E z \in PathTo(v) :
                 /\ y \in PathTo(z)
                 /\ Chain(y, z) \subseteq Finals \cap (f.W \cup f.next)
                 /\ \/ z \in f.todo /\ Cardinality(Chain(y, z)) >= f.round
                    \/ z \in f.next /\ Cardinality(Chain(y, z)) >= f.round + 1
        BY <4>1, <3>4 DEF Grown
      <4> QED BY <4>2, <1>1, <1>3
    <3>5. \A y \in f.S : y \in ReachedOnes
      BY <1>2 DEF CallOk
    <3> QED BY <3>1, <3>2, <3>3, <3>4, <3>5, <1>3, <1>4 DEF Grown
  <2>3. g.U = {} /\ g.D = {} /\ g.todo \subseteq g.W
    BY <1>1, <1>2, <1>3 DEF ExpandOk
  <2> QED BY <2>1, <2>2, <2>3 DEF ExpandOk
<1>9. FrameOk(n, g)'
  <2>1. IsFrame(g)' /\ LoopOk(n, g)' /\ PulledOk(g)' /\ WaitOk(n, g)' /\ BaseOk(n, g)'
    BY <1>3 DEF IsFrame, LoopOk, PulledOk, WaitOk, BaseOk
  <2> QED BY <2>1, <1>7, <1>8 DEF FrameOk
<1>10. EntriesCovered(g)'
  BY <1>1, <1>2, <1>3 DEF EntriesCovered, Entries, ExpandOk
<1>11. Held(f) \subseteq Held(g) /\ \A v \in settled : Key(v) < Floor(g)'
  BY <1>1, <1>2, <1>3, <1>5 DEF Held, Floor
<1>12. g.pc # "wait"
  BY <1>3
<1> QED BY <1>a, <1>1, <1>2, <1>3, <1>4, <1>6, <1>9, <1>10, <1>11, <1>12, TopStep

(* FindPivots ends: a vertex that S covers is covered by the pivots, or W  *)
(* holds it.                                                               *)
LEMMA StartLoopStep ==
  ASSUME Ground, IsSeq(stack), Inv, At("expand"), top.todo = {},
         NEW W, W = top.W \cup top.next, NEW m \in Nat, m <= top.round + 1,
         NEW P, P = top.S \/ P = PivotsOf(top.S, W, m),
         StartLoop(P, W),
         UNCHANGED <<run, labels, settled, result>>
  PROVE  Inv' /\ IsSeq(stack') /\ Ground' /\ Improves
<1>a. PICK n : n = Len(stack)
  OBVIOUS
<1>b. PICK f : f = top
  OBVIOUS
<1>k. PICK keys : keys = {Key(x) : x \in P}
  OBVIOUS
<1>l. PICK first \in keys \cup {f.b} :
        /\ IsMinOr(first, keys, f.b)
        /\ SetTop([f EXCEPT
             !.pc = "loop", !.todo = {}, !.next = {}, !.W = W, !.D = keys, !.last = first])
  BY <1>b, <1>k DEF StartLoop
<1>c. PICK g : g = [f EXCEPT
             !.pc = "loop", !.todo = {}, !.next = {}, !.W = W, !.D = keys, !.last = first]
  OBVIOUS
<1>1. n > 0 /\ f.pc = "expand" /\ f.todo = {} /\ SetTop(g) /\ settled' = settled
  BY <1>a, <1>b, <1>l, <1>c DEF At
<1>2. /\ n \in Nat \ {0} /\ n \in 1..n /\ F(n) = f /\ f = stack[n]
      /\ IsFrame(f) /\ CallOk(n, f) /\ ExpandOk(f)
      /\ NearCovered(n, f) /\ BehindCovered(f)
      /\ Low(n) \in Nat
      /\ \A v \in settled : Key(v) < Low(n)
      /\ LabelsOk /\ settled \subseteq Finals
      /\ \A x \in f.S \cup f.W \cup f.next \cup f.U \cup f.todo \cup f.fresh :
           /\ x \in ReachedOnes /\ x \in Vertex /\ Key(x) \in Nat
  BY <1>1, <1>a, <1>b, TopCall DEF Floor
<1>d. P \subseteq f.S /\ W = f.W \cup f.next
  BY <1>b DEF PivotsOf
<1>e. /\ f.b \in Nat /\ Low(n) < f.b /\ f.round \in Nat /\ f.l # 0
      /\ \A x \in f.S : Key(x) < f.b /\ Low(n) <= Key(x) /\ Key(x) \in Nat
  BY <1>1, <1>2 DEF CallOk, IsFrame
<1>f. keys \subseteq Nat /\ \A r \in keys : Low(n) <= r /\ r < f.b
  BY <1>d, <1>e, <1>k
<1>h. first \in Nat /\ Low(n) <= first /\ first <= f.b /\ \A r \in keys : first <= r
  <2>1. (keys = {} /\ first = f.b) \/ (first \in keys /\ \A r \in keys : first <= r)
    BY <1>l DEF IsMinOr
  <2>2. CASE keys = {} /\ first = f.b
    BY <2>2, <1>2, <1>e
  <2>3. CASE first \in keys /\ \A r \in keys : first <= r
    BY <2>3, <1>2, <1>e, <1>f
  <2> QED BY <2>1, <2>2, <2>3
<1>3. /\ g.pc = "loop" /\ g.l = f.l /\ g.b = f.b /\ g.S = f.S /\ g.round = f.round
      /\ g.todo = {} /\ g.next = {} /\ g.W = W
      /\ g.D = keys /\ g.U = f.U /\ g.last = first /\ g.bi = f.bi
      /\ g.fresh = f.fresh /\ g.Kept = f.Kept /\ g.heap = f.heap /\ IsFrame(g)
  BY <1>1, <1>2, <1>c, <1>f, <1>h DEF IsFrame, Fields
<1>4. /\ Improves /\ Ground' /\ LabelsOk' /\ Finals' = Finals
      /\ \A v \in Vertex : Key(v)' = Key(v) /\ pred'[v] = pred[v]
  BY <1>2, SameImproves
<1>5. Len(stack)' = n /\ Low(n)' = Low(n)
  BY <1>1, <1>2, <1>3, <1>a, TopIs
<1>i. ASSUME NEW y \in P, y \in Finals PROVE Active(y, g)'
  <2>1. Key(y) = TrueKey(y) /\ y \in Vertex
    BY <1>2, <1>i, FinalFacts
  <2>2. TrueKey(y)' \in keys
    BY <2>1, <1>4, <1>k DEF Improves
  <2> QED BY <2>2, <1>i, <1>3, <1>4 DEF Active
<1>6. Carries(f, g)
  <2> SUFFICES ASSUME NEW v \in Near(f), Covered(v, f)
               PROVE  Covered(v, g)' \/ (v \in Finals' /\ v \in Held(g))
    BY DEF Carries
  <2>1. v \in ReachedOnes /\ v \in Vertex
    BY DEF Near, ReachedOnes
  <2>2. PICK X : X = f.S \cap Finals
    OBVIOUS
  <2>3. PathTo(v) \cap X # {}
    BY <2>2, <1>1 DEF Covered, Active
  <2>4. \E q \in PathTo(v) \cap X : PathTo(q) \cap X = {q}
    BY <2>1, <2>3, FirstOnPath
  <2>5. PICK y \in PathTo(v) \cap X : PathTo(y) \cap X = {y}
    BY <2>4
  <2>6. y \in f.S \cap Finals /\ PathTo(y) \cap f.S \cap Finals = {y}
    BY <2>2, <2>5
  <2>7. PathTo(v)' = PathTo(v)
    BY <2>1, <1>4 DEF Improves
  <2>8. CASE y \in P
    <3>1. Active(y, g)'
      BY <2>6, <2>8, <1>i
    <3> QED BY <3>1, <2>5, <2>7 DEF Covered
  <2>9. CASE y \notin P
    <3>1. P = PivotsOf(f.S, W, m)
      BY <2>6, <2>9, <1>b
    <3>2. \A x \in f.S : x \in Near(f)
      BY <1>2, FrameSets
    <3>3. f.W \cup f.next \subseteq ReachedOnes
      BY <1>2
    <3>4. Grown(f) /\ \A x \in (f.W \cup f.next) \ f.S : pred[x] \in f.W
      BY <1>1, <1>2 DEF ExpandOk
    <3>5. m <= f.round + 1
      BY <1>b
    <3>6. v \in Finals /\ v \in W
      BY <2>5, <2>6, <2>9, <3>1, <3>2, <3>3, <3>4, <3>5, <1>1, <1>2, <1>d, <1>e, PivotCovers
    <3> QED BY <3>6, <1>3, <1>4 DEF Held
  <2> QED BY <2>8, <2>9
<1>7. CallOk(n, g)'
  <2>1. ASSUME NEW x \in g.S PROVE Key(x)' < g.b
    BY <1>2, <1>3, <1>4 DEF CallOk
  <2>2. ASSUME NEW x \in g.S \cup g.W \cup g.next \cup g.U \cup g.todo PROVE Low(n) <= Key(x)'
    BY <1>2, <1>3, <1>4, <1>d DEF CallOk
  <2>3. g.S \cup g.W \cup g.next \cup g.U \cup g.todo \cup g.fresh \subseteq ReachedOnes'
    BY <1>2, <1>3, <1>4, <1>d DEF CallOk, Improves
  <2> QED BY <2>1, <2>2, <2>3, <1>1, <1>2, <1>3, <1>4, <1>5 DEF CallOk, Improves
<1>8. LoopOk(n, g)'
  BY <1>1, <1>2, <1>3, <1>5, <1>h DEF LoopOk, ExpandOk
<1>9. FrameOk(n, g)'
  <2>1. IsFrame(g)' /\ ExpandOk(g)' /\ PulledOk(g)' /\ WaitOk(n, g)' /\ BaseOk(n, g)'
    BY <1>3 DEF IsFrame, ExpandOk, PulledOk, WaitOk, BaseOk
  <2> QED BY <2>1, <1>7, <1>8 DEF FrameOk
<1>10. EntriesCovered(g)'
  <2> SUFFICES ASSUME NEW r \in keys
               PROVE  /\ r \in Nat /\ r < g.b
                      /\ IdOf[r] \in ReachedOnes' /\ (Key(IdOf[r]) <= r)'
                      /\ IdOf[r] \in settled' \/ Covered(IdOf[r], g)'
    BY <1>3 DEF EntriesCovered, Entries
  <2>1. PICK x \in P : r = Key(x)
    BY <1>k
  <2>2. x \in f.S /\ x \in ReachedOnes /\ x \in Vertex /\ IdOf[r] = x
    BY <2>1, <1>2, <1>d, KeyFacts
  <2>3. x \in Near(f)
    BY <2>2, <1>2, FrameSets
  <2>4. Covered(x, g)'
    <3>1. CASE x \in Finals
      <4>1. Active(x, g)'
        BY <2>1, <3>1, <1>i
      <4>2. x \in PathTo(x)'
        BY <2>2, <1>4, PathIs DEF Improves
      <4> QED BY <4>1, <4>2 DEF Covered
    <3>2. CASE x \notin Finals
      <4>1. Covered(x, f)
        BY <2>3, <3>2, <1>2 DEF NearCovered
      <4> QED BY <4>1, <2>3, <3>2, <1>4, <1>6 DEF Carries
    <3> QED BY <3>1, <3>2
  <2>5. Key(x)' = r /\ x \in ReachedOnes'
    BY <2>1, <2>2, <1>4 DEF Improves
  <2>6. r \in Nat /\ r < g.b
    BY <1>3, <1>f
  <2>7. (Key(x) <= r)'
    BY <2>5, <2>6
  <2> QED BY <2>2, <2>4, <2>5, <2>6, <2>7
<1>11. Held(f) \subseteq Held(g) /\ \A v \in settled : Key(v) < Floor(g)'
  <2>1. Held(f) \subseteq Held(g)
    BY <1>1, <1>3, <1>d DEF Held
  <2>2. Floor(g)' = first
    BY <1>3 DEF Floor
  <2>3. ASSUME NEW v \in settled PROVE Key(v) < first
    <3>1. v \in Vertex
      BY <1>2 DEF Finals
    <3>2. Key(v) < Low(n) /\ Key(v) \in Nat
      BY <3>1, <1>2, KeyFacts
    <3> QED BY <3>2, <1>2, <1>h
  <2> QED BY <2>1, <2>2, <2>3
<1>12. g.pc # "wait"
  BY <1>3
<1> QED BY <1>a, <1>1, <1>2, <1>3, <1>4, <1>6, <1>9, <1>10, <1>11, <1>12, TopStep

(* The end of a round keeps the invariant: if another one follows, if S     *)
(* are the pivots, and if the roots of large trees are.                     *)
LEMMA EndRoundStep ==
  ASSUME Ground, IsSeq(stack), Inv, EndRound, prm \in Params
  PROVE  Inv' /\ IsSeq(stack') /\ Ground' /\ Improves
<1>1. At("expand") /\ top.todo = {} /\ UNCHANGED <<run, labels, settled, result>>
  BY DEF EndRound
<1>2. PICK W : W = top.W \cup top.next
  OBVIOUS
<1>3. top.round \in Nat /\ prm.k \in Nat
  <2>1. prm.k \in Nat
    BY BmsspAssumption
  <2> QED BY <2>1, <1>1, TopCall DEF IsFrame, At
<1>4. CASE StartLoop(top.S, W)
  <2>1. 0 \in Nat /\ 0 <= top.round + 1
    BY <1>3
  <2> QED BY <2>1, <1>1, <1>2, <1>4, StartLoopStep
<1>5. CASE SetTop([top EXCEPT !.round = @ + 1, !.todo = top.next, !.next = {}, !.W = W])
  <2>1. SetTop([top EXCEPT !.round = @ + 1, !.todo = top.next, !.next = {}, !.W = @ \cup top.next])
    BY <1>2, <1>5
  <2> QED BY <2>1, <1>1, NextRoundStep
<1>6. CASE top.round = prm.k /\ StartLoop(Pivots(top.S, W), W)
  <2>1. prm.k <= top.round + 1 /\ Pivots(top.S, W) = PivotsOf(top.S, W, prm.k)
    BY <1>3, <1>6 DEF Pivots
  <2> QED BY <2>1, <1>1, <1>2, <1>3, <1>6, StartLoopStep
<1> QED BY <1>2, <1>4, <1>5, <1>6 DEF EndRound

(* In the fork, where a tree has a pivot if it is as large as the number   *)
(* of rounds, and another round may not follow.                            *)
LEMMA EngineEndRoundStep ==
  ASSUME Ground, IsSeq(stack), Inv, EngineEndRound
  PROVE  Inv' /\ IsSeq(stack') /\ Ground' /\ Improves
<1>1. At("expand") /\ top.todo = {} /\ UNCHANGED <<run, labels, settled, result>>
  BY DEF EngineEndRound
<1>2. PICK W : W = top.W \cup top.next
  OBVIOUS
<1>3. top.round \in Nat
  BY <1>1, TopCall DEF IsFrame, At
<1>4. CASE StartLoop(top.S, W)
  <2>1. 0 \in Nat /\ 0 <= top.round + 1
    BY <1>3
  <2> QED BY <2>1, <1>1, <1>2, <1>4, StartLoopStep
<1>5. CASE SetTop([top EXCEPT !.round = @ + 1, !.todo = top.next, !.next = {}, !.W = W,
                              !.width = Cardinality(top.next)])
  <2>1. SetTop([top EXCEPT !.round = @ + 1, !.todo = top.next, !.next = {}, !.W = @ \cup top.next,
                           !.width = Cardinality(top.next)])
    BY <1>2, <1>5
  <2> QED BY <2>1, <1>1, NextRoundStep
<1>6. CASE StartLoop(PivotsOf(top.S, W, Threshold(top)), W)
  <2>1. Threshold(top) \in Nat /\ Threshold(top) <= top.round + 1
    BY <1>3 DEF Threshold
  <2> QED BY <2>1, <1>1, <1>2, <1>6, StartLoopStep
<1> QED BY <1>2, <1>4, <1>5, <1>6 DEF EngineEndRound

(* A callee has returned; its caller is seen as resumed already.           *)
LEMMA ResumeStep ==
  ASSUME Ground, IsSeq(stack), Inv, Resume
  PROVE  Inv' /\ IsSeq(stack') /\ Ground' /\ Improves
<1>a. PICK n : n = Len(stack)
  OBVIOUS
<1>b. PICK f : f = top
  OBVIOUS
<1>c. PICK set : set = result.set
  OBVIOUS
<1>d. PICK bound : bound = result.bound
  OBVIOUS
<1>e. PICK g : g = [f EXCEPT !.pc = "relax", !.todo = set, !.U = @ \cup set, !.last = bound]
  OBVIOUS
<1>1. /\ n > 0 /\ f.pc = "wait" /\ SetTop(g)
      /\ UNCHANGED <<run, labels, settled, result>>
  BY <1>a, <1>b, <1>c, <1>d, <1>e DEF Resume, At
<1>2. /\ n \in Nat \ {0} /\ n \in 1..n /\ f = stack[n] /\ F(n) = g
      /\ IsFrame(f) /\ FrameOk(n, f) /\ Low(n) \in Nat
      /\ EntriesCovered(g)
      /\ \A v \in settled : Key(v) < Floor(g)
      /\ LabelsOk /\ settled \subseteq Finals
  <2>1. n \in Nat \ {0} /\ n \in 1..n /\ f = stack[n]
    BY <1>1, <1>a, <1>b, CallsAre DEF top
  <2>2. F(n) = g
    BY <2>1, <1>1, <1>a, <1>c, <1>d, <1>e DEF F, Resumed
  <2>3. /\ IsFrame(f) /\ FrameOk(n, f) /\ Low(n) \in Nat /\ EntriesCovered(g)
    BY <2>1, <2>2, <1>a, CallsAre
  <2>4. \A v \in settled : Key(v) < Floor(g)
    BY <2>1, <2>2, <1>a DEF Inv, SettledBelow
  <2> QED BY <2>1, <2>2, <2>3, <2>4 DEF Inv
<1>3. /\ CallOk(n, f) /\ LoopOk(n, f) /\ PulledOk(f) /\ WaitOk(n, f)
      /\ \A x \in f.S \cup f.W \cup f.next \cup f.U \cup f.todo \cup f.fresh :
           x \in ReachedOnes /\ x \in Vertex /\ Key(x) \in Nat
  BY <1>2, FrameSets DEF FrameOk
<1>4. /\ bound \in Nat /\ f.last <= bound /\ bound <= f.bi
      /\ set \subseteq settled /\ \A x \in set : f.last <= Key(x) /\ Key(x) < bound
      /\ f.Kept = {}
  BY <1>1, <1>2, <1>3, <1>a, <1>c, <1>d DEF WaitOk
<1>5. /\ g.pc = "relax" /\ g.l = f.l /\ g.b = f.b /\ g.S = f.S /\ g.round = f.round
      /\ g.todo = set /\ g.next = f.next /\ g.W = f.W
      /\ g.D = f.D /\ g.U = f.U \cup set /\ g.last = bound /\ g.bi = f.bi
      /\ g.fresh = f.fresh /\ g.Kept = {} /\ g.heap = f.heap /\ IsFrame(g)
  BY <1>1, <1>2, <1>4, <1>e DEF IsFrame, Fields
<1>6. /\ Improves /\ Ground' /\ LabelsOk' /\ Finals' = Finals /\ settled' = settled
      /\ \A v \in Vertex : Key(v)' = Key(v) /\ pred'[v] = pred[v]
  BY <1>1, <1>2, SameImproves
<1>7. Len(stack)' = n /\ Low(n)' = Low(n)
  BY <1>1, <1>2, <1>5, <1>a, TopIs
<1>8. /\ f.last \in Nat /\ f.bi \in Nat /\ f.b \in Nat
      /\ Low(n) <= f.last /\ f.last <= f.b /\ f.last <= f.bi /\ f.bi <= f.b
      /\ f.next = {} /\ f.U \subseteq settled /\ (\A x \in f.U : Key(x) < f.last)
      /\ (\A r \in f.D : f.bi <= r) /\ (\A x \in f.fresh : Key(x) < f.bi)
  BY <1>1, <1>2, <1>3 DEF IsFrame, LoopOk, PulledOk
<1>9. \A x \in set : x \in Vertex /\ x \in ReachedOnes /\ Key(x) \in Nat
  BY <1>2, <1>4, FinalFacts, KeyFacts
<1>10. CallOk(n, g)'
  <2>1. ASSUME NEW x \in g.S PROVE Key(x)' < g.b
    BY <1>3, <1>5, <1>6 DEF CallOk
  <2>2. ASSUME NEW x \in g.S \cup g.W \cup g.next \cup g.U \cup g.todo PROVE Low(n) <= Key(x)'
    <3>1. CASE x \in set
      BY <3>1, <1>2, <1>4, <1>6, <1>8, <1>9
    <3>2. CASE x \notin set
      BY <3>2, <1>3, <1>5, <1>6 DEF CallOk
    <3> QED BY <3>1, <3>2
  <2>3. g.S \cup g.W \cup g.next \cup g.U \cup g.todo \cup g.fresh \subseteq ReachedOnes'
    BY <1>3, <1>5, <1>6, <1>9 DEF CallOk, Improves
  <2> QED BY <2>1, <2>2, <2>3, <1>1, <1>2, <1>3, <1>5, <1>6, <1>7 DEF CallOk, Improves
<1>11. LoopOk(n, g)'
  <2>1. ASSUME NEW x \in g.U PROVE Key(x)' < g.last
    <3>1. CASE x \in set
      BY <3>1, <1>4, <1>5, <1>6, <1>9
    <3>2. CASE x \in f.U
      <4>1. Key(x) < f.last /\ x \in Vertex /\ Key(x) \in Nat
        BY <3>2, <1>3, <1>8
      <4> QED BY <4>1, <1>4, <1>5, <1>6, <1>8
    <3> QED BY <3>1, <3>2, <1>5
  <2>2. Low(n) <= g.last /\ g.last <= g.b
    BY <1>2, <1>4, <1>5, <1>8
  <2> QED BY <2>1, <2>2, <1>4, <1>5, <1>6, <1>7, <1>8 DEF LoopOk
<1>12. PulledOk(g)'
  <2>1. ASSUME NEW x \in g.fresh PROVE Key(x)' < g.bi
    BY <1>3, <1>5, <1>6, <1>8
  <2> QED BY <2>1, <1>4, <1>5, <1>8 DEF PulledOk
<1>13. FrameOk(n, g)'
  <2>1. IsFrame(g)' /\ ExpandOk(g)' /\ WaitOk(n, g)' /\ BaseOk(n, g)'
    BY <1>5 DEF IsFrame, ExpandOk, WaitOk, BaseOk
  <2> QED BY <2>1, <1>10, <1>11, <1>12 DEF FrameOk
<1>14. Carries(g, g)
  BY <1>6, CoveredStays DEF Carries, Near
<1>15. EntriesCovered(g)'
  <2> SUFFICES ASSUME NEW r \in Entries(g)
               PROVE  /\ r \in Nat /\ r < g.b
                      /\ IdOf[r] \in ReachedOnes' /\ (Key(IdOf[r]) <= r)'
                      /\ IdOf[r] \in settled' \/ Covered(IdOf[r], g)'
    BY DEF EntriesCovered, Entries
  <2>1. /\ r \in Nat /\ r < g.b
        /\ IdOf[r] \in ReachedOnes /\ Key(IdOf[r]) <= r
        /\ IdOf[r] \in settled \/ Covered(IdOf[r], g)
    BY <1>2 DEF EntriesCovered
  <2>2. \A v \in Near(g) : Covered(v, g) => Covered(v, g)' \/ v \in settled'
    BY <1>6, CoveredStays DEF Near
  <2>3. g.b \in Nat
    BY <1>5, <1>8
  <2> QED BY <2>1, <2>2, <2>3, <1>2, <1>6, EntryStays
<1>16. \A v \in settled : Key(v) < Floor(g)'
  BY <1>2, <1>5 DEF Floor
<1>17. g.pc # "wait"
  BY <1>5
<1> QED BY <1>a, <1>1, <1>2, <1>6, <1>13, <1>14, <1>15, <1>16, <1>17, TopStep

-----------------------------------------------------------------------------
(* The loop: relaxing from what a call returned, and the batch.            *)

(* A relaxation from a vertex of U_i keeps the invariant: what it makes     *)
(* final goes into D or K.                                                  *)
LEMMA RelaxOutStep ==
  ASSUME Ground, IsSeq(stack), Inv, NEW u \in Vertex, RelaxOut(u)
  PROVE  Inv' /\ IsSeq(stack') /\ Ground' /\ Improves
<1>a. PICK n : n = Len(stack)
  OBVIOUS
<1>b. PICK f : f = top
  OBVIOUS
<1>c. PICK R : R = {v \in Succ(u) : Passes(u, v)}
  OBVIOUS
<1>d. PICK keys : keys = {CandKey(u, v) : v \in R}
  OBVIOUS
<1>e. PICK g : g = [f EXCEPT !.todo = @ \ {u}, !.D = KeepMin(@ \cup ForD(f, keys)),
                             !.Kept = @ \cup ForK(f, keys)]
  OBVIOUS
<1>1. /\ n > 0 /\ f.pc = "relax" /\ u \in f.todo
      /\ Relabel(u, R) /\ SetTop(g) /\ wt' = wt /\ prm' = prm /\ best' = best /\ settled' = settled
  BY <1>a, <1>b, <1>c, <1>d, <1>e DEF RelaxOut, At, run
<1>2. /\ n \in Nat \ {0} /\ n \in 1..n /\ F(n) = f /\ f = stack[n]
      /\ IsFrame(f) /\ CallOk(n, f) /\ LoopOk(n, f) /\ PulledOk(f)
      /\ NearCovered(n, f) /\ BehindCovered(f) /\ EntriesCovered(f)
      /\ Low(n) \in Nat
      /\ \A v \in settled : Key(v) < f.last
      /\ LabelsOk /\ settled \subseteq Finals
      /\ \A x \in f.S \cup f.W \cup f.next \cup f.U \cup f.todo \cup f.fresh :
           /\ x \in ReachedOnes /\ x \in Vertex /\ Key(x) \in Nat
  BY <1>1, <1>a, <1>b, TopCall DEF Floor
<1>3. /\ f.last \in Nat /\ f.bi \in Nat /\ f.b \in Nat /\ f.D \subseteq Nat /\ f.Kept \subseteq Nat
      /\ Low(n) <= f.last /\ f.last <= f.b /\ f.last <= f.bi /\ f.bi <= f.b
      /\ f.next = {} /\ f.U \subseteq settled /\ (\A x \in f.U : Key(x) < f.last)
      /\ (\A r \in f.D : f.bi <= r) /\ (\A r \in f.Kept : f.last <= r /\ r < f.bi)
      /\ (\A x \in f.fresh : Key(x) < f.bi) /\ f.todo \subseteq f.U
  BY <1>1, <1>2 DEF IsFrame, LoopOk, PulledOk
<1>4. Relaxes(u, R)
  BY <1>1, <1>c DEF Relaxes
<1>5. u \in Finals /\ Low(n) <= Key(u)
  BY <1>1, <1>2, <1>3 DEF CallOk
<1>6. /\ Improves /\ Ground' /\ LabelsOk'
      /\ \A v \in Vertex : Key(v)' \in Nat /\ Key(v)' <= Key(v) /\ Key(v) \in Nat
      /\ \A v \in Vertex : Key(v)' = Key(v) \/ Low(n) <= Key(v)'
      /\ \A v \in R : /\ Key(v)' = CandKey(u, v) /\ v \in Vertex
                      /\ v \in ReachedOnes /\ CandKey(u, v) \in Nat
                      /\ TrueKey(v) <= CandKey(u, v) /\ IdOf[CandKey(u, v)] = v
  BY <1>1, <1>2, <1>4, <1>5, RelaxAbove
<1>7. Len(stack)' = n /\ Low(n)' = Low(n) /\ n > 0
  <2>1. g.pc # "wait"
    BY <1>1, <1>2, <1>e DEF IsFrame, Fields
  <2> QED BY <2>1, <1>1, <1>a, TopIs
<1>f. PICK toD : toD = ForD(f, keys)
  OBVIOUS
<1>g. PICK toK : toK = ForK(f, keys)
  OBVIOUS
<1>h. /\ \A r \in toD : r \in keys /\ f.bi <= r /\ r < f.b
      /\ \A r \in toK : r \in keys /\ f.last <= r /\ r < f.bi
      /\ \A r \in keys : /\ f.bi <= r /\ r < f.b => r \in toD
                         /\ f.last <= r /\ r < f.bi => r \in toK
      /\ keys \subseteq Nat
  BY <1>6, <1>d, <1>f, <1>g DEF ForD, ForK
<1>i. PICK D : D = KeepMin(f.D \cup toD)
  OBVIOUS
<1>8. /\ g.pc = "relax" /\ g.l = f.l /\ g.b = f.b /\ g.S = f.S /\ g.round = f.round
      /\ g.todo = f.todo \ {u} /\ g.next = f.next /\ g.W = f.W
      /\ g.D = D /\ g.U = f.U /\ g.last = f.last /\ g.bi = f.bi
      /\ g.fresh = f.fresh /\ g.Kept = f.Kept \cup toK /\ g.heap = f.heap
  BY <1>1, <1>2, <1>e, <1>f, <1>g, <1>i DEF IsFrame, Fields
<1>9. D \subseteq f.D \cup toD /\ D \subseteq Nat
  BY <1>3, <1>h, <1>i DEF KeepMin
<1>10. IsFrame(g)
  <2>1. Fields \subseteq DOMAIN g
    BY <1>2, <1>e DEF IsFrame
  <2>2. g.Kept \subseteq Nat
    BY <1>3, <1>8, <1>h
  <2> QED BY <2>1, <2>2, <1>2, <1>8, <1>9 DEF IsFrame
<1>j. ASSUME NEW y \in Vertex, y \in Finals', TrueKey(y) \in f.D \cup toD
      PROVE  TrueKey(y) \in D
  <2>1. IdOf[TrueKey(y)] = y /\ TrueKey(y) \in Nat
    BY <1>2, KeyFacts, TrueFacts
  <2>2. ASSUME NEW w \in f.D \cup toD, IdOf[w] = y PROVE TrueKey(y) <= w
    <3>1. CASE w \in f.D
      <4>1. Key(y) <= w /\ w \in Nat
        BY <2>2, <3>1, <1>1, <1>2 DEF EntriesCovered, Entries
      <4>2. TrueKey(y) <= Key(y) /\ Key(y) \in Nat
        BY <1>2, KeyFacts
      <4> QED BY <4>1, <4>2, <2>1
    <3>2. CASE w \in toD
      <4>1. PICK x \in R : w = CandKey(u, x)
        BY <3>2, <1>h, <1>d
      <4> QED BY <4>1, <2>2, <1>6
    <3> QED BY <3>1, <3>2
  <2> QED BY <2>1, <2>2, <1>i, <1>j DEF KeepMin, SameVertex
<1>11. ASSUME NEW v \in Near(f), Covered(v, f) PROVE Covered(v, g)'
  <2>1. v \in ReachedOnes
    BY DEF Near
  <2>2. PICK y \in PathTo(v) : Active(y, f)
    BY <1>11 DEF Covered
  <2>3. y \in ReachedOnes /\ y \in Vertex /\ v \in Vertex
    BY <2>1, PathIs DEF ReachedOnes
  <2>4. /\ PathTo(v)' = PathTo(v) /\ TrueKey(y)' = TrueKey(y) /\ Parent(y)' = Parent(y)
        /\ (y \in Finals => y \in Finals')
    BY <2>3, <1>6 DEF Improves
  <2>5. Active(y, g)'
    <3>1. CASE y \in Finals /\ TrueKey(y) \in f.D
      BY <3>1, <2>3, <2>4, <1>j, <1>8 DEF Active
    <3>2. CASE y \in Finals /\ (TrueKey(y) \in f.Kept \/ (y \in f.fresh /\ f.last <= TrueKey(y)))
      BY <3>2, <2>4, <1>8 DEF Active
    <3>3. CASE y # Source /\ Parent(y) \in f.todo /\ Parent(y) # u /\ f.last <= TrueKey(y)
      BY <3>3, <2>4, <1>8 DEF Active
    <3>4. CASE y # Source /\ Parent(y) = u /\ f.last <= TrueKey(y)
      <4>1. Code(Parent(y)) = best[Parent(y)]
        BY <3>4, <1>2, <1>5, FinalFacts
      <4>2. y \in Succ(u) /\ Passes(u, y) /\ CandKey(u, y) = TrueKey(y)
            /\ (Relaxes(u, R) /\ y \in R => y \in Finals')
        BY <4>1, <3>4, <2>3, <1>2, NextFinal
      <4>3. y \in R /\ y \in Finals' /\ TrueKey(y) \in keys
        BY <4>2, <1>4, <1>c, <1>d
      <4>4. TrueKey(y) <= TrueKey(v) /\ TrueKey(v) < f.b /\ TrueKey(v) \in Nat /\ TrueKey(y) \in Nat
        BY <2>1, <2>3, PathKeys, TrueFacts DEF Near
      <4>5. CASE f.bi <= TrueKey(y)
        <5>1. TrueKey(y) \in toD
          BY <4>3, <4>4, <4>5, <1>3, <1>h
        <5>2. TrueKey(y) \in D
          BY <5>1, <4>3, <2>3, <1>j
        <5> QED BY <5>2, <4>3, <2>4, <1>8 DEF Active
      <4>6. CASE ~ (f.bi <= TrueKey(y))
        <5>1. TrueKey(y) \in toK
          BY <4>3, <4>4, <4>6, <3>4, <1>3, <1>h
        <5> QED BY <5>1, <4>3, <2>4, <1>8 DEF Active
      <4> QED BY <4>5, <4>6
    <3> QED BY <3>1, <3>2, <3>3, <3>4, <2>2, <1>1 DEF Active
  <2> QED BY <2>2, <2>4, <2>5 DEF Covered
<1>12. Carries(f, g)
  BY <1>11 DEF Carries
<1>13. EntriesCovered(g)'
  <2> SUFFICES ASSUME NEW r \in D \cup f.Kept \cup toK
               PROVE  /\ r \in Nat /\ r < g.b
                      /\ IdOf[r] \in ReachedOnes' /\ (Key(IdOf[r]) <= r)'
                      /\ IdOf[r] \in settled' \/ Covered(IdOf[r], g)'
    BY <1>8 DEF EntriesCovered, Entries
  <2>1. CASE r \in f.D \cup f.Kept
    <3>1. /\ r \in Nat /\ r < f.b
          /\ IdOf[r] \in ReachedOnes /\ Key(IdOf[r]) <= r
          /\ IdOf[r] \in settled \/ Covered(IdOf[r], f)
      BY <2>1, <1>1, <1>2 DEF EntriesCovered, Entries
    <3> QED BY <3>1, <1>1, <1>2, <1>3, <1>6, <1>8, <1>11, EntryStays
  <2>2. CASE r \in toD \cup toK
    <3>1. PICK x \in R : r = CandKey(u, x)
      BY <2>2, <1>h, <1>d
    <3>2. r \in Nat /\ r < f.b
      <4>1. r \in Nat
        BY <2>2, <1>h
      <4>2. CASE r \in toD
        BY <4>1, <4>2, <1>h
      <4>3. CASE r \in toK
        BY <4>1, <4>3, <1>3, <1>h
      <4> QED BY <4>1, <4>2, <4>3, <2>2
    <3>3. IdOf[r] = x /\ x \in Vertex /\ x \in ReachedOnes /\ Key(x)' = r /\ TrueKey(x) <= r
          /\ TrueKey(x) \in Nat
      BY <3>1, <1>6, TrueFacts
    <3>4. x \in Near(f)
      BY <3>2, <3>3, <1>3 DEF Near
    <3>5. x \in settled' \/ Covered(x, g)'
      <4>1. CASE x \in Finals'
        <5>1. TrueKey(x)' = r
          BY <4>1, <3>3, <1>6, KeysNext
        <5>2. TrueKey(x) = r
          BY <5>1, <3>3, <1>6 DEF Improves
        <5>3. r \in D \cup toK
          BY <5>2, <4>1, <3>3, <2>2, <1>j
        <5>4. Active(x, g)'
          BY <5>1, <5>3, <4>1, <1>8 DEF Active
        <5>5. x \in PathTo(x)'
          BY <3>3, <1>6, PathIs DEF Improves
        <5> QED BY <5>4, <5>5 DEF Covered
      <4>2. CASE x \notin Finals'
        <5>1. x \notin Finals
          BY <4>2, <1>6 DEF Improves
        <5>2. x \in settled \/ Covered(x, f)
          BY <5>1, <3>4, <1>2 DEF NearCovered
        <5> QED BY <5>2, <3>4, <1>1, <1>11
      <4> QED BY <4>1, <4>2
    <3>6. x \in ReachedOnes' /\ (Key(x) <= r)'
      BY <3>2, <3>3, <1>6 DEF Improves
    <3> QED BY <3>2, <3>3, <3>5, <3>6, <1>8
  <2> QED BY <2>1, <2>2, <1>9
<1>14. CallOk(n, g)'
  <2>1. ASSUME NEW x \in g.S PROVE Key(x)' < g.b
    <3>1. x \in Vertex /\ Key(x) < f.b /\ Key(x) \in Nat
      BY <1>2, <1>8 DEF CallOk
    <3>2. Key(x)' <= Key(x) /\ Key(x)' \in Nat
      BY <3>1, <1>6
    <3> QED BY <3>1, <3>2, <1>3, <1>8
  <2>2. ASSUME NEW x \in g.S \cup g.W \cup g.next \cup g.U \cup g.todo PROVE Low(n) <= Key(x)'
    <3>1. Low(n) <= Key(x) /\ x \in Vertex
      BY <1>2, <1>8 DEF CallOk
    <3> QED BY <3>1, <1>6
  <2>3. g.S \cup g.W \cup g.next \cup g.U \cup g.todo \cup g.fresh \subseteq ReachedOnes'
    BY <1>2, <1>6, <1>8 DEF CallOk, Improves
  <2> QED BY <2>1, <2>2, <2>3, <1>1, <1>2, <1>6, <1>7, <1>8 DEF CallOk, Improves
<1>15. LoopOk(n, g)'
  <2>1. ASSUME NEW x \in g.U PROVE Key(x)' < g.last
    <3>1. x \in Finals /\ Key(x) < f.last
      BY <1>2, <1>3, <1>8
    <3> QED BY <3>1, <1>6, <1>8 DEF Improves
  <2> QED BY <2>1, <1>1, <1>3, <1>7, <1>8 DEF LoopOk
<1>16. PulledOk(g)'
  <2>1. ASSUME NEW x \in g.fresh PROVE Key(x)' < g.bi
    <3>1. Key(x) < f.bi /\ x \in Vertex
      BY <1>2, <1>3, <1>8
    <3>2. Key(x)' <= Key(x) /\ Key(x)' \in Nat /\ Key(x) \in Nat
      BY <3>1, <1>6
    <3> QED BY <3>1, <3>2, <1>3, <1>8
  <2>2. \A r \in g.D : g.bi <= r
    BY <1>3, <1>8, <1>9, <1>h
  <2>3. \A r \in g.Kept : g.last <= r /\ r < g.bi
    BY <1>3, <1>8, <1>h
  <2> QED BY <2>1, <2>2, <2>3, <1>3, <1>8 DEF PulledOk
<1>17. FrameOk(n, g)'
  <2>1. IsFrame(g)' /\ ExpandOk(g)' /\ WaitOk(n, g)' /\ BaseOk(n, g)'
    BY <1>8, <1>10 DEF IsFrame, ExpandOk, WaitOk, BaseOk
  <2> QED BY <2>1, <1>14, <1>15, <1>16 DEF FrameOk
<1>18. Held(f) \subseteq Held(g) /\ \A v \in settled : Key(v) < Floor(g)'
  BY <1>1, <1>2, <1>8 DEF Held, Floor
<1>19. g.pc # "wait"
  BY <1>8
<1> QED BY <1>a, <1>1, <1>2, <1>6, <1>8, <1>12, <1>13, <1>17, <1>18, <1>19, TopStep

(* Prepending K and what is left of S_i keeps the invariant.                *)
LEMMA PrependStep ==
  ASSUME Ground, IsSeq(stack), Inv, PrependBatch
  PROVE  Inv' /\ IsSeq(stack') /\ Ground' /\ Improves
<1>a. PICK n : n = Len(stack)
  OBVIOUS
<1>b. PICK f : f = top
  OBVIOUS
<1>c. PICK items : items = Unfinished(f)
  OBVIOUS
<1>d. PICK D : D = IF items = {} THEN f.D ELSE Prepended(f.D, items)
  OBVIOUS
<1>e. PICK g : g = [f EXCEPT !.pc = "loop", !.D = D]
  OBVIOUS
<1>1. /\ n > 0 /\ f.pc = "relax" /\ f.todo = {} /\ SetTop(g)
      /\ UNCHANGED <<run, labels, settled, result>>
  <2>1. SetTop([f EXCEPT !.pc = "loop", !.D = IF items = {} THEN @ ELSE Prepended(@, items)])
    BY <1>b, <1>c DEF PrependBatch
  <2>2. g = [f EXCEPT !.pc = "loop", !.D = IF items = {} THEN @ ELSE Prepended(@, items)]
    BY <1>d, <1>e
  <2> QED BY <2>1, <2>2, <1>a, <1>b DEF PrependBatch, At
<1>2. /\ n \in Nat \ {0} /\ n \in 1..n /\ F(n) = f /\ f = stack[n]
      /\ IsFrame(f) /\ CallOk(n, f) /\ LoopOk(n, f) /\ PulledOk(f)
      /\ NearCovered(n, f) /\ BehindCovered(f) /\ EntriesCovered(f)
      /\ Low(n) \in Nat
      /\ \A v \in settled : Key(v) < f.last
      /\ LabelsOk /\ settled \subseteq Finals
      /\ \A x \in f.S \cup f.W \cup f.next \cup f.U \cup f.todo \cup f.fresh :
           /\ x \in ReachedOnes /\ x \in Vertex /\ Key(x) \in Nat /\ TrueKey(x) <= Key(x)
           /\ TrueKey(x) \in Nat
  BY <1>1, <1>a, <1>b, TopCall DEF Floor
<1>3. /\ f.last \in Nat /\ f.bi \in Nat /\ f.b \in Nat /\ f.D \subseteq Nat /\ f.Kept \subseteq Nat
      /\ Low(n) <= f.last /\ f.last <= f.b /\ f.last <= f.bi /\ f.bi <= f.b
      /\ f.next = {} /\ f.U \subseteq settled /\ (\A x \in f.U : Key(x) < f.last)
      /\ (\A r \in f.D : f.bi <= r) /\ (\A r \in f.Kept : f.last <= r /\ r < f.bi)
      /\ (\A x \in f.fresh : Key(x) < f.bi)
  BY <1>1, <1>2 DEF IsFrame, LoopOk, PulledOk
<1>4. items = f.Kept \cup {r \in {Key(x) : x \in f.fresh} : f.last <= r /\ r < f.bi}
  BY <1>c DEF Unfinished, ForK
<1>5. ASSUME NEW r \in items
      PROVE  /\ r \in Nat /\ f.last <= r /\ r < f.bi /\ r < f.b
             /\ IdOf[r] \in ReachedOnes /\ Key(IdOf[r]) <= r
  <2>1. CASE r \in f.Kept
    BY <2>1, <1>1, <1>2, <1>3 DEF EntriesCovered, Entries
  <2>2. CASE r \notin f.Kept
    <3>1. PICK x \in f.fresh : r = Key(x) /\ f.last <= r /\ r < f.bi
      BY <2>2, <1>4
    <3>2. x \in ReachedOnes /\ IdOf[r] = x /\ r \in Nat
      BY <3>1, <1>2, KeyFacts
    <3> QED BY <3>1, <3>2, <1>3
  <2> QED BY <2>1, <2>2
<1>6. D \subseteq f.D \cup items
  BY <1>d DEF Prepended, KeepMin
<1>7. D \subseteq Nat
  BY <1>3, <1>5, <1>6
<1>8. /\ g.pc = "loop" /\ g.l = f.l /\ g.b = f.b /\ g.S = f.S /\ g.round = f.round
      /\ g.todo = {} /\ g.next = f.next /\ g.W = f.W
      /\ g.D = D /\ g.U = f.U /\ g.last = f.last /\ g.bi = f.bi
      /\ g.fresh = f.fresh /\ g.Kept = f.Kept /\ g.heap = f.heap /\ IsFrame(g)
  BY <1>1, <1>2, <1>7, <1>e DEF IsFrame, Fields
<1>9. /\ Improves /\ Ground' /\ LabelsOk' /\ Finals' = Finals /\ settled' = settled
      /\ \A v \in Vertex : Key(v)' = Key(v) /\ pred'[v] = pred[v]
  BY <1>1, <1>2, SameImproves
<1>10. Len(stack)' = n /\ Low(n)' = Low(n)
  BY <1>1, <1>2, <1>8, <1>a, TopIs
<1>11. ASSUME NEW y \in Finals, TrueKey(y) \in f.D \cup items PROVE TrueKey(y) \in D
  <2>1. y \in Vertex /\ IdOf[TrueKey(y)] = y /\ TrueKey(y) \in Nat /\ Key(y) = TrueKey(y)
    BY <1>2, FinalFacts, KeyFacts, TrueFacts
  <2>2. CASE items = {}
    BY <2>2, <1>11, <1>d
  <2>3. CASE items # {} /\ TrueKey(y) \in items
    <3>1. \A w \in items : IdOf[w] = y => TrueKey(y) <= w
      BY <2>1, <1>5
    <3>2. TrueKey(y) \in KeepMin(items)
      BY <2>1, <2>3, <3>1 DEF KeepMin, SameVertex
    <3> QED BY <2>3, <3>2, <1>d DEF Prepended
  <2>4. CASE items # {} /\ TrueKey(y) \in f.D
    <3>1. ASSUME NEW w \in items, IdOf[w] = y PROVE FALSE
      <4>1. TrueKey(y) <= w /\ w < f.bi /\ w \in Nat
        BY <3>1, <2>1, <1>5
      <4>2. f.bi <= TrueKey(y)
        BY <2>4, <1>3
      <4> QED BY <4>1, <4>2, <2>1, <1>3
    <3> QED BY <2>1, <2>4, <3>1, <1>d DEF Prepended
  <2> QED BY <2>2, <2>3, <2>4, <1>11
<1>12. ASSUME NEW v \in Near(f), Covered(v, f) PROVE Covered(v, g)'
  <2>1. v \in ReachedOnes
    BY DEF Near
  <2>2. PICK y \in PathTo(v) : Active(y, f)
    BY <1>12 DEF Covered
  <2>3. y \in Vertex /\ v \in Vertex
    BY <2>1, PathIs DEF ReachedOnes
  <2>4. PathTo(v)' = PathTo(v) /\ TrueKey(y)' = TrueKey(y)
    BY <2>3, <1>9 DEF Improves
  <2>5. y \in Finals
    BY <2>2, <1>1 DEF Active
  <2>6. TrueKey(y) \in f.D \cup items
    <3>1. CASE TrueKey(y) \in f.D \cup f.Kept
      BY <3>1, <1>4
    <3>2. CASE y \in f.fresh /\ f.last <= TrueKey(y)
      <4>1. Key(y) = TrueKey(y) /\ Key(y) < f.bi
        BY <2>5, <3>2, <1>2, <1>3, FinalFacts
      <4> QED BY <3>2, <4>1, <1>4
    <3> QED BY <3>1, <3>2, <2>2, <1>1 DEF Active
  <2>7. Active(y, g)'
    BY <2>4, <2>5, <2>6, <1>8, <1>9, <1>11 DEF Active
  <2> QED BY <2>2, <2>4, <2>7 DEF Covered
<1>13. Carries(f, g)
  BY <1>12 DEF Carries
<1>14. EntriesCovered(g)'
  <2> SUFFICES ASSUME NEW r \in D
               PROVE  /\ r \in Nat /\ r < g.b
                      /\ IdOf[r] \in ReachedOnes' /\ (Key(IdOf[r]) <= r)'
                      /\ IdOf[r] \in settled' \/ Covered(IdOf[r], g)'
    BY <1>8 DEF EntriesCovered, Entries
  <2>1. IdOf[r] \in settled \/ Covered(IdOf[r], f)
        \/ (r \in items /\ IdOf[r] \in Finals /\ r = TrueKey(IdOf[r]))
    <3>1. CASE r \in f.D \cup f.Kept
      BY <3>1, <1>1, <1>2 DEF EntriesCovered, Entries
    <3>2. CASE r \notin f.D \cup f.Kept
      <4>1. PICK x \in f.fresh : r = Key(x)
        BY <3>2, <1>4, <1>6
      <4>2. IdOf[r] = x /\ x \in Vertex /\ x \in ReachedOnes /\ Key(x) \in Nat
            /\ TrueKey(x) <= Key(x) /\ TrueKey(x) \in Nat
        BY <4>1, <1>2, KeyFacts
      <4>3. CASE x \in Finals
        BY <4>1, <4>2, <4>3, <3>2, <1>2, <1>6, FinalFacts
      <4>4. CASE x \notin Finals
        <5>1. Key(x) < f.bi
          BY <4>1, <1>3
        <5>2. x \in Near(f)
          BY <4>2, <5>1, <1>3 DEF Near
        <5> QED BY <4>2, <4>4, <5>2, <1>2 DEF NearCovered
      <4> QED BY <4>3, <4>4
    <3> QED BY <3>1, <3>2
  <2>2. r \in Nat /\ r < f.b /\ IdOf[r] \in ReachedOnes /\ Key(IdOf[r]) <= r
    <3>1. CASE r \in f.D
      BY <3>1, <1>1, <1>2 DEF EntriesCovered, Entries
    <3>2. CASE r \in items
      BY <3>2, <1>5
    <3> QED BY <3>1, <3>2, <1>6
  <2>3. PICK x : x = IdOf[r]
    OBVIOUS
  <2>4. x \in Vertex /\ x \in ReachedOnes /\ Key(x)' = Key(x) /\ ReachedOnes' = ReachedOnes
        /\ Key(x) \in Nat /\ TrueKey(x) <= Key(x) /\ TrueKey(x) \in Nat
    BY <2>2, <2>3, <1>2, <1>9, KeyFacts, TrueFacts DEF ReachedOnes, Improves
  <2>5. x \in Near(f)
    BY <2>2, <2>3, <2>4, <1>3 DEF Near
  <2>6. x \in settled' \/ Covered(x, g)'
    <3>1. CASE x \in settled \/ Covered(x, f)
      BY <3>1, <2>5, <1>9, <1>12
    <3>2. CASE r \in items /\ x \in Finals /\ r = TrueKey(x)
      <4>1. TrueKey(x) \in D /\ TrueKey(x)' = TrueKey(x)
        BY <3>2, <2>4, <1>9, <1>11 DEF Improves
      <4>2. Active(x, g)'
        BY <3>2, <4>1, <1>8, <1>9 DEF Active
      <4>3. x \in PathTo(x)'
        BY <2>4, <1>9, PathIs DEF Improves
      <4> QED BY <4>2, <4>3 DEF Covered
    <3> QED BY <3>1, <3>2, <2>1, <2>3
  <2>7. (Key(x) <= r)'
    BY <2>2, <2>3, <2>4
  <2> QED BY <2>2, <2>3, <2>4, <2>6, <2>7, <1>8
<1>15. CallOk(n, g)'
  <2>1. ASSUME NEW x \in g.S PROVE Key(x)' < g.b
    BY <1>2, <1>8, <1>9 DEF CallOk
  <2>2. ASSUME NEW x \in g.S \cup g.W \cup g.next \cup g.U \cup g.todo PROVE Low(n) <= Key(x)'
    BY <1>2, <1>8, <1>9 DEF CallOk
  <2>3. g.S \cup g.W \cup g.next \cup g.U \cup g.todo \cup g.fresh \subseteq ReachedOnes'
    BY <1>2, <1>8, <1>9 DEF CallOk, Improves
  <2> QED BY <2>1, <2>2, <2>3, <1>1, <1>2, <1>8, <1>9, <1>10 DEF CallOk, Improves
<1>16. LoopOk(n, g)'
  <2>1. ASSUME NEW x \in g.U PROVE Key(x)' < g.last
    <3>1. x \in Vertex /\ Key(x) < f.last
      BY <1>2, <1>3, <1>8
    <3> QED BY <3>1, <1>8, <1>9
  <2>2. ASSUME NEW r \in D PROVE f.last <= r
    <3>1. CASE r \in items
      BY <3>1, <1>5
    <3>2. CASE r \in f.D
      <4>1. f.bi <= r /\ r \in Nat
        BY <3>2, <1>3
      <4> QED BY <4>1, <1>3
    <3> QED BY <3>1, <3>2, <1>6
  <2> QED BY <2>1, <2>2, <1>3, <1>8, <1>9, <1>10 DEF LoopOk
<1>17. FrameOk(n, g)'
  <2>1. IsFrame(g)' /\ ExpandOk(g)' /\ PulledOk(g)' /\ WaitOk(n, g)' /\ BaseOk(n, g)'
    BY <1>8 DEF IsFrame, ExpandOk, PulledOk, WaitOk, BaseOk
  <2> QED BY <2>1, <1>15, <1>16 DEF FrameOk
<1>18. Held(f) \subseteq Held(g) /\ \A v \in settled : Key(v) < Floor(g)'
  BY <1>1, <1>2, <1>8 DEF Held, Floor
<1>19. g.pc # "wait"
  BY <1>8
<1> QED BY <1>a, <1>1, <1>2, <1>8, <1>9, <1>13, <1>14, <1>17, <1>18, <1>19, TopStep

-----------------------------------------------------------------------------
(* The base case.                                                           *)

(* Heap p has at most one copy more than h, and only of an entry of C.      *)
Multiplies(p, h, C) ==
  \A x \in BagToSet(p) :
    /\ x \in BagToSet(h) /\ x \in C => p[x] <= h[x] + 1
    /\ x \notin BagToSet(h) => p[x] = 1
    /\ x \notin C => p[x] <= h[x]

(* What is left in the heap after a pop.                                   *)
LEMMA PoppedIs ==
  ASSUME NEW h, IsABag(h), NEW r, NEW u, NEW R, NEW C, C = {CandKey(u, v) : v \in R}
  PROVE  /\ IsABag(Popped(h, r, u, R))
         /\ BagToSet(Popped(h, r, u, R)) \subseteq BagToSet(h) \cup C
         /\ (BagToSet(h) \ {r}) \cup C \subseteq BagToSet(Popped(h, r, u, R))
         /\ Multiplies(Popped(h, r, u, R), h, C)
<1> DEFINE a == SetToBag({r})
<1> DEFINE b == SetToBag(C)
<1>1. DOMAIN a = {r} /\ DOMAIN b = C /\ (\A x \in DOMAIN a : a[x] = 1) /\ (\A x \in DOMAIN b : b[x] = 1)
  BY DEF SetToBag
<1>2. Popped(h, r, u, R) = (h (-) a) (+) b
  BY DEF Popped
<1> HIDE DEF a, b
<1>3. PICK c : c = h (-) a
  OBVIOUS
<1>4. /\ DOMAIN c \subseteq DOMAIN h /\ (DOMAIN h) \ {r} \subseteq DOMAIN c
      /\ \A x \in DOMAIN c : c[x] \in Nat /\ c[x] > 0 /\ c[x] <= h[x]
      /\ \A x \in DOMAIN h : h[x] \in Nat
  BY <1>1, <1>3 DEF IsABag, (-)
<1>5. PICK p : p = c (+) b
  OBVIOUS
<1>6. DOMAIN p = DOMAIN c \cup C
  BY <1>1, <1>5 DEF (+)
<1>7. ASSUME NEW x \in DOMAIN p
      PROVE  /\ p[x] \in Nat /\ p[x] > 0
             /\ x \in DOMAIN h /\ x \in C => p[x] <= h[x] + 1
             /\ x \notin DOMAIN h => p[x] = 1
             /\ x \notin C => p[x] <= h[x]
  <2>1. p[x] = (IF x \in DOMAIN c THEN c[x] ELSE 0) + (IF x \in DOMAIN b THEN b[x] ELSE 0)
    BY <1>5, <1>7 DEF (+)
  <2> QED BY <2>1, <1>1, <1>4, <1>6
<1>8. p = [x \in DOMAIN p |-> p[x]]
  BY <1>5 DEF (+)
<1>9. IsABag(p)
  BY <1>7, <1>8 DEF IsABag
<1>10. Multiplies(p, h, C)
  BY <1>7 DEF Multiplies, BagToSet
<1> QED BY <1>2, <1>3, <1>4, <1>5, <1>6, <1>9, <1>10 DEF BagToSet

(* A pop of r, the least entry of the heap and the key of u or an outdated  *)
(* one, relaxes from u; in the fork not if u was popped before.            *)
Pops(f, r, u, R, U) ==
  /\ Len(stack) > 0 /\ f = top /\ f.pc \in {"base", "oracle"}
  /\ r \in BagToSet(f.heap) /\ u = IdOf[r]
  /\ \A x \in BagToSet(f.heap) : r <= x
  /\ \/ /\ r = Key(u)
        /\ R = {v \in Succ(u) : Passes(u, v) /\ CandKey(u, v) < f.b}
        /\ U = f.U \cup {u}
     \/ /\ r # Key(u) \/ (u \in f.U /\ HeapOk(f))
        /\ R = {}
        /\ U = f.U
  /\ Relabel(u, R)
  /\ SetTop([f EXCEPT !.heap = Popped(f.heap, r, u, R), !.U = U])
  /\ UNCHANGED <<run, settled>>

(* Of the vertices on a path that were popped there is a last one, from    *)
(* which something is left to do if it is not the end.                     *)
LEMMA LastPopped ==
  ASSUME Ground, LabelsOk, NEW v \in ReachedOnes, NEW U, NEW u \in PathTo(v), u \in U \cap Finals
  PROVE  \/ v \in U \cap Finals
         \/ \E z \in PathTo(v) :
              /\ z # Source /\ Parent(z) \in U \cap Finals /\ ~(z \in U \cap Finals)
              /\ TrueKey(u) < TrueKey(z)
<1> DEFINE Under == {z \in PathTo(v) : z \in U \cap Finals /\ TrueKey(u) <= TrueKey(z)}
           Gaps == {TrueKey(v) - TrueKey(z) : z \in Under}
<1>1. \A z \in PathTo(v) : z \in ReachedOnes /\ TrueKey(z) \in Nat /\ TrueKey(z) <= TrueKey(v)
                            /\ PathTo(z) \subseteq PathTo(v)
  BY PathIs, PathKeys, PathTrans, TrueFacts DEF ReachedOnes
<1>2. v \in PathTo(v) /\ TrueKey(v) \in Nat
  BY PathIs, TrueFacts DEF ReachedOnes
<1>3. PICK w \in Under : \A z \in Under : TrueKey(z) <= TrueKey(w)
  <2>1. Gaps \subseteq Nat /\ Gaps # {}
    BY <1>1, <1>2
  <2>2. PICK m \in Gaps : \A d \in Gaps : m <= d
    <3> HIDE DEF Gaps
    <3> QED BY <2>1, HasLeast
  <2>3. PICK w \in Under : m = TrueKey(v) - TrueKey(w)
    BY <2>2
  <2>4. ASSUME NEW z \in Under PROVE TrueKey(z) <= TrueKey(w)
    <3>1. TrueKey(v) - TrueKey(w) <= TrueKey(v) - TrueKey(z)
      BY <2>2, <2>3
    <3> QED BY <3>1, <1>1, <1>2
  <2> QED BY <2>4
<1>4. w \in PathTo(v) /\ w \in U \cap Finals /\ TrueKey(u) <= TrueKey(w)
  BY <1>3
<1>5. CASE w = v
  BY <1>4, <1>5
<1>6. CASE w # v
  <2>1. PICK z \in PathTo(v) : z # Source /\ Parent(z) = w
    BY <1>4, <1>6, NextOnPath
  <2>2. z \in ReachedOnes /\ TrueKey(w) < TrueKey(z) /\ TrueKey(z) \in Nat
        /\ TrueKey(w) \in Nat /\ TrueKey(u) \in Nat
    BY <2>1, <1>1, <1>4, ParentFacts DEF ReachedOnes
  <2>3. TrueKey(u) < TrueKey(z)
    BY <2>2, <1>4
  <2>4. ~(z \in U \cap Finals)
    <3>1. z \in U \cap Finals => z \in Under
      BY <2>1, <2>2, <2>3
    <3> HIDE DEF Under
    <3> QED BY <3>1, <2>2, <1>3
  <2> QED BY <2>1, <2>3, <2>4, <1>4
<1> QED BY <1>5, <1>6

(* Such a pop keeps the invariant.                                         *)
LEMMA PopsStep ==
  ASSUME Ground, IsSeq(stack), Inv, NEW f, NEW r, NEW u, NEW R, NEW U, Pops(f, r, u, R, U)
  PROVE  Inv' /\ IsSeq(stack') /\ Ground' /\ Improves
<1>a. PICK n : n = Len(stack)
  OBVIOUS
<1>f. PICK heap : heap = Popped(f.heap, r, u, R)
  OBVIOUS
<1>h. PICK g : g = [f EXCEPT !.heap = heap, !.U = U]
  OBVIOUS
<1>1. /\ n > 0 /\ f.pc \in {"base", "oracle"} /\ f = top /\ r \in BagToSet(f.heap)
      /\ Relabel(u, R) /\ SetTop(g) /\ u = IdOf[r]
      /\ wt' = wt /\ prm' = prm /\ best' = best /\ settled' = settled
      /\ \A x \in BagToSet(f.heap) : r <= x
      /\ R \subseteq {v \in Succ(u) : Passes(u, v) /\ CandKey(u, v) < f.b}
      /\ f.U \subseteq U /\ U \subseteq f.U \cup {u}
      /\ R # {} => r = Key(u)
      /\ u \notin f.U /\ u \in U => r = Key(u)
  BY <1>a, <1>f, <1>h DEF Pops, run
<1>2. /\ n \in Nat \ {0} /\ n \in 1..n /\ F(n) = f /\ f = stack[n]
      /\ IsFrame(f) /\ CallOk(n, f) /\ BaseOk(n, f)
      /\ NearCovered(n, f) /\ BehindCovered(f) /\ EntriesCovered(f)
      /\ Low(n) \in Nat
      /\ \A v \in settled : Key(v) < Low(n)
      /\ LabelsOk /\ settled \subseteq Finals
      /\ \A x \in f.S \cup f.W \cup f.next \cup f.U \cup f.todo \cup f.fresh :
           /\ x \in ReachedOnes /\ x \in Vertex /\ Key(x) \in Nat
  BY <1>1, <1>a, TopCall DEF Floor
<1>3. /\ f.D = {} /\ f.next = {} /\ IsABag(f.heap) /\ f.b \in Nat
      /\ f.pc = "base" => Cardinality(f.S) = 1
      /\ \A q \in BagToSet(f.heap) :
           /\ q \in Nat /\ Low(n) <= q /\ q < f.b
           /\ IdOf[q] \in ReachedOnes /\ Key(IdOf[q]) <= q
           /\ \A x \in f.U : Key(x) <= q
      /\ \A x \in f.U : Key(x) < f.b
  BY <1>1, <1>2 DEF BaseOk, IsFrame
<1>4. /\ u \in ReachedOnes /\ u \in Vertex /\ Key(u) \in Nat /\ Key(u) <= r /\ r \in Nat
      /\ Low(n) <= r /\ r < f.b
  BY <1>1, <1>2, <1>3, KeyFacts DEF ReachedOnes
<1>5. Relaxes(u, R)
  BY <1>1 DEF Relaxes
<1>6. /\ Improves /\ Ground' /\ LabelsOk'
      /\ \A v \in Vertex : Key(v)' \in Nat /\ Key(v)' <= Key(v) /\ Key(v) \in Nat
      /\ \A v \in Vertex : Key(v)' = Key(v) \/ Key(u) <= Key(v)'
      /\ \A v \in Vertex : v \notin R => Key(v)' = Key(v)
      /\ \A v \in R : /\ Key(v)' = CandKey(u, v) /\ v \in Vertex
                      /\ v \in ReachedOnes /\ CandKey(u, v) \in Nat
                      /\ Key(u) < CandKey(u, v)
                      /\ TrueKey(v) <= CandKey(u, v) /\ IdOf[CandKey(u, v)] = v
  BY <1>1, <1>2, <1>4, <1>5, RelaxAbove
<1>7. \A v \in Vertex : Key(v)' = Key(v) \/ Low(n) <= Key(v)'
  <2>1. CASE r = Key(u)
    BY <2>1, <1>2, <1>4, <1>6
  <2>2. CASE r # Key(u)
    BY <2>2, <1>1, <1>6
  <2> QED BY <2>1, <2>2
<1>8. /\ IsABag(heap) /\ BagToSet(heap) \subseteq BagToSet(f.heap) \cup {CandKey(u, v) : v \in R}
      /\ (BagToSet(f.heap) \ {r}) \cup {CandKey(u, v) : v \in R} \subseteq BagToSet(heap)
  <2>1. PICK C : C = {CandKey(u, v) : v \in R}
    OBVIOUS
  <2>2. IsABag(f.heap)
    BY <1>3
  <2> QED BY <2>1, <2>2, <1>f, PoppedIs
<1>9. /\ g.pc = f.pc /\ g.l = f.l /\ g.b = f.b /\ g.S = f.S /\ g.round = f.round
      /\ g.todo = f.todo /\ g.next = f.next /\ g.W = f.W
      /\ g.D = f.D /\ g.U = U /\ g.last = f.last /\ g.bi = f.bi
      /\ g.fresh = f.fresh /\ g.Kept = f.Kept /\ g.heap = heap /\ IsFrame(g)
  BY <1>1, <1>2, <1>h DEF IsFrame, Fields
<1>10. Len(stack)' = n /\ Low(n)' = Low(n)
  BY <1>1, <1>2, <1>9, <1>a, TopIs
<1>11. U \subseteq f.U \cup {u} /\ f.U \subseteq U /\ (u \notin f.U /\ u \in U => r = Key(u))
  BY <1>1
<1>12. Carries(f, g)
  <2> SUFFICES ASSUME NEW v \in Near(f), Covered(v, f)
               PROVE  Covered(v, g)' \/ (v \in Finals' /\ v \in Held(g))
    BY DEF Carries
  <2>1. v \in ReachedOnes /\ v \in Vertex /\ TrueKey(v) < f.b /\ TrueKey(v) \in Nat
    BY TrueFacts DEF Near, ReachedOnes
  <2>2. PICK y \in PathTo(v) : Active(y, f)
    BY DEF Covered
  <2>3. y \in Finals /\ TrueKey(y) \in BagToSet(f.heap) /\ y \in Vertex
    <3>1. f.pc # "expand" /\ f.pc # "loop" /\ f.pc # "wait" /\ f.pc # "relax"
      BY <1>1
    <3> QED BY <3>1, <2>2 DEF Active, Finals
  <2>4. PathTo(v)' = PathTo(v) /\ TrueKey(y)' = TrueKey(y) /\ y \in Finals'
    BY <2>1, <2>3, <1>6 DEF Improves
  <2>5. CASE TrueKey(y) # r
    <3>1. TrueKey(y) \in BagToSet(heap)
      BY <2>3, <2>5, <1>8
    <3>2. Active(y, g)'
      BY <3>1, <2>4, <1>1, <1>9 DEF Active
    <3> QED BY <3>2, <2>2, <2>4 DEF Covered
  <2>6. CASE TrueKey(y) = r
    <3>1. y = u /\ r = Key(u) /\ Key(u) = TrueKey(u)
      BY <2>3, <2>6, <1>1, <1>2, KeyFacts, FinalFacts
    <3>2. CASE R = {w \in Succ(u) : Passes(u, w) /\ CandKey(u, w) < f.b} /\ u \in U
      <4>1. CASE v = u
        BY <3>1, <3>2, <4>1, <2>3, <2>4, <1>9 DEF Held
      <4>2. CASE v # u
        <5>1. PICK z \in PathTo(v) : z # Source /\ Parent(z) = u
          BY <3>1, <4>2, <2>1, <2>2, NextOnPath
        <5>2. z \in ReachedOnes /\ z \in Vertex /\ TrueKey(z) \in Nat /\ TrueKey(z) <= TrueKey(v)
          BY <2>1, PathIs, PathKeys, TrueFacts DEF ReachedOnes
        <5>3. Code(Parent(z)) = best[Parent(z)]
          BY <5>1, <3>1, <2>3, <1>2, FinalFacts
        <5>4. /\ z \in Succ(u) /\ Passes(u, z) /\ CandKey(u, z) = TrueKey(z)
              /\ (Relaxes(u, R) /\ z \in R => z \in Finals')
          BY <5>1, <5>2, <5>3, <1>2, NextFinal
        <5>5. z \in R
          <6>1. CandKey(u, z) < f.b
            BY <5>2, <5>4, <2>1, <1>3
          <6> QED BY <6>1, <5>4, <3>2
        <5>6. z \in Finals' /\ TrueKey(z) \in BagToSet(heap) /\ TrueKey(z)' = TrueKey(z)
          BY <5>2, <5>4, <5>5, <1>5, <1>6, <1>8 DEF Improves
        <5>7. Active(z, g)'
          BY <5>6, <1>1, <1>9 DEF Active
        <5> QED BY <5>7, <2>4 DEF Covered
      <4> QED BY <4>1, <4>2
    <3>3. CASE u \in f.U /\ HeapOk(f) /\ R = {} /\ U = f.U
      <4>1. u \in f.U \cap Finals /\ u \in PathTo(v)
        BY <3>1, <3>3, <2>2, <2>3
      <4>2. CASE v \in f.U \cap Finals
        BY <4>2, <2>1, <3>3, <1>6, <1>9 DEF Held, Improves
      <4>3. ASSUME NEW z \in PathTo(v), z # Source, Parent(z) \in f.U \cap Finals,
                   ~(z \in f.U \cap Finals), TrueKey(u) < TrueKey(z)
            PROVE  Covered(v, g)'
        <5>1. PICK w : w = Parent(z)
          OBVIOUS
        <5>2. z \in ReachedOnes /\ z \in Vertex /\ TrueKey(z) \in Nat /\ TrueKey(z) <= TrueKey(v)
          BY <2>1, PathIs, PathKeys, TrueFacts DEF ReachedOnes
        <5>3. w \in f.U /\ Code(w) = best[w]
          BY <5>1, <4>3, <1>2, FinalFacts
        <5>4. z \in Succ(w) /\ Passes(w, z) /\ CandKey(w, z) = TrueKey(z)
          BY <5>1, <5>2, <5>3, <4>3, <1>2, NextFinal
        <5>5. CandKey(w, z) < f.b
          BY <5>2, <5>4, <2>1, <1>3
        <5>6. Code(z) = Cand(w, z) /\ pred[z] = w /\ (z \in f.U \/ Key(z) \in BagToSet(f.heap))
          BY <5>3, <5>4, <5>5, <3>3, <1>1 DEF HeapOk
        <5>7. Key(z) = CandKey(w, z) /\ Key(z) = TrueKey(z)
          BY <5>2, <5>4, <5>6, <1>2, CodeFacts DEF CandKey, LabelsOk
        <5>8. z \in Finals
          BY <5>1, <5>2, <5>6, <5>7, <1>2, KeyFacts DEF Finals, Final, ReachedOnes
        <5>9. TrueKey(z) \in BagToSet(heap)
          <6>1. TrueKey(z) # r /\ TrueKey(z) \in BagToSet(f.heap)
            BY <5>6, <5>7, <5>8, <4>3, <3>1, <5>2, <1>4
          <6> QED BY <6>1, <1>8
        <5>10. Active(z, g)'
          BY <5>8, <5>9, <5>2, <1>1, <1>6, <1>9 DEF Active, Improves
        <5> QED BY <5>10, <2>4 DEF Covered
      <4> QED BY <4>1, <4>2, <4>3, <2>1, <1>2, LastPopped
    <3>4. \/ R = {w \in Succ(u) : Passes(u, w) /\ CandKey(u, w) < f.b} /\ u \in U
          \/ u \in f.U /\ HeapOk(f) /\ R = {} /\ U = f.U
      BY <3>1 DEF Pops
    <3> QED BY <3>2, <3>3, <3>4
  <2> QED BY <2>5, <2>6
<1>13. ASSUME NEW x \in U
       PROVE  /\ x \in ReachedOnes /\ x \in Vertex /\ Key(x)' \in Nat
              /\ Key(x)' <= r /\ Key(x)' < f.b /\ Low(n) <= Key(x)'
  <2>1. CASE x \in f.U
    <3>1. x \in ReachedOnes /\ x \in Vertex /\ Low(n) <= Key(x) /\ Key(x) <= r /\ Key(x) \in Nat
      BY <2>1, <1>1, <1>2, <1>3 DEF CallOk
    <3>2. Key(x)' <= Key(x) /\ Key(x)' \in Nat /\ (Key(x)' = Key(x) \/ Low(n) <= Key(x)')
      BY <3>1, <1>6, <1>7
    <3> QED BY <3>1, <3>2, <1>2, <1>3, <1>4
  <2>2. CASE x \notin f.U
    <3>1. x = u /\ r = Key(u)
      BY <2>2, <1>11
    <3>2. Key(u)' = Key(u) \/ Key(u) <= Key(u)'
      BY <1>4, <1>6
    <3>3. Key(u)' <= Key(u) /\ Key(u)' \in Nat
      BY <1>4, <1>6
    <3> QED BY <3>1, <3>2, <3>3, <1>3, <1>4
  <2> QED BY <2>1, <2>2
<1>14. BaseOk(n, g)'
  <2>1. ASSUME NEW q \in BagToSet(heap)
        PROVE  /\ q \in Nat /\ Low(n) <= q /\ q < f.b
               /\ IdOf[q] \in ReachedOnes /\ (Key(IdOf[q]) <= q)'
               /\ \A x \in U : Key(x)' <= q
    <3>1. CASE q \in BagToSet(f.heap)
      <4>1. PICK w \in Vertex : w = IdOf[q]
        BY <3>1, <1>3 DEF ReachedOnes
      <4>2. /\ q \in Nat /\ Low(n) <= q /\ q < f.b /\ w \in ReachedOnes /\ Key(w) <= q /\ r <= q
        BY <3>1, <4>1, <1>1, <1>3
      <4>3. Key(w)' <= q
        BY <4>1, <4>2, <1>6
      <4>4. \A x \in U : Key(x)' <= q
        BY <4>2, <1>4, <1>13
      <4> QED BY <4>1, <4>2, <4>3, <4>4
    <3>2. CASE q \notin BagToSet(f.heap)
      <4>1. PICK w \in R : q = CandKey(u, w)
        BY <3>2, <1>8
      <4>2. r = Key(u) /\ q < f.b
        BY <4>1, <1>1
      <4>3. q \in Nat /\ r < q /\ IdOf[q] = w /\ w \in ReachedOnes /\ Key(w)' = q
        BY <4>1, <4>2, <1>6
      <4>4. \A x \in U : Key(x)' <= q
        BY <4>3, <1>4, <1>13
      <4>5. (Key(w) <= q)'
        BY <4>3
      <4> QED BY <4>2, <4>3, <4>4, <4>5, <1>2, <1>4
    <3> QED BY <3>1, <3>2
  <2>2. \A x \in U : Key(x)' < f.b
    BY <1>13
  <2>3. ReachedOnes' = ReachedOnes
    BY <1>6 DEF Improves
  <2> QED BY <2>1, <2>2, <2>3, <1>3, <1>8, <1>9, <1>10 DEF BaseOk
<1>15. CallOk(n, g)'
  <2>1. ASSUME NEW x \in g.S PROVE Key(x)' < g.b
    <3>1. x \in Vertex /\ Key(x) < f.b /\ Key(x) \in Nat
      BY <1>2, <1>9 DEF CallOk
    <3>2. Key(x)' <= Key(x) /\ Key(x)' \in Nat
      BY <3>1, <1>6
    <3> QED BY <3>1, <3>2, <1>3, <1>9
  <2>2. ASSUME NEW x \in g.S \cup g.W \cup g.next \cup g.U \cup g.todo PROVE Low(n) <= Key(x)'
    <3>1. CASE x \in U
      BY <3>1, <1>13
    <3>2. CASE x \notin U
      <4>1. Low(n) <= Key(x) /\ x \in Vertex
        BY <3>2, <1>2, <1>9 DEF CallOk
      <4> QED BY <4>1, <1>7
    <3> QED BY <3>1, <3>2
  <2>3. g.S \cup g.W \cup g.next \cup g.U \cup g.todo \cup g.fresh \subseteq ReachedOnes'
    BY <1>2, <1>6, <1>9, <1>13 DEF CallOk, Improves
  <2> QED BY <2>1, <2>2, <2>3, <1>1, <1>2, <1>6, <1>9, <1>10 DEF CallOk, Improves
<1>16. FrameOk(n, g)'
  <2>1. IsFrame(g)' /\ ExpandOk(g)' /\ LoopOk(n, g)' /\ PulledOk(g)' /\ WaitOk(n, g)'
    BY <1>1, <1>9 DEF IsFrame, ExpandOk, LoopOk, PulledOk, WaitOk
  <2> QED BY <2>1, <1>14, <1>15 DEF FrameOk
<1>17. EntriesCovered(g)'
  BY <1>1, <1>3, <1>9 DEF EntriesCovered, Entries
<1>18. Held(f) \subseteq Held(g) /\ \A v \in settled : Key(v) < Floor(g)'
  BY <1>1, <1>2, <1>9, <1>10, <1>11 DEF Held, Floor
<1>19. g.pc # "wait"
  BY <1>1, <1>9
<1> QED BY <1>a, <1>1, <1>2, <1>6, <1>7, <1>9, <1>12, <1>16, <1>17, <1>18, <1>19, TopStep

(* A pop in a base case keeps the invariant.                                *)
LEMMA BasePopStep ==
  ASSUME Ground, IsSeq(stack), Inv, BasePop
  PROVE  Inv' /\ IsSeq(stack') /\ Ground' /\ Improves
<1>1. PICK r \in BagToSet(top.heap) :
        LET u == IdOf[r]
            R == IF Live(r) THEN Gated(u) ELSE {}
        IN  /\ IsTop(r, top.heap)
            /\ Relabel(u, R)
            /\ SetTop([top EXCEPT
                 !.heap = Popped(@, r, u, R),
                 !.U    = IF Live(r) THEN @ \cup {u} ELSE @])
  BY DEF BasePop
<1>2. PICK u : u = IdOf[r]
  OBVIOUS
<1>3. PICK R : R = IF Live(r) THEN Gated(u) ELSE {}
  OBVIOUS
<1>4. PICK U : U = IF Live(r) THEN top.U \cup {u} ELSE top.U
  OBVIOUS
<1>5. /\ Relabel(u, R)
      /\ SetTop([top EXCEPT !.heap = Popped(top.heap, r, u, R), !.U = U])
      /\ \A x \in BagToSet(top.heap) : r <= x
  BY <1>1, <1>2, <1>3, <1>4 DEF IsTop
<1>6. /\ Live(r) <=> r = Key(u)
      /\ Gated(u) = {v \in Succ(u) : Passes(u, v) /\ CandKey(u, v) < top.b}
  BY <1>2 DEF Live, Gated
<1>7. Pops(top, r, u, R, U)
  BY <1>2, <1>3, <1>4, <1>5, <1>6 DEF Pops, BasePop, At
<1> QED BY <1>7, PopsStep

(* So does one in the fork, in a base case or in the oracle.               *)
LEMMA HeapPopStep ==
  ASSUME Ground, IsSeq(stack), Inv, EngineOk, EngineBasePop \/ OraclePop
  PROVE  /\ Inv' /\ IsSeq(stack') /\ Ground' /\ Improves
         /\ \E f, r, u, R, U : /\ Pops(f, r, u, R, U)
                               /\ u \in f.U \/ r # Key(u) => R = {} /\ U = f.U
<1>1. PICK r \in BagToSet(top.heap) :
        LET u == IdOf[r]
            R == IF Counts(r) THEN Gated(u) ELSE {}
        IN  /\ IsTop(r, top.heap)
            /\ Relabel(u, R)
            /\ SetTop([top EXCEPT
                 !.heap = Popped(@, r, u, R),
                 !.U    = IF Counts(r) THEN @ \cup {u} ELSE @])
  BY DEF EngineBasePop, OraclePop, HeapPop
<1>2. PICK u : u = IdOf[r]
  OBVIOUS
<1>3. PICK R : R = IF Counts(r) THEN Gated(u) ELSE {}
  OBVIOUS
<1>4. PICK U : U = IF Counts(r) THEN top.U \cup {u} ELSE top.U
  OBVIOUS
<1>5. /\ Relabel(u, R)
      /\ SetTop([top EXCEPT !.heap = Popped(top.heap, r, u, R), !.U = U])
      /\ \A x \in BagToSet(top.heap) : r <= x
  BY <1>1, <1>2, <1>3, <1>4 DEF IsTop
<1>6. /\ Counts(r) <=> r = Key(u) /\ u \notin top.U
      /\ Gated(u) = {v \in Succ(u) : Passes(u, v) /\ CandKey(u, v) < top.b}
  BY <1>2 DEF Counts, Live, Gated
<1>7. Len(stack) > 0 /\ top.pc \in {"base", "oracle"} /\ UNCHANGED <<run, settled>>
  BY DEF EngineBasePop, OraclePop, At
<1>8. HeapOk(top)
  <2>1. Len(stack) \in 1..Len(stack)
    BY <1>7, CallsAre
  <2> QED BY <2>1 DEF EngineOk, EngineFrameOk, top
<1>9. PICK f : f = top
  OBVIOUS
<1>10. Pops(f, r, u, R, U) /\ (u \in f.U \/ r # Key(u) => R = {} /\ U = f.U)
  BY <1>2, <1>3, <1>4, <1>5, <1>6, <1>7, <1>8, <1>9 DEF Pops
<1> QED BY <1>10, PopsStep

-----------------------------------------------------------------------------
(* A pull.                                                                  *)

(* The stack after a call.                                                 *)
LEMMA PushTopIs ==
  ASSUME Ground, IsSeq(stack), Inv, NEW n, n = Len(stack), n > 0,
         NEW g, NEW c, Push(g, c), c.pc # "wait"
  PROVE  /\ n \in Nat \ {0} /\ n \in 1..n /\ Low(n) \in Nat
         /\ IsSeq(stack') /\ Len(stack)' = n + 1
         /\ stack'[n] = g /\ F(n)' = g /\ stack'[n + 1] = c /\ F(n + 1)' = c
         /\ Low(n + 1)' = g.last
         /\ \A i \in 1..n : /\ Low(i)' = Low(i)
                            /\ i # n => stack'[i] = stack[i] /\ F(i)' = F(i)
<1>1. n \in Nat \ {0} /\ n \in 1..n /\ Low(n) \in Nat
  BY CallsAre
<1>2. /\ IsSeq(stack') /\ Len(stack') = n + 1 /\ stack'[n] = g /\ stack'[n + 1] = c
      /\ \A i \in 1..n : i # n => stack'[i] = stack[i]
  BY PushIs
<1>3. F(n)' = g /\ F(n + 1)' = c
  BY <1>1, <1>2 DEF F
<1>4. ASSUME NEW i \in 1..n PROVE Low(i)' = Low(i)
  <2>1. CASE i = 1
    BY <2>1 DEF Low
  <2>2. CASE i # 1
    <3>1. i - 1 \in 1..n /\ i - 1 # n
      BY <2>2, <1>1
    <3>2. stack'[i - 1] = stack[i - 1]
      BY <3>1, <1>2
    <3> QED BY <2>2, <3>2 DEF Low
  <2> QED BY <2>1, <2>2
<1>5. Low(n + 1)' = g.last
  BY <1>1, <1>2 DEF Low
<1>6. ASSUME NEW i \in 1..n, i # n PROVE F(i)' = F(i)
  <2>1. i # n + 1
    BY <1>1
  <2> QED BY <2>1, <1>2, <1>6 DEF F
<1> QED BY <1>1, <1>2, <1>3, <1>4, <1>5, <1>6

(* A step of the innermost call to g that calls c keeps the invariant:      *)
(* what concerns g and c alone is left to be shown.                         *)
LEMMA PushStep ==
  ASSUME Ground, IsSeq(stack), Inv, Improves, Ground', LabelsOk', settled' = settled,
         NEW n, n = Len(stack), n > 0,
         NEW f, f = F(n), NEW g, NEW c, Push(g, c), c.pc # "wait",
         g.b = f.b, g.S = f.S, Held(f) \subseteq Held(g),
         \A v \in Vertex : Key(v)' = Key(v),
         Carries(f, g), EntriesCovered(g)', FrameOk(n, g)',
         Low(n) <= g.last, g.last \in Nat,
         FrameOk(n + 1, c)', EntriesCovered(c)', BehindCovered(c)',
         \A v \in Near(c)' : v \in settled \/ (v \in Finals /\ Upheld(v, n)) \/ Covered(v, c)',
         \A v \in settled : Key(v) < g.last, Floor(c)' = g.last
  PROVE  Inv' /\ IsSeq(stack')
<1>1. LabelsOk /\ settled \subseteq Finals /\ LowsRise
  BY DEF Inv
<1>2. /\ n \in Nat \ {0} /\ n \in 1..n /\ Low(n) \in Nat
      /\ IsSeq(stack') /\ Len(stack)' = n + 1
      /\ stack'[n] = g /\ F(n)' = g /\ stack'[n + 1] = c /\ F(n + 1)' = c
      /\ Low(n + 1)' = g.last
      /\ \A i \in 1..n : /\ Low(i)' = Low(i)
                         /\ i # n => stack'[i] = stack[i] /\ F(i)' = F(i)
  BY PushTopIs
<1>3. ASSUME NEW i \in 1..n, i # n, NEW h, h = stack[i]
      PROVE  /\ stack'[i] = h /\ F(i)' = h
             /\ FrameOk(i, h)' /\ NearCovered(i, h)' /\ BehindCovered(h)' /\ EntriesCovered(h)'
  <2>1. stack'[n].S = stack[n].S /\ stack'[n].b = stack[n].b
    BY <1>2, CallsAre
  <2>2. Len(stack)' \in Nat /\ n <= Len(stack)'
    BY <1>2
  <2>3. \A v \in Vertex : Key(v)' = Key(v) \/ Low(n) <= Key(v)'
    OBVIOUS
  <2> QED BY <2>1, <2>2, <2>3, <1>2, <1>3, CallersStay
<1>4. ASSUME NEW v, v \in Held(g) \/ Upheld(v, n) PROVE Upheld(v, n)'
  <2>1. CASE v \in Held(g)
    <3>1. v \in Held(F(n))'
      BY <2>1, <1>2 DEF Held
    <3> QED BY <3>1, <1>2 DEF Upheld
  <2>2. CASE Upheld(v, n) /\ v \notin Held(g)
    <3>1. PICK j \in 1..n : v \in Held(F(j))
      BY <2>2 DEF Upheld
    <3>2. j # n
      BY <3>1, <2>2
    <3>3. F(j)' = F(j)
      BY <3>2, <1>2
    <3>4. v \in Held(F(j))'
      BY <3>1, <3>3 DEF Held
    <3> QED BY <3>4, <1>2 DEF Upheld
  <2> QED BY <2>1, <2>2, <1>4
<1>5. NearCovered(n, g)' /\ BehindCovered(g)'
  <2>1. IsFrame(stack[n]) /\ CallOk(n, stack[n]) /\ f.S = stack[n].S /\ f.b = stack[n].b
        /\ NearCovered(n, f) /\ BehindCovered(f)
    BY <1>2, CallsAre DEF FrameOk
  <2>2. \A x \in f.S : x \in Near(f)
    BY <2>1, <1>1, FrameSets DEF Near
  <2> QED BY <2>1, <2>2, <1>1, <1>4, CallStep
<1>6. NearCovered(n + 1, c)'
  <2>1. ASSUME NEW v, v \in Finals, Upheld(v, n) PROVE v \in Finals' /\ Upheld(v, n + 1)'
    <3>1. PICK j \in 1..n : v \in Held(F(j))'
      BY <2>1, <1>4 DEF Upheld
    <3>2. j \in 1..(n + 1)
      BY <1>2
    <3>3. Upheld(v, n + 1)'
      BY <3>1, <3>2 DEF Upheld
    <3> QED BY <3>3, <2>1 DEF Improves
  <2> QED BY <2>1 DEF NearCovered
<1>7. FramesInv'
  <2>1. ASSUME NEW i \in 1..(n + 1)
        PROVE  /\ \A h \in {stack'[i]} : FrameOk(i, h)'
               /\ \A h \in {F(i)'} : NearCovered(i, h)' /\ BehindCovered(h)' /\ EntriesCovered(h)'
    <3>1. CASE i = n
      BY <3>1, <1>2, <1>5
    <3>2. CASE i = n + 1
      BY <3>2, <1>2, <1>6
    <3>3. CASE i # n /\ i # n + 1
      <4>1. i \in 1..n
        BY <3>3, <1>2
      <4> QED BY <3>3, <4>1, <1>3
    <3> QED BY <3>1, <3>2, <3>3
  <2> QED BY <2>1, <1>2 DEF FramesInv
<1>8. LowsRise'
  <2> SUFFICES ASSUME NEW i \in 1..(n + 1), NEW j \in 1..(n + 1), i <= j
               PROVE  Low(i)' <= Low(j)'
    BY <1>2 DEF LowsRise
  <2>1. CASE j \in 1..n
    <3>1. i \in 1..n
      BY <2>1, <1>2
    <3> QED BY <3>1, <2>1, <1>1, <1>2 DEF LowsRise
  <2>2. CASE j = n + 1 /\ i \in 1..n
    <3>1. Low(i) <= Low(n) /\ Low(i) \in Nat
      BY <2>2, <1>1, <1>2, CallsAre DEF LowsRise
    <3> QED BY <3>1, <2>2, <1>2
  <2>3. CASE j = n + 1 /\ i = n + 1
    BY <2>3, <1>2
  <2>4. j \in 1..n \/ j = n + 1
    BY <1>2
  <2>5. i \in 1..n \/ i = n + 1
    BY <1>2
  <2> QED BY <2>1, <2>2, <2>3, <2>4, <2>5
<1>9. SettledBelow'
  <2>1. \A v \in settled : v \in Vertex
    BY <1>1 DEF Finals
  <2>2. \A v \in settled : Key(v)' < Floor(c)'
    BY <2>1
  <2> QED BY <2>2, <1>2 DEF SettledBelow
<1>10. AllDone' /\ (settled \subseteq Finals)'
  BY <1>1, <1>2 DEF AllDone, Improves
<1> QED BY <1>2, <1>7, <1>8, <1>9, <1>10 DEF Inv

(* A pull at level 1 returns at most one label.                            *)
LEMMA SingleBlocks ==
  ASSUME prm \in Params, NEW l, l \in Nat, l - 1 = 0
  PROVE  BlockSize(l) = 1
<1>1. prm.t \in Nat
  BY BmsspAssumption
<1>2. (l - 1) * prm.t = 0
  BY <1>1
<1>3. 2^0 = 1
  OBVIOUS
<1>4. 2^((l - 1) * prm.t) = 1
  BY <1>2, <1>3
<1> QED BY <1>4, VertexFacts DEF BlockSize

(* What a pull may return, of labels below b and at least low.             *)
LEMMA PullFacts ==
  ASSUME NEW D, NEW b \in Nat, NEW low \in Nat, low <= b, b <= KeyInf, NEW m,
         D \subseteq Nat, \A r \in D : low <= r /\ r < b,
         NEW batch, NEW x, IsPull(batch, x, D, m, b)
  PROVE  /\ batch \subseteq D /\ x \in Nat /\ low <= x /\ x <= b
         /\ \A r \in batch : r < x
         /\ \A r \in D \ batch : x <= r
         /\ m = 1 => \A r, s \in batch : r = s
<1>1. D \subseteq 0..(KeyInf - 1) /\ KeyInf \in Nat
  BY UnreachedFacts
<1>2. 0 \in Int /\ KeyInf - 1 \in Int
  BY <1>1
<1>3. IsFiniteSet(0..(KeyInf - 1))
  BY <1>2, FS_Interval, Zenon
<1>4. IsFiniteSet(D)
  BY <1>1, <1>3, FS_Subset
<1>5. batch \subseteq D /\ (D = batch \/ (Cardinality(batch) = m /\ AllBelow(batch, D \ batch)))
      /\ (m = 1 => Cardinality(batch) <= 1)
  <2>1. Cardinality(D) \in Nat
    BY <1>4, FS_CardinalityType
  <2> QED BY <2>1 DEF IsPull, IsSmallest
<1>6. /\ D \ batch = {} => x = b
      /\ D \ batch # {} => x \in D \ batch /\ \A r \in D \ batch : x <= r
  BY DEF IsPull, IsMinOr
<1>7. x \in Nat /\ low <= x /\ x <= b /\ \A r \in D \ batch : x <= r
  <2>1. CASE D \ batch = {}
    BY <2>1, <1>6
  <2>2. CASE D \ batch # {}
    <3>1. x \in D /\ \A r \in D \ batch : x <= r
      BY <2>2, <1>6
    <3>2. x \in Nat /\ low <= x /\ x < b
      BY <3>1
    <3> QED BY <3>1, <3>2
  <2> QED BY <2>1, <2>2
<1>8. ASSUME NEW r \in batch PROVE r < x
  <2>1. CASE D \ batch = {}
    BY <2>1, <1>5, <1>6
  <2>2. CASE D \ batch # {}
    <3>1. x \in D \ batch /\ AllBelow(batch, D \ batch)
      BY <2>2, <1>5, <1>6
    <3> QED BY <3>1 DEF AllBelow
  <2> QED BY <2>1, <2>2
<1>9. ASSUME m = 1, NEW r \in batch, NEW s \in batch, r # s PROVE FALSE
  <2>1. IsFiniteSet(batch) /\ {r, s} \subseteq batch /\ IsFiniteSet({r, s})
    BY <1>4, <1>5, <1>9, FS_Subset
  <2>2. Cardinality({r, s}) <= Cardinality(batch) /\ Cardinality(batch) \in Nat
    BY <2>1, FS_Subset, FS_CardinalityType
  <2>3. Cardinality({r, s}) = 2
    <3>1. IsFiniteSet({r}) /\ Cardinality({r}) = 1 /\ s \notin {r}
      BY <1>9, FS_Singleton
    <3>2. Cardinality({r} \cup {s}) = 2
      BY <3>1, FS_AddElement
    <3>3. {r, s} = {r} \cup {s}
      OBVIOUS
    <3> QED BY <3>2, <3>3
  <2> QED BY <2>2, <2>3, <1>5, <1>9
<1> QED BY <1>5, <1>7, <1>8, <1>9

(* The path to itself. *)
LEMMA ChainOfOne ==
  ASSUME Ground, NEW y \in ReachedOnes
  PROVE  Chain(y, y) = {y} /\ Cardinality(Chain(y, y)) = 1
<1>1. PathTo(y) \subseteq ReachedOnes /\ y \in PathTo(y)
  BY PathIs
<1>2. ASSUME NEW x \in Chain(y, y), x # y PROVE FALSE
  <2>1. x \in PathTo(y) /\ y \in PathTo(x) /\ x \in ReachedOnes
    BY <1>1 DEF Chain
  <2>2. TrueKey(x) < TrueKey(y) /\ TrueKey(y) < TrueKey(x)
    BY <2>1, <1>2, PathKeys
  <2>3. TrueKey(x) \in Nat /\ TrueKey(y) \in Nat
    BY <2>1, TrueFacts DEF ReachedOnes
  <2> QED BY <2>2, <2>3
<1>3. Chain(y, y) = {y}
  BY <1>1, <1>2 DEF Chain
<1> QED BY <1>3, FS_Singleton

(* A call that starts with S and the bound x after low is completed.        *)
Starts(n, l, x, S, low, c) ==
  /\ Ground /\ LabelsOk /\ n \in Nat /\ l \in Nat /\ x \in Nat /\ x <= KeyInf
  /\ n = 0 => l = prm.l /\ x = KeyInf
  /\ S \subseteq ReachedOnes /\ S # {} /\ low \in Nat /\ low < x
  /\ \A y \in S : low <= Key(y) /\ Key(y) < x
  /\ l = 0 => \A y, z \in S : y = z
  /\ Low(n + 1) = low /\ Len(stack) = n + 1
  /\ c \in {Call(l, x, S), EngineCall(l, x, S)}

Started(n, x, S, low, c) ==
  /\ IsFrame(c) /\ c.pc # "wait" /\ Floor(c) = low /\ c.S = S /\ c.b = x
  /\ FrameOk(n + 1, c) /\ EntriesCovered(c) /\ BehindCovered(c)
  /\ \A y \in S \cap Finals : Active(y, c)

CalleesStart ==
  \A n, l, x, S, low, c : Starts(n, l, x, S, low, c) => Started(n, x, S, low, c)

(* The heap of the vertices in S.                                          *)
LEMMA KeysIs ==
  ASSUME NEW S
  PROVE  /\ IsABag(Keys(S)) /\ BagToSet(Keys(S)) = {Key(z) : z \in S}
         /\ \A r \in BagToSet(Keys(S)) : Keys(S)[r] = 1
<1>1. PICK T : T = {Key(z) : z \in S}
  OBVIOUS
<1>2. Keys(S) = SetToBag(T)
  BY <1>1 DEF Keys
<1> QED BY <1>1, <1>2 DEF IsABag, SetToBag, BagToSet

(* A call of the fork, whose heaps start with the vertices of S once each,  *)
(* and its U with nothing.                                                 *)
LEMMA EngineCallIs ==
  ASSUME NEW l, NEW x, NEW S, NEW c, c = EngineCall(l, x, S)
  PROVE  /\ c.pc = IF UsesDijkstra(l, S) THEN "oracle" ELSE IF l = 0 THEN "base" ELSE "expand"
         /\ c.l = l /\ c.b = x /\ c.S = S
         /\ c.round = 1 /\ c.todo = S /\ c.next = {} /\ c.W = S /\ c.D = {} /\ c.U = {}
         /\ c.last = x /\ c.bi = x /\ c.fresh = {} /\ c.Kept = {}
         /\ (c.pc \in {"base", "oracle"} => c.heap = Keys(S))
         /\ Fields \subseteq DOMAIN c
<1>1. PICK d : d = Call(l, x, S)
  OBVIOUS
<1>2. /\ d.pc = (IF l = 0 THEN "base" ELSE "expand") /\ d.l = l /\ d.b = x /\ d.S = S
      /\ d.round = 1 /\ d.todo = S /\ d.next = {} /\ d.W = S /\ d.D = {}
      /\ d.last = x /\ d.bi = x /\ d.fresh = {} /\ d.Kept = {}
      /\ (l = 0 => d.heap = Keys(S))
      /\ DOMAIN d = Fields
  BY <1>1 DEF Call, Fields
<1>3. ASSUME NEW e, DOMAIN e = Fields, NEW w, c = Frame(e, w)
      PROVE  Fields \subseteq DOMAIN c /\ \A fld \in Fields : c[fld] = e[fld]
  BY <1>3 DEF Frame, Fields
<1>4. CASE UsesDijkstra(l, S)
  <2>1. PICK e : e = [d EXCEPT !.pc = "oracle", !.heap = Keys(S), !.U = {}]
    OBVIOUS
  <2>2. c = Frame(e, 0)
    BY <2>1, <1>1, <1>4 DEF EngineCall
  <2>3. DOMAIN e = Fields /\ e.pc = "oracle" /\ e.heap = Keys(S) /\ e.U = {}
        /\ e.l = l /\ e.b = x /\ e.S = S
        /\ e.round = 1 /\ e.todo = S /\ e.next = {} /\ e.W = S /\ e.D = {}
        /\ e.last = x /\ e.bi = x /\ e.fresh = {} /\ e.Kept = {}
    BY <2>1, <1>2 DEF Fields
  <2>4. Fields \subseteq DOMAIN c /\ \A fld \in Fields : c[fld] = e[fld]
    BY <2>2, <2>3, <1>3
  <2> QED BY <2>3, <2>4, <1>4 DEF Fields
<1>5. CASE ~UsesDijkstra(l, S)
  <2>1. PICK e : e = [d EXCEPT !.U = {}]
    OBVIOUS
  <2>2. PICK w : c = Frame(e, w)
    BY <2>1, <1>1, <1>5 DEF EngineCall
  <2>3. DOMAIN e = Fields /\ e.pc = (IF l = 0 THEN "base" ELSE "expand") /\ e.U = {}
        /\ e.l = l /\ e.b = x /\ e.S = S
        /\ e.round = 1 /\ e.todo = S /\ e.next = {} /\ e.W = S /\ e.D = {}
        /\ e.last = x /\ e.bi = x /\ e.fresh = {} /\ e.Kept = {}
        /\ (l = 0 => e.heap = Keys(S))
    BY <2>1, <1>2 DEF Fields
  <2>4. Fields \subseteq DOMAIN c /\ \A fld \in Fields : c[fld] = e[fld]
    BY <2>2, <2>3, <1>3
  <2> QED BY <2>3, <2>4, <1>5 DEF Fields
<1> QED BY <1>4, <1>5

(* It is.                                                                   *)
LEMMA CalleeStarts == CalleesStart
<1> SUFFICES ASSUME NEW n, NEW l, NEW x, NEW S, NEW low, NEW c, Starts(n, l, x, S, low, c)
             PROVE  Started(n, x, S, low, c)
  BY DEF CalleesStart
<1>0. /\ Ground /\ LabelsOk /\ n \in Nat /\ l \in Nat /\ x \in Nat /\ x <= KeyInf
      /\ n = 0 => l = prm.l /\ x = KeyInf
      /\ S \subseteq ReachedOnes /\ S # {} /\ low \in Nat /\ low < x
      /\ \A y \in S : low <= Key(y) /\ Key(y) < x
      /\ l = 0 => \A y, z \in S : y = z
      /\ Low(n + 1) = low /\ Len(stack) = n + 1
      /\ c \in {Call(l, x, S), EngineCall(l, x, S)}
  BY DEF Starts
<1> USE <1>0
<1>1. /\ c.pc \in {"base", "oracle", "expand"} /\ (c.pc = "base" => l = 0) /\ (c.pc = "expand" => l # 0)
      /\ c.l = l /\ c.b = x /\ c.S = S
      /\ c.round = 1 /\ c.todo = S /\ c.next = {} /\ c.W = S /\ c.D = {}
      /\ c.U \subseteq S /\ (c.pc = "expand" => c.U = {})
      /\ c.last = x /\ c.bi = x /\ c.fresh = {} /\ c.Kept = {}
      /\ (c.pc \in {"base", "oracle"} => c.heap = Keys(S))
      /\ (c.pc = "oracle" => c.U = {})
      /\ Fields \subseteq DOMAIN c
  <2>1. CASE c = Call(l, x, S)
    BY <2>1 DEF Call, Fields
  <2>2. CASE c = EngineCall(l, x, S)
    BY <2>2, EngineCallIs
  <2> QED BY <2>1, <2>2
<1>2. c.pc # "wait" /\ c.pc # "loop" /\ c.pc # "relax"
  BY <1>1
<1>3. IsFrame(c)
  BY <1>1 DEF IsFrame
<1>4. \A y \in S : y \in Vertex /\ Key(y) \in Nat /\ IdOf[Key(y)] = y
  BY KeyFacts DEF ReachedOnes
<1>5. CallOk(n + 1, c)
  BY <1>1, <1>2 DEF CallOk
<1>6. ExpandOk(c)
  <2>1. Grown(c)
    <3> SUFFICES ASSUME NEW y \in S, y \in Finals, NEW v \in Near(c), y \in PathTo(v)
                 PROVE  \E z \in PathTo(v) :
                          /\ y \in PathTo(z)
                          /\ Chain(y, z) \subseteq Finals \cap (c.W \cup c.next)
                          /\ \/ z \in c.todo /\ Cardinality(Chain(y, z)) >= c.round
                             \/ z \in c.next /\ Cardinality(Chain(y, z)) >= c.round + 1
      BY <1>1 DEF Grown
    <3>1. y \in ReachedOnes /\ y \in PathTo(y)
      BY PathIs
    <3>2. Chain(y, y) \subseteq Finals \cap (c.W \cup c.next) /\ Cardinality(Chain(y, y)) >= c.round
      BY <3>1, <1>1, ChainOfOne
    <3>3. y \in c.todo
      BY <1>1
    <3> QED BY <3>1, <3>2, <3>3
  <2> QED BY <2>1, <1>1, <1>2 DEF ExpandOk
<1>7. BaseOk(n + 1, c)
  <2> SUFFICES ASSUME c.pc \in {"base", "oracle"}
               PROVE  /\ c.pc = "base" => Cardinality(c.S) = 1
                      /\ c.D = {} /\ c.next = {} /\ IsABag(c.heap)
                      /\ \A q \in BagToSet(c.heap) :
                           /\ q \in Nat /\ Low(n + 1) <= q /\ q < c.b
                           /\ IdOf[q] \in ReachedOnes /\ Key(IdOf[q]) <= q
                           /\ \A u \in c.U : Key(u) <= q
                      /\ \A u \in c.U : Key(u) < c.b
    BY DEF BaseOk
  <2>1. IsABag(c.heap) /\ BagToSet(c.heap) = {Key(z) : z \in S}
    BY <1>1, KeysIs
  <2>2. PICK y \in S : TRUE
    OBVIOUS
  <2>3. c.pc = "base" => S = {y}
    BY <2>2, <1>1
  <2>4. c.pc = "base" => Cardinality(c.S) = 1
    <3>1. Cardinality({y}) = 1
      BY FS_Singleton
    <3> QED BY <2>3, <3>1, <1>1
  <2>5. ASSUME NEW q \in BagToSet(c.heap)
        PROVE  /\ q \in Nat /\ Low(n + 1) <= q /\ q < c.b
               /\ IdOf[q] \in ReachedOnes /\ Key(IdOf[q]) <= q
               /\ \A u \in c.U : Key(u) <= q
    <3>1. PICK z \in S : q = Key(z)
      BY <2>1
    <3>2. Key(z) \in Nat /\ low <= Key(z) /\ Key(z) < x /\ IdOf[Key(z)] = z /\ z \in ReachedOnes
      BY <1>4
    <3>3. ASSUME NEW w \in c.U PROVE Key(w) <= q
      <4>1. w = z
        BY <2>3, <1>1
      <4> QED BY <4>1, <3>1, <3>2
    <3>4. Low(n + 1) <= q /\ q < c.b /\ q \in Nat
      BY <3>1, <3>2, <1>1
    <3>5. IdOf[q] \in ReachedOnes /\ Key(IdOf[q]) <= q
      BY <3>1, <3>2
    <3> QED BY <3>3, <3>4, <3>5
  <2>6. \A u \in c.U : Key(u) < c.b
    BY <1>1
  <2> QED BY <2>1, <2>4, <2>5, <2>6, <1>1
<1>8. FrameOk(n + 1, c)
  <2>1. LoopOk(n + 1, c) /\ PulledOk(c) /\ WaitOk(n + 1, c)
    BY <1>2 DEF LoopOk, PulledOk, WaitOk
  <2> QED BY <2>1, <1>3, <1>5, <1>6, <1>7 DEF FrameOk
<1>9. ASSUME NEW y \in S \cap Finals PROVE Active(y, c)
  <2>1. CASE c.pc \in {"base", "oracle"}
    <3>1. TrueKey(y) = Key(y)
      BY FinalFacts
    <3>2. TrueKey(y) \in BagToSet(c.heap)
      BY <2>1, <3>1, <1>1, KeysIs
    <3> QED BY <2>1, <3>2, <1>1 DEF Active
  <2>2. CASE c.pc = "expand"
    BY <2>2, <1>1 DEF Active
  <2> QED BY <2>1, <2>2, <1>1
<1>10. BehindCovered(c)
  BY <1>1, <1>9 DEF BehindCovered, Covered
<1>11. EntriesCovered(c) /\ Floor(c) = low
  BY <1>1, <1>2 DEF EntriesCovered, Entries, Floor
<1> QED BY <1>1, <1>2, <1>3, <1>8, <1>9, <1>10, <1>11 DEF Started

(* CalleeStarts, of the state after a step.                                 *)
LEMMA CalleeNext ==
  ASSUME NEW n, NEW l, NEW x, NEW S, NEW low, NEW c, Starts(n, l, x, S, low, c)'
  PROVE  Started(n, x, S, low, c)'
<1>1. CalleesStart'
  BY CalleeStarts, PTL
<1> QED BY <1>1 DEF CalleesStart

(* A pulled vertex is settled, or S_i has it; what it covered is covered    *)
(* by the rest of D and S_i.                                               *)
LEMMA PullStep ==
  ASSUME Ground, IsSeq(stack), Inv, PullBatch \/ EnginePull, prm \in Params
  PROVE  Inv' /\ IsSeq(stack') /\ Ground' /\ Improves
<1>a. PICK n : n = Len(stack)
  OBVIOUS
<1>b. PICK f : f = top
  OBVIOUS
<1>m. PICK m : m = BlockSize(f.l)
  OBVIOUS
<1>c. PICK batch \in SUBSET f.D, x \in f.D \cup {f.b} :
        /\ IsPull(batch, x, f.D, m, f.b)
        /\ LET fresh == Fresh(batch)
               h     == [f EXCEPT !.D = @ \ batch, !.bi = x, !.fresh = fresh, !.Kept = {}]
           IN  IF fresh = {}
               THEN SetTop([h EXCEPT !.pc = "relax", !.todo = {}, !.last = x])
               ELSE \E callee \in {Child(x, fresh), EngineChild(x, fresh)} :
                      Push([h EXCEPT !.pc = "wait"], callee)
  <2>1. CASE PullBatch
    BY <2>1, <1>b, <1>m DEF PullBatch, PullFor
  <2>2. CASE EnginePull
    BY <2>2, <1>b, <1>m DEF EnginePull, PullFor
  <2> QED BY <2>1, <2>2
<1>d. PICK fresh : fresh = {IdOf[r] : r \in batch} \ settled
  OBVIOUS
<1>1. /\ n > 0 /\ f.pc = "loop" /\ UNCHANGED <<run, labels, settled, result>>
      /\ wt' = wt /\ prm' = prm /\ best' = best /\ settled' = settled
  BY <1>a, <1>b DEF PullBatch, EnginePull, PullFor, At, run
<1>2. /\ n \in Nat \ {0} /\ n \in 1..n /\ F(n) = f /\ f = stack[n]
      /\ IsFrame(f) /\ CallOk(n, f) /\ LoopOk(n, f)
      /\ NearCovered(n, f) /\ BehindCovered(f) /\ EntriesCovered(f)
      /\ Low(n) \in Nat
      /\ \A v \in settled : Key(v) < f.last
      /\ LabelsOk /\ settled \subseteq Finals
      /\ \A y \in f.S \cup f.W \cup f.next \cup f.U \cup f.todo \cup f.fresh :
           /\ y \in ReachedOnes /\ y \in Vertex /\ Key(y) \in Nat /\ TrueKey(y) <= Key(y)
           /\ TrueKey(y) \in Nat
  BY <1>1, <1>a, <1>b, TopCall DEF Floor
<1>3. /\ f.last \in Nat /\ f.b \in Nat /\ f.D \subseteq Nat /\ f.l \in Nat /\ f.l # 0
      /\ Low(n) <= f.last /\ f.last <= f.b /\ f.b <= KeyInf
      /\ f.next = {} /\ f.todo = {} /\ f.U \subseteq settled /\ (\A y \in f.U : Key(y) < f.last)
      /\ \A r \in f.D : f.last <= r /\ r < f.b
  BY <1>1, <1>2 DEF IsFrame, LoopOk, CallOk, EntriesCovered, Entries
<1>4. /\ batch \subseteq f.D /\ x \in Nat /\ f.last <= x /\ x <= f.b
      /\ (\A r \in batch : r < x) /\ (\A r \in f.D \ batch : x <= r)
      /\ (m = 1 => \A r, s \in batch : r = s)
  <2>1. IsPull(batch, x, f.D, m, f.b)
    BY <1>c
  <2>2. f.last <= f.b /\ f.b <= KeyInf /\ f.D \subseteq Nat /\ f.last \in Nat /\ f.b \in Nat
        /\ \A r \in f.D : f.last <= r /\ r < f.b
    BY <1>3
  <2>3. batch \subseteq f.D /\ x \in Nat /\ f.last <= x /\ x <= f.b
    BY <2>1, <2>2, PullFacts
  <2>4. (\A r \in batch : r < x) /\ (\A r \in f.D \ batch : x <= r)
    BY <2>1, <2>2, PullFacts
  <2>5. m = 1 => \A r, s \in batch : r = s
    BY <2>1, <2>2, PullFacts
  <2> QED BY <2>3, <2>4, <2>5
<1>5. /\ Improves /\ Ground' /\ LabelsOk' /\ Finals' = Finals
      /\ \A v \in Vertex : Key(v)' = Key(v) /\ pred'[v] = pred[v]
  BY <1>1, <1>2, SameImproves
<1>6. \A r \in f.D : /\ r \in Nat /\ IdOf[r] \in ReachedOnes /\ Key(IdOf[r]) <= r
                     /\ IdOf[r] \in settled \/ Covered(IdOf[r], f)
  BY <1>1, <1>2 DEF EntriesCovered, Entries
<1>7. ASSUME NEW y \in Finals, TrueKey(y) \in batch PROVE y \in fresh
  <2>1. y \in Vertex /\ IdOf[TrueKey(y)] = y /\ Key(y) = TrueKey(y)
    BY <1>2, KeyFacts, FinalFacts
  <2>2. y \notin settled
    <3>1. f.last <= TrueKey(y) /\ TrueKey(y) \in Nat
      BY <1>3, <1>4, <1>7
    <3> QED BY <3>1, <2>1, <1>2, <1>3
  <2> QED BY <2>1, <2>2, <1>7, <1>d
<1>8. ASSUME NEW y \in fresh
      PROVE  /\ y \in ReachedOnes /\ y \in Vertex /\ Key(y) \in Nat /\ f.last <= Key(y) /\ Key(y) < x
  <2>1. PICK r \in batch : y = IdOf[r]
    BY <1>d
  <2>2. r \in Nat /\ r < x /\ y \in ReachedOnes /\ Key(y) <= r /\ y \notin settled /\ Covered(y, f)
    BY <2>1, <1>3, <1>4, <1>6, <1>d
  <2>3. y \in Vertex /\ Key(y) \in Nat /\ TrueKey(y) <= Key(y) /\ TrueKey(y) \in Nat
    BY <2>2, <1>2, KeyFacts, TrueFacts DEF ReachedOnes
  <2>4. PICK w \in PathTo(y) : TrueKey(w) \in f.D
    BY <2>2, <1>1 DEF Covered, Active
  <2>5. TrueKey(w) <= TrueKey(y) /\ f.last <= TrueKey(w) /\ TrueKey(w) \in Nat
    BY <2>2, <2>4, <1>3, PathKeys
  <2> QED BY <2>2, <2>3, <2>5, <1>3, <1>4
<1>9. CASE fresh = {}
  <2>a. PICK g : g = [f EXCEPT !.D = @ \ batch, !.bi = x, !.fresh = {}, !.Kept = {},
                               !.pc = "relax", !.todo = {}, !.last = x]
    OBVIOUS
  <2>1. SetTop(g)
    <3>1. Fresh(batch) = {}
      BY <1>9, <1>d DEF Fresh
    <3>2. SetTop([[f EXCEPT !.D = @ \ batch, !.bi = x, !.fresh = {}, !.Kept = {}]
                    EXCEPT !.pc = "relax", !.todo = {}, !.last = x])
      BY <3>1, <1>c
    <3>3. g = [[f EXCEPT !.D = @ \ batch, !.bi = x, !.fresh = {}, !.Kept = {}]
                  EXCEPT !.pc = "relax", !.todo = {}, !.last = x]
      BY <1>2, <2>a DEF IsFrame, Fields
    <3> QED BY <3>2, <3>3
  <2>2. /\ g.pc = "relax" /\ g.l = f.l /\ g.b = f.b /\ g.S = f.S /\ g.round = f.round
        /\ g.todo = {} /\ g.next = f.next /\ g.W = f.W
        /\ g.D = f.D \ batch /\ g.U = f.U /\ g.last = x /\ g.bi = x
        /\ g.fresh = {} /\ g.Kept = {} /\ g.heap = f.heap /\ IsFrame(g)
    BY <1>1, <1>2, <1>3, <1>4, <2>a DEF IsFrame, Fields
  <2>3. Len(stack)' = n /\ Low(n)' = Low(n)
    BY <2>1, <2>2, <1>1, <1>2, <1>a, TopIs
  <2>4. ASSUME NEW v \in Near(f), Covered(v, f) PROVE Covered(v, g)'
    <3>1. PICK y \in PathTo(v) : y \in Finals /\ TrueKey(y) \in f.D
      BY <2>4, <1>1 DEF Covered, Active
    <3>2. y \in Vertex /\ v \in Vertex
      BY <3>1 DEF Finals, Near, ReachedOnes
    <3>3. PathTo(v)' = PathTo(v) /\ TrueKey(y)' = TrueKey(y)
      BY <3>2, <1>5 DEF Improves
    <3>4. TrueKey(y) \in f.D \ batch
      BY <3>1, <1>7, <1>9
    <3>5. Active(y, g)'
      BY <3>1, <3>3, <3>4, <2>2, <1>5 DEF Active
    <3> QED BY <3>1, <3>3, <3>5 DEF Covered
  <2>5. Carries(f, g)
    BY <2>4 DEF Carries
  <2>6. EntriesCovered(g)'
    <3> SUFFICES ASSUME NEW r \in f.D \ batch
                 PROVE  /\ r \in Nat /\ r < g.b
                        /\ IdOf[r] \in ReachedOnes' /\ (Key(IdOf[r]) <= r)'
                        /\ IdOf[r] \in settled' \/ Covered(IdOf[r], g)'
      BY <2>2 DEF EntriesCovered, Entries
    <3>1. /\ r \in Nat /\ r < f.b
          /\ IdOf[r] \in ReachedOnes /\ Key(IdOf[r]) <= r
          /\ IdOf[r] \in settled' \/ Covered(IdOf[r], f)
      BY <1>1, <1>3, <1>6
    <3> QED BY <3>1, <2>2, <2>4, <1>2, <1>3, <1>5, EntryStays
  <2>7. CallOk(n, g)'
    <3>1. ASSUME NEW y \in g.S PROVE Key(y)' < g.b
      BY <1>2, <1>5, <2>2 DEF CallOk
    <3>2. ASSUME NEW y \in g.S \cup g.W \cup g.next \cup g.U \cup g.todo PROVE Low(n) <= Key(y)'
      BY <1>2, <1>5, <2>2 DEF CallOk
    <3>3. g.S \cup g.W \cup g.next \cup g.U \cup g.todo \cup g.fresh \subseteq ReachedOnes'
      BY <1>2, <1>5, <2>2 DEF CallOk, Improves
    <3> QED BY <3>1, <3>2, <3>3, <1>1, <1>2, <1>5, <2>2, <2>3 DEF CallOk, Improves
  <2>8. LoopOk(n, g)'
    <3>1. ASSUME NEW y \in g.U PROVE Key(y)' < g.last
      <4>1. y \in Vertex /\ Key(y) < f.last /\ Key(y) \in Nat
        BY <1>2, <1>3, <2>2
      <4> QED BY <4>1, <1>3, <1>4, <1>5, <2>2
    <3>2. Low(n) <= x /\ x <= f.b
      BY <1>2, <1>3, <1>4
    <3> QED BY <3>1, <3>2, <1>1, <1>3, <2>2, <2>3 DEF LoopOk
  <2>9. PulledOk(g)'
    BY <1>4, <2>2 DEF PulledOk
  <2>10. FrameOk(n, g)'
    <3>1. IsFrame(g)' /\ ExpandOk(g)' /\ WaitOk(n, g)' /\ BaseOk(n, g)'
      BY <2>2 DEF IsFrame, ExpandOk, WaitOk, BaseOk
    <3> QED BY <3>1, <2>7, <2>8, <2>9 DEF FrameOk
  <2>11. Held(f) \subseteq Held(g) /\ \A v \in settled : Key(v) < Floor(g)'
    <3>1. Held(f) \subseteq Held(g) /\ Floor(g)' = x
      BY <1>1, <2>2 DEF Held, Floor
    <3>2. ASSUME NEW v \in settled PROVE Key(v) < x
      <4>1. v \in Vertex
        BY <1>2 DEF Finals
      <4>2. Key(v) < f.last /\ Key(v) \in Nat
        BY <4>1, <1>2, KeyFacts
      <4> QED BY <4>2, <1>3, <1>4
    <3> QED BY <3>1, <3>2
  <2>12. g.pc # "wait"
    BY <2>2
  <2> QED BY <2>1, <2>2, <2>5, <2>6, <2>10, <2>11, <2>12, <1>a, <1>1, <1>2, <1>5, TopStep
<1>10. CASE fresh # {}
  <2>a. PICK g : g = [f EXCEPT !.D = @ \ batch, !.bi = x, !.fresh = fresh, !.Kept = {}, !.pc = "wait"]
    OBVIOUS
  <2>b. PICK c \in {Call(f.l - 1, x, fresh), EngineCall(f.l - 1, x, fresh)} :
          Push([[f EXCEPT !.D = @ \ batch, !.bi = x, !.fresh = fresh, !.Kept = {}]
                   EXCEPT !.pc = "wait"], c)
    <3>1. Fresh(batch) = fresh /\ Child(x, fresh) = Call(f.l - 1, x, fresh)
          /\ EngineChild(x, fresh) = EngineCall(f.l - 1, x, fresh)
      BY <1>b, <1>d DEF Fresh, Child, EngineChild
    <3> QED BY <3>1, <1>10, <1>c
  <2>1. Push(g, c)
    <3>3. g = [[f EXCEPT !.D = @ \ batch, !.bi = x, !.fresh = fresh, !.Kept = {}]
                  EXCEPT !.pc = "wait"]
      BY <1>2, <2>a DEF IsFrame, Fields
    <3> QED BY <2>b, <3>3
  <2>2. /\ g.pc = "wait" /\ g.l = f.l /\ g.b = f.b /\ g.S = f.S /\ g.round = f.round
        /\ g.todo = {} /\ g.next = f.next /\ g.W = f.W
        /\ g.D = f.D \ batch /\ g.U = f.U /\ g.last = f.last /\ g.bi = x
        /\ g.fresh = fresh /\ g.Kept = {} /\ g.heap = f.heap /\ IsFrame(g)
    BY <1>1, <1>2, <1>3, <1>4, <2>a DEF IsFrame, Fields
  <2>3. PICK l \in Nat : l = f.l - 1
    BY <1>3
  <2>4. c \in {Call(l, x, fresh), EngineCall(l, x, fresh)}' /\ c.pc # "wait" /\ c.S = fresh /\ c.b = x
    <3>1. {Key(y)' : y \in fresh} = {Key(y) : y \in fresh}
      BY <1>5, <1>8
    <3>2. Keys(fresh)' = Keys(fresh)
      BY <3>1 DEF Keys
    <3>3. Call(l, x, fresh)' = Call(l, x, fresh)
      BY <3>2 DEF Call
    <3>4. EngineCall(l, x, fresh)' = EngineCall(l, x, fresh)
      BY <3>2, <3>3, <1>1 DEF EngineCall, UsesDijkstra
    <3>5. c.pc # "wait" /\ c.S = fresh /\ c.b = x
      <4>1. CASE c = Call(f.l - 1, x, fresh)
        BY <4>1 DEF Call
      <4>2. CASE c = EngineCall(f.l - 1, x, fresh)
        BY <4>2, EngineCallIs
      <4> QED BY <4>1, <4>2, <2>b
    <3> QED BY <3>3, <3>4, <3>5, <2>b, <2>3
  <2>5. /\ Len(stack)' = n + 1 /\ Low(n)' = Low(n) /\ Low(n + 1)' = f.last
        /\ stack'[n + 1] = c
    BY <2>1, <2>2, <2>4, <1>1, <1>a, PushTopIs
  <2>6. Starts(n, l, x, fresh, f.last, c)'
    <3>1. x <= KeyInf
      <4>1. KeyInf \in Nat
        BY UnreachedFacts
      <4> QED BY <4>1, <1>3, <1>4
    <3>2. f.last < x
      <4>1. PICK y \in fresh : TRUE
        BY <1>10
      <4> QED BY <4>1, <1>3, <1>4, <1>8
    <3>3. \A y \in fresh : f.last <= Key(y)' /\ Key(y)' < x
      BY <1>5, <1>8
    <3>4. l = 0 => \A y, z \in fresh : y = z
      <4> SUFFICES ASSUME l = 0 PROVE \A y, z \in fresh : y = z
        OBVIOUS
      <4>1. m = 1
        BY <2>3, <1>3, <1>m, SingleBlocks
      <4> QED BY <4>1, <1>4, <1>d
    <3>5. fresh \subseteq ReachedOnes'
      BY <1>5, <1>8 DEF Improves
    <3> QED BY <3>1, <3>2, <3>3, <3>4, <3>5, <2>4, <2>5, <1>2, <1>3, <1>4, <1>5, <1>10 DEF Starts
  <2>7. /\ Floor(c)' = f.last /\ FrameOk(n + 1, c)' /\ EntriesCovered(c)' /\ BehindCovered(c)'
        /\ \A y \in fresh \cap Finals' : Active(y, c)'
    <3>1. Started(n, x, fresh, f.last, c)'
      BY <2>6, CalleeNext
    <3> QED BY <3>1 DEF Started
  <2>8. ASSUME NEW v \in Near(f), Covered(v, f) PROVE Covered(v, g)'
    <3>1. PICK y \in PathTo(v) : y \in Finals /\ TrueKey(y) \in f.D
      BY <2>8, <1>1 DEF Covered, Active
    <3>2. y \in Vertex /\ v \in Vertex
      BY <3>1 DEF Finals, Near, ReachedOnes
    <3>3. PathTo(v)' = PathTo(v) /\ TrueKey(y)' = TrueKey(y)
      BY <3>2, <1>5 DEF Improves
    <3>4. TrueKey(y) \in f.D \ batch \/ y \in fresh
      BY <3>1, <1>7
    <3>5. Active(y, g)'
      BY <3>1, <3>3, <3>4, <2>2, <1>5 DEF Active
    <3> QED BY <3>1, <3>3, <3>5 DEF Covered
  <2>9. Carries(f, g)
    BY <2>8 DEF Carries
  <2>10. EntriesCovered(g)'
    <3> SUFFICES ASSUME NEW r \in f.D \ batch
                 PROVE  /\ r \in Nat /\ r < g.b
                        /\ IdOf[r] \in ReachedOnes' /\ (Key(IdOf[r]) <= r)'
                        /\ IdOf[r] \in settled' \/ Covered(IdOf[r], g)'
      BY <2>2 DEF EntriesCovered, Entries
    <3>1. /\ r \in Nat /\ r < f.b
          /\ IdOf[r] \in ReachedOnes /\ Key(IdOf[r]) <= r
          /\ IdOf[r] \in settled' \/ Covered(IdOf[r], f)
      BY <1>1, <1>3, <1>6
    <3> QED BY <3>1, <2>2, <2>8, <1>2, <1>3, <1>5, EntryStays
  <2>11. CallOk(n, g)'
    <3>1. ASSUME NEW y \in g.S PROVE Key(y)' < g.b
      BY <1>2, <1>5, <2>2 DEF CallOk
    <3>2. ASSUME NEW y \in g.S \cup g.W \cup g.next \cup g.U \cup g.todo PROVE Low(n) <= Key(y)'
      BY <1>2, <1>3, <1>5, <2>2 DEF CallOk
    <3>3. g.S \cup g.W \cup g.next \cup g.U \cup g.todo \cup g.fresh \subseteq ReachedOnes'
      BY <1>2, <1>5, <1>8, <2>2 DEF CallOk, Improves
    <3> QED BY <3>1, <3>2, <3>3, <1>1, <1>2, <1>5, <2>2, <2>5 DEF CallOk, Improves
  <2>12. LoopOk(n, g)'
    <3>1. ASSUME NEW y \in g.U PROVE Key(y)' < g.last
      <4>1. y \in Vertex /\ Key(y) < f.last
        BY <1>2, <1>3, <2>2
      <4> QED BY <4>1, <1>5, <2>2
    <3> QED BY <3>1, <1>1, <1>3, <2>2, <2>5 DEF LoopOk
  <2>13. PulledOk(g)'
    <3>1. \A y \in g.fresh : Key(y)' < g.bi
      BY <1>5, <1>8, <2>2
    <3> QED BY <3>1, <1>4, <2>2 DEF PulledOk
  <2>14. WaitOk(n, g)'
    <3>1. n < Len(stack)'
      BY <2>5, <1>2
    <3> QED BY <3>1, <2>2, <2>4, <2>5 DEF WaitOk
  <2>15. FrameOk(n, g)'
    <3>1. IsFrame(g)' /\ ExpandOk(g)' /\ BaseOk(n, g)'
      BY <2>2 DEF IsFrame, ExpandOk, BaseOk
    <3> QED BY <3>1, <2>11, <2>12, <2>13, <2>14 DEF FrameOk
  <2>16. ASSUME NEW v \in Near(c)'
         PROVE  v \in settled \/ (v \in Finals /\ Upheld(v, n)) \/ Covered(v, c)'
    <3>1. v \in ReachedOnes /\ v \in Vertex /\ TrueKey(v) < x /\ TrueKey(v) \in Nat
      <4>1. v \in ReachedOnes' /\ TrueKey(v)' < x
        BY <2>4 DEF Near
      <4>2. v \in ReachedOnes /\ v \in Vertex
        BY <4>1, <1>5 DEF Improves, ReachedOnes
      <4>3. TrueKey(v)' = TrueKey(v)
        BY <4>2, <1>5 DEF Improves
      <4> QED BY <4>1, <4>2, <4>3, TrueFacts
    <3>2. v \in Near(f)
      BY <3>1, <1>3, <1>4 DEF Near
    <3>3. CASE Covered(v, f)
      <4>1. PICK y \in PathTo(v) : y \in Finals /\ TrueKey(y) \in f.D
        BY <3>3, <1>1 DEF Covered, Active
      <4>2. TrueKey(y) <= TrueKey(v)
        BY <3>1, PathKeys
      <4>3. TrueKey(y) \in batch
        BY <4>1, <4>2, <3>1, <1>3, <1>4
      <4>4. y \in fresh
        BY <4>1, <4>3, <1>7
      <4>5. Active(y, c)'
        BY <4>1, <4>4, <2>7, <1>5
      <4>6. PathTo(v)' = PathTo(v)
        BY <3>1, <1>5 DEF Improves
      <4> QED BY <4>1, <4>5, <4>6 DEF Covered
    <3> QED BY <3>2, <3>3, <1>2 DEF NearCovered
  <2>17. Held(f) \subseteq Held(g)
    BY <1>1, <2>2 DEF Held
  <2>18. \A v \in settled : Key(v) < g.last
    BY <1>2, <2>2
  <2> QED BY <2>1, <2>2, <2>4, <2>7, <2>9, <2>10, <2>15, <2>16, <2>17, <2>18,
             <1>a, <1>1, <1>2, <1>3, <1>5, PushStep
<1> QED BY <1>9, <1>10

-----------------------------------------------------------------------------
(* Returns.                                                                 *)

(* What a returning call f must see to: of the vertices it was called for  *)
(* nothing below the bound is left, and set has all that it completed.      *)
Completes(f, bound, set) ==
  /\ bound \in Nat /\ bound <= f.b
  /\ set \subseteq Finals
  /\ \A y : Active(y, f) => bound <= TrueKey(y)
  /\ \A v \in Held(f) \cap Finals : Key(v) < bound => v \in set
  /\ \A v \in settled \cup set : Key(v) < bound

(* The caller goes on from what the callee left.                           *)
LEMMA CallerCarries ==
  ASSUME Ground, LabelsOk, Improves, settled \subseteq Finals,
         NEW f, BehindCovered(f), f.b \in Nat, NEW bound, NEW set, Completes(f, bound, set),
         NEW h, h.pc = "wait", h.fresh = f.S, h.b \in Nat,
         NEW g, g.pc = "relax", g.D = h.D, g.fresh = h.fresh, g.todo = set, g.last = bound,
         NEW v \in Near(h), Covered(v, h)
  PROVE  Covered(v, g)' \/ (v \in Finals /\ v \in set)
<1>1. v \in ReachedOnes /\ v \in Vertex /\ TrueKey(v) \in Nat
  BY TrueFacts DEF Near, ReachedOnes
<1>2. PICK y \in PathTo(v) : y \in Finals /\ (TrueKey(y) \in h.D \/ y \in f.S)
  BY DEF Covered, Active
<1>3. /\ y \in Vertex /\ y \in ReachedOnes /\ TrueKey(y) \in Nat /\ TrueKey(y) <= TrueKey(v)
      /\ PathTo(v)' = PathTo(v) /\ TrueKey(y)' = TrueKey(y) /\ y \in Finals'
  BY <1>1, <1>2, FinalFacts, PathKeys, TrueFacts DEF Improves
<1>4. CASE TrueKey(y) \in h.D
  <2>1. Active(y, g)'
    BY <1>3, <1>4 DEF Active
  <2> QED BY <2>1, <1>2, <1>3 DEF Covered
<1>5. ASSUME NEW p \in ReachedOnes, y \in PathTo(p), y \in f.S, TrueKey(p) < bound
      PROVE  p \in Finals /\ p \in set
  <2>1. TrueKey(p) \in Nat /\ p \in Vertex
    BY TrueFacts DEF ReachedOnes
  <2>2. p \in Near(f)
    BY <2>1, <1>5 DEF Near, Completes
  <2>3. (p \in Finals /\ p \in Held(f)) \/ Covered(p, f)
    BY <2>2, <1>2, <1>5 DEF BehindCovered
  <2>4. ASSUME Covered(p, f) PROVE FALSE
    <3>1. PICK w \in PathTo(p) : Active(w, f)
      BY <2>4 DEF Covered
    <3>2. w \in ReachedOnes
      BY <3>1, PathIs
    <3>3. TrueKey(w) <= TrueKey(p) /\ bound <= TrueKey(w) /\ TrueKey(w) \in Nat /\ bound \in Nat
      BY <3>1, <3>2, PathKeys, TrueFacts DEF Completes, ReachedOnes
    <3> QED BY <3>3, <2>1, <1>5
  <2>5. Key(p) = TrueKey(p)
    BY <2>3, <2>4, FinalFacts
  <2> QED BY <2>3, <2>4, <2>5, <1>5 DEF Completes
<1>6. CASE y \in f.S /\ TrueKey(v) < bound
  <2> QED BY <1>1, <1>2, <1>5, <1>6
<1>7. CASE y \in f.S /\ bound <= TrueKey(y)
  <2>1. Active(y, g)'
    BY <1>3, <1>7 DEF Active
  <2> QED BY <2>1, <1>2, <1>3 DEF Covered
<1>8. CASE y \in f.S /\ TrueKey(y) < bound /\ bound <= TrueKey(v)
  <2>1. bound \in Nat
    BY DEF Completes
  <2>2. PICK z \in PathTo(v) : /\ z # Source /\ TrueKey(z) >= bound
                               /\ TrueKey(Parent(z)) < bound
                               /\ y \in PathTo(Parent(z))
    BY <2>1, <1>1, <1>2, <1>8, Crossing
  <2>3. z \in ReachedOnes /\ z \in Vertex /\ Parent(z) \in ReachedOnes /\ TrueKey(z) \in Nat
    BY <2>2, <1>1, PathIs, ParentFacts, TrueFacts DEF ReachedOnes
  <2>4. Parent(z) \in set
    BY <2>2, <2>3, <1>5, <1>8
  <2>5. TrueKey(z)' = TrueKey(z) /\ Parent(z)' = Parent(z)
    BY <2>3 DEF Improves
  <2>6. Active(z, g)'
    BY <2>1, <2>2, <2>3, <2>4, <2>5 DEF Active
  <2> QED BY <2>2, <2>6, <1>3 DEF Covered
<1>9. bound \in Nat
  BY DEF Completes
<1> QED BY <1>1, <1>2, <1>3, <1>4, <1>6, <1>7, <1>8, <1>9

(* The stack after a return.                                               *)
LEMMA PopTopIs ==
  ASSUME Ground, IsSeq(stack), Inv, NEW n, n = Len(stack), n > 0, Pop
  PROVE  /\ n \in Nat \ {0} /\ n \in 1..n /\ IsSeq(stack') /\ Len(stack)' = n - 1
         /\ \A i \in 1..(n - 1) :
              /\ i \in 1..n /\ Low(i)' = Low(i) /\ stack'[i] = stack[i]
              /\ i # n - 1 => F(i)' = F(i)
<1>1. n \in Nat \ {0} /\ n \in 1..n
  BY CallsAre
<1>2. IsSeq(stack') /\ Len(stack') = n - 1 /\ \A i \in 1..(n - 1) : stack'[i] = stack[i]
  BY PopIs
<1>3. ASSUME NEW i \in 1..(n - 1)
      PROVE  /\ i \in 1..n /\ Low(i)' = Low(i)
             /\ i # n - 1 => F(i)' = F(i)
  <2>1. i \in 1..n /\ i # n
    BY <1>1
  <2>2. Low(i)' = Low(i)
    <3>1. CASE i = 1
      BY <3>1 DEF Low
    <3>2. CASE i # 1
      <4>1. i - 1 \in 1..(n - 1)
        BY <3>2, <1>1
      <4>2. stack'[i - 1] = stack[i - 1]
        BY <4>1, <1>2
      <4> QED BY <3>2, <4>2 DEF Low
    <3> QED BY <3>1, <3>2
  <2>3. i # n - 1 => F(i)' = F(i)
    BY <2>1, <1>2 DEF F
  <2> QED BY <2>1, <2>2, <2>3
<1> QED BY <1>1, <1>2, <1>3

(* A return of what the call has completed keeps the invariant: what the    *)
(* callee had still to go on from, its caller finds in S_i above the        *)
(* bound B'_i.                                                              *)
LEMMA PopStep ==
  ASSUME Ground, IsSeq(stack), Inv, Pop, UNCHANGED <<run, labels>>,
         NEW n, n = Len(stack), n > 0, top.pc # "wait",
         NEW f, f = top,
         NEW bound, NEW set, Completes(f, bound, set),
         Low(n) <= bound, \A x \in set : Low(n) <= Key(x),
         n = 1 => ReachedOnes \subseteq Finals,
         result' = Result(bound, set), settled' = settled \cup set
  PROVE  Inv' /\ IsSeq(stack') /\ Ground' /\ Improves
<1>1. /\ n \in Nat \ {0} /\ n \in 1..n /\ F(n) = f /\ f = stack[n]
      /\ IsFrame(f) /\ CallOk(n, f)
      /\ NearCovered(n, f) /\ BehindCovered(f)
      /\ Low(n) \in Nat
      /\ LabelsOk /\ settled \subseteq Finals
  BY TopCall
<1>2. /\ Improves /\ Ground' /\ LabelsOk' /\ Finals' = Finals
      /\ \A v \in Vertex : Key(v)' = Key(v) /\ pred'[v] = pred[v]
  <2>1. settled \subseteq settled'
    OBVIOUS
  <2> QED BY <2>1, <1>1, SameImproves
<1>3. /\ IsSeq(stack') /\ Len(stack)' = n - 1
      /\ \A i \in 1..(n - 1) :
           /\ i \in 1..n /\ Low(i)' = Low(i) /\ stack'[i] = stack[i]
           /\ i # n - 1 => F(i)' = F(i)
  BY PopTopIs
<1>4. /\ bound \in Nat /\ bound <= f.b /\ set \subseteq Finals /\ f.b \in Nat
      /\ \A v \in settled \cup set : Key(v) < bound
      /\ result'.bound = bound /\ result'.set = set
      /\ set \subseteq settled' /\ settled' \subseteq Finals'
  BY <1>1, <1>2 DEF Completes, Result, IsFrame
<1>5. CASE n = 1
  <2>1. Len(stack)' = 0
    BY <1>3, <1>5
  <2>2. ReachedOnes \subseteq Finals /\ f.b = KeyInf
    BY <1>1, <1>5 DEF CallOk
  <2>3. ASSUME NEW v \in ReachedOnes, TrueKey(v) < bound PROVE v \in settled'
    <3>1. v \in Vertex /\ TrueKey(v) \in Nat /\ v \in Finals /\ Key(v) = TrueKey(v)
      BY <2>2, <1>1, TrueFacts, FinalFacts
    <3>2. v \in Near(f)
      BY <2>3, <3>1, <1>4 DEF Near
    <3>3. CASE v \in settled
      BY <3>3
    <3>4. CASE Upheld(v, n)
      <4>1. v \in Held(f)
        BY <3>4, <1>1, <1>5 DEF Upheld
      <4> QED BY <4>1, <3>1, <2>3 DEF Completes
    <3>5. CASE Covered(v, f)
      <4>1. PICK w \in PathTo(v) : Active(w, f)
        BY <3>5 DEF Covered
      <4>2. w \in ReachedOnes /\ w \in Vertex
        BY <4>1, PathIs DEF ReachedOnes
      <4>3. TrueKey(w) <= TrueKey(v) /\ bound <= TrueKey(w) /\ TrueKey(w) \in Nat
        BY <4>1, <4>2, PathKeys, TrueFacts DEF Completes
      <4> QED BY <4>3, <3>1, <2>3, <1>4
    <3> QED BY <3>2, <3>3, <3>4, <3>5, <1>1 DEF NearCovered
  <2>4. AllDone'
    <3>1. ReachedOnes' = ReachedOnes /\ \A v \in ReachedOnes : TrueKey(v)' = TrueKey(v)
      BY <1>2 DEF Improves, ReachedOnes
    <3> QED BY <3>1, <2>2, <2>3, <1>2, <1>4 DEF AllDone
  <2>5. LowsRise' /\ FramesInv' /\ SettledBelow'
    BY <2>1 DEF LowsRise, FramesInv, SettledBelow
  <2> QED BY <2>4, <2>5, <1>2, <1>3, <1>4 DEF Inv
<1>6. CASE n # 1
  <2>a. PICK m : m = n - 1
    OBVIOUS
  <2>b. PICK h : h = stack[m]
    OBVIOUS
  <2>c. PICK g : g = [h EXCEPT !.pc = "relax", !.todo = set, !.U = @ \cup set, !.last = bound]
    OBVIOUS
  <2>1. /\ m \in Nat \ {0} /\ m \in 1..m /\ m + 1 = n /\ m \in 1..n /\ m < n /\ m # n
        /\ \A i \in 1..m : i \in 1..n /\ i # n
    BY <2>a, <1>1, <1>6
  <2>2. /\ IsFrame(h) /\ FrameOk(m, h) /\ F(m) = h /\ h.pc = "wait"
        /\ NearCovered(m, h) /\ BehindCovered(h) /\ EntriesCovered(h)
        /\ Low(m) \in Nat /\ Low(n) = h.last
    <3>1. Low(n) = h.last
      BY <2>a, <2>b, <1>1, <1>6 DEF Low
    <3> QED BY <3>1, <2>1, <2>b, CallsAre
  <2>3. CallOk(m, h) /\ LoopOk(m, h) /\ PulledOk(h) /\ WaitOk(m, h)
    BY <2>2 DEF FrameOk
  <2>4. /\ h.fresh = f.S /\ h.bi = f.b /\ h.Kept = {} /\ h.b \in Nat
        /\ h.last \in Nat /\ h.bi \in Nat
    BY <2>1, <2>2, <2>3, <1>1 DEF WaitOk, IsFrame
  <2>5. /\ stack'[m] = h /\ Len(stack)' = m /\ Low(m)' = Low(m)
        /\ \A i \in 1..m : /\ Low(i)' = Low(i) /\ stack'[i] = stack[i]
                           /\ i # m => F(i)' = F(i)
    BY <2>1, <2>a, <2>b, <1>3
  <2>6. F(m)' = g
    <3>1. stack'[m].pc = "wait" /\ m = Len(stack)'
      BY <2>2, <2>5
    <3>2. Resumed(h)' = g
      BY <2>c, <1>4 DEF Resumed
    <3> QED BY <3>1, <3>2, <2>5 DEF F
  <2>7. /\ g.pc = "relax" /\ g.l = h.l /\ g.b = h.b /\ g.S = h.S /\ g.round = h.round
        /\ g.todo = set /\ g.next = h.next /\ g.W = h.W
        /\ g.D = h.D /\ g.U = h.U \cup set /\ g.last = bound /\ g.bi = h.bi
        /\ g.fresh = h.fresh /\ g.Kept = h.Kept /\ g.heap = h.heap
    BY <2>2, <2>c DEF IsFrame, Fields
  <2>8. ASSUME NEW v \in Near(h), Covered(v, h)
        PROVE  Covered(v, g)' \/ (v \in Finals /\ v \in set)
    BY <2>2, <2>4, <2>7, <2>8, <1>1, <1>2, <1>4, CallerCarries
  <2>9. Carries(h, g)
    <3>1. \A v \in set : v \in Held(g)
      BY <2>7 DEF Held
    <3> QED BY <3>1, <2>8, <1>2 DEF Carries
  <2>10. Held(h) \subseteq Held(g)
    BY <2>2, <2>7 DEF Held
  <2>11. ASSUME NEW v, v \in Held(g) \/ Upheld(v, m) PROVE Upheld(v, m)'
    <3>1. CASE v \in Held(g)
      <4>1. v \in Held(F(m))'
        BY <3>1, <2>6 DEF Held
      <4> QED BY <4>1, <2>1 DEF Upheld
    <3>2. CASE Upheld(v, m) /\ v \notin Held(g)
      <4>1. PICK j \in 1..m : v \in Held(F(j))
        BY <3>2 DEF Upheld
      <4>2. j # m
        BY <4>1, <3>2, <2>2, <2>10
      <4>3. F(j)' = F(j)
        BY <4>2, <2>5
      <4>4. v \in Held(F(j))'
        BY <4>1, <4>3 DEF Held
      <4> QED BY <4>4 DEF Upheld
    <3> QED BY <3>1, <3>2, <2>11
  <2>12. NearCovered(m, g)' /\ BehindCovered(g)'
    <3>1. \A x \in h.S : x \in Near(h)
      BY <2>2, <2>3, <1>1, FrameSets
    <3> QED BY <3>1, <2>2, <2>7, <2>9, <2>10, <2>11, <1>1, <1>2, CallStep
  <2>13. EntriesCovered(g)'
    <3> SUFFICES ASSUME NEW r \in h.D
                 PROVE  /\ r \in Nat /\ r < g.b
                        /\ IdOf[r] \in ReachedOnes' /\ (Key(IdOf[r]) <= r)'
                        /\ IdOf[r] \in settled' \/ Covered(IdOf[r], g)'
      BY <2>4, <2>7 DEF EntriesCovered, Entries
    <3>1. /\ r \in Nat /\ r < h.b
          /\ IdOf[r] \in ReachedOnes /\ Key(IdOf[r]) <= r
          /\ IdOf[r] \in settled' \/ Covered(IdOf[r], h)
      BY <2>2 DEF EntriesCovered, Entries
    <3>2. \A v \in Near(h) : Covered(v, h) => Covered(v, g)' \/ v \in settled'
      BY <2>8, <1>4
    <3> QED BY <3>1, <3>2, <2>4, <2>7, <1>1, <1>2, EntryStays
  <2>14. FrameOk(m, h)'
    <3>0. \A x \in h.S \cup h.W \cup h.next \cup h.U \cup h.todo \cup h.fresh :
            x \in ReachedOnes /\ x \in Vertex
      BY <2>2, <2>3, <1>1, FrameSets
    <3>1. IsFrame(h)' /\ ExpandOk(h)' /\ BaseOk(m, h)'
      BY <2>2 DEF IsFrame, ExpandOk, BaseOk
    <3>2. CallOk(m, h)'
      <4>1. ASSUME NEW x \in h.S PROVE Key(x)' < h.b
        BY <3>0, <2>3, <1>2 DEF CallOk
      <4>2. ASSUME NEW x \in h.S \cup h.W \cup h.next \cup h.U \cup h.todo PROVE Low(m) <= Key(x)'
        BY <3>0, <2>3, <1>2 DEF CallOk
      <4> QED BY <4>1, <4>2, <2>2, <2>3, <2>5, <1>2 DEF CallOk, Improves
    <3>3. LoopOk(m, h)'
      <4>1. ASSUME NEW x \in h.U PROVE Key(x)' < h.last
        BY <3>0, <2>2, <2>3, <1>2 DEF LoopOk
      <4> QED BY <4>1, <2>2, <2>3, <2>5, <1>2 DEF LoopOk, Improves
    <3>4. PulledOk(h)'
      <4>1. ASSUME NEW x \in h.fresh PROVE Key(x)' < h.bi
        BY <3>0, <2>2, <2>3, <1>2 DEF PulledOk
      <4> QED BY <4>1, <2>2, <2>3 DEF PulledOk
    <3>5. WaitOk(m, h)'
      <4>1. ASSUME NEW x \in set PROVE h.last <= Key(x)' /\ Key(x)' < bound
        <5>1. x \in Vertex
          BY <1>4 DEF Finals
        <5> QED BY <5>1, <2>2, <1>2, <1>4
      <4>2. ~ (m < Len(stack)')
        BY <2>1, <2>5
      <4> QED BY <4>1, <4>2, <2>2, <2>4, <1>4 DEF WaitOk
    <3> QED BY <3>1, <3>2, <3>3, <3>4, <3>5 DEF FrameOk
  <2>15. ASSUME NEW i \in 1..m, i # m, NEW q, q = stack[i]
         PROVE  /\ stack'[i] = q /\ F(i)' = q
                /\ FrameOk(i, q)' /\ NearCovered(i, q)' /\ BehindCovered(q)' /\ EntriesCovered(q)'
    <3>1. /\ i \in Nat \ {0} /\ i < m /\ i + 1 \in 1..m /\ i + 1 \in Nat
          /\ i < Len(stack) /\ i < Len(stack)' /\ i \in 1..n /\ i # n /\ Len(stack) \in Nat
      BY <2>1, <2>5, <2>15
    <3>2. /\ FrameOk(i, q) /\ NearCovered(i, q) /\ BehindCovered(q) /\ EntriesCovered(q)
          /\ F(i) = q /\ Low(i) \in Nat
      BY <3>1, <2>15, CallsAre
    <3>3. stack'[i + 1].S = stack[i + 1].S /\ stack'[i + 1].b = stack[i + 1].b
      BY <3>1, <2>5
    <3>4. \A j \in 1..i : F(j)' = F(j)
      <4>1. \A j \in 1..i : j \in 1..m /\ j # m
        BY <3>1, <2>1
      <4> QED BY <4>1, <2>5
    <3>5. \A v \in Vertex : Key(v)' = Key(v) \/ Low(i) <= Key(v)'
      BY <1>2
    <3>6. stack'[i] = q /\ F(i)' = q /\ Low(i)' = Low(i)
      BY <3>1, <3>2, <2>5, <2>15
    <3>7. FrameOk(i, q)' /\ NearCovered(i, q)' /\ BehindCovered(q)' /\ EntriesCovered(q)'
      BY <3>1, <3>2, <3>3, <3>4, <3>5, <3>6, <2>15, <1>1, <1>2, LowerCall
    <3> QED BY <3>6, <3>7
  <2>16. FramesInv'
    <3>1. ASSUME NEW i \in 1..m
          PROVE  /\ \A q \in {stack'[i]} : FrameOk(i, q)'
                 /\ \A q \in {F(i)'} : NearCovered(i, q)' /\ BehindCovered(q)' /\ EntriesCovered(q)'
      <4>1. CASE i = m
        BY <4>1, <2>5, <2>6, <2>12, <2>13, <2>14
      <4>2. CASE i # m
        BY <4>2, <2>15
      <4> QED BY <4>1, <4>2
    <3> QED BY <3>1, <2>5 DEF FramesInv
  <2>17. LowsRise'
    BY <2>1, <2>5 DEF LowsRise, Inv
  <2>18. SettledBelow'
    <3>1. Floor(g)' = bound
      BY <2>7 DEF Floor
    <3>2. ASSUME NEW v \in settled' PROVE Key(v)' < bound
      <4>1. v \in Vertex /\ v \in settled \cup set
        BY <1>1, <1>4 DEF Finals
      <4> QED BY <4>1, <1>2, <1>4
    <3> QED BY <3>1, <3>2, <2>1, <2>5, <2>6 DEF SettledBelow
  <2>19. AllDone'
    BY <2>1, <2>5 DEF AllDone
  <2> QED BY <2>16, <2>17, <2>18, <2>19, <1>2, <1>3, <1>4 DEF Inv
<1> QED BY <1>5, <1>6

(* Below what a call has still to go on from, every vertex is final.       *)
LEMMA NearFinal ==
  ASSUME Ground, LabelsOk, settled \subseteq Finals,
         NEW i, NEW f, NearCovered(i, f),
         NEW bound \in Nat, \A y : Active(y, f) => bound <= TrueKey(y),
         NEW x \in Near(f), TrueKey(x) < bound
  PROVE  x \in Finals
<1>1. x \in ReachedOnes /\ x \in Vertex /\ TrueKey(x) \in Nat
  BY TrueFacts DEF Near, ReachedOnes
<1>2. CASE Covered(x, f)
  <2>1. PICK w \in PathTo(x) : Active(w, f)
    BY <1>2 DEF Covered
  <2>2. w \in ReachedOnes /\ w \in Vertex
    BY <2>1, <1>1, PathIs DEF ReachedOnes
  <2>3. TrueKey(w) <= TrueKey(x) /\ bound <= TrueKey(w) /\ TrueKey(w) \in Nat
    BY <2>1, <2>2, <1>1, PathKeys, TrueFacts
  <2> QED BY <2>3, <1>1
<1> QED BY <1>2 DEF NearCovered

(* A U that holds as many vertices as it has room for holds them all.      *)
LEMMA FullIsAll ==
  ASSUME prm \in Params, NEW U \in SUBSET Vertex, ~(Cardinality(U) < SizeCap(prm.l))
  PROVE  U = Vertex
<1>1. prm.k * 2^(prm.l * prm.t) >= N /\ {prm.k, prm.t, prm.l} \subseteq Nat \ {0}
  BY BmsspAssumption
<1>2. N \in Nat /\ IsFiniteSet(Vertex) /\ Cardinality(Vertex) = N
  BY VertexFacts
<1>3. /\ IsFiniteSet(U) /\ Cardinality(U) \in Nat /\ Cardinality(U) <= Cardinality(Vertex)
      /\ Cardinality(U) = Cardinality(Vertex) => U = Vertex
  BY <1>2, FS_Subset, FS_CardinalityType
<1>4. Cardinality(U) >= N
  <2>1. PICK e : e = prm.l * prm.t
    OBVIOUS
  <2>2. e \in Nat
    BY <2>1, <1>1
  <2>3. 2^e \in Int
    BY <2>2
  <2>4. prm.k * 2^e \in Int
    BY <2>3, <1>1
  <2> QED BY <2>1, <2>4, <1>1, <1>2, <1>3 DEF SizeCap
<1> QED BY <1>2, <1>3, <1>4

(* The end of the loop keeps the invariant: all of W below B' is final,     *)
(* since whatever the call has still to go on from is in D, and not below   *)
(* B'.                                                                      *)
LEMMA ReturnStep ==
  ASSUME Ground, IsSeq(stack), Inv, Return, prm \in Params
  PROVE  Inv' /\ IsSeq(stack') /\ Ground' /\ Improves
<1>a. PICK n : n = Len(stack)
  OBVIOUS
<1>b. PICK f : f = top
  OBVIOUS
<1>c. PICK bound : bound = IF f.last < f.b THEN f.last ELSE f.b
  OBVIOUS
<1>d. PICK swept : swept = {x \in f.W : Key(x) < bound}
  OBVIOUS
<1>e. PICK set : set = f.U \cup swept
  OBVIOUS
<1>1. /\ n > 0 /\ f.pc = "loop" /\ ~Continues(f)
      /\ settled' = settled \cup (swept \ f.U) /\ result' = Result(bound, set)
      /\ Pop /\ UNCHANGED <<run, labels>>
  BY <1>a, <1>b, <1>c, <1>d, <1>e DEF Return, At, Swept
<1>2. /\ n \in Nat \ {0} /\ n \in 1..n
      /\ IsFrame(f) /\ CallOk(n, f) /\ LoopOk(n, f)
      /\ NearCovered(n, f) /\ Low(n) \in Nat
      /\ \A v \in settled : Key(v) < f.last
      /\ LabelsOk /\ settled \subseteq Finals
      /\ \A x \in f.S \cup f.W \cup f.next \cup f.U \cup f.todo \cup f.fresh :
           /\ x \in ReachedOnes /\ x \in Vertex /\ TrueKey(x) \in Nat /\ Key(x) \in Nat
           /\ TrueKey(x) <= Key(x)
  BY <1>1, <1>a, <1>b, TopCall DEF Floor
<1>3. /\ f.next = {} /\ Low(n) <= f.last /\ f.last <= f.b /\ f.U \subseteq settled
      /\ f.last \in Nat /\ f.b \in Nat /\ \A r \in f.D : f.last <= r
      /\ bound = f.last
  BY <1>1, <1>2, <1>c DEF LoopOk, IsFrame
<1>4. \A y : Active(y, f) => TrueKey(y) \in f.D
  BY <1>1 DEF Active
<1>5. \A y : Active(y, f) => bound <= TrueKey(y)
  BY <1>3, <1>4
<1>6. set \subseteq Finals
  <2>1. ASSUME NEW x \in swept PROVE x \in Finals
    <3>1. x \in f.W /\ Key(x) < bound
      BY <1>d
    <3>2. TrueKey(x) < bound /\ TrueKey(x) < f.b /\ x \in ReachedOnes
      BY <3>1, <1>2, <1>3
    <3>3. x \in Near(f)
      BY <3>2 DEF Near
    <3> QED BY <3>2, <3>3, <1>2, <1>3, <1>5, NearFinal
  <2> QED BY <2>1, <1>2, <1>3, <1>e
<1>7. Completes(f, bound, set)
  <2>1. \A v \in Held(f) \cap Finals : Key(v) < bound => v \in set
    <3>1. Held(f) = f.U \cup f.W
      BY <1>1, <1>3 DEF Held
    <3> QED BY <3>1, <1>d, <1>e
  <2>2. \A v \in settled \cup set : Key(v) < bound
    BY <1>2, <1>3, <1>d, <1>e
  <2> QED BY <2>1, <2>2, <1>3, <1>5, <1>6 DEF Completes
<1>8. ASSUME n = 1 PROVE ReachedOnes \subseteq Finals
  <2>1. f.b = KeyInf /\ f.l = prm.l
    BY <1>8, <1>2 DEF CallOk
  <2>2. CASE f.D = {}
    <3>1. ASSUME NEW x \in ReachedOnes PROVE x \in Finals
      <4>1. TrueKey(x) < f.b /\ x \in Near(f)
        BY <2>1, <1>2, KeyFacts DEF Near, ReachedOnes
      <4>2. \A y : Active(y, f) => f.b <= TrueKey(y)
        BY <2>2, <1>4
      <4> QED BY <4>1, <4>2, <1>2, <1>3, NearFinal
    <3> QED BY <3>1
  <2>3. CASE f.D # {}
    <3>1. f.U \in SUBSET Vertex /\ ~(Cardinality(f.U) < SizeCap(prm.l))
      BY <2>1, <2>3, <1>1, <1>2 DEF Continues
    <3>2. f.U = Vertex
      BY <3>1, FullIsAll
    <3> QED BY <3>2, <1>2, <1>3 DEF ReachedOnes
  <2> QED BY <2>2, <2>3
<1>9. settled' = settled \cup set
  BY <1>1, <1>3, <1>e
<1>10. \A x \in set : Low(n) <= Key(x)
  BY <1>2, <1>d, <1>e DEF CallOk
<1>11. f.pc # "wait" /\ Low(n) <= bound
  BY <1>1, <1>3
<1> QED BY <1>a, <1>b, <1>1, <1>7, <1>8, <1>9, <1>10, <1>11, PopStep

(* The return of a base case keeps the invariant: the heap holds nothing    *)
(* below its last vertex, or nothing at all.                                *)
LEMMA BaseReturnStep ==
  ASSUME Ground, IsSeq(stack), Inv, BaseReturn, prm \in Params
  PROVE  Inv' /\ IsSeq(stack') /\ Ground' /\ Improves
<1>a. PICK n : n = Len(stack)
  OBVIOUS
<1>b. PICK f : f = top
  OBVIOUS
<1>c. PICK u \in f.U :
        LET bound == IF Cardinality(f.U) > prm.k THEN Key(u) ELSE f.b
            U     == Completed(f.U, bound)
        IN  /\ \A v \in f.U : Key(v) <= Key(u)
            /\ settled' = settled \cup U
            /\ result' = Result(bound, U)
  BY <1>b DEF BaseReturn
<1>d. PICK bound : bound = IF Cardinality(f.U) > prm.k THEN Key(u) ELSE f.b
  OBVIOUS
<1>e. PICK set : set = IF Cardinality(f.U) > prm.k THEN {v \in f.U : Key(v) < bound} ELSE f.U
  OBVIOUS
<1>1. /\ n > 0 /\ f.pc = "base"
      /\ f.heap = EmptyBag \/ Cardinality(f.U) >= prm.k + 1
      /\ settled' = settled \cup set /\ result' = Result(bound, set)
      /\ Pop /\ UNCHANGED <<run, labels>>
  BY <1>a, <1>b, <1>c, <1>d, <1>e DEF BaseReturn, At, Completed
<1>2. /\ n \in Nat \ {0} /\ n \in 1..n
      /\ IsFrame(f) /\ CallOk(n, f) /\ BaseOk(n, f)
      /\ NearCovered(n, f) /\ Low(n) \in Nat
      /\ \A v \in settled : Key(v) < Low(n)
      /\ LabelsOk /\ settled \subseteq Finals
      /\ \A x \in f.S \cup f.W \cup f.next \cup f.U \cup f.todo \cup f.fresh :
           /\ x \in ReachedOnes /\ x \in Vertex /\ TrueKey(x) \in Nat /\ Key(x) \in Nat
           /\ TrueKey(x) <= Key(x)
  BY <1>1, <1>a, <1>b, TopCall DEF Floor
<1>3. /\ f.next = {} /\ f.b \in Nat /\ Low(n) < f.b
      /\ \A r \in BagToSet(f.heap) : r \in Nat /\ \A x \in f.U : Key(x) <= r
      /\ \A x \in f.U : Low(n) <= Key(x) /\ Key(x) < f.b
  BY <1>1, <1>2 DEF CallOk, BaseOk, IsFrame
<1>4. Cardinality(f.U) \in Nat /\ prm.k \in Nat
  <2>1. f.U \in SUBSET Vertex
    BY <1>2
  <2> QED BY <2>1, VertexFacts, FS_Subset, FS_CardinalityType, BmsspAssumption
<1>5. bound \in Nat /\ bound <= f.b /\ Low(n) <= bound /\ \A v \in settled : Key(v) < bound
  <2>1. \A v \in settled : Key(v) \in Nat
    BY <1>2, KeyFacts DEF Finals
  <2> QED BY <2>1, <1>2, <1>3, <1>c, <1>d
<1>6. \A y : Active(y, f) => bound <= TrueKey(y)
  <2> SUFFICES ASSUME NEW y, Active(y, f) PROVE bound <= TrueKey(y)
    OBVIOUS
  <2>1. TrueKey(y) \in BagToSet(f.heap)
    BY <1>1 DEF Active
  <2>2. CASE Cardinality(f.U) > prm.k
    BY <2>1, <2>2, <1>3, <1>c, <1>d
  <2>3. CASE ~(Cardinality(f.U) > prm.k)
    <3>1. f.heap = EmptyBag
      BY <2>3, <1>1, <1>4
    <3>2. BagToSet(f.heap) = {}
      BY <3>1 DEF EmptyBag, SetToBag, BagToSet
    <3> QED BY <3>2, <2>1
  <2> QED BY <2>2, <2>3
<1>7. \A x \in set : x \in f.U /\ Key(x) < bound
  BY <1>3, <1>d, <1>e
<1>8. set \subseteq Finals
  <2> SUFFICES ASSUME NEW x \in set PROVE x \in Finals
    OBVIOUS
  <2>1. TrueKey(x) < bound /\ TrueKey(x) < f.b /\ x \in ReachedOnes
    BY <1>2, <1>3, <1>5, <1>7
  <2>2. x \in Near(f)
    BY <2>1 DEF Near
  <2> QED BY <2>1, <2>2, <1>2, <1>5, <1>6, NearFinal
<1>9. Completes(f, bound, set)
  <2>1. \A v \in Held(f) \cap Finals : Key(v) < bound => v \in set
    <3>1. Held(f) = f.U
      BY <1>1, <1>3 DEF Held
    <3> QED BY <3>1, <1>e
  <2> QED BY <2>1, <1>5, <1>6, <1>7, <1>8 DEF Completes
<1>10. n # 1
  <2>1. f.l = 0
    BY <1>1, <1>2 DEF CallOk
  <2>2. prm.l # 0
    BY BmsspAssumption
  <2> QED BY <2>1, <2>2, <1>2 DEF CallOk
<1>11. \A x \in set : Low(n) <= Key(x)
  BY <1>3, <1>7
<1>12. top.pc # "wait"
  BY <1>1, <1>b
<1> QED BY <1>a, <1>b, <1>1, <1>2, <1>5, <1>9, <1>10, <1>11, <1>12, PopStep

(* The return of the oracle keeps the invariant: its heap is empty.         *)
LEMMA OracleReturnStep ==
  ASSUME Ground, IsSeq(stack), Inv, OracleReturn
  PROVE  Inv' /\ IsSeq(stack') /\ Ground' /\ Improves
<1>a. PICK n : n = Len(stack)
  OBVIOUS
<1>b. PICK f : f = top
  OBVIOUS
<1>1. /\ n > 0 /\ f.pc = "oracle" /\ f.heap = EmptyBag
      /\ settled' = settled \cup f.U /\ result' = Result(f.b, f.U)
      /\ Pop /\ UNCHANGED <<run, labels>>
  BY <1>a, <1>b DEF OracleReturn, OracleSettled, At
<1>2. /\ n \in Nat \ {0} /\ n \in 1..n
      /\ IsFrame(f) /\ CallOk(n, f) /\ BaseOk(n, f)
      /\ NearCovered(n, f) /\ Low(n) \in Nat
      /\ \A v \in settled : Key(v) < Low(n)
      /\ LabelsOk /\ settled \subseteq Finals
      /\ \A x \in f.S \cup f.W \cup f.next \cup f.U \cup f.todo \cup f.fresh :
           /\ x \in ReachedOnes /\ x \in Vertex /\ TrueKey(x) \in Nat /\ Key(x) \in Nat
           /\ TrueKey(x) <= Key(x)
  BY <1>1, <1>a, <1>b, TopCall DEF Floor
<1>3. /\ f.next = {} /\ f.b \in Nat /\ Low(n) < f.b
      /\ \A x \in f.U : Low(n) <= Key(x) /\ Key(x) < f.b
  BY <1>1, <1>2 DEF CallOk, BaseOk, IsFrame
<1>4. \A y : ~Active(y, f)
  <2>1. BagToSet(f.heap) = {}
    BY <1>1 DEF EmptyBag, SetToBag, BagToSet
  <2> QED BY <2>1, <1>1 DEF Active
<1>5. ASSUME NEW x \in Near(f) PROVE x \in Finals
  <2>1. TrueKey(x) < f.b
    BY DEF Near
  <2>2. \A y : Active(y, f) => f.b <= TrueKey(y)
    BY <1>4
  <2> QED BY <2>1, <2>2, <1>2, <1>3, NearFinal
<1>6. f.U \subseteq Finals
  <2>1. ASSUME NEW x \in f.U PROVE x \in Near(f)
    BY <1>2, <1>3 DEF Near
  <2> QED BY <2>1, <1>5
<1>7. Completes(f, f.b, f.U)
  <2>1. Held(f) = f.U
    BY <1>1, <1>3 DEF Held
  <2>2. \A v \in settled : Key(v) < f.b
    <3>1. \A v \in settled : Key(v) \in Nat
      BY <1>2, KeyFacts DEF Finals
    <3> QED BY <3>1, <1>2, <1>3
  <2> QED BY <2>1, <2>2, <1>3, <1>4, <1>6 DEF Completes
<1>8. ASSUME n = 1 PROVE ReachedOnes \subseteq Finals
  <2>1. f.b = KeyInf
    BY <1>8, <1>2 DEF CallOk
  <2>2. ASSUME NEW x \in ReachedOnes PROVE x \in Near(f)
    BY <2>1, <1>2, KeyFacts DEF Near, ReachedOnes
  <2> QED BY <2>2, <1>5
<1>9. \A x \in f.U : Low(n) <= Key(x)
  BY <1>3
<1>10. f.pc # "wait" /\ Low(n) <= f.b
  BY <1>1, <1>2, <1>3
<1> QED BY <1>a, <1>b, <1>1, <1>7, <1>8, <1>9, <1>10, PopStep

-----------------------------------------------------------------------------
(* The invariant.                                                           *)

Sound ==
  /\ Ground /\ prm \in Params
  /\ IsSeq(stack)
  /\ Inv

(* In the first state only the source has a label, which is final, and the *)
(* first call starts from it.                                              *)
LEMMA InitSound ==
  ASSUME Exact, Init \/ EngineInit
  PROVE  Sound
<1>1. /\ Ground /\ prm \in Params
  BY ShortestIs DEF Init, EngineInit, Ground
<1>2. /\ Source \in Vertex /\ N \in Nat \ {0} /\ Vertex \subseteq Nat /\ MaxLen \in Nat
      /\ Unreached \in Nat /\ Unreached > 0
  BY VertexFacts, UnreachedFacts
<1>3. /\ dhat = [v \in Vertex |-> IF v = Source THEN 0 ELSE InfLen]
      /\ hops = [v \in Vertex |-> IF v = Source THEN 0 ELSE InfHops]
      /\ pred = [v \in Vertex |-> -1]
      /\ InfLen \in Nat /\ InfHops = N
  BY <1>2 DEF Init, EngineInit, InfLen, InfHops
<1>4. Code(Source) = 0 /\ \A v \in Vertex \ {Source} : Code(v) = Unreached
  BY <1>2, <1>3, UnreachedFacts DEF Code, Unreached
<1>5. LabelsOk
  <2>1. dhat \in [Vertex -> Nat] /\ hops \in [Vertex -> Nat] /\ pred \in [Vertex -> Vertex \cup {-1}]
    BY <1>2, <1>3
  <2>2. ASSUME NEW v \in Vertex PROVE best[v] <= Code(v) /\ Code(v) <= Unreached
    <3>1. best[Source] = 0 /\ best[v] \in Nat /\ best[v] <= Unreached
      BY <1>1, TrueFacts DEF Ground, IsShortest
    <3> QED BY <3>1, <1>2, <1>4
  <2>3. ASSUME NEW v \in Vertex
        PROVE  IF Code(v) < Unreached THEN hops[v] <= Cardinality(Before(v)) ELSE hops[v] = N
    <3>1. CASE v = Source
      <4>1. Cardinality(Before(v)) \in Nat
        <5>1. Before(v) \in SUBSET Vertex
          BY DEF Before
        <5> QED BY <5>1, VertexFacts, FS_Subset, FS_CardinalityType
      <4> QED BY <4>1, <3>1, <1>2, <1>3, <1>4
    <3>2. CASE v # Source
      BY <3>2, <1>2, <1>3, <1>4
    <3> QED BY <3>1, <3>2
  <2>4. \A v \in Vertex : pred[v] = -1
    BY <1>3
  <2>5. \A v \in Vertex \ {Source} : ~(Code(v) < Unreached)
    BY <1>2, <1>4
  <2> QED BY <2>1, <2>2, <2>3, <2>4, <2>5, <1>4 DEF LabelsOk
<1>6. Source \in ReachedOnes /\ Source \in Finals
  <2>1. Source \in ReachedOnes /\ best[Source] = 0
    BY <1>1, TrueFacts DEF Ground, IsShortest
  <2> QED BY <2>1, <1>2, <1>4 DEF Finals, Final, ReachedOnes
<1>7. PICK c \in {Call(prm.l, KeyInf, {Source}), EngineCall(prm.l, KeyInf, {Source})} : stack = <<c>>
  BY DEF Init, EngineInit
<1>8. stack = <<c>> /\ settled = {}
  BY <1>7 DEF Init, EngineInit
<1>9. Len(stack) = 1 /\ stack[1] = c /\ IsSeq(stack) /\ Low(1) = 0
  <2>1. <<c>> \in Seq({c}) /\ Len(<<c>>) = 1 /\ <<c>>[1] = c
    OBVIOUS
  <2> QED BY <2>1, <1>8 DEF IsSeq, Low
<1>10. prm.l \in Nat \ {0} /\ KeyInf \in Nat /\ Key(Source) \in Nat /\ Key(Source) < KeyInf
  BY <1>1, <1>2, <1>5, BmsspAssumption, UnreachedFacts, KeyFacts
<1>11. Started(0, KeyInf, {Source}, 0, c)
  <2>1. \A y, z \in {Source} : y = z
    OBVIOUS
  <2>2. \A y \in {Source} : 0 <= Key(y) /\ Key(y) < KeyInf
    BY <1>10
  <2>3. Starts(0, prm.l, KeyInf, {Source}, 0, c)
    BY <2>1, <2>2, <1>1, <1>5, <1>6, <1>7, <1>9, <1>10 DEF Starts
  <2> QED BY <2>3, CalleeStarts DEF CalleesStart
<1>12. /\ FrameOk(1, c) /\ EntriesCovered(c) /\ BehindCovered(c) /\ Active(Source, c)
       /\ c.pc # "wait" /\ F(1) = c
  BY <1>6, <1>9, <1>11 DEF Started, F
<1>13. NearCovered(1, c)
  <2> SUFFICES ASSUME NEW v \in Near(c) PROVE Covered(v, c)
    BY DEF NearCovered
  <2>1. Source \in PathTo(v)
    BY <1>1, SourceOnPath DEF Near
  <2> QED BY <2>1, <1>12 DEF Covered
<1>14. FramesInv
  <2>1. 1..Len(stack) = {1}
    BY <1>9
  <2> QED BY <2>1, <1>9, <1>12, <1>13 DEF FramesInv
<1>15. LowsRise /\ SettledBelow /\ AllDone /\ settled \subseteq Finals
  <2>1. \A i, j \in 1..Len(stack) : i = 1 /\ j = 1
    BY <1>9
  <2> QED BY <2>1, <1>8, <1>9 DEF LowsRise, SettledBelow, AllDone
<1> QED BY <1>1, <1>5, <1>9, <1>14, <1>15 DEF Sound, Inv

(* Every step keeps the invariant, and the labels only improve.            *)
LEMMA NextSound ==
  ASSUME Sound, Next
  PROVE  Sound' /\ Improves
<1>1. Ground /\ prm \in Params /\ IsSeq(stack) /\ Inv
  BY DEF Sound
<1>2. Inv' /\ IsSeq(stack') /\ Ground' /\ Improves
  <2>1. CASE \E u \in Vertex : Expand(u)
    BY <2>1, <1>1, ExpandStep
  <2>2. CASE \E u \in Vertex : RelaxOut(u)
    BY <2>2, <1>1, RelaxOutStep
  <2>3. CASE EndRound
    BY <2>3, <1>1, EndRoundStep
  <2>4. CASE PullBatch
    BY <2>4, <1>1, PullStep
  <2>5. CASE Resume
    BY <2>5, <1>1, ResumeStep
  <2>6. CASE PrependBatch
    BY <2>6, <1>1, PrependStep
  <2>7. CASE Return
    BY <2>7, <1>1, ReturnStep
  <2>8. CASE BasePop
    BY <2>8, <1>1, BasePopStep
  <2>9. CASE BaseReturn
    BY <2>9, <1>1, BaseReturnStep
  <2> QED BY <2>1, <2>2, <2>3, <2>4, <2>5, <2>6, <2>7, <2>8, <2>9 DEF Next
<1> QED BY <1>1, <1>2 DEF Sound, Improves

(* A step that changes nothing keeps it.                                   *)
LEMMA SameSound ==
  ASSUME Sound, UNCHANGED vars
  PROVE  Sound' /\ Improves
<1>1. Ground /\ prm \in Params /\ IsSeq(stack) /\ Inv /\ LabelsOk
  BY DEF Sound, Inv
<1>2. /\ dhat' = dhat /\ hops' = hops /\ pred' = pred /\ settled' = settled
      /\ wt' = wt /\ prm' = prm /\ best' = best
      /\ stack' = stack /\ result' = result
  BY DEF vars, run
<1>3. Improves /\ Ground' /\ LabelsOk' /\ Finals' = Finals
  <2>1. UNCHANGED <<run, labels>> /\ settled \subseteq settled'
    BY <1>2 DEF run, labels
  <2> QED BY <2>1, <1>1, SameImproves
<1>4. /\ \A v : /\ Key(v)' = Key(v) /\ TrueKey(v)' = TrueKey(v) /\ Parent(v)' = Parent(v)
              /\ PathTo(v)' = PathTo(v)
      /\ ReachedOnes' = ReachedOnes
  BY <1>2 DEF Key, TrueKey, Parent, ShortestPred, PathTo, ReachedOnes, Reached
<1>5. \A i : Low(i)' = Low(i) /\ F(i)' = F(i)
  BY <1>2 DEF Low, F, Resumed
<1>6. \A y, f : Active(y, f)' <=> Active(y, f)
  BY <1>3, <1>4 DEF Active
<1>7. \A v, f : Covered(v, f)' <=> Covered(v, f)
  BY <1>4, <1>6 DEF Covered
<1>8. \A f : Near(f)' = Near(f) /\ Held(f)' = Held(f) /\ Entries(f)' = Entries(f)
  BY <1>4 DEF Near, Held, Entries
<1>9. \A v, i : Upheld(v, i)' <=> Upheld(v, i)
  BY <1>5, <1>8 DEF Upheld
<1>10. ASSUME NEW i, NEW f
       PROVE  /\ NearCovered(i, f) => NearCovered(i, f)'
              /\ BehindCovered(f) => BehindCovered(f)'
              /\ EntriesCovered(f) => EntriesCovered(f)'
  <2>1. NearCovered(i, f) => NearCovered(i, f)'
    BY <1>2, <1>3, <1>7, <1>8, <1>9 DEF NearCovered
  <2>2. BehindCovered(f) => BehindCovered(f)'
    BY <1>3, <1>4, <1>7, <1>8 DEF BehindCovered
  <2>3. EntriesCovered(f) => EntriesCovered(f)'
    BY <1>2, <1>4, <1>7, <1>8 DEF EntriesCovered
  <2> QED BY <2>1, <2>2, <2>3
<1>11. ASSUME NEW i, NEW f, FrameOk(i, f) PROVE FrameOk(i, f)'
  <2>1. IsFrame(f)' /\ CallOk(i, f)'
    BY <1>2, <1>4, <1>5, <1>11 DEF FrameOk, IsFrame, CallOk
  <2>2. ExpandOk(f)'
    <3>1. \A y, z : Chain(y, z)' = Chain(y, z)
      BY <1>4 DEF Chain
    <3>2. Grown(f) => Grown(f)'
      BY <3>1, <1>3, <1>4, <1>8 DEF Grown
    <3> QED BY <3>2, <1>2, <1>11 DEF FrameOk, ExpandOk
  <2>3. LoopOk(i, f)' /\ PulledOk(f)'
    BY <1>2, <1>4, <1>5, <1>11 DEF FrameOk, LoopOk, PulledOk
  <2>4. WaitOk(i, f)'
    BY <1>2, <1>4, <1>11 DEF FrameOk, WaitOk
  <2>5. BaseOk(i, f)'
    BY <1>4, <1>5, <1>11 DEF FrameOk, BaseOk
  <2> QED BY <2>1, <2>2, <2>3, <2>4, <2>5 DEF FrameOk
<1>12. FramesInv'
  BY <1>1, <1>2, <1>5, <1>10, <1>11 DEF Inv, FramesInv
<1>13. LowsRise' /\ (settled \subseteq Finals)'
  BY <1>1, <1>2, <1>3, <1>5 DEF Inv, LowsRise
<1>14. SettledBelow'
  <2>1. \A f : Floor(f)' = Floor(f)
    BY <1>2, <1>5 DEF Floor
  <2> QED BY <2>1, <1>1, <1>2, <1>4, <1>5 DEF Inv, SettledBelow
<1>15. AllDone'
  BY <1>1, <1>2, <1>3, <1>4 DEF Inv, AllDone
<1> QED BY <1>1, <1>2, <1>3, <1>12, <1>13, <1>14, <1>15 DEF Sound, Inv, IsSeq

(* The invariant holds in every state, of every graph and for all           *)
(* parameters that leave room for all vertices in the U of the first        *)
(* call.                                                                    *)
THEOREM Soundness ==
  ASSUME Exact
  PROVE  Spec => []Sound
<1>1. Init => Sound
  BY InitSound
<1>2. Sound /\ [Next]_vars => Sound'
  BY NextSound, SameSound
<1> QED BY <1>1, <1>2, PTL DEF Spec

-----------------------------------------------------------------------------
(* Of a vertex that is covered in a call, something is found in it or in   *)
(* a call further in.                                                      *)

(* The last vertex on a path that is below b.                              *)
LEMMA LastBelow ==
  ASSUME Ground, NEW v \in ReachedOnes, NEW b \in Nat, NEW y \in PathTo(v), TrueKey(y) < b
  PROVE  \E w \in PathTo(v) :
           /\ y \in PathTo(w) /\ TrueKey(w) < b
           /\ \A z \in PathTo(v) : TrueKey(z) > TrueKey(w) => TrueKey(z) >= b
<1> DEFINE Under == {z \in PathTo(v) : TrueKey(z) < b}
           Gaps == {b - TrueKey(z) : z \in Under}
<1>1. \A z \in PathTo(v) : z \in ReachedOnes /\ TrueKey(z) \in Nat
  BY PathIs, TrueFacts DEF ReachedOnes
<1>2. PICK w \in Under : \A z \in Under : TrueKey(z) <= TrueKey(w)
  <2>1. Gaps \subseteq Nat /\ Gaps # {}
    BY <1>1
  <2>2. PICK m \in Gaps : \A d \in Gaps : m <= d
    <3> HIDE DEF Gaps
    <3> QED BY <2>1, HasLeast
  <2>3. PICK w \in Under : m = b - TrueKey(w)
    BY <2>2
  <2>4. ASSUME NEW z \in Under PROVE TrueKey(z) <= TrueKey(w)
    <3>1. b - TrueKey(w) <= b - TrueKey(z)
      BY <2>2, <2>3
    <3> QED BY <3>1, <1>1
  <2> QED BY <2>4
<1>3. TrueKey(y) <= TrueKey(w)
  BY <1>2
<1>4. y \in PathTo(w)
  BY <1>2, <1>3, PathLine
<1>5. \A z \in PathTo(v) : TrueKey(z) > TrueKey(w) => TrueKey(z) >= b
  BY <1>1, <1>2
<1> QED BY <1>2, <1>4, <1>5

(* The vertex y, on the path to v, is in the D of the j-th call, or that   *)
(* call holds it and what follows it is not below its bound.               *)
FoundIn(j, y, v) ==
  /\ y \in PathTo(v) /\ y \in Finals
  /\ \/ TrueKey(y) \in stack[j].D
     \/ /\ j > 1
        /\ y \in stack[j].U \cup stack[j].W
        /\ \A z \in PathTo(v) : TrueKey(z) > TrueKey(y) => TrueKey(z) >= stack[j].b

Found(i, v) == \E j \in i..Len(stack) : stack[j].b <= stack[i].b /\ \E y : FoundIn(j, y, v)

AllFound(i) == \A v \in Near(stack[i]) : Covered(v, stack[i]) => Found(i, v)

(* If what is covered in the next call is found, so is what is covered in   *)
(* this one: where the path leads through the S of the next call,           *)
(* consider its last vertex below that call's bound.                        *)
LEMMA FoundHere ==
  ASSUME Sound, At("loop"), NEW i \in 1..Len(stack),
         i # Len(stack) => AllFound(i + 1)
  PROVE  AllFound(i)
<1> SUFFICES ASSUME NEW v \in Near(stack[i]), Covered(v, stack[i]) PROVE Found(i, v)
  BY DEF AllFound
<1>1. Ground /\ IsSeq(stack) /\ Inv /\ LabelsOk
  BY DEF Sound, Inv
<1>2. PICK f : f = stack[i]
  OBVIOUS
<1>3. /\ Len(stack) \in Nat /\ i \in Nat \ {0} /\ IsFrame(f) /\ FrameOk(i, f)
      /\ f.b \in Nat /\ i \in i..Len(stack)
      /\ i # Len(stack) => f.pc = "wait" /\ i < Len(stack)
      /\ i = Len(stack) => f.pc = "loop"
  BY <1>1, <1>2, CallsAre DEF IsFrame, At, top
<1>4. v \in ReachedOnes /\ TrueKey(v) < f.b /\ v \in Vertex /\ TrueKey(v) \in Nat
  BY <1>1, <1>2, TrueFacts DEF Near, ReachedOnes
<1>5. PICK y \in PathTo(v) : Active(y, f)
  BY <1>2 DEF Covered
<1>6. y \in Finals /\ (TrueKey(y) \in f.D \/ (i # Len(stack) /\ y \in f.fresh))
  BY <1>3, <1>5 DEF Active
<1>7. CASE TrueKey(y) \in f.D
  <2>1. FoundIn(i, y, v)
    BY <1>2, <1>5, <1>6, <1>7 DEF FoundIn
  <2> QED BY <2>1, <1>2, <1>3 DEF Found
<1>8. CASE i # Len(stack) /\ y \in f.fresh
  <2>1. PICK c : c = stack[i + 1]
    OBVIOUS
  <2>2. /\ i + 1 \in 1..Len(stack) /\ i + 1 \in i..Len(stack) /\ i + 1 > 1 /\ i + 1 \in Nat
        /\ (i + 1)..Len(stack) \subseteq i..Len(stack)
    BY <1>3, <1>8
  <2>3. /\ IsFrame(c) /\ FrameOk(i + 1, c) /\ c.pc \in {"loop", "wait"} /\ c.b \in Nat
        /\ BehindCovered(c)
    <3>1. F(i + 1) = c /\ IsFrame(c) /\ FrameOk(i + 1, c) /\ BehindCovered(F(i + 1))
      <4>1. CASE i + 1 = Len(stack)
        BY <4>1, <2>1, <2>2, <1>1, CallsAre DEF F, At, top
      <4>2. CASE i + 1 # Len(stack)
        BY <4>2, <2>1, <2>2, <1>1, CallsAre
      <4> QED BY <4>1, <4>2
    <3>2. c.pc \in {"loop", "wait"}
      <4>1. CASE i + 1 = Len(stack)
        BY <4>1, <2>1 DEF At, top
      <4>2. CASE i + 1 # Len(stack)
        BY <4>2, <2>1, <2>2, <1>1, CallsAre
      <4> QED BY <4>1, <4>2
    <3> QED BY <3>1, <3>2 DEF IsFrame
  <2>4. f.fresh = c.S /\ f.bi = c.b /\ c.b <= f.b
    <3>1. f.fresh = c.S /\ f.bi = c.b
      BY <1>3, <1>8, <2>1 DEF FrameOk, WaitOk
    <3>2. f.bi <= f.b
      BY <1>3, <1>8 DEF FrameOk, PulledOk
    <3> QED BY <3>1, <3>2
  <2>5. y \in Near(c) /\ y \in c.S
    BY <1>1, <1>8, <2>3, <2>4, FrameSets DEF FrameOk
  <2>6. PICK w \in PathTo(v) :
          /\ y \in PathTo(w) /\ TrueKey(w) < c.b
          /\ \A z \in PathTo(v) : TrueKey(z) > TrueKey(w) => TrueKey(z) >= c.b
    <3>1. TrueKey(y) < c.b
      BY <2>5 DEF Near
    <3> QED BY <3>1, <1>1, <1>4, <1>5, <2>3, LastBelow
  <2>7. w \in ReachedOnes /\ PathTo(w) \subseteq PathTo(v) /\ w \in Near(c) /\ TrueKey(w) \in Nat
        /\ w \in PathTo(w)
    BY <1>1, <1>4, <2>6, PathTrans, PathIs, TrueFacts DEF Near, ReachedOnes
  <2>8. CASE w \in Finals /\ w \in Held(c)
    <3>1. w \in c.U \cup c.W
      <4>1. c.next = {}
        BY <2>3 DEF FrameOk, LoopOk
      <4> QED BY <4>1, <2>3, <2>8 DEF Held
    <3>2. FoundIn(i + 1, w, v)
      BY <3>1, <2>1, <2>2, <2>6, <2>8 DEF FoundIn
    <3> QED BY <3>2, <1>2, <2>1, <2>2, <2>4 DEF Found
  <2>9. CASE Covered(w, c)
    <3>1. PICK j \in (i + 1)..Len(stack) : c.b >= stack[j].b /\ \E x : FoundIn(j, x, w)
      BY <2>1, <2>7, <2>9, <1>8 DEF AllFound, Found
    <3>2. PICK x : FoundIn(j, x, w)
      BY <3>1
    <3>3. x \in PathTo(v) /\ x \in Finals
      BY <3>2, <2>7 DEF FoundIn
    <3>4. j \in 1..Len(stack) /\ j \in i..Len(stack) /\ stack[j].b \in Nat
      <4>1. j \in 1..Len(stack) /\ j \in i..Len(stack)
        BY <1>3, <3>1
      <4> QED BY <4>1, <1>1, CallsAre DEF IsFrame
    <3>5. ASSUME NEW z \in PathTo(v), TrueKey(z) > TrueKey(x),
                 \A q \in PathTo(w) : TrueKey(q) > TrueKey(x) => TrueKey(q) >= stack[j].b
          PROVE  TrueKey(z) >= stack[j].b
      <4>1. TrueKey(z) \in Nat
        BY <1>1, <1>4, PathIs, TrueFacts DEF ReachedOnes
      <4>2. CASE TrueKey(z) > TrueKey(w)
        BY <4>1, <4>2, <2>3, <2>6, <3>1, <3>4
      <4>3. CASE TrueKey(z) <= TrueKey(w)
        <5>1. z \in PathTo(w)
          BY <4>3, <1>1, <1>4, <2>6, PathLine
        <5> QED BY <5>1, <3>5
      <4> QED BY <4>1, <4>2, <4>3, <2>7
    <3>6. FoundIn(j, x, v)
      BY <3>2, <3>3, <3>5 DEF FoundIn
    <3>7. stack[j].b <= f.b
      BY <3>1, <3>4, <2>3, <2>4, <1>3
    <3> QED BY <3>4, <3>6, <3>7, <1>2 DEF Found
  <2>10. (w \in Finals /\ w \in Held(c)) \/ Covered(w, c)
    BY <1>6, <2>3, <2>5, <2>6, <2>7 DEF BehindCovered
  <2> QED BY <2>8, <2>9, <2>10
<1> QED BY <1>6, <1>7, <1>8

(* So it is in all calls: otherwise consider the innermost one where it     *)
(* is not.                                                                  *)
LEMMA FoundEverywhere ==
  ASSUME Sound, At("loop"), NEW i \in 1..Len(stack)
  PROVE  AllFound(i)
<1>1. Len(stack) \in Nat
  BY CallsAre DEF Sound
<1> DEFINE Gaps == {Len(stack) - j : j \in {j \in 1..Len(stack) : ~AllFound(j)}}
<1> SUFFICES ASSUME ~AllFound(i) PROVE FALSE
  OBVIOUS
<1>2. Gaps \subseteq Nat /\ Gaps # {}
  BY <1>1
<1>3. PICK m \in Gaps : \A d \in Gaps : m <= d
  <2> HIDE DEF Gaps
  <2> QED BY <1>2, HasLeast
<1>4. PICK j \in 1..Len(stack) : m = Len(stack) - j /\ ~AllFound(j)
  BY <1>3
<1>5. ASSUME j # Len(stack) PROVE AllFound(j + 1)
  <2>1. j + 1 \in 1..Len(stack) /\ ~(Len(stack) - j <= Len(stack) - (j + 1))
    BY <1>1, <1>5
  <2>2. ~AllFound(j + 1) => Len(stack) - (j + 1) \in Gaps
    BY <2>1
  <2> QED BY <2>1, <2>2, <1>3, <1>4
<1> QED BY <1>4, <1>5, FoundHere

(* The invariant implies that no vertex is lost.                            *)
LEMMA SoundNothingLost ==
  ASSUME Sound
  PROVE  NothingLost
<1> SUFFICES ASSUME At("loop"), NEW v \in Vertex \ settled, Reached(v)
             PROVE  \E i \in 1..Len(stack) : \E y \in PathTo(v) :
                      /\ Key(y) = TrueKey(y)
                      /\ \/ y = v /\ v \in stack[i].W
                         \/ Key(y) \in stack[i].D
                         \/ /\ i > 1
                            /\ y \in stack[i].U \cup stack[i].W
                            /\ \A z \in PathTo(v) :
                                 TrueKey(z) > TrueKey(y) => TrueKey(z) >= stack[i].b
  BY DEF NothingLost
<1>1. Ground /\ IsSeq(stack) /\ Inv /\ LabelsOk
  BY DEF Sound, Inv
<1>2. 1 \in 1..Len(stack) /\ Len(stack) \in Nat
  BY <1>1, CallsAre DEF At
<1>3. PICK f : f = stack[1]
  OBVIOUS
<1>4. /\ IsFrame(f) /\ FrameOk(1, f) /\ F(1) = f /\ NearCovered(1, f) /\ f.pc \in {"loop", "wait"}
  <2>1. CASE Len(stack) = 1
    BY <2>1, <1>1, <1>2, <1>3, CallsAre DEF F, At, top
  <2>2. CASE Len(stack) # 1
    BY <2>2, <1>1, <1>2, <1>3, CallsAre
  <2> QED BY <2>1, <2>2
<1>5. v \in ReachedOnes /\ v \in PathTo(v) /\ v \in Near(f)
  <2>1. f.b = KeyInf
    BY <1>4 DEF FrameOk, CallOk
  <2> QED BY <2>1, <1>1, PathIs, KeyFacts DEF Near, ReachedOnes
<1>6. CASE v \in Finals /\ Upheld(v, 1)
  <2>1. v \in Held(f)
    BY <1>4, <1>6 DEF Upheld
  <2>2. f.next = {} /\ f.U \subseteq settled
    BY <1>4 DEF FrameOk, LoopOk
  <2>3. v \in f.W
    BY <2>1, <2>2, <1>4 DEF Held
  <2>4. Key(v) = TrueKey(v)
    BY <1>1, <1>6, FinalFacts
  <2> QED BY <2>3, <2>4, <1>2, <1>3, <1>5
<1>7. CASE Covered(v, f)
  <2>1. Found(1, v)
    BY <1>2, <1>3, <1>5, <1>7, FoundEverywhere DEF AllFound
  <2>2. PICK j \in 1..Len(stack) : \E y : FoundIn(j, y, v)
    BY <2>1 DEF Found
  <2>3. PICK y : FoundIn(j, y, v)
    BY <2>2
  <2>4. y \in PathTo(v) /\ Key(y) = TrueKey(y)
    BY <2>3, <1>1, FinalFacts DEF FoundIn
  <2>5. \/ Key(y) \in stack[j].D
        \/ /\ j > 1
           /\ y \in stack[j].U \cup stack[j].W
           /\ \A z \in PathTo(v) : TrueKey(z) > TrueKey(y) => TrueKey(z) >= stack[j].b
    BY <2>3, <2>4 DEF FoundIn
  <2> QED BY <2>4, <2>5
<1> QED BY <1>4, <1>5, <1>6, <1>7 DEF NearCovered

-----------------------------------------------------------------------------
(* The fork.                                                                *)

(* A step of the innermost call leaves its callers as they must be: they    *)
(* wait.                                                                    *)
LEMMA EngineTop ==
  ASSUME Ground, IsSeq(stack), Inv, EngineOk, prm' = prm,
         NEW n, n = Len(stack), n > 0,
         NEW g, SetTop(g), EngineFrameOk(n, g)'
  PROVE  EngineOk'
<1>1. /\ n \in Nat \ {0} /\ IsSeq(stack') /\ Len(stack)' = n /\ stack'[n] = g
      /\ \A i \in 1..n : i # n => stack'[i] = stack[i] /\ stack[i].pc = "wait"
  BY CallsAre, SetTopIs
<1> SUFFICES ASSUME NEW i \in 1..n, i # n
             PROVE  EngineFrameOk(i, stack[i])'
  <2>1. \A i \in 1..n : i # n => EngineFrameOk(i, stack[i])'
    OBVIOUS
  <2> QED BY <2>1, <1>1 DEF EngineOk
<1>2. EngineFrameOk(i, stack[i]) /\ stack'[i] = stack[i] /\ stack[i].pc = "wait"
  BY <1>1 DEF EngineOk
<1>3. PICK f : f = stack[i]
  OBVIOUS
<1>4. EngineFrameOk(i, f) /\ f.pc = "wait" /\ (OracleUsed' => OracleUsed)
  BY <1>2, <1>3 DEF OracleUsed
<1>5. EngineFrameOk(i, f)'
  BY <1>1, <1>4 DEF EngineFrameOk, HeapOk, OneDescent
<1> QED BY <1>2, <1>3, <1>5

(* So does a call of a callee, which itself starts as it must.             *)
LEMMA EnginePush ==
  ASSUME Ground, IsSeq(stack), Inv, EngineOk, prm' = prm,
         NEW n, n = Len(stack), n > 0,
         NEW g, NEW c, Push(g, c), g.pc = "wait", EngineFrameOk(n, g)', EngineFrameOk(n + 1, c)'
  PROVE  EngineOk'
<1>1. /\ n \in Nat \ {0} /\ IsSeq(stack') /\ Len(stack)' = n + 1 /\ stack'[n] = g /\ stack'[n + 1] = c
      /\ \A i \in 1..n : i # n => stack'[i] = stack[i] /\ stack[i].pc = "wait"
  BY CallsAre, PushIs
<1> SUFFICES ASSUME NEW i \in 1..n, i # n
             PROVE  EngineFrameOk(i, stack[i])'
  <2>1. \A i \in 1..n : i # n => EngineFrameOk(i, stack[i])'
    OBVIOUS
  <2> QED BY <2>1, <1>1 DEF EngineOk
<1>2. EngineFrameOk(i, stack[i]) /\ stack'[i] = stack[i] /\ stack[i].pc = "wait"
  BY <1>1 DEF EngineOk
<1>3. PICK f : f = stack[i]
  OBVIOUS
<1>4. EngineFrameOk(i, f) /\ f.pc = "wait" /\ (OracleUsed' => OracleUsed)
  BY <1>2, <1>3 DEF OracleUsed
<1>5. EngineFrameOk(i, f)'
  BY <1>1, <1>4 DEF EngineFrameOk, HeapOk, OneDescent
<1> QED BY <1>2, <1>3, <1>5

(* And a return, which in a run with the oracle has done everything.        *)
LEMMA EnginePop ==
  ASSUME Ground, IsSeq(stack), Inv, EngineOk, prm' = prm, Len(stack) > 0, Pop,
         OracleUsed => result'.bound = KeyInf
  PROVE  EngineOk'
<1>1. PICK n : n = Len(stack)
  OBVIOUS
<1>2. /\ n \in Nat \ {0} /\ Len(stack)' = n - 1
      /\ \A i \in 1..(n - 1) : i \in 1..n /\ i # n /\ stack'[i] = stack[i] /\ stack[i].pc = "wait"
  BY <1>1, CallsAre, PopIs
<1> SUFFICES ASSUME NEW i \in 1..(n - 1)
             PROVE  EngineFrameOk(i, stack[i])'
  BY <1>2 DEF EngineOk
<1>3. PICK f : f = stack[i]
  OBVIOUS
<1>4. stack'[i] = f /\ f.pc = "wait" /\ EngineFrameOk(i, f) /\ (OracleUsed' => OracleUsed)
  BY <1>1, <1>2, <1>3 DEF EngineOk, OracleUsed
<1>5. EngineFrameOk(i, f)'
  BY <1>4 DEF EngineFrameOk, HeapOk, OneDescent
<1> QED BY <1>4, <1>5

(* A call of the fork starts as it must: in a run with the oracle the      *)
(* oracle is what takes the source at level 0.                             *)
LEMMA EngineCallOk ==
  ASSUME Ground, LabelsOk, prm \in Params, NEW i, NEW l \in Nat, NEW x, NEW S \in SUBSET Vertex,
         NEW c, c = EngineCall(l, x, S),
         OracleUsed => l <= prm.l /\ S = {Source} /\ x = KeyInf
  PROVE  EngineFrameOk(i, c)
<1>1. /\ c.pc = IF UsesDijkstra(l, S) THEN "oracle" ELSE IF l = 0 THEN "base" ELSE "expand"
      /\ c.l = l /\ c.b = x /\ c.S = S /\ c.D = {} /\ c.U = {}
      /\ (c.pc \in {"base", "oracle"} => c.heap = Keys(S))
  BY EngineCallIs
<1>2. prm.hybrid_max_level \in Nat \cup {-1} /\ prm.hybrid_frontier \in Nat
  BY ConfigAssumption
<1>3. HeapOk(c)
  <2> SUFFICES ASSUME c.pc \in {"base", "oracle"}, NEW r \in BagToSet(c.heap)
               PROVE  c.heap[r] <= Sources(r, c)
    BY <1>1 DEF HeapOk
  <2>1. PICK z \in S : r = Key(z)
    BY <1>1, KeysIs
  <2>2. IdOf[r] \in S /\ c.heap[r] = 1
    BY <2>1, <1>1, KeyFacts, KeysIs
  <2>3. {u \in c.U : IdOf[r] \in Succ(u)} = {}
    BY <1>1
  <2>4. Cardinality({}) = 0
    BY FS_EmptySet
  <2>5. Sources(r, c) = 1
    BY <2>2, <2>3, <2>4, <1>1 DEF Sources
  <2> QED BY <2>2, <2>5
<1>4. ASSUME c.pc = "oracle" PROVE OracleUsed
  <2>1. UsesDijkstra(l, S)
    BY <1>1, <1>4
  <2> QED BY <2>1, <1>2 DEF UsesDijkstra, OracleUsed
<1>5. ASSUME OracleUsed PROVE OneDescent(i, c)
  <2>1. l <= prm.l /\ S = {Source} /\ x = KeyInf
    BY <1>5
  <2>2. Cardinality({Source}) = 1
    BY FS_Singleton
  <2>3. l = 0 => UsesDijkstra(l, S)
    BY <2>1, <2>2, <1>2, <1>5 DEF UsesDijkstra, OracleUsed
  <2> QED BY <2>1, <2>3, <1>1 DEF OneDescent
<1> QED BY <1>3, <1>4, <1>5 DEF EngineFrameOk

(* A pop keeps the heap as it must be.  What is pushed with a new key is    *)
(* above all that was popped, so that relaxing never takes a popped vertex's *)
(* label away; nor could what an earlier one left be relaxed.              *)
LEMMA PopsOk ==
  ASSUME Ground, IsSeq(stack), Inv, EngineOk, Ground', LabelsOk',
         NEW f, NEW r, NEW u, NEW R, NEW U, Pops(f, r, u, R, U),
         u \in f.U \/ r # Key(u) => R = {} /\ U = f.U
  PROVE  EngineOk'
<1>a. PICK n : n = Len(stack)
  OBVIOUS
<1>b. PICK heap : heap = Popped(f.heap, r, u, R)
  OBVIOUS
<1>c. PICK g : g = [f EXCEPT !.heap = heap, !.U = U]
  OBVIOUS
<1>d. PICK C : C = {CandKey(u, v) : v \in R}
  OBVIOUS
<1>1. /\ n > 0 /\ f = top /\ f.pc \in {"base", "oracle"} /\ r \in BagToSet(f.heap) /\ u = IdOf[r]
      /\ \A x \in BagToSet(f.heap) : r <= x
      /\ \/ /\ r = Key(u) /\ u \notin f.U
            /\ R = {v \in Succ(u) : Passes(u, v) /\ CandKey(u, v) < f.b}
            /\ U = f.U \cup {u}
         \/ /\ r # Key(u) \/ u \in f.U
            /\ R = {}
            /\ U = f.U
      /\ Relabel(u, R) /\ SetTop(g)
      /\ wt' = wt /\ prm' = prm /\ best' = best /\ settled' = settled
  BY <1>a, <1>b, <1>c DEF Pops, run
<1>2. /\ n \in Nat \ {0} /\ n \in 1..n /\ f = stack[n]
      /\ IsFrame(f) /\ CallOk(n, f) /\ BaseOk(n, f) /\ LabelsOk
      /\ \A x \in f.S \cup f.W \cup f.next \cup f.U \cup f.todo \cup f.fresh :
           /\ x \in ReachedOnes /\ x \in Vertex /\ Key(x) \in Nat
  BY <1>1, <1>a, TopCall
<1>3. /\ IsABag(f.heap) /\ f.b \in Nat
      /\ \A q \in BagToSet(f.heap) :
           /\ q \in Nat /\ q < f.b /\ IdOf[q] \in ReachedOnes
           /\ \A x \in f.U : Key(x) <= q
  BY <1>1, <1>2 DEF BaseOk, IsFrame
<1>4. /\ HeapOk(f) /\ EngineFrameOk(n, f)
      /\ u \in Vertex /\ Key(u) \in Nat /\ r \in Nat /\ f.U \subseteq Vertex /\ U \subseteq Vertex
  <2>1. EngineFrameOk(n, f)
    BY <1>2, <1>a DEF EngineOk
  <2>2. u \in Vertex
    BY <1>1, <1>3 DEF ReachedOnes
  <2> QED BY <2>1, <2>2, <1>1, <1>2, <1>3, KeyFacts DEF EngineFrameOk
<1>5. Relaxes(u, R)
  BY <1>1 DEF Relaxes
<1>6. /\ \A v \in Vertex \ R :
           /\ Code(v)' = Code(v) /\ pred'[v] = pred[v] /\ hops'[v] = hops[v]
           /\ dhat'[v] = dhat[v] /\ Key(v)' = Key(v)
      /\ \A v \in R : /\ v \in Succ(u) /\ v \in Vertex /\ Passes(u, v)
                      /\ Code(v)' = Cand(u, v) /\ pred'[v] = u
                      /\ Key(v)' = CandKey(u, v)
      /\ u \notin R
  BY <1>2, <1>4, <1>5, RelaxCodes
<1>7. /\ g.pc = f.pc /\ g.l = f.l /\ g.b = f.b /\ g.S = f.S /\ g.D = f.D /\ g.U = U
      /\ g.heap = heap /\ g.last = f.last
  BY <1>1, <1>2, <1>c DEF IsFrame, Fields
<1>8. /\ IsABag(heap) /\ BagToSet(heap) \subseteq BagToSet(f.heap) \cup C
      /\ (BagToSet(f.heap) \ {r}) \cup C \subseteq BagToSet(heap)
      /\ \A x \in BagToSet(heap) :
           /\ x \in BagToSet(f.heap) /\ x \in C => heap[x] <= f.heap[x] + 1
           /\ x \notin BagToSet(f.heap) => heap[x] = 1
           /\ x \notin C => heap[x] <= f.heap[x]
  <2>1. IsABag(f.heap)
    BY <1>3
  <2>2. Multiplies(heap, f.heap, C)
    BY <2>1, <1>b, <1>d, PoppedIs
  <2> QED BY <2>1, <2>2, <1>b, <1>d, PoppedIs DEF Multiplies
<1>9. \A w \in Vertex : Succ(w)' = Succ(w)
  BY <1>1 DEF Succ
<1>10. \A x : /\ Cardinality({w \in U : IdOf[x] \in Succ(w)}) \in Nat
              /\ Cardinality({w \in f.U : IdOf[x] \in Succ(w)}) \in Nat
              /\ Cardinality({w \in f.U : IdOf[x] \in Succ(w)}) <= Cardinality({w \in U : IdOf[x] \in Succ(w)})
              /\ x \in C => Cardinality({w \in f.U : IdOf[x] \in Succ(w)}) + 1
                              <= Cardinality({w \in U : IdOf[x] \in Succ(w)})
  <2> SUFFICES ASSUME NEW x
               PROVE  /\ Cardinality({w \in U : IdOf[x] \in Succ(w)}) \in Nat
                      /\ Cardinality({w \in f.U : IdOf[x] \in Succ(w)}) \in Nat
                      /\ Cardinality({w \in f.U : IdOf[x] \in Succ(w)}) <= Cardinality({w \in U : IdOf[x] \in Succ(w)})
                      /\ x \in C => Cardinality({w \in f.U : IdOf[x] \in Succ(w)}) + 1
                                      <= Cardinality({w \in U : IdOf[x] \in Succ(w)})
    OBVIOUS
  <2>1. PICK A : A = {w \in f.U : IdOf[x] \in Succ(w)}
    OBVIOUS
  <2>2. PICK B : B = {w \in U : IdOf[x] \in Succ(w)}
    OBVIOUS
  <2>3. A \in SUBSET B /\ B \in SUBSET Vertex
    BY <2>1, <2>2, <1>1, <1>4
  <2>4. /\ IsFiniteSet(B) /\ IsFiniteSet(A) /\ Cardinality(A) \in Nat /\ Cardinality(B) \in Nat
        /\ Cardinality(A) <= Cardinality(B)
    BY <2>3, VertexFacts, FS_Subset, FS_CardinalityType
  <2>5. ASSUME x \in C PROVE Cardinality(A) + 1 <= Cardinality(B)
    <3>1. PICK v \in R : x = CandKey(u, v)
      BY <2>5, <1>d
    <3>2. IdOf[x] = v
      <4>1. v \in Vertex /\ Key(v)' = x
        BY <3>1, <1>6
      <4> QED BY <4>1, KeysNext
    <3>3. u \in B /\ u \notin A
      BY <3>1, <3>2, <2>1, <2>2, <1>1, <1>6
    <3>4. A \cup {u} \in SUBSET B /\ Cardinality(A \cup {u}) = Cardinality(A) + 1
      BY <3>3, <2>3, <2>4, FS_AddElement
    <3>5. Cardinality(A \cup {u}) <= Cardinality(B)
      BY <3>4, <2>4, FS_Subset
    <3> QED BY <3>4, <3>5
  <2> QED BY <2>1, <2>2, <2>4, <2>5
<1>11. ASSUME NEW x \in BagToSet(heap) PROVE heap[x] <= Sources(x, g)'
  <2>1. PICK a : a = Cardinality({w \in f.U : IdOf[x] \in Succ(w)})
    OBVIOUS
  <2>2. PICK b : b = Cardinality({w \in U : IdOf[x] \in Succ(w)})
    OBVIOUS
  <2>3. PICK c \in {0, 1} : c = IF IdOf[x] \in f.S THEN 1 ELSE 0
    OBVIOUS
  <2>4. a \in Nat /\ b \in Nat /\ a <= b /\ (x \in C => a + 1 <= b)
    BY <2>1, <2>2, <1>10
  <2>5. x \in BagToSet(f.heap) => f.heap[x] <= a + c /\ f.heap[x] \in Nat
    <3>1. x \in BagToSet(f.heap) => f.heap[x] <= Sources(x, f) /\ f.heap[x] \in Nat
      BY <1>1, <1>3, <1>4 DEF HeapOk, IsABag, BagToSet
    <3>2. Sources(x, f) = a + c
      BY <2>1, <2>3 DEF Sources
    <3> QED BY <3>1, <3>2
  <2>6. Sources(x, g)' = b + c
    <3>1. {w \in U : IdOf[x] \in Succ(w)'} = {w \in U : IdOf[x] \in Succ(w)}
      BY <1>4, <1>9
    <3>2. Sources(x, g)' = Cardinality({w \in U : IdOf[x] \in Succ(w)'}) + c
      BY <1>7, <2>3 DEF Sources
    <3> QED BY <3>1, <3>2, <2>2
  <2>7. /\ x \in BagToSet(f.heap) /\ x \in C => heap[x] <= f.heap[x] + 1
        /\ x \notin BagToSet(f.heap) => heap[x] = 1
        /\ x \notin C => heap[x] <= f.heap[x]
        /\ heap[x] \in Nat /\ (x \in BagToSet(f.heap) \/ x \in C)
    BY <1>8 DEF IsABag, BagToSet
  <2> QED BY <2>4, <2>5, <2>6, <2>7
<1>12. ASSUME NEW w \in U, NEW v \in Succ(w), Passes(w, v)', CandKey(w, v)' < f.b
       PROVE  Code(v)' = Cand(w, v)' /\ pred'[v] = w /\ (v \in U \/ Key(v)' \in BagToSet(heap))
  <2>1. w \in Vertex /\ v \in Vertex /\ Vertex \subseteq Nat
    BY <1>4, VertexFacts DEF Succ
  <2>2. w \notin R
    <3>1. CASE w = u
      BY <3>1, <1>6
    <3>2. CASE w \in f.U
      <4> SUFFICES ASSUME w \in R PROVE FALSE
        OBVIOUS
      <4>1. r = Key(u) /\ Key(w) <= r
        BY <3>2, <1>1, <1>3
      <4>2. w \in Succ(u) /\ Passes(u, w)
        BY <1>6
      <4>3. /\ Key(u) < CandKey(u, w) /\ CandKey(u, w) \in Nat /\ CandKey(u, w) = KeyOf(Cand(u, w), w)
            /\ Cand(u, w) \in Nat /\ (Cand(u, w) < Code(w) \/ Cand(u, w) = Code(w))
        BY <4>2, <1>2, <1>4, CandFacts
      <4>4. Code(w) \in Nat /\ Key(w) = KeyOf(Code(w), w) /\ Key(w) \in Nat
        BY <2>1, <1>2, KeyFacts DEF Code, Key
      <4>5. Cand(u, w) <= Code(w)
        BY <4>3, <4>4
      <4>6. CandKey(u, w) <= Key(w)
        BY <4>3, <4>4, <4>5, <2>1, KeyOrder
      <4> QED BY <4>1, <4>3, <4>4, <4>6, <1>4
    <3> QED BY <3>1, <3>2, <1>1
  <2>3. /\ Cand(w, v)' = Cand(w, v) /\ CandKey(w, v)' = CandKey(w, v)
    <3>1. dhat'[w] = dhat[w] /\ hops'[w] = hops[w]
      BY <2>1, <2>2, <1>6
    <3> QED BY <3>1, <1>1 DEF Cand, CandKey
  <2>4. /\ Cand(w, v) \in Nat /\ Code(v) \in Nat
        /\ Passes(w, v) <=> Cand(w, v) < Code(v) \/ (Cand(w, v) = Code(v) /\ w <= pred[v])
        /\ Cand(w, v)' < Code(v)' \/ (Cand(w, v)' = Code(v)' /\ w <= pred'[v])
    <3>1. Cand(w, v)' < Code(v)' \/ (Cand(w, v)' = Code(v)' /\ w <= pred'[v])
      BY <1>12 DEF Passes, Code
    <3> QED BY <3>1, <2>1, <1>2, CandFacts, KeyFacts
  <2>5. CASE v \notin R
    <3>1. Code(v)' = Code(v) /\ pred'[v] = pred[v] /\ Key(v)' = Key(v)
      BY <2>1, <2>5, <1>6
    <3>2. Passes(w, v) /\ CandKey(w, v) < f.b
      BY <3>1, <2>3, <2>4, <1>12
    <3>3. w \in f.U
      <4>1. w # u \/ u \in f.U
        BY <2>5, <3>2, <1>1
      <4> QED BY <4>1, <1>1
    <3>4. Code(v) = Cand(w, v) /\ pred[v] = w /\ (v \in f.U \/ Key(v) \in BagToSet(f.heap))
      BY <3>2, <3>3, <1>1, <1>4 DEF HeapOk
    <3>5. v \in U \/ Key(v) \in BagToSet(heap)
      <4>1. CASE v \in f.U
        BY <4>1, <1>1
      <4>2. CASE Key(v) \in BagToSet(f.heap) /\ Key(v) # r
        BY <4>2, <1>8
      <4>3. CASE Key(v) = r
        <5>1. v = u
          BY <4>3, <2>1, <1>1, <1>2, KeyFacts
        <5> QED BY <5>1, <4>3, <1>1
      <4> QED BY <4>1, <4>2, <4>3, <3>4
    <3> QED BY <3>1, <3>4, <3>5, <2>3
  <2>6. CASE v \in R
    <3>1. /\ Code(v)' = Cand(u, v) /\ pred'[v] = u /\ Key(v)' = CandKey(u, v) /\ v \in Succ(u)
          /\ Passes(u, v)
      BY <2>6, <1>6
    <3>2. Key(v)' \in BagToSet(heap)
      BY <3>1, <2>6, <1>8, <1>d
    <3>3. CASE w = u
      BY <3>1, <3>2, <3>3, <2>3
    <3>4. CASE w # u
      <4>1. w \in f.U
        BY <3>4, <1>1
      <4>2. /\ Cand(u, v) \in Nat
            /\ Cand(u, v) < Code(v) \/ (Cand(u, v) = Code(v) /\ u <= pred[v])
        BY <3>1, <1>2, <1>4, CandFacts
      <4>3. Cand(w, v) < Cand(u, v) \/ (Cand(w, v) = Cand(u, v) /\ w <= u)
        BY <3>1, <2>3, <2>4
      <4>4. pred[v] \in Vertex \cup {-1}
        BY <2>1, <1>2 DEF LabelsOk
      <4>5. Passes(w, v)
        BY <4>2, <4>3, <4>4, <2>1, <2>4, <1>4
      <4>6. Code(v) = Cand(w, v) /\ pred[v] = w
        BY <4>1, <4>5, <2>3, <1>1, <1>4, <1>12 DEF HeapOk
      <4> QED BY <4>2, <4>3, <4>4, <4>6, <3>4, <2>1, <2>4, <1>4
    <3> QED BY <3>3, <3>4
  <2> QED BY <2>5, <2>6
<1>13. HeapOk(g)'
  <2>1. ASSUME NEW w \in U, NEW v \in Succ(w)', Passes(w, v)', CandKey(w, v)' < f.b
        PROVE  Code(v)' = Cand(w, v)' /\ pred'[v] = w /\ (v \in U \/ Key(v)' \in BagToSet(heap))
    <3>1. v \in Succ(w)
      BY <1>4, <1>9
    <3> QED BY <3>1, <2>1, <1>12
  <2> QED BY <2>1, <1>7, <1>11 DEF HeapOk
<1>14. EngineFrameOk(n, g)'
  <2>1. f.pc = "oracle" => OracleUsed'
    BY <1>1, <1>4 DEF EngineFrameOk, OracleUsed
  <2>2. ASSUME OracleUsed' PROVE OneDescent(n, g)'
    <3>1. OneDescent(n, f)
      BY <2>2, <1>1, <1>4 DEF EngineFrameOk, OracleUsed
    <3> QED BY <3>1, <1>1, <1>7 DEF OneDescent
  <2> QED BY <2>1, <2>2, <1>7, <1>13 DEF EngineFrameOk
<1> QED BY <1>a, <1>1, <1>14, EngineTop

(* The innermost call, as the invariant has it.                            *)
LEMMA EngineTopIs ==
  ASSUME Ground, IsSeq(stack), Inv, EngineOk, Len(stack) > 0
  PROVE  /\ Len(stack) \in Nat \ {0} /\ IsFrame(top) /\ CallOk(Len(stack), top)
         /\ LoopOk(Len(stack), top) /\ PulledOk(top) /\ LabelsOk
         /\ EngineFrameOk(Len(stack), top)
<1>1. Len(stack) \in 1..Len(stack) /\ Len(stack) \in Nat \ {0}
  BY CallsAre
<1> QED BY <1>1, CallsAre DEF EngineOk, FrameOk, top, Inv

(* Relaxing an edge puts nothing into D or K in a run with the oracle.     *)
LEMMA EngineRelaxes ==
  ASSUME Ground, IsSeq(stack), Inv, EngineOk, NEW u, Expand(u) \/ RelaxOut(u)
  PROVE  EngineOk'
<1>a. PICK n : n = Len(stack)
  OBVIOUS
<1>b. PICK f : f = top
  OBVIOUS
<1>1. n > 0 /\ f.pc \in {"expand", "relax"} /\ prm' = prm
  BY <1>a, <1>b DEF Expand, RelaxOut, At, run
<1>2. IsFrame(f) /\ EngineFrameOk(n, f)
  BY <1>a, <1>b, <1>1, EngineTopIs
<1>3. CASE Expand(u)
  <2>1. PICK R : R = {v \in Succ(u) : Passes(u, v)}
    OBVIOUS
  <2>2. PICK g : g = [f EXCEPT !.todo = @ \ {u}, !.next = @ \cup {v \in R : CandKey(u, v) < f.b}]
    OBVIOUS
  <2>3. SetTop(g) /\ f.pc = "expand"
    BY <2>1, <2>2, <1>b, <1>3 DEF Expand, At
  <2>4. g.pc = "expand" /\ g.l = f.l /\ g.S = f.S /\ g.b = f.b /\ g.U = f.U
    BY <2>2, <2>3, <1>2 DEF IsFrame, Fields
  <2>5. EngineFrameOk(n, g)'
    BY <2>3, <2>4, <1>1, <1>2 DEF EngineFrameOk, HeapOk, OracleUsed, OneDescent
  <2> QED BY <2>3, <2>5, <1>a, <1>1, EngineTop
<1>4. CASE RelaxOut(u)
  <2>1. PICK keys : keys = {CandKey(u, v) : v \in {w \in Succ(u) : Passes(u, w)}}
    OBVIOUS
  <2>2. PICK D : D = KeepMin(f.D \cup ForD(f, keys))
    OBVIOUS
  <2>3. PICK K : K = f.Kept \cup ForK(f, keys)
    OBVIOUS
  <2>4. PICK g : g = [f EXCEPT !.todo = @ \ {u}, !.D = D, !.Kept = K]
    OBVIOUS
  <2>5. SetTop(g) /\ f.pc = "relax"
    BY <2>1, <2>2, <2>3, <2>4, <1>b, <1>4 DEF RelaxOut, At
  <2>6. /\ g.pc = "relax" /\ g.l = f.l /\ g.S = f.S /\ g.b = f.b /\ g.U = f.U
        /\ g.D = D /\ g.Kept = K /\ g.bi = f.bi /\ g.last = f.last
    BY <2>4, <2>5, <1>2 DEF IsFrame, Fields
  <2>7. ASSUME OracleUsed PROVE D = {} /\ K = {}
    <3>1. f.D = {} /\ f.Kept = {} /\ f.bi = KeyInf /\ f.last = KeyInf /\ f.b = KeyInf
      BY <2>5, <2>7, <1>2 DEF EngineFrameOk, OneDescent
    <3>2. keys \subseteq Int
      <4> SUFFICES ASSUME NEW v \in Succ(u) PROVE CandKey(u, v) \in Int
        BY <2>1
      <4>1. u \in Vertex
        <5>1. u \in f.todo /\ f.todo \subseteq ReachedOnes
          BY <1>a, <1>b, <1>1, <1>4, EngineTopIs DEF RelaxOut, CallOk
        <5> QED BY <5>1 DEF ReachedOnes
      <4>2. LabelsOk
        BY DEF Inv
      <4>3. CandKey(u, v) \in Nat
        BY <4>1, <4>2, CandFacts
      <4> QED BY <4>3
    <3>3. ForD(f, keys) = {} /\ ForK(f, keys) = {}
      <4>1. ForD(f, keys) = {r \in keys : KeyInf <= r /\ r < KeyInf}
        BY <3>1 DEF ForD
      <4>2. ForK(f, keys) = {r \in keys : KeyInf <= r /\ r < KeyInf}
        BY <3>1 DEF ForK
      <4>3. KeyInf \in Int
        BY UnreachedFacts
      <4>4. ASSUME NEW r \in keys, KeyInf <= r, r < KeyInf PROVE FALSE
        <5>1. r \in Int
          BY <3>2
        <5> QED BY <5>1, <4>3, <4>4
      <4> QED BY <4>1, <4>2, <4>4
    <3> QED BY <3>1, <3>3, <2>2, <2>3 DEF KeepMin
  <2>8. EngineFrameOk(n, g)'
    BY <2>5, <2>6, <2>7, <1>1, <1>2 DEF EngineFrameOk, HeapOk, OracleUsed, OneDescent
  <2> QED BY <2>5, <2>8, <1>a, <1>1, EngineTop
<1> QED BY <1>3, <1>4

(* FindPivots from the source alone finds one pivot, the source, or none.  *)
LEMMA EngineRounds ==
  ASSUME Ground, IsSeq(stack), Inv, EngineOk, EngineEndRound
  PROVE  EngineOk'
<1>a. PICK n : n = Len(stack)
  OBVIOUS
<1>b. PICK f : f = top
  OBVIOUS
<1>1. /\ n > 0 /\ f.pc = "expand" /\ prm' = prm
      /\ dhat' = dhat /\ hops' = hops
  BY <1>a, <1>b DEF EngineEndRound, At, run, labels
<1>2. IsFrame(f) /\ EngineFrameOk(n, f)
  BY <1>a, <1>b, <1>1, EngineTopIs
<1>3. \/ \E P, W : P \subseteq f.S /\ StartLoop(P, W)
      \/ \E W, next : SetTop([f EXCEPT !.round = @ + 1, !.todo = f.next, !.next = {},
                                       !.W = W, !.width = next])
  BY <1>b DEF EngineEndRound, PivotsOf
<1>4. ASSUME NEW P, NEW W, P \subseteq f.S, StartLoop(P, W) PROVE EngineOk'
  <2>1. PICK keys : keys = {Key(x) : x \in P}
    OBVIOUS
  <2>2. PICK first \in keys \cup {f.b} : IsMinOr(first, keys, f.b)
                /\ SetTop([f EXCEPT !.pc = "loop", !.todo = {}, !.next = {}, !.W = W, !.D = keys, !.last = first])
    BY <2>1, <1>b, <1>4 DEF StartLoop
  <2>3. PICK g : g = [f EXCEPT !.pc = "loop", !.todo = {}, !.next = {}, !.W = W, !.D = keys, !.last = first]
    OBVIOUS
  <2>4. /\ g.pc = "loop" /\ g.l = f.l /\ g.S = f.S /\ g.b = f.b /\ g.U = f.U
        /\ g.D = keys /\ g.last = first
    BY <2>3, <1>2 DEF IsFrame, Fields
  <2>5. ASSUME OracleUsed PROVE OneDescent(n, g)'
    <3>1. /\ f.l <= prm.l /\ f.S = {Source} /\ f.b = KeyInf /\ f.U = {}
      BY <2>5, <1>1, <1>2 DEF EngineFrameOk, OneDescent
    <3>2. keys = {} => first = KeyInf
      BY <2>2, <3>1 DEF IsMinOr
    <3>3. keys # {} => keys = {Key(Source)}
      BY <2>1, <3>1, <1>4
    <3>4. Key(Source)' = Key(Source)
      BY <1>1 DEF Key
    <3> QED BY <3>1, <3>2, <3>3, <3>4, <2>4, <1>1 DEF OneDescent
  <2>6. EngineFrameOk(n, g)'
    BY <2>4, <2>5, <1>1 DEF EngineFrameOk, HeapOk, OracleUsed
  <2> QED BY <2>2, <2>3, <2>6, <1>a, <1>1, EngineTop
<1>5. ASSUME NEW W, NEW next,
             SetTop([f EXCEPT !.round = @ + 1, !.todo = f.next, !.next = {}, !.W = W, !.width = next])
      PROVE  EngineOk'
  <2>1. PICK g : g = [f EXCEPT !.round = @ + 1, !.todo = f.next, !.next = {}, !.W = W, !.width = next]
    OBVIOUS
  <2>2. g.pc = "expand" /\ g.l = f.l /\ g.S = f.S /\ g.b = f.b /\ g.U = f.U
    BY <2>1, <1>1, <1>2 DEF IsFrame, Fields
  <2>3. EngineFrameOk(n, g)'
    BY <2>2, <1>1, <1>2 DEF EngineFrameOk, HeapOk, OracleUsed, OneDescent
  <2> QED BY <2>1, <2>3, <1>a, <1>1, <1>5, EngineTop
<1> QED BY <1>3, <1>4, <1>5

(* A pull of the source's entry takes it and leaves nothing.                *)
LEMMA EnginePulls ==
  ASSUME Ground, IsSeq(stack), Inv, EngineOk, EnginePull, prm \in Params, LabelsOk'
  PROVE  EngineOk'
<1>a. PICK n : n = Len(stack)
  OBVIOUS
<1>b. PICK f : f = top
  OBVIOUS
<1>m. PICK m : m = BlockSize(f.l)
  OBVIOUS
<1>c. PICK batch \in SUBSET f.D, x \in f.D \cup {f.b} :
        /\ IsPull(batch, x, f.D, m, f.b)
        /\ LET fresh == Fresh(batch)
               h     == [f EXCEPT !.D = @ \ batch, !.bi = x, !.fresh = fresh, !.Kept = {}]
           IN  IF fresh = {}
               THEN SetTop([h EXCEPT !.pc = "relax", !.todo = {}, !.last = x])
               ELSE Push([h EXCEPT !.pc = "wait"], EngineChild(x, fresh))
  BY <1>b, <1>m DEF EnginePull, PullFor
<1>d. PICK fresh : fresh = Fresh(batch)
  OBVIOUS
<1>e. PICK h : h = [f EXCEPT !.D = @ \ batch, !.bi = x, !.fresh = fresh, !.Kept = {}]
  OBVIOUS
<1>1. /\ n > 0 /\ f.pc = "loop" /\ prm' = prm /\ wt' = wt /\ best' = best
      /\ dhat' = dhat /\ hops' = hops /\ pred' = pred /\ Continues(f)
  BY <1>a, <1>b DEF EnginePull, PullFor, At, run, labels
<1>2. /\ n \in Nat \ {0} /\ IsFrame(f) /\ EngineFrameOk(n, f) /\ LabelsOk
      /\ f.l \in Nat /\ f.l # 0 /\ f.D \subseteq Nat
  BY <1>a, <1>b, <1>1, EngineTopIs DEF IsFrame, CallOk
<1>3. fresh \subseteq Vertex
  <2>1. EntriesCovered(f)
    BY <1>a, <1>b, <1>1, TopCall
  <2> QED BY <2>1, <1>1, <1>c, <1>d DEF EntriesCovered, Entries, Fresh, ReachedOnes
<1>4. /\ h.l = f.l /\ h.b = f.b /\ h.S = f.S /\ h.U = f.U
      /\ h.D = f.D \ batch /\ h.bi = x /\ h.Kept = {}
      /\ Fields \subseteq DOMAIN h
  BY <1>2, <1>e DEF IsFrame, Fields
<1>5. ASSUME OracleUsed
      PROVE  /\ f.l <= prm.l /\ f.S = {Source} /\ f.b = KeyInf
             /\ f.D \ batch = {} /\ x = KeyInf
             /\ fresh # {} => fresh = {Source}
  <2>1. /\ f.l <= prm.l /\ f.S = {Source} /\ f.b = KeyInf /\ f.D = {Key(Source)}
    BY <1>1, <1>2, <1>5 DEF EngineFrameOk, OneDescent, Continues
  <2>2. m \in Nat \ {0}
    <3>1. /\ prm.l \in Nat /\ f.l - 1 \in 0..prm.l
      BY <1>2, <2>1, BmsspAssumption
    <3>2. 2^((f.l - 1) * prm.t) \in Nat \ {0}
      BY <3>1, PowersAssumption
    <3>3. N \in Nat \ {0}
      BY VertexFacts
    <3> QED BY <3>2, <3>3, <1>m DEF BlockSize
  <2>3. Cardinality(f.D) = 1
    BY <2>1, FS_Singleton
  <2>4. IsPull(batch, x, f.D, m, f.b)
    BY <1>c
  <2>5. batch = f.D /\ x = f.b
    BY <2>2, <2>3, <2>4 DEF IsPull, IsMinOr
  <2>6. fresh = {Source} \ settled
    <3>1. IdOf[Key(Source)] = Source
      BY <1>2, KeyFacts, VertexFacts
    <3> QED BY <3>1, <2>1, <2>5, <1>d DEF Fresh
  <2> QED BY <2>1, <2>5, <2>6
<1>6. CASE fresh = {}
  <2>1. PICK g : g = [h EXCEPT !.pc = "relax", !.todo = {}, !.last = x]
    OBVIOUS
  <2>2. SetTop(g)
    BY <1>6, <1>c, <1>d, <1>e, <2>1
  <2>3. /\ g.pc = "relax" /\ g.l = f.l /\ g.S = f.S /\ g.b = f.b /\ g.U = f.U
        /\ g.D = f.D \ batch /\ g.Kept = {} /\ g.bi = x /\ g.last = x
    BY <2>1, <1>4 DEF Fields
  <2>4. EngineFrameOk(n, g)'
    BY <2>3, <1>1, <1>5 DEF EngineFrameOk, HeapOk, OracleUsed, OneDescent
  <2> QED BY <2>2, <2>4, <1>a, <1>1, EngineTop
<1>7. CASE fresh # {}
  <2>1. PICK g : g = [h EXCEPT !.pc = "wait"]
    OBVIOUS
  <2>2. PICK c : c = EngineCall(f.l - 1, x, fresh)
    OBVIOUS
  <2>3. Push(g, c)
    BY <1>7, <1>b, <1>c, <1>d, <1>e, <2>1, <2>2 DEF EngineChild
  <2>4. /\ g.pc = "wait" /\ g.l = f.l /\ g.S = f.S /\ g.b = f.b /\ g.U = f.U
        /\ g.D = f.D \ batch /\ g.Kept = {} /\ g.bi = x
    BY <2>1, <1>4 DEF Fields
  <2>5. EngineFrameOk(n, g)'
    <3>1. Len(stack)' = n + 1
      BY <2>3, <1>a, <1>1, PushIs
    <3>2. n # Len(stack)'
      BY <3>1, <1>2
    <3> QED BY <3>2, <2>4, <1>1, <1>5 DEF EngineFrameOk, HeapOk, OracleUsed, OneDescent
  <2>6. EngineFrameOk(n + 1, c)
    <3>1. f.l - 1 \in Nat
      BY <1>2
    <3>2. OracleUsed => f.l - 1 <= prm.l /\ fresh = {Source} /\ x = KeyInf
      <4>1. prm.l \in Nat
        BY BmsspAssumption
      <4> QED BY <4>1, <1>2, <1>5, <1>7
    <3> QED BY <3>1, <3>2, <2>2, <1>2, <1>3, EngineCallOk
  <2>7. EngineFrameOk(n + 1, c)'
    <3>1. c.pc # "wait"
      BY <2>2, EngineCallIs
    <3>2. /\ \A u, v : Passes(u, v)' = Passes(u, v) /\ Cand(u, v)' = Cand(u, v)
                     /\ CandKey(u, v)' = CandKey(u, v)
          /\ \A u : Succ(u)' = Succ(u) /\ Code(u)' = Code(u) /\ Key(u)' = Key(u)
      BY <1>1 DEF Passes, Cand, CandKey, Succ, Code, Key
    <3>3. \A r : Sources(r, c)' = Sources(r, c)
      BY <3>2 DEF Sources
    <3>4. HeapOk(c)'
      BY <3>2, <3>3, <2>6, <1>1 DEF EngineFrameOk, HeapOk
    <3> QED BY <3>1, <3>2, <3>4, <2>6, <1>1 DEF EngineFrameOk, OracleUsed, OneDescent
  <2> QED BY <2>3, <2>4, <2>5, <2>7, <1>a, <1>1, EnginePush
<1> QED BY <1>6, <1>7

(* Going on after a call, in a run with the oracle there is nothing more to *)
(* relax below KEY_INF, and nothing to prepend.                            *)
LEMMA EngineResumes ==
  ASSUME Ground, IsSeq(stack), Inv, EngineOk, Resume \/ PrependBatch
  PROVE  EngineOk'
<1>a. PICK n : n = Len(stack)
  OBVIOUS
<1>b. PICK f : f = top
  OBVIOUS
<1>1. n > 0 /\ f.pc \in {"wait", "relax"} /\ prm' = prm
  BY <1>a, <1>b DEF Resume, PrependBatch, At, run
<1>2. /\ IsFrame(f) /\ EngineFrameOk(n, f) /\ f.Kept \subseteq Nat /\ LabelsOk
      /\ f.fresh \subseteq Vertex
  BY <1>a, <1>b, <1>1, EngineTopIs DEF IsFrame, CallOk, ReachedOnes
<1>3. CASE Resume
  <2>1. PICK g : g = [f EXCEPT !.pc = "relax", !.todo = result.set, !.U = @ \cup result.set,
                               !.last = result.bound]
    OBVIOUS
  <2>2. SetTop(g) /\ f.pc = "wait"
    BY <2>1, <1>b, <1>3 DEF Resume, At
  <2>3. /\ g.pc = "relax" /\ g.l = f.l /\ g.S = f.S /\ g.b = f.b
        /\ g.D = f.D /\ g.Kept = f.Kept /\ g.bi = f.bi /\ g.last = result.bound
    BY <2>1, <1>2 DEF IsFrame, Fields
  <2>4. EngineFrameOk(n, g)'
    BY <2>2, <2>3, <1>a, <1>1, <1>2 DEF EngineFrameOk, HeapOk, OracleUsed, OneDescent
  <2> QED BY <2>2, <2>4, <1>a, <1>1, EngineTop
<1>4. CASE PrependBatch
  <2>1. PICK items : items = Unfinished(f)
    OBVIOUS
  <2>2. PICK D : D = IF items = {} THEN f.D ELSE Prepended(f.D, items)
    OBVIOUS
  <2>3. PICK g : g = [f EXCEPT !.pc = "loop", !.D = D]
    OBVIOUS
  <2>4. SetTop(g) /\ f.pc = "relax"
    <3>1. SetTop([f EXCEPT !.pc = "loop", !.D = IF items = {} THEN @ ELSE Prepended(@, items)])
      BY <2>1, <1>b, <1>4 DEF PrependBatch
    <3> QED BY <3>1, <2>2, <2>3, <1>b, <1>4 DEF PrependBatch, At
  <2>5. /\ g.pc = "loop" /\ g.l = f.l /\ g.S = f.S /\ g.b = f.b /\ g.U = f.U
        /\ g.D = D /\ g.last = f.last
    BY <2>3, <1>2 DEF IsFrame, Fields
  <2>6. ASSUME OracleUsed PROVE D = {} /\ f.last = KeyInf
    <3>1. f.D = {} /\ f.Kept = {} /\ f.bi = KeyInf /\ f.last = KeyInf
      BY <2>4, <2>6, <1>2 DEF EngineFrameOk, OneDescent
    <3>2. ASSUME NEW r \in items PROVE FALSE
      <4>1. r \in ForK(f, {Key(y) : y \in f.fresh})
        BY <3>1, <2>1, <3>2 DEF Unfinished
      <4>2. PICK y \in f.fresh : r = Key(y)
        BY <4>1 DEF ForK
      <4>3. Key(y) \in Nat
        BY <1>2, KeyFacts
      <4>4. KeyInf <= r /\ r < KeyInf
        BY <4>1, <3>1 DEF ForK
      <4> QED BY <4>2, <4>3, <4>4, UnreachedFacts
    <3> QED BY <3>1, <3>2, <2>2
  <2>7. EngineFrameOk(n, g)'
    BY <2>4, <2>5, <2>6, <1>1, <1>2 DEF EngineFrameOk, HeapOk, OracleUsed, OneDescent
  <2> QED BY <2>4, <2>7, <1>a, <1>1, EngineTop
<1> QED BY <1>3, <1>4

(* In a run with the oracle every return is of the whole graph.            *)
LEMMA EngineReturns ==
  ASSUME Ground, IsSeq(stack), Inv, EngineOk, prm \in Params,
         Return \/ BaseReturn \/ OracleReturn
  PROVE  EngineOk'
<1>a. PICK n : n = Len(stack)
  OBVIOUS
<1>b. PICK f : f = top
  OBVIOUS
<1>1. n > 0 /\ f.pc \in {"loop", "base", "oracle"} /\ prm' = prm /\ Pop
  BY <1>a, <1>b DEF Return, BaseReturn, OracleReturn, At, run
<1>2. IsFrame(f) /\ EngineFrameOk(n, f) /\ f.l \in Nat
  BY <1>a, <1>b, <1>1, EngineTopIs DEF IsFrame
<1>3. ASSUME OracleUsed PROVE result'.bound = KeyInf
  <2>1. f.b = KeyInf /\ f.pc # "base" /\ f.l <= prm.l /\ OneDescent(n, f)
    BY <1>2, <1>3 DEF EngineFrameOk, OneDescent
  <2>2. CASE OracleReturn
    BY <2>1, <2>2, <1>b DEF OracleReturn, Result
  <2>3. CASE Return
    <3>1. f.pc = "loop" /\ ~Continues(f)
      BY <2>3, <1>b DEF Return, At
    <3>2. f.D = {}
      <4> SUFFICES ASSUME f.D # {} PROVE FALSE
        OBVIOUS
      <4>1. f.U = {}
        BY <2>1, <3>1 DEF OneDescent
      <4>2. prm.l \in Nat /\ prm.k \in Nat \ {0} /\ f.l \in 0..prm.l
        BY <2>1, <1>2, BmsspAssumption
      <4>3. PICK e \in Nat \ {0} : e = 2^(f.l * prm.t)
        BY <4>2, PowersAssumption
      <4>4. prm.k * e > 0
        BY <4>2, <4>3
      <4>5. Cardinality(f.U) = 0
        BY <4>1, FS_EmptySet
      <4>6. Cardinality(f.U) < SizeCap(f.l)
        BY <4>3, <4>4, <4>5 DEF SizeCap
      <4> QED BY <4>6, <3>1 DEF Continues
    <3>3. f.last = KeyInf
      BY <2>1, <3>1, <3>2 DEF OneDescent
    <3>4. result'.bound = IF f.last < f.b THEN f.last ELSE f.b
      BY <2>3, <1>b DEF Return, Result
    <3> QED BY <3>3, <3>4, <2>1
  <2>4. CASE BaseReturn
    BY <2>1, <2>4, <1>b DEF BaseReturn, At
  <2> QED BY <2>2, <2>3, <2>4
<1> QED BY <1>a, <1>1, <1>3, EnginePop

EngineSound == Sound /\ EngineOk

(* The first call of the fork.                                              *)
LEMMA EngineInitSound ==
  ASSUME Exact, EngineInit
  PROVE  EngineSound
<1>1. Sound /\ Ground /\ LabelsOk /\ prm \in Params
  BY InitSound DEF Sound, Inv
<1>2. PICK c : c = EngineCall(prm.l, KeyInf, {Source})
  OBVIOUS
<1>3. stack = <<c>>
  BY <1>2 DEF EngineInit
<1>4. EngineFrameOk(1, c)
  <2>1. prm.l \in Nat /\ {Source} \in SUBSET Vertex
    BY <1>1, BmsspAssumption, VertexFacts
  <2>2. prm.l <= prm.l
    BY <2>1
  <2> QED BY <2>1, <2>2, <1>1, <1>2, EngineCallOk
<1>5. Len(stack) = 1 /\ stack[1] = c /\ 1..Len(stack) = {1}
  BY <1>3
<1> QED BY <1>1, <1>4, <1>5 DEF EngineSound, EngineOk

(* Every step of the fork keeps the invariant, and the labels only improve. *)
LEMMA EngineNextSound ==
  ASSUME EngineSound, EngineNext
  PROVE  EngineSound' /\ Improves
<1>1. Ground /\ prm \in Params /\ IsSeq(stack) /\ Inv /\ EngineOk
  BY DEF EngineSound, Sound
<1>2. Inv' /\ IsSeq(stack') /\ Ground' /\ Improves /\ EngineOk'
  <2>1. CASE \E u \in Vertex : Expand(u) \/ RelaxOut(u)
    BY <2>1, <1>1, ExpandStep, RelaxOutStep, EngineRelaxes
  <2>2. CASE EngineEndRound
    BY <2>2, <1>1, EngineEndRoundStep, EngineRounds
  <2>3. CASE EnginePull
    <3>1. Inv' /\ IsSeq(stack') /\ Ground' /\ Improves
      BY <2>3, <1>1, PullStep
    <3>2. EngineOk'
      BY <2>3, <3>1, <1>1, EnginePulls DEF Inv
    <3> QED BY <3>1, <3>2
  <2>4. CASE Resume \/ PrependBatch
    BY <2>4, <1>1, ResumeStep, PrependStep, EngineResumes
  <2>5. CASE Return \/ BaseReturn \/ OracleReturn
    BY <2>5, <1>1, ReturnStep, BaseReturnStep, OracleReturnStep, EngineReturns
  <2>6. CASE EngineBasePop \/ OraclePop
    <3>1. Inv' /\ IsSeq(stack') /\ Ground' /\ Improves
      BY <2>6, <1>1, HeapPopStep
    <3>2. PICK f, r, u, R, U : /\ Pops(f, r, u, R, U)
                               /\ u \in f.U \/ r # Key(u) => R = {} /\ U = f.U
      BY <2>6, <1>1, HeapPopStep
    <3>3. LabelsOk'
      BY <3>1 DEF Inv
    <3>4. EngineOk'
      BY <3>1, <3>2, <3>3, <1>1, PopsOk
    <3> QED BY <3>1, <3>4
  <2> QED BY <2>1, <2>2, <2>3, <2>4, <2>5, <2>6 DEF EngineNext
<1> QED BY <1>1, <1>2 DEF EngineSound, Sound, Improves

(* A step that changes nothing keeps it.                                   *)
LEMMA EngineSameSound ==
  ASSUME EngineSound, UNCHANGED vars
  PROVE  EngineSound'
<1>1. Sound' /\ EngineOk
  BY SameSound DEF EngineSound
<1>2. /\ dhat' = dhat /\ hops' = hops /\ pred' = pred
      /\ wt' = wt /\ prm' = prm /\ stack' = stack /\ result' = result
  BY DEF vars, run
<1>3. /\ \A u, v : /\ Passes(u, v)' <=> Passes(u, v)
                   /\ Cand(u, v)' = Cand(u, v) /\ CandKey(u, v)' = CandKey(u, v)
      /\ \A v : Succ(v)' = Succ(v) /\ Code(v)' = Code(v) /\ Key(v)' = Key(v)
  BY <1>2 DEF Passes, Cand, CandKey, Succ, Code, Key
<1>4. \A r, f : Sources(r, f)' = Sources(r, f)
  BY <1>3 DEF Sources
<1>5. \A f : HeapOk(f) => HeapOk(f)'
  BY <1>2, <1>3, <1>4 DEF HeapOk
<1>6. /\ OracleUsed' <=> OracleUsed
      /\ \A i, f : OneDescent(i, f) => OneDescent(i, f)'
  BY <1>2, <1>3 DEF OracleUsed, OneDescent
<1>7. EngineOk'
  BY <1>1, <1>2, <1>5, <1>6 DEF EngineOk, EngineFrameOk
<1> QED BY <1>1, <1>7 DEF EngineSound

(* What the invariant says of the heaps and the oracle.                    *)
LEMMA EngineAtCall ==
  ASSUME EngineSound
  PROVE  OracleTakesAll /\ RescanIdle /\ CopiesBounded
<1>1. Ground /\ IsSeq(stack) /\ Inv /\ EngineOk
  BY DEF EngineSound, Sound
<1>2. OracleTakesAll
  <2> SUFFICES ASSUME At("oracle") PROVE top.S = {Source} /\ top.b = KeyInf
    BY DEF OracleTakesAll
  <2>1. EngineFrameOk(Len(stack), top) /\ top.pc = "oracle"
    BY <1>1, EngineTopIs DEF At
  <2> QED BY <2>1 DEF EngineFrameOk, OneDescent
<1>3. ASSUME At("base") \/ At("oracle")
      PROVE  /\ HeapOk(top) /\ top.pc \in {"base", "oracle"} /\ IsABag(top.heap)
             /\ top.U \in SUBSET Vertex
  <2>1. /\ EngineFrameOk(Len(stack), top) /\ top.pc \in {"base", "oracle"}
        /\ CallOk(Len(stack), top)
    BY <1>1, <1>3, EngineTopIs DEF At
  <2>2. BaseOk(Len(stack), top)
    BY <1>1, <1>3, TopCall DEF At
  <2> QED BY <2>1, <2>2 DEF EngineFrameOk, BaseOk, CallOk, ReachedOnes
<1>4. RescanIdle
  BY <1>3 DEF RescanIdle, HeapOk, Gated, Code
<1>5. CopiesBounded
  <2> SUFFICES ASSUME At("base") \/ At("oracle"), NEW r \in BagToSet(top.heap), NEW v, v = IdOf[r]
               PROVE  top.heap[r]
                        <= Cardinality({u \in Vertex : v \in Succ(u)}) + (IF v \in top.S THEN 1 ELSE 0)
    BY DEF CopiesBounded
  <2>1. PICK A : A = {u \in top.U : v \in Succ(u)}
    OBVIOUS
  <2>2. PICK B : B = {u \in Vertex : v \in Succ(u)}
    OBVIOUS
  <2>3. PICK c \in {0, 1} : c = IF v \in top.S THEN 1 ELSE 0
    OBVIOUS
  <2>4. top.heap[r] <= Cardinality(A) + c /\ top.heap[r] \in Nat
    BY <1>3, <2>1, <2>3 DEF HeapOk, Sources, IsABag, BagToSet
  <2>5. A \in SUBSET B /\ B \in SUBSET Vertex
    BY <1>3, <2>1, <2>2
  <2>6. Cardinality(A) \in Nat /\ Cardinality(B) \in Nat /\ Cardinality(A) <= Cardinality(B)
    BY <2>5, VertexFacts, FS_Subset, FS_CardinalityType
  <2>7. top.heap[r] <= Cardinality(B) + c
    BY <2>4, <2>6
  <2> QED BY <2>2, <2>3, <2>7
<1> QED BY <1>2, <1>4, <1>5

-----------------------------------------------------------------------------
(* What the runs check of Bmssp.                                            *)

(* What the invariant says of a call that has just returned.                *)
LEMMA SoundReturned ==
  ASSUME Sound, Returned
  PROVE  /\ result.set \cap top.U = {}
         /\ \A v \in Vertex :
              Reached(v) /\ TrueKey(v) < result.bound =>
                \/ v \in settled
                \/ Key(v) = TrueKey(v) /\ \E i \in 1..Len(stack) : v \in stack[i].W
<1>1. Ground /\ IsSeq(stack) /\ Inv /\ LabelsOk /\ settled \subseteq Finals
  BY DEF Sound, Inv
<1>2. PICK n : n = Len(stack)
  OBVIOUS
<1>3. PICK f : f = stack[n]
  OBVIOUS
<1>4. /\ n \in Nat /\ n \in 1..n /\ top = f /\ f.pc = "wait"
      /\ IsFrame(f) /\ FrameOk(n, f) /\ NearCovered(n, Resumed(f))
  <2>1. n \in Nat /\ n \in 1..n /\ top = f /\ f.pc = "wait" /\ F(n) = Resumed(f)
    BY <1>1, <1>2, <1>3, CallsAre DEF Returned, At, F, top
  <2> QED BY <2>1, <1>1, <1>2, <1>3, CallsAre
<1>5. LoopOk(n, f) /\ PulledOk(f) /\ WaitOk(n, f) /\ CallOk(n, f)
  BY <1>4 DEF FrameOk
<1>6. /\ f.last <= result.bound /\ result.bound <= f.bi /\ f.bi <= f.b /\ result.bound \in Nat
      /\ f.last \in Nat /\ f.bi \in Nat /\ f.b \in Nat
      /\ f.Kept = {} /\ \A r \in f.D : f.bi <= r /\ r \in Nat
      /\ result.set \subseteq settled /\ f.U \subseteq settled
      /\ \A x \in result.set : f.last <= Key(x)
      /\ \A x \in f.U : Key(x) < f.last
  BY <1>2, <1>4, <1>5 DEF LoopOk, PulledOk, WaitOk, IsFrame
<1>7. result.set \cap f.U = {}
  <2> SUFFICES ASSUME NEW x \in result.set, x \in f.U PROVE FALSE
    OBVIOUS
  <2>1. x \in Vertex /\ Key(x) \in Nat
    BY <1>1, <1>6, KeyFacts DEF Finals
  <2> QED BY <2>1, <1>6
<1>8. ASSUME NEW v \in Vertex, Reached(v), TrueKey(v) < result.bound, v \notin settled
      PROVE  Key(v) = TrueKey(v) /\ \E i \in 1..Len(stack) : v \in stack[i].W
  <2>1. PICK g : g = Resumed(f)
    OBVIOUS
  <2>2. /\ g.pc = "relax" /\ g.b = f.b /\ g.D = f.D /\ g.Kept = {} /\ g.fresh = f.fresh
        /\ g.U = f.U \cup result.set /\ g.next = f.next /\ g.W = f.W /\ g.last = result.bound
    BY <2>1, <1>4, <1>6 DEF Resumed, IsFrame, Fields
  <2>3. v \in ReachedOnes /\ v \in Near(g) /\ TrueKey(v) \in Nat
    BY <1>1, <1>6, <1>8, <2>2, TrueFacts DEF Near, ReachedOnes
  <2>4. ~Covered(v, g)
    <3> SUFFICES ASSUME NEW y \in PathTo(v), Active(y, g) PROVE FALSE
      BY DEF Covered
    <3>1. y \in ReachedOnes /\ TrueKey(y) \in Nat /\ TrueKey(y) <= TrueKey(v)
      BY <1>1, <2>3, PathIs, PathKeys, TrueFacts DEF ReachedOnes
    <3>2. result.bound <= TrueKey(y)
      BY <1>6, <2>2, <3>1 DEF Active
    <3> QED BY <3>1, <3>2, <2>3, <1>6, <1>8
  <2>5. v \in Finals /\ Upheld(v, n)
    BY <1>4, <1>8, <2>1, <2>3, <2>4 DEF NearCovered
  <2>6. PICK j \in 1..n : v \in Held(F(j))
    BY <2>5 DEF Upheld
  <2>7. v \in stack[j].W
    <3>1. CASE j = n
      <4>1. F(j) = g /\ stack[j] = f
        BY <3>1, <1>2, <1>3, <1>4, <2>1 DEF F
      <4>2. f.next = {}
        BY <1>4, <1>5 DEF LoopOk
      <4> QED BY <4>1, <4>2, <2>2, <2>6, <1>6, <1>8 DEF Held
    <3>2. CASE j # n
      <4>1. F(j) = stack[j] /\ stack[j].pc = "wait" /\ FrameOk(j, stack[j])
        BY <3>2, <1>1, <1>2, CallsAre
      <4>2. stack[j].next = {} /\ stack[j].U \subseteq settled
        BY <4>1 DEF FrameOk, LoopOk
      <4> QED BY <4>1, <4>2, <2>6, <1>8 DEF Held
    <3> QED BY <3>1, <3>2
  <2> QED BY <2>5, <2>7, <1>1, <1>2, FinalFacts
<1> QED BY <1>4, <1>7, <1>8

(* What it says of the settled vertices and of the innermost call.          *)
LEMMA SoundAtCall ==
  ASSUME Sound
  PROVE  SettledFinal /\ BatchBelow /\ BaseSingle /\ QueueAhead
<1>1. Ground /\ IsSeq(stack) /\ Inv /\ LabelsOk /\ settled \subseteq Finals
  BY DEF Sound, Inv
<1>2. SettledFinal
  BY <1>1, FinalFacts DEF SettledFinal
<1>3. BatchBelow
  <2> SUFFICES ASSUME At("relax"), NEW x \in Unfinished(top), NEW y \in top.D \cup {top.b}
               PROVE  x < y
    BY DEF BatchBelow, AllBelow
  <2>1. IsFrame(top) /\ PulledOk(top) /\ top.pc = "relax" /\ EntriesCovered(top)
    BY <1>1, TopCall DEF At
  <2>2. /\ top.bi \in Nat /\ top.b \in Nat /\ top.bi <= top.b /\ top.D \subseteq Nat /\ top.Kept \subseteq Nat
        /\ \A r \in top.D : top.bi <= r
        /\ \A r \in top.Kept : r < top.bi
        /\ \A z \in top.fresh : Key(z) < top.bi
    BY <2>1 DEF PulledOk, IsFrame
  <2>3. x < top.bi /\ x \in Nat
    <3>1. CASE x \in top.Kept
      BY <3>1, <2>2
    <3>2. CASE x \in ForK(top, {Key(z) : z \in top.fresh})
      <4>1. PICK z \in top.fresh : x = Key(z)
        BY <3>2 DEF ForK
      <4>2. Key(z) \in Nat
        BY <1>1, TopCall DEF At
      <4> QED BY <4>1, <4>2, <2>2
    <3> QED BY <3>1, <3>2 DEF Unfinished
  <2> QED BY <2>2, <2>3
<1>4. BaseSingle
  BY <1>1, TopCall DEF BaseSingle, At, BaseOk
<1>5. QueueAhead
  <2> SUFFICES ASSUME At("loop") PROVE \A r \in top.D : top.last <= r /\ r < top.b
    BY DEF QueueAhead
  <2>1. LoopOk(Len(stack), top) /\ EntriesCovered(top) /\ top.pc = "loop"
    BY <1>1, TopCall DEF At
  <2> QED BY <2>1 DEF LoopOk, EntriesCovered, Entries
<1> QED BY <1>2, <1>3, <1>4, <1>5

(* What it says of the end.                                                 *)
LEMMA SoundDone ==
  ASSUME Sound, Done
  PROVE  /\ \A v \in Vertex : Reached(v) /\ TrueKey(v) < result.bound => v \in settled
         /\ FinalPreds /\ FinalDistances
<1>1. Ground /\ IsSeq(stack) /\ Inv /\ LabelsOk
  BY DEF Sound, Inv
<1>2. /\ ReachedOnes \subseteq Finals
      /\ \A v \in ReachedOnes : TrueKey(v) < result.bound => v \in settled
  BY <1>1 DEF Done, Inv, AllDone
<1>3. ASSUME NEW v \in Vertex
      PROVE  /\ Code(v) = best[v]
             /\ Reached(v) <=> Code(v) < Unreached
             /\ ~Reached(v) => v # Source
  <2>1. CASE Reached(v)
    <3>1. v \in Finals
      BY <2>1, <1>2 DEF ReachedOnes
    <3> QED BY <3>1, <2>1, <1>1, FinalFacts, TrueFacts
  <2>2. CASE ~Reached(v)
    <3>1. /\ best[v] \in Nat /\ best[v] <= Unreached /\ ~(best[v] < Unreached)
          /\ Code(v) \in Nat /\ best[v] <= Code(v) /\ Code(v) <= Unreached
      BY <2>2, <1>1, TrueFacts, KeyFacts DEF LabelsOk
    <3>2. v # Source
      BY <2>2, <1>1, TrueFacts DEF ReachedOnes
    <3> QED BY <3>1, <3>2, <2>2, UnreachedFacts
  <2> QED BY <2>1, <2>2
<1>4. FinalPreds
  <2> SUFFICES ASSUME NEW v \in Vertex \ {Source}
               PROVE  pred[v] = IF Reached(v) THEN ShortestPred(v) ELSE -1
    BY DEF FinalPreds
  <2>1. CASE Reached(v)
    <3>1. v \in Finals
      BY <2>1, <1>2 DEF ReachedOnes
    <3> QED BY <3>1, <2>1, <1>1, FinalFacts DEF Parent
  <2>2. CASE ~Reached(v)
    BY <2>2, <1>1, <1>3 DEF LabelsOk
  <2> QED BY <2>1, <2>2
<1>5. FinalDistances
  <2> SUFFICES ASSUME NEW v \in Vertex PROVE dhat[v] = best[v] \div (N + 1)
    BY DEF FinalDistances
  <2>1. PICK M : M = N + 1
    OBVIOUS
  <2>2. /\ M \in Nat \ {0} /\ dhat[v] \in Nat /\ hops[v] \in 0..(M - 1)
        /\ best[v] = dhat[v] * M + hops[v] /\ best[v] \in Nat
    <3>1. hops[v] \in Nat /\ hops[v] <= N /\ dhat[v] \in Nat
      BY <1>1, HopsSmall DEF LabelsOk
    <3>2. best[v] = dhat[v] * M + hops[v] /\ best[v] \in Nat
      BY <2>1, <1>1, <1>3, TrueFacts DEF Code, PathCode
    <3> QED BY <2>1, <3>1, <3>2, VertexFacts
  <2>3. PICK a \in Nat : a = best[v]
    BY <2>2
  <2>4. a = (a \div M) * M + (a % M) /\ a \div M \in Nat /\ a % M \in 0..(M - 1)
    BY <2>2, DivMod
  <2>5. PICK q \in Nat : q = a \div M
    BY <2>4
  <2>6. PICK r \in 0..(M - 1) : a = q * M + r
    BY <2>4, <2>5
  <2>7. dhat[v] * M + hops[v] = q * M + r
    BY <2>2, <2>3, <2>6
  <2>8. dhat[v] = q
    BY <2>2, <2>7, DigitsAre
  <2> QED BY <2>1, <2>3, <2>5, <2>8
<1> QED BY <1>2, <1>4, <1>5 DEF ReachedOnes

(* A vertex is settled with its true shortest label, though calls settle   *)
(* vertices out of order and from three places (bmssp.rs, sweep, base case *)
(* and returned sets).                                                     *)
THEOREM SettlesFinalLabels ==
  ASSUME Exact
  PROVE  Spec => []SettledFinal
BY Soundness, SoundAtCall, PTL

(* A call that returns B' has left no vertex below B' behind: each is      *)
(* settled, or has its true label and waits in the W of a caller, whose    *)
(* sweep will settle it.                                                   *)
THEOREM ReturnsComplete ==
  ASSUME Exact
  PROVE  Spec => []ReturnComplete
<1>1. Sound => ReturnComplete
  BY SoundReturned, SoundDone DEF ReturnComplete
<1> QED BY <1>1, Soundness, PTL

(* No vertex is returned by two calls of one caller: the assertion of the  *)
(* code on U_i.                                                            *)
THEOREM KeepsChildrenDisjoint ==
  ASSUME Exact
  PROVE  Spec => []ChildrenDisjoint
<1>1. Sound => ChildrenDisjoint
  BY SoundReturned DEF ChildrenDisjoint
<1> QED BY <1>1, Soundness, PTL

(* What is batch-prepended is below all that D holds, as BatchPrepend      *)
(* asserts.                                                                *)
THEOREM PrependsBelow ==
  ASSUME Exact
  PROVE  Spec => []BatchBelow
BY Soundness, SoundAtCall, PTL

(* A base case starts from one vertex, as BaseCase asserts.                *)
THEOREM BaseFromOne ==
  ASSUME Exact
  PROVE  Spec => []BaseSingle
BY Soundness, SoundAtCall, PTL

(* In the loop D holds labels from [B'_i, B) only: no pull ever goes back  *)
(* behind what the calls so far have completed.                            *)
THEOREM QueueStaysAhead ==
  ASSUME Exact
  PROVE  Spec => []QueueAhead
BY Soundness, SoundAtCall, PTL

(* Between FindPivots, the calls and the batches no vertex is lost.        *)
THEOREM LosesNothing ==
  ASSUME Exact
  PROVE  Spec => []NothingLost
BY Soundness, SoundNothingLost, PTL

(* When the first call returns, every vertex has its shortest length,      *)
(* whatever the random pivots of the selections made of the orders.        *)
THEOREM EndsWithDistances ==
  ASSUME Exact
  PROVE  Spec => []FinalDistances
<1>1. Sound => FinalDistances
  BY SoundDone DEF FinalDistances
<1> QED BY <1>1, Soundness, PTL

(* And every predecessor is the least tail of a last edge of a shortest    *)
(* path, the same one in every run.                                        *)
THEOREM EndsWithPreds ==
  ASSUME Exact
  PROVE  Spec => []FinalPreds
<1>1. Sound => FinalPreds
  BY SoundDone DEF FinalPreds
<1> QED BY <1>1, Soundness, PTL

(* No step makes a label worse, nor changes that of a settled vertex.      *)
THEOREM ImprovesLabels ==
  ASSUME Exact
  PROVE  Spec => LabelsImprove
<1> DEFINE A == \A v \in Vertex : /\ Key(v)' <= Key(v)
                                  /\ v \in settled => Key(v)' = Key(v)
<1>1. Sound /\ [Next]_vars => [A]_vars
  <2>1. ASSUME Sound, Next PROVE A
    <3>1. Improves /\ settled \subseteq Finals
      BY <2>1, NextSound DEF Sound, Inv
    <3> QED BY <3>1 DEF Improves
  <2> QED BY <2>1
<1>2. Spec => []Sound
  BY Soundness
<1>3. Spec => [][A]_vars
  BY <1>1, <1>2, PTL DEF Spec
<1> QED BY <1>3 DEF LabelsImprove

(* The fork keeps the invariant without the assertions, in every           *)
(* configuration.                                                           *)
THEOREM EngineSoundness ==
  ASSUME Exact
  PROVE  EngineSpec => []EngineSound
<1>1. EngineInit => EngineSound
  BY EngineInitSound
<1>2. EngineSound /\ [EngineNext]_vars => EngineSound'
  BY EngineNextSound, EngineSameSound
<1> QED BY <1>1, <1>2, PTL DEF EngineSpec

(* A call of the fork too leaves no vertex below its B' behind, whether it  *)
(* is the recursion's, a base case or the oracle (engine.rs).              *)
THEOREM EngineReturnsComplete ==
  ASSUME Exact
  PROVE  EngineSpec => []ReturnComplete
<1>1. EngineSound => ReturnComplete
  BY SoundReturned, SoundDone DEF ReturnComplete, EngineSound
<1> QED BY <1>1, EngineSoundness, PTL

(* Every configuration of the variants ends with the shortest lengths.     *)
THEOREM EngineEndsWithDistances ==
  ASSUME Exact
  PROVE  EngineSpec => []FinalDistances
<1>1. EngineSound => FinalDistances
  BY SoundDone DEF FinalDistances, EngineSound
<1> QED BY <1>1, EngineSoundness, PTL

(* And with the predecessors that bmssp.rs ends with: which of the two ran, *)
(* and with which configuration, cannot be told from the answer.           *)
THEOREM EngineEndsWithPreds ==
  ASSUME Exact
  PROVE  EngineSpec => []FinalPreds
<1>1. EngineSound => FinalPreds
  BY SoundDone DEF FinalPreds, EngineSound
<1> QED BY <1>1, EngineSoundness, PTL

(* The assertions of bmssp.rs that the fork dropped hold in it too: on U_i, *)
(* on the batches and on the base case's S.                                *)
THEOREM EngineNeedsNoAssertions ==
  ASSUME Exact
  PROVE  EngineSpec => [](ChildrenDisjoint /\ BatchBelow /\ BaseSingle /\ QueueAhead)
<1>1. EngineSound => ChildrenDisjoint /\ BatchBelow /\ BaseSingle /\ QueueAhead
  BY SoundReturned, SoundAtCall DEF ChildrenDisjoint, EngineSound
<1> QED BY <1>1, EngineSoundness, PTL

(* The oracle only ever runs from the source with no bound, so that one    *)
(* Dijkstra does everything.                                               *)
THEOREM OracleRunsOnce ==
  ASSUME Exact
  PROVE  EngineSpec => []OracleTakesAll
<1>1. EngineSound => OracleTakesAll
  BY EngineAtCall
<1> QED BY <1>1, EngineSoundness, PTL

(* Skipping a vertex that was popped before loses nothing: relaxing from it *)
(* again would change no label.                                            *)
THEOREM RescansChangeNothing ==
  ASSUME Exact
  PROVE  EngineSpec => []RescanIdle
<1>1. EngineSound => RescanIdle
  BY EngineAtCall
<1> QED BY <1>1, EngineSoundness, PTL

(* No entry is in a heap more often than its vertex has edges into it, and *)
(* once more if the call started from it.                                  *)
THEOREM CopiesStayFew ==
  ASSUME Exact
  PROVE  EngineSpec => []CopiesBounded
<1>1. EngineSound => CopiesBounded
  BY EngineAtCall
<1> QED BY <1>1, EngineSoundness, PTL

=============================================================================
