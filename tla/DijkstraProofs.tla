--------------------------- MODULE DijkstraProofs ---------------------------
(***************************************************************************)
(* Proofs about Dijkstra, for every set of inputs: that the checks made    *)
(* before the run justify every unchecked read of it, that what is         *)
(* returned certifies itself and is the distances, that the predecessors   *)
(* are a tree all along, and that a heap not used before has room for      *)
(* every entry.                                                            *)
(***************************************************************************)
EXTENDS Dijkstra, LeastNumber

(* What the checks establish.                                               *)
LEMMA Checked ==
  ASSUME NEW h \in Inputs, Verdict(h) = "Ok"
  PROVE  /\ WellStructured(h)
         /\ \A j \in DOMAIN h.indices : ~ BadWeight(h.weights[j]) /\ ~ BadNeighbor(h, j)
BY DEF Verdict

(* Offsets never leave the edges: the first that did would not be above    *)
(* the one before it.                                                      *)
LEMMA Offsets ==
  ASSUME NEW h \in Inputs, Verdict(h) = "Ok", NEW u \in 0..h.n
  PROVE  h.indptr[u] \in 0..Nnz(h)
<1>1. /\ h.n \in Nat /\ Nnz(h) \in Nat /\ DOMAIN h.indptr = 0..h.n
      /\ h.indptr \in [0..h.n -> Int]
      /\ h.indptr[0] = 0
      /\ \A v \in 1..h.n : h.indptr[v - 1] <= h.indptr[v] /\ h.indptr[v] <= Nnz(h)
  BY Checked, DijkstraAssumption DEF WellStructured
<1> DEFINE T == {v \in 0..h.n : h.indptr[v] \notin 0..Nnz(h)}
<1> SUFFICES ASSUME T # {} PROVE FALSE
  OBVIOUS
<1>2. T \subseteq Nat
  OBVIOUS
<1>3. PICK m \in T : \A v \in T : m <= v
  <2> HIDE DEF T
  <2> QED BY <1>2, HasLeast
<1>4. m \in 1..h.n /\ m - 1 \in 0..h.n /\ m - 1 \notin T
  <2>1. m \in 0..h.n /\ h.indptr[m] \notin 0..Nnz(h)
    OBVIOUS
  <2>2. m # 0
    BY <1>1, <2>1
  <2>3. m \in 1..h.n /\ m - 1 \in 0..h.n /\ ~ (m <= m - 1)
    BY <1>1, <2>1, <2>2
  <2> HIDE DEF T
  <2> QED BY <1>3, <2>3
<1>5. h.indptr[m - 1] \in 0..Nnz(h) /\ h.indptr[m] \in Int
  BY <1>1, <1>4
<1>6. h.indptr[m] \in 0..Nnz(h)
  BY <1>1, <1>4, <1>5
<1> QED BY <1>3, <1>6

(* The edges of a vertex are edges of the graph, with weights that add up  *)
(* to a length and heads that are vertices.                                *)
LEMMA Edges ==
  ASSUME NEW h \in Inputs, Verdict(h) = "Ok", NEW u \in Vertices(h),
         NEW j \in Nat, h.indptr[u] <= j, j < h.indptr[u + 1]
  PROVE  /\ j \in DOMAIN h.indices \cap DOMAIN h.weights
         /\ h.indices[j] \in Vertices(h)
         /\ h.weights[j] \in Nat
<1>1. h.n \in Nat /\ u + 1 \in 0..h.n
  BY DijkstraAssumption DEF Vertices
<1>2. h.indptr[u + 1] \in 0..Nnz(h)
  BY <1>1, Offsets
<1>3. /\ Nnz(h) \in Nat /\ h.indices \in [0..(Nnz(h) - 1) -> Int]
      /\ h.weights \in [0..(Nnz(h) - 1) -> Int \cup {NaN}]
  BY DijkstraAssumption
<1>4. j \in 0..(Nnz(h) - 1)
  BY <1>2, <1>3
<1>5. ~ BadWeight(h.weights[j]) /\ ~ BadNeighbor(h, j)
  BY <1>3, <1>4, Checked
<1> QED BY <1>1, <1>3, <1>4, <1>5 DEF BadWeight, BadNeighbor, Vertices

(* A sum of lengths is a length.                                            *)
LEMMA AddType ==
  ASSUME NEW d \in 0..Infinity, NEW w \in Nat
  PROVE  Add(d, w) \in 0..Infinity
BY DijkstraAssumption DEF Add

(* Reserving never takes room away.                                         *)
LEMMA ResetCapacityType ==
  ASSUME NEW c \in Nat, NEW h \in Inputs
  PROVE  ResetCapacity(c, h) \in Nat /\ ResetCapacity(c, h) >= c
<1> DEFINE x == Nnz(h) + 1 - c
           S == {x, 2 * c, LeastCapacity}
           top == CHOOSE m \in S : \A k \in S : m >= k
<1>1. Nnz(h) \in Nat /\ LeastCapacity \in Nat
  BY DijkstraAssumption
<1> SUFFICES ASSUME c < Nnz(h) + 1, c < x PROVE top \in Nat /\ top >= c
  BY <1>1 DEF ResetCapacity, Reserve
<1>2. x \in Nat /\ 2 * c \in Nat
  BY <1>1
<1> HIDE DEF x
<1>3. \E m \in S : \A k \in S : m >= k
  <2>1. CASE x >= 2 * c /\ x >= LeastCapacity
    BY <1>1, <1>2, <2>1
  <2>2. CASE 2 * c >= x /\ 2 * c >= LeastCapacity
    BY <1>1, <1>2, <2>2
  <2>3. CASE LeastCapacity >= x /\ LeastCapacity >= 2 * c
    BY <1>1, <1>2, <2>3
  <2> QED BY <1>1, <1>2, <2>1, <2>2, <2>3
<1>4. top \in S /\ \A k \in S : top >= k
  BY <1>3
<1> HIDE DEF top
<1> QED BY <1>1, <1>2, <1>4

-----------------------------------------------------------------------------
(* The inductive invariant.                                                 *)

(* It holds before the first call.                                          *)
LEMMA InitInv == Init => IInv
BY DijkstraAssumption
   DEF Init, IInv, TypeOK, Running, InBounds, Expanding, Certificate, Returned

(* A call begins a run with it, or is rejected.                             *)
LEMMA CallInv ==
  ASSUME IInv, Call
  PROVE  IInv'
<1>1. pc = "idle" /\ calls < MaxCalls /\ calls' = calls + 1 /\ calls \in 0..MaxCalls
      /\ capacity \in Nat /\ result \in {"Ok", "NegativeWeight", "MalformedCsr"}
  BY DEF Call, IInv, TypeOK
<1>2. PICK h \in Inputs : g' = h /\ (Reject(h) \/ Start(h))
  BY DEF Call
<1>3. CASE Reject(h)
  <2>1. result' \in {"Ok", "NegativeWeight", "MalformedCsr"}
    BY <1>3 DEF Reject, Verdict
  <2>2. pc' = "idle" /\ result' # "Ok"
    BY <1>1, <1>3 DEF Reject
  <2> QED BY <1>1, <1>3, <2>1, <2>2, DijkstraAssumption
          DEF Reject, IInv, TypeOK, Running, InBounds, Expanding, Certificate, Returned
<1>4. CASE Start(h)
  <2>1. /\ Verdict(h) = "Ok" /\ pc' = "pop" /\ heap' = {<<0, h.source>>}
        /\ dist' = [v \in Vertices(h) |-> IF v = h.source THEN 0 ELSE Infinity]
        /\ pred' = [v \in Vertices(h) |-> -1]
        /\ capacity' = ResetCapacity(capacity, h) /\ result' = result /\ g' = h
    BY <1>2, <1>4 DEF Start
  <2>2. h.source \in Vertices(h) /\ h.n \in Nat /\ Infinity \in Nat /\ MaxCalls \in Nat
    BY DijkstraAssumption
  <2>3. capacity' \in Nat
    BY <1>1, <2>1, ResetCapacityType
  <2>4. TypeOK'
    BY <1>1, <2>1, <2>2, <2>3 DEF TypeOK
  <2>5. DOMAIN h.indptr = 0..h.n
    BY <2>1, Checked DEF WellStructured
  <2>6. InBounds'
    BY <2>1, <2>2, <2>5 DEF InBounds, Vertices
  <2>7. Running'
    BY <2>1 DEF Running
  <2>8. Pending' /\ Frontier' /\ PredTight'
    BY <2>1, <2>2 DEF Pending, Frontier, PredTight
  <2>9. Certificate'
    BY <2>1 DEF Certificate, Returned
  <2> QED BY <2>4, <2>6, <2>7, <2>8, <2>9 DEF IInv, Expanding
<1> QED BY <1>2, <1>3, <1>4

(* Where the next edge exists, it may be read.                              *)
LEMMA NextEdge ==
  ASSUME IInv, pc = "relax", e < End
  PROVE  /\ e \in DOMAIN g.indices \cap DOMAIN g.weights
         /\ Head \in Vertices(g)
         /\ Candidate \in 0..Infinity
<1>1. /\ g \in Inputs /\ Verdict(g) = "Ok" /\ e \in Nat /\ g.indptr[cur[2]] <= e
      /\ cur[1] \in 0..Infinity /\ cur[2] \in Vertices(g)
  BY DEF IInv, Running, TypeOK
<1>2. /\ e \in DOMAIN g.indices \cap DOMAIN g.weights
      /\ g.indices[e] \in Vertices(g) /\ g.weights[e] \in Nat
  BY <1>1, Edges DEF End
<1> QED BY <1>1, <1>2, AddType DEF Head, Candidate

(* Pops and relaxations keep the reads in bounds.                           *)
LEMMA BoundsKept ==
  ASSUME TypeOK, Running
  PROVE  InBounds
<1>1. CASE pc = "pop"
  <2>1. /\ DOMAIN g.indptr = 0..g.n /\ g.n \in Nat
    BY <1>1, Checked, DijkstraAssumption DEF Running, WellStructured
  <2>2. heap \subseteq (0..Infinity) \X Vertices(g)
    BY <1>1 DEF TypeOK
  <2> QED BY <1>1, <2>1, <2>2 DEF InBounds, Vertices
<1>2. CASE pc = "relax" /\ e < End
  <2>1. /\ g \in Inputs /\ Verdict(g) = "Ok" /\ e \in Nat /\ g.indptr[cur[2]] <= e
        /\ cur[2] \in Vertices(g) /\ dist \in [Vertices(g) -> 0..Infinity]
    BY <1>2 DEF Running, TypeOK
  <2>2. e \in DOMAIN g.indices \cap DOMAIN g.weights /\ g.indices[e] \in Vertices(g)
    BY <1>2, <2>1, Edges DEF End
  <2> QED BY <1>2, <2>1, <2>2 DEF InBounds, Head
<1> QED BY <1>1, <1>2 DEF InBounds

(* The steps of a run keep the types.                                       *)
LEMMA RunInv ==
  ASSUME IInv, Run
  PROVE  TypeOK' /\ Running'
<1>1. /\ g' = g /\ calls' = calls /\ capacity' = capacity
      /\ pc # "idle" /\ g \in Inputs /\ Verdict(g) = "Ok"
      /\ dist \in [Vertices(g) -> 0..Infinity]
      /\ pred \in [Vertices(g) -> Vertices(g) \cup {-1}]
      /\ heap \subseteq (0..Infinity) \X Vertices(g)
      /\ calls \in 0..MaxCalls /\ capacity \in Nat
      /\ result \in {"Ok", "NegativeWeight", "MalformedCsr"}
  BY DEF IInv, TypeOK, Running, Run, PopStale, PopLive, RelaxBetter, RelaxWorse, Expanded, Return
<1>2. CASE PopStale
  BY <1>1, <1>2 DEF PopStale, outputs, TypeOK, Running
<1>3. CASE PopLive
  <2>1. PICK x \in heap : heap' = heap \ {x} /\ cur' = x /\ e' = g.indptr[x[2]]
    BY <1>3 DEF PopLive
  <2>2. x \in (0..Infinity) \X Vertices(g) /\ x[2] \in 0..g.n /\ g.n \in Nat /\ Nnz(g) \in Nat
    BY <1>1, <2>1, DijkstraAssumption DEF Vertices
  <2>3. e' \in Nat /\ g.indptr[x[2]] <= e'
    BY <1>1, <2>1, <2>2, Offsets
  <2> QED BY <1>1, <1>3, <2>1, <2>2, <2>3 DEF PopLive, outputs, TypeOK, Running
<1>4. CASE RelaxBetter \/ RelaxWorse
  <2>1. /\ pc = "relax" /\ e < End /\ e \in Nat /\ g.indptr[cur[2]] <= e
        /\ cur \in (0..Infinity) \X Vertices(g) /\ e' = e + 1
        /\ pc' = pc /\ cur' = cur /\ result' = result
    BY <1>4 DEF RelaxBetter, RelaxWorse, IInv, Running, TypeOK
  <2>2. Head \in Vertices(g) /\ Candidate \in 0..Infinity
    BY <2>1, NextEdge
  <2>3. g.indptr[cur[2]] <= e'
    <3>1. g.indptr[cur[2]] \in Int
      <4>1. cur[2] \in 0..g.n /\ g.n \in Nat /\ Nnz(g) \in Nat
        BY <1>1, <2>1, DijkstraAssumption DEF Vertices
      <4> QED BY <1>1, <4>1, Offsets
    <3> QED BY <2>1, <3>1
  <2>4. /\ dist' \in [Vertices(g) -> 0..Infinity]
        /\ pred' \in [Vertices(g) -> Vertices(g) \cup {-1}]
        /\ heap' \subseteq (0..Infinity) \X Vertices(g)
    BY <1>1, <1>4, <2>1, <2>2 DEF RelaxBetter, RelaxWorse, outputs
  <2> QED BY <1>1, <2>1, <2>3, <2>4 DEF TypeOK, Running
<1>5. CASE Expanded
  BY <1>1, <1>5 DEF Expanded, outputs, TypeOK, Running
<1>6. CASE Return
  BY <1>1, <1>6 DEF Return, outputs, TypeOK, Running
<1> QED BY <1>2, <1>3, <1>4, <1>5, <1>6 DEF Run

(* What is known of a run between two of its steps, the lengths of edges     *)
(* included.                                                               *)
LEMMA RunFacts ==
  ASSUME IInv, pc # "idle"
  PROVE  /\ g \in Inputs /\ Verdict(g) = "Ok" /\ Infinity \in Nat
         /\ dist \in [Vertices(g) -> 0..Infinity]
         /\ pred \in [Vertices(g) -> Vertices(g) \cup {-1}]
         /\ heap \subseteq (0..Infinity) \X Vertices(g)
         /\ Pending /\ Frontier /\ PredTight
         /\ \A u \in Vertices(g) : \A j \in EdgesOf(u) :
              /\ j \in Nat
              /\ g.indices[j] \in Vertices(g)
              /\ g.weights[j] \in Nat
<1>1. /\ g \in Inputs /\ Verdict(g) = "Ok" /\ Infinity \in Nat
      /\ dist \in [Vertices(g) -> 0..Infinity]
      /\ pred \in [Vertices(g) -> Vertices(g) \cup {-1}]
      /\ heap \subseteq (0..Infinity) \X Vertices(g)
      /\ Pending /\ Frontier /\ PredTight
  BY DijkstraAssumption DEF IInv, TypeOK, Running, Expanding
<1>2. ASSUME NEW u \in Vertices(g), NEW j \in EdgesOf(u)
      PROVE  j \in Nat /\ g.indices[j] \in Vertices(g) /\ g.weights[j] \in Nat
  <2>1. /\ u \in 0..g.n /\ u + 1 \in 0..g.n /\ Nnz(g) \in Nat
    BY <1>1, DijkstraAssumption DEF Vertices
  <2>2. g.indptr[u] \in 0..Nnz(g) /\ g.indptr[u + 1] \in 0..Nnz(g)
    BY <1>1, <2>1, Offsets
  <2>3. j \in Nat /\ g.indptr[u] <= j /\ j < g.indptr[u + 1]
    BY <2>1, <2>2 DEF EdgesOf
  <2> QED BY <1>1, <2>3, Edges
<1> QED BY <1>1, <1>2

(* What stays as it is when neither the lengths nor the graph change.       *)
LEMMA SameTight ==
  ASSUME PredTight, UNCHANGED <<g, dist, pred>>
  PROVE  PredTight'
BY DEF PredTight, EdgesOf

(* What is stale is known better than its entry says.                       *)
LEMMA PopStaleInv ==
  ASSUME IInv, PopStale
  PROVE  (Pending /\ Frontier /\ PredTight)'
<1>1. /\ pc = "pop" /\ pc' = "pop" /\ UNCHANGED <<g, dist, pred, cur, e>>
  BY DEF PopStale, outputs
<1>2. PICK x \in heap : x[1] > dist[x[2]] /\ heap' = heap \ {x}
  BY DEF PopStale, IsStale
<1>3. /\ dist \in [Vertices(g) -> 0..Infinity] /\ Infinity \in Nat
      /\ heap \subseteq (0..Infinity) \X Vertices(g)
      /\ Pending /\ Frontier /\ PredTight
  BY <1>1, RunFacts
<1>4. Pending'
  <2> SUFFICES ASSUME NEW u \in Vertices(g), dist[u] # Infinity, <<dist[u], u>> \notin heap'
               PROVE  \A j \in EdgesOf(u) : Relaxed(u, j)'
    BY <1>1 DEF Pending, EdgesOf
  <2>1. <<dist[u], u>> # x
    BY <1>2, <1>3
  <2>2. \A j \in EdgesOf(u) : Relaxed(u, j)
    BY <1>1, <1>2, <1>3, <2>1 DEF Pending
  <2> QED BY <1>1, <2>2 DEF Relaxed
<1>5. Frontier'
  BY <1>1, <1>2, <1>3 DEF Frontier
<1> QED BY <1>1, <1>3, <1>4, <1>5, SameTight

(* The entry that is popped leads the frontier.                             *)
LEMMA PopLiveInv ==
  ASSUME IInv, PopLive
  PROVE  (Pending /\ Frontier /\ PredTight)'
<1>1. /\ pc = "pop" /\ pc' = "relax" /\ UNCHANGED <<g, dist, pred>>
  BY DEF PopLive, outputs
<1>2. PICK x \in heap : /\ \A y \in heap : x[1] <= y[1]
                        /\ ~ (x[1] > dist[x[2]])
                        /\ heap' = heap \ {x} /\ cur' = x /\ e' = g.indptr[x[2]]
  BY DEF PopLive, IsStale, IsLeast
<1>3. /\ dist \in [Vertices(g) -> 0..Infinity] /\ Infinity \in Nat
      /\ heap \subseteq (0..Infinity) \X Vertices(g)
      /\ Pending /\ Frontier /\ PredTight
  BY <1>1, RunFacts
<1>4. x[1] = dist[x[2]] /\ x[2] \in Vertices(g) /\ x = <<x[1], x[2]>>
  BY <1>2, <1>3 DEF Frontier
<1>5. Pending'
  <2> SUFFICES ASSUME NEW u \in Vertices(g), dist[u] # Infinity, <<dist[u], u>> \notin heap',
                      NEW j \in EdgesOf(u), ~ (u = x[2] /\ j >= g.indptr[x[2]])
               PROVE  Relaxed(u, j)'
    BY <1>1, <1>2 DEF Pending, EdgesOf
  <2>1. u # x[2]
    <3> SUFFICES ASSUME u = x[2] PROVE FALSE
      OBVIOUS
    <3>1. g.indptr[u] \in Int /\ g.indptr[u + 1] \in Int
      <4>1. /\ g \in Inputs /\ Verdict(g) = "Ok" /\ Nnz(g) \in Nat
            /\ u \in 0..g.n /\ u + 1 \in 0..g.n
        BY <1>1, RunFacts, DijkstraAssumption DEF Vertices
      <4> QED BY <4>1, Offsets
    <3> QED BY <3>1 DEF EdgesOf
  <2>2. <<dist[u], u>> \notin heap
    BY <1>2, <1>4, <2>1
  <2>3. Relaxed(u, j)
    BY <1>1, <1>3, <2>2 DEF Pending
  <2> QED BY <1>1, <2>3 DEF Relaxed
<1>6. Frontier'
  BY <1>1, <1>2, <1>3, <1>4 DEF Frontier
<1> QED BY <1>1, <1>3, <1>5, <1>6, SameTight

(* What an improvement does: the head v gets a length c by way of p, and    *)
(* nobody's predecessor is v.                                              *)
LEMMA Improvement ==
  ASSUME IInv, RelaxBetter
  PROVE  \E v, p \in Vertices(g), c, d \in 0..Infinity :
           /\ p # -1 /\ p # v /\ cur[1] = d /\ cur[2] = p /\ dist[p] = d /\ d <= c /\ c < dist[v]
           /\ e \in Nat /\ e \in EdgesOf(p) /\ g.indices[e] = v /\ c = Add(d, g.weights[e])
           /\ pc = "relax" /\ pc' = "relax" /\ e' = e + 1
           /\ UNCHANGED <<g, calls, result, capacity, cur>>
           /\ dist' = [dist EXCEPT ![v] = c] /\ pred' = [pred EXCEPT ![v] = p]
           /\ heap' = heap \cup {<<c, v>>}
           /\ \A u \in Vertices(g) : pred[u] # v
<1>1. /\ pc = "relax" /\ pc' = "relax" /\ UNCHANGED <<g, calls, result, capacity, cur>>
      /\ e < End /\ e' = e + 1
      /\ Candidate < dist[Head]
      /\ dist' = [dist EXCEPT ![Head] = Candidate]
      /\ pred' = [pred EXCEPT ![Head] = cur[2]]
      /\ heap' = heap \cup {<<Candidate, Head>>}
  BY DEF RelaxBetter, Improves
<1>2. PICK v, c, p, d : v = Head /\ c = Candidate /\ p = cur[2] /\ d = cur[1]
  OBVIOUS
<1>3. /\ dist \in [Vertices(g) -> 0..Infinity] /\ Infinity \in Nat
      /\ pred \in [Vertices(g) -> Vertices(g) \cup {-1}]
      /\ Frontier
      /\ \A u \in Vertices(g) : \A j \in EdgesOf(u) :
           j \in Nat /\ g.indices[j] \in Vertices(g) /\ g.weights[j] \in Nat
  BY <1>1, RunFacts
<1>4. /\ v \in Vertices(g) /\ c \in 0..Infinity /\ p \in Vertices(g) /\ d \in 0..Infinity
      /\ p # -1 /\ e \in EdgesOf(p) /\ e \in Nat
  <2>1. v \in Vertices(g) /\ c \in 0..Infinity
    BY <1>1, <1>2, NextEdge
  <2>2. p \in Vertices(g) /\ d \in 0..Infinity /\ e \in Nat /\ g.indptr[p] <= e /\ e < g.indptr[p + 1]
    BY <1>1, <1>2 DEF IInv, TypeOK, Running, End
  <2>3. g.indptr[p] \in Int /\ g.indptr[p + 1] \in Int /\ p # -1
    <3>1. /\ g \in Inputs /\ Verdict(g) = "Ok" /\ Nnz(g) \in Nat
          /\ p \in 0..g.n /\ p + 1 \in 0..g.n
      BY <1>1, <2>2, RunFacts, DijkstraAssumption DEF Vertices
    <3> QED BY <3>1, Offsets
  <2> QED BY <2>1, <2>2, <2>3 DEF EdgesOf
<1>5. /\ g.indices[e] = v /\ c = Add(d, g.weights[e]) /\ d <= c /\ c < dist[v] /\ dist[p] = d
  <2>1. g.indices[e] = v /\ c = Add(d, g.weights[e]) /\ g.weights[e] \in Nat /\ dist[p] = d /\ c < dist[v]
    BY <1>1, <1>2, <1>3, <1>4 DEF Head, Candidate, Frontier
  <2> QED BY <1>3, <1>4, <2>1 DEF Add
<1>6. p # v /\ \A u \in Vertices(g) : pred[u] # v
  <2> SUFFICES ASSUME NEW u \in Vertices(g), pred[u] = v PROVE FALSE
    BY <1>3, <1>4, <1>5
  <2>1. v # -1
    BY <1>1, <1>4, RunFacts, DijkstraAssumption DEF Vertices
  <2>2. dist[v] <= d
    BY <1>1, <1>2, <1>3, <2>1 DEF Frontier
  <2> QED BY <1>3, <1>4, <1>5, <2>2
<1>7. /\ dist' = [dist EXCEPT ![v] = c] /\ pred' = [pred EXCEPT ![v] = p]
      /\ heap' = heap \cup {<<c, v>>} /\ cur[1] = d /\ cur[2] = p
  BY <1>1, <1>2
<1> QED BY <1>1, <1>4, <1>5, <1>6, <1>7

(* An improvement is pushed at a key not below the frontier, so that no     *)
(* vertex that was expanded is improved.                                   *)
LEMMA RelaxBetterInv ==
  ASSUME IInv, RelaxBetter
  PROVE  (Pending /\ Frontier /\ PredTight)'
<1>1. PICK v, p \in Vertices(g), c, d \in 0..Infinity :
           /\ p # -1 /\ p # v /\ cur[1] = d /\ cur[2] = p /\ dist[p] = d /\ d <= c /\ c < dist[v]
           /\ e \in Nat /\ e \in EdgesOf(p) /\ g.indices[e] = v /\ c = Add(d, g.weights[e])
           /\ pc = "relax" /\ pc' = "relax" /\ e' = e + 1
           /\ UNCHANGED <<g, cur>>
           /\ dist' = [dist EXCEPT ![v] = c] /\ pred' = [pred EXCEPT ![v] = p]
           /\ heap' = heap \cup {<<c, v>>}
           /\ \A u \in Vertices(g) : pred[u] # v
  BY Improvement
<1>2. /\ dist \in [Vertices(g) -> 0..Infinity] /\ Infinity \in Nat
      /\ pred \in [Vertices(g) -> Vertices(g) \cup {-1}]
      /\ heap \subseteq (0..Infinity) \X Vertices(g)
      /\ Pending /\ Frontier /\ PredTight
      /\ \A u \in Vertices(g) : \A j \in EdgesOf(u) :
           j \in Nat /\ g.indices[j] \in Vertices(g) /\ g.weights[j] \in Nat
  BY <1>1, RunFacts
<1>3. /\ \A u \in Vertices(g) : dist'[u] = IF u = v THEN c ELSE dist[u]
      /\ \A u \in Vertices(g) : pred'[u] = IF u = v THEN p ELSE pred[u]
      /\ heap' = heap \cup {<<c, v>>} /\ g' = g /\ cur'[1] = d /\ cur'[2] = p
  BY <1>1, <1>2
<1>4. \A u \in Vertices(g) : dist'[u] <= dist[u] /\ dist'[u] \in 0..Infinity /\ dist[u] \in 0..Infinity
  BY <1>1, <1>2, <1>3
<1>5. PredTight'
  <2> SUFFICES ASSUME NEW u \in Vertices(g), pred'[u] # -1
               PROVE  \E j \in EdgesOf(pred'[u]) :
                        g.indices[j] = u /\ dist'[u] = Add(dist'[pred'[u]], g.weights[j])
    BY <1>1 DEF PredTight, EdgesOf
  <2>1. CASE u = v
    BY <1>1, <1>3, <2>1
  <2>2. CASE u # v
    <3>1. pred'[u] = pred[u] /\ pred[u] \in Vertices(g) /\ pred[u] # v /\ dist'[u] = dist[u]
      BY <1>1, <1>2, <1>3, <2>2
    <3>2. dist'[pred[u]] = dist[pred[u]]
      BY <1>3, <3>1
    <3>3. \E j \in EdgesOf(pred[u]) : g.indices[j] = u /\ dist[u] = Add(dist[pred[u]], g.weights[j])
      BY <1>2, <3>1 DEF PredTight
    <3> QED BY <3>1, <3>2, <3>3
  <2> QED BY <2>1, <2>2
<1>6. Pending'
  <2> SUFFICES ASSUME NEW u \in Vertices(g), dist'[u] # Infinity, <<dist'[u], u>> \notin heap',
                      NEW j \in EdgesOf(u), ~ (u = p /\ j >= e + 1)
               PROVE  dist'[g.indices[j]] <= Add(dist'[u], g.weights[j])
    BY <1>1 DEF Pending, Relaxed, EdgesOf
  <2>1. u # v /\ dist'[u] = dist[u] /\ <<dist[u], u>> \notin heap
    BY <1>3
  <2>2. j \in Nat /\ g.indices[j] \in Vertices(g) /\ g.weights[j] \in Nat
    BY <1>2
  <2>3. CASE u = p /\ j = e
    BY <1>1, <1>3, <2>1, <2>3
  <2>4. CASE ~ (u = p /\ j = e)
    <3>1. ~ (u = p /\ j >= e)
      BY <1>1, <2>2, <2>4
    <3>2. dist[g.indices[j]] <= Add(dist[u], g.weights[j])
      BY <1>1, <1>2, <2>1, <3>1 DEF Pending, Relaxed
    <3>3. Add(dist[u], g.weights[j]) \in 0..Infinity
      BY <1>4, <2>2, AddType
    <3> QED BY <1>2, <1>4, <2>1, <2>2, <3>2, <3>3
  <2> QED BY <2>3, <2>4
<1>7. Frontier'
  <2>1. \A x \in heap' : x = <<c, v>> \/ x \in heap
    BY <1>3
  <2>2. \A x \in heap' : dist'[x[2]] <= x[1] /\ d <= x[1]
    <3> SUFFICES ASSUME NEW x \in heap' PROVE dist'[x[2]] <= x[1] /\ d <= x[1]
      OBVIOUS
    <3>1. CASE x = <<c, v>>
      BY <1>1, <1>2, <1>3, <3>1
    <3>2. CASE x \in heap
      <4>1. x[2] \in Vertices(g) /\ x[1] \in 0..Infinity /\ dist[x[2]] <= x[1] /\ d <= x[1]
        BY <1>1, <1>2, <3>2 DEF Frontier
      <4> QED BY <1>2, <1>4, <4>1
    <3> QED BY <2>1, <3>1, <3>2
  <2>3. \A u \in Vertices(g) : pred'[u] # -1 => dist'[pred'[u]] <= d
    <3> SUFFICES ASSUME NEW u \in Vertices(g), pred'[u] # -1 PROVE dist'[pred'[u]] <= d
      OBVIOUS
    <3>1. CASE u = v
      BY <1>1, <1>2, <1>3, <3>1
    <3>2. CASE u # v
      <4>1. pred'[u] = pred[u] /\ pred[u] \in Vertices(g) /\ dist[pred[u]] <= d
        BY <1>1, <1>2, <1>3, <3>2 DEF Frontier
      <4> QED BY <1>1, <1>3, <4>1
    <3> QED BY <3>1, <3>2
  <2>4. \A u \in Vertices(g) : pred'[u] # -1 => \A x \in heap' : dist'[pred'[u]] <= x[1]
    <3> SUFFICES ASSUME NEW u \in Vertices(g), pred'[u] # -1, NEW x \in heap'
                 PROVE  dist'[pred'[u]] <= x[1]
      OBVIOUS
    <3>1. pred'[u] \in Vertices(g) /\ x[1] \in 0..Infinity
      BY <1>1, <1>2, <1>3, <2>1
    <3> QED BY <1>1, <1>2, <1>4, <2>2, <2>3, <3>1
  <2>5. dist'[p] = d
    BY <1>1, <1>3
  <2> QED BY <1>1, <1>3, <2>2, <2>3, <2>4, <2>5 DEF Frontier
<1> QED BY <1>5, <1>6, <1>7

(* An edge that does not improve is relaxed.                                *)
LEMMA RelaxWorseInv ==
  ASSUME IInv, RelaxWorse
  PROVE  (Pending /\ Frontier /\ PredTight)'
<1>1. /\ pc = "relax" /\ pc' = "relax" /\ UNCHANGED <<g, dist, pred, heap, cur>>
      /\ e < End /\ e' = e + 1 /\ ~ (Candidate < dist[Head])
  BY DEF RelaxWorse, Improves, outputs
<1>2. /\ dist \in [Vertices(g) -> 0..Infinity] /\ Infinity \in Nat
      /\ Pending /\ Frontier /\ PredTight
      /\ \A u \in Vertices(g) : \A j \in EdgesOf(u) : j \in Nat
  BY <1>1, RunFacts
<1>3. e \in Nat /\ Head \in Vertices(g) /\ Candidate \in 0..Infinity /\ dist[cur[2]] = cur[1]
  BY <1>1, <1>2, NextEdge DEF IInv, Running, Frontier
<1>4. Relaxed(cur[2], e)
  BY <1>1, <1>2, <1>3 DEF Relaxed, Head, Candidate
<1>5. Pending'
  <2> SUFFICES ASSUME NEW u \in Vertices(g), dist[u] # Infinity, <<dist[u], u>> \notin heap,
                      NEW j \in EdgesOf(u), ~ (u = cur[2] /\ j >= e + 1)
               PROVE  Relaxed(u, j)
    BY <1>1 DEF Pending, Relaxed, EdgesOf
  <2>1. CASE u = cur[2] /\ j = e
    BY <1>4, <2>1
  <2>2. CASE ~ (u = cur[2] /\ j = e)
    <3>1. ~ (u = cur[2] /\ j >= e)
      BY <1>2, <1>3, <2>2
    <3> QED BY <1>2, <3>1 DEF Pending
  <2> QED BY <2>1, <2>2
<1>6. Frontier'
  BY <1>1, <1>2 DEF Frontier
<1> QED BY <1>1, <1>2, <1>5, <1>6, SameTight

(* No edge of the vertex is left.                                           *)
LEMMA ExpandedInv ==
  ASSUME IInv, Expanded
  PROVE  (Pending /\ Frontier /\ PredTight)'
<1>1. /\ pc = "relax" /\ pc' = "pop" /\ UNCHANGED <<g, dist, pred, heap, cur, e>> /\ e >= End
  BY DEF Expanded, outputs
<1>2. /\ Pending /\ Frontier /\ PredTight
      /\ e \in Nat /\ cur[2] \in Vertices(g)
  BY <1>1, RunFacts DEF IInv, Running, TypeOK
<1>3. \A j \in EdgesOf(cur[2]) : j < e
  <2>1. g.indptr[cur[2]] \in Int /\ g.indptr[cur[2] + 1] \in Int
    <3>1. /\ g \in Inputs /\ Verdict(g) = "Ok" /\ Nnz(g) \in Nat
          /\ cur[2] \in 0..g.n /\ cur[2] + 1 \in 0..g.n
      BY <1>1, <1>2, RunFacts, DijkstraAssumption DEF Vertices
    <3> QED BY <3>1, Offsets
  <2> QED BY <1>1, <1>2, <2>1 DEF EdgesOf, End
<1>4. Pending'
  <2> SUFFICES ASSUME NEW u \in Vertices(g), dist[u] # Infinity, <<dist[u], u>> \notin heap,
                      NEW j \in EdgesOf(u)
               PROVE  Relaxed(u, j)
    BY <1>1 DEF Pending, Relaxed, EdgesOf
  <2>1. ~ (u = cur[2] /\ j >= e)
    <3>1. j \in Nat
      BY <1>1, RunFacts
    <3> QED BY <1>2, <1>3, <3>1
  <2> QED BY <1>2, <2>1 DEF Pending
<1>5. Frontier'
  BY <1>1, <1>2 DEF Frontier
<1> QED BY <1>1, <1>2, <1>4, <1>5, SameTight

(* With the heap empty every edge of a reached vertex is relaxed.           *)
LEMMA ReturnInv ==
  ASSUME IInv, Return
  PROVE  Certificate' /\ pc' = "idle"
<1>1. /\ pc = "pop" /\ pc' = "idle" /\ heap = {} /\ UNCHANGED <<g, dist, pred>>
  BY DEF Return, outputs
<1>2. /\ dist \in [Vertices(g) -> 0..Infinity] /\ Infinity \in Nat
      /\ Pending /\ PredTight
      /\ \A u \in Vertices(g) : \A j \in EdgesOf(u) :
           g.indices[j] \in Vertices(g) /\ g.weights[j] \in Nat
  BY <1>1, RunFacts
<1>3. ASSUME NEW u \in Vertices(g), NEW j \in EdgesOf(u) PROVE Relaxed(u, j)
  <2>1. CASE dist[u] = Infinity
    BY <1>2, <2>1 DEF Relaxed, Add
  <2>2. CASE dist[u] # Infinity
    BY <1>1, <1>2, <2>2 DEF Pending
  <2> QED BY <2>1, <2>2
<1>4. \A u \in Vertices(g) : \A j \in EdgesOf(u) : Relaxed(u, j)'
  BY <1>1, <1>3 DEF Relaxed
<1>5. PredTight'
  BY <1>1, <1>2, SameTight
<1> QED BY <1>1, <1>4, <1>5 DEF Certificate, EdgesOf

THEOREM Inductive == Spec => []IInv
<1>1. ASSUME IInv, [Next]_vars PROVE IInv'
  <2>1. CASE Call
    BY <1>1, <2>1, CallInv
  <2>2. CASE Run
    <3>1. TypeOK' /\ Running'
      BY <1>1, <2>2, RunInv
    <3>2. TypeOK' /\ Running' => InBounds'
      BY BoundsKept, PTL
    <3>3. CASE PopStale \/ PopLive \/ RelaxBetter \/ RelaxWorse \/ Expanded
      <4>1. (Pending /\ Frontier /\ PredTight)'
        BY <1>1, <3>3, PopStaleInv, PopLiveInv, RelaxBetterInv, RelaxWorseInv, ExpandedInv
      <4>2. pc' # "idle"
        BY <3>3 DEF PopStale, PopLive, RelaxBetter, RelaxWorse, Expanded
      <4> QED BY <3>1, <3>2, <4>1, <4>2 DEF IInv, Expanding, Certificate, Returned
    <3>4. CASE Return
      BY <1>1, <3>1, <3>2, <3>4, ReturnInv DEF IInv, Expanding
    <3> QED BY <2>2, <3>3, <3>4 DEF Run
  <2>3. CASE UNCHANGED vars
    <3>1. UNCHANGED <<g, calls, result, pc, dist, pred, heap, capacity, cur, e>>
      BY <2>3 DEF vars, outputs
    <3>2. TypeOK' /\ Running' /\ InBounds'
      BY <1>1, <3>1 DEF IInv, TypeOK, Running, InBounds, End, Head
    <3>3. Pending' = Pending /\ Frontier' = Frontier /\ PredTight' = PredTight
      BY <3>1 DEF Pending, Frontier, PredTight, EdgesOf, Relaxed
    <3>4. Certificate'
      BY <1>1, <3>1, <3>3 DEF IInv, Certificate, Returned, EdgesOf, Relaxed
    <3> QED BY <1>1, <3>1, <3>2, <3>3, <3>4 DEF IInv, Expanding
  <2> QED BY <1>1, <2>1, <2>2, <2>3 DEF Next
<1> QED BY <1>1, InitInv, PTL DEF Spec

(* The types of the outputs and of the entries of the heap.                 *)
THEOREM TypeCorrect == Spec => []TypeOK
BY Inductive, PTL DEF IInv

(* No unchecked read of the loop is out of the bounds of an array, whatever *)
(* arrays the caller passes (dijkstra.rs:252-280).                         *)
THEOREM ReadsInBounds == Spec => []InBounds
BY Inductive, PTL DEF IInv

(* What dijkstra returns satisfies the equations of shortest paths: no edge *)
(* improves a length, and each predecessor accounts for its vertex's.      *)
THEOREM Certified == Spec => []Certificate
BY Inductive, PTL DEF IInv

-----------------------------------------------------------------------------
(* The tree of predecessors.                                               *)

(* A vertex that is improved hangs from the one being expanded, which is    *)
(* not below it.                                                           *)
LEMMA ImprovementRooted ==
  ASSUME IInv, TreeInv, RelaxBetter
  PROVE  Tree'
<1>1. PICK v, p \in Vertices(g), c, d \in 0..Infinity :
           /\ p # -1 /\ p # v /\ dist[p] = d /\ d <= c /\ c < dist[v]
           /\ pc = "relax" /\ g' = g
           /\ dist' = [dist EXCEPT ![v] = c] /\ pred' = [pred EXCEPT ![v] = p]
           /\ \A u \in Vertices(g) : pred[u] # v
  BY Improvement
<1>2. /\ Infinity \in Nat \ {0}
      /\ dist \in [Vertices(g) -> 0..Infinity]
      /\ pred \in [Vertices(g) -> Vertices(g) \cup {-1}]
      /\ g.source \in Vertices(g) /\ Tree
  BY <1>1, DijkstraAssumption DEF TreeInv
<1>3. v # g.source /\ d # Infinity /\ c # Infinity
  BY <1>1, <1>2 DEF Tree
<1>4. \A u \in Vertices(g) : /\ dist'[u] = IF u = v THEN c ELSE dist[u]
                             /\ pred'[u] = IF u = v THEN p ELSE pred[u]
  BY <1>1, <1>2
<1>5. /\ dist'[g.source] = 0 /\ pred'[g.source] = -1
      /\ \A u \in Vertices(g) \ {g.source} : dist'[u] = Infinity <=> pred'[u] = -1
  BY <1>1, <1>2, <1>3, <1>4 DEF Tree
<1>6. ASSUME NEW u \in Vertices(g), dist'[u] # Infinity,
             NEW T \in SUBSET Vertices(g),
             g.source \in T, \A x \in Vertices(g) : pred'[x] \in T => x \in T
      PROVE  u \in T
  <2>1. \A x \in Vertices(g) : pred[x] \in T \cup {v} => x \in T \cup {v}
    BY <1>1, <1>4, <1>6
  <2>2. \A x \in Vertices(g) : dist[x] # Infinity => x \in T \cup {v}
    <3>1. T \cup {v} \in SUBSET Vertices(g) /\ g.source \in T \cup {v}
      BY <1>6
    <3>2. \A x \in Vertices(g) : dist[x] # Infinity => Rooted(x)
      BY <1>2 DEF Tree
    <3> QED BY <2>1, <3>1, <3>2 DEF Rooted
  <2>3. p \in T
    BY <1>1, <1>2, <1>3, <2>2
  <2>4. v \in T
    BY <1>4, <1>6, <2>3
  <2> QED BY <1>4, <1>6, <2>2, <2>4
<1> QED BY <1>1, <1>5, <1>6 DEF Tree, Rooted

(* Every step keeps the tree.                                               *)
LEMMA TreeStep ==
  ASSUME IInv, IInv', TreeInv, [Next]_vars
  PROVE  TreeInv'
<1>1. CASE Call
  <2>1. PICK h \in Inputs : g' = h /\ (Reject(h) \/ Start(h))
    BY <1>1 DEF Call
  <2>2. CASE Reject(h)
    <3>1. pc' = "idle" /\ result' # "Ok"
      BY <1>1, <2>2 DEF Call, Reject
    <3> QED BY <3>1 DEF TreeInv, Returned
  <2>3. CASE Start(h)
    <3>1. /\ pc' = "pop" /\ Verdict(h) = "Ok"
          /\ dist' = [v \in Vertices(h) |-> IF v = h.source THEN 0 ELSE Infinity]
          /\ pred' = [v \in Vertices(h) |-> -1]
      BY <2>3 DEF Start
    <3>2. h.source \in Vertices(h) /\ Infinity \in Nat \ {0}
      BY DijkstraAssumption
    <3>3. Tree'
      BY <2>1, <3>1, <3>2 DEF Tree, Rooted
    <3> QED BY <2>1, <3>1, <3>2, <3>3 DEF TreeInv
  <2> QED BY <2>1, <2>2, <2>3
<1>2. CASE RelaxBetter
  <2>1. Tree' /\ g' = g /\ pc = "relax" /\ pc' = "relax"
    BY <1>2, ImprovementRooted DEF RelaxBetter
  <2> QED BY <2>1 DEF TreeInv, IInv, TypeOK, Running
<1>3. CASE PopStale \/ PopLive \/ RelaxWorse \/ Expanded \/ Return
  <2>1. pc # "idle" /\ UNCHANGED <<g, dist, pred>>
    BY <1>3 DEF PopStale, PopLive, RelaxWorse, Expanded, Return, outputs
  <2> QED BY <2>1 DEF TreeInv, Tree, Rooted
<1>4. CASE UNCHANGED vars
  BY <1>4 DEF vars, outputs, TreeInv, Tree, Rooted, Returned
<1> QED BY <1>1, <1>2, <1>3, <1>4 DEF Next, Run

(* The reached vertices hang from the source at any time.                   *)
LEMMA AlwaysTree == Spec => []TreeInv
<1>1. Init => TreeInv
  BY DEF Init, TreeInv, Returned
<1> QED BY <1>1, TreeStep, Inductive, PTL DEF Spec

(* From a vertex that was reached fewer than n predecessors lead to the     *)
(* source, of n vertices.                                                  *)
LEMMA WayUp ==
  ASSUME TreeInv, pc # "idle" \/ Returned, NEW v \in Vertices(g), dist[v] # Infinity
  PROVE  \E k \in Nat : k < g.n /\ \E f \in [0..k -> Vertices(g)] : IsWayUp(f, k, pred, g.source, v)
<1>1. g.n \in Nat /\ g.source \in Vertices(g) /\ Rooted(v)
  BY DijkstraAssumption DEF TreeInv, Tree
<1>2. IsFiniteSet(Vertices(g)) /\ Cardinality(Vertices(g)) = g.n
  <2>1. 0 \in Int /\ g.n - 1 \in Int
    BY <1>1
  <2>2. IsFiniteSet(0..(g.n - 1)) /\ Cardinality(0..(g.n - 1)) = IF 0 > g.n - 1 THEN 0 ELSE (g.n - 1) - 0 + 1
    BY <2>1, FS_Interval, Zenon
  <2> QED BY <1>1, <2>2 DEF Vertices
<1>3. Hangs(Vertices(g), pred, g.source, v)
  BY <1>1 DEF Rooted, Hangs
<1> QED BY <1>1, <1>2, <1>3, ShortClimb, Zenon

(* The recursion of Climb.                                                  *)
LEMMA ClimbSteps ==
  ASSUME TreeInv, pc # "idle" \/ Returned, NEW v \in Vertices(g)
  PROVE  Climb(v) = [k \in 0..g.n |->
                      IF k = 0 THEN v
                      ELSE IF Climb(v)[k - 1] = -1 THEN -1 ELSE pred[Climb(v)[k - 1]]]
<1> DEFINE S == Vertices(g) \cup {-1}
<1> DEFINE step == [x \in S |-> IF x = -1 THEN -1 ELSE pred[x]]
<1>1. g.n \in Nat /\ -1 \notin Vertices(g) /\ pred \in [Vertices(g) -> S]
  BY DijkstraAssumption DEF TreeInv, Vertices
<1>2. step \in [S -> S] /\ v \in S
  BY <1>1
<1>3. PICK f \in [0..g.n -> S] : f = [k \in 0..g.n |-> IF k = 0 THEN v ELSE step[f[k - 1]]]
  <2>1. \E f \in [0..g.n -> S] : IsIteration(f, g.n, v, step)
    <3> HIDE DEF S, step
    <3> QED BY <1>1, <1>2, Iterates
  <2> HIDE DEF S, step
  <2> QED BY <2>1 DEF IsIteration
<1>4. \A k \in 0..g.n : k # 0 => step[f[k - 1]] = IF f[k - 1] = -1 THEN -1 ELSE pred[f[k - 1]]
  <2> SUFFICES ASSUME NEW k \in 0..g.n, k # 0
               PROVE  step[f[k - 1]] = IF f[k - 1] = -1 THEN -1 ELSE pred[f[k - 1]]
    OBVIOUS
  <2>1. f[k - 1] \in S
    <3> HIDE DEF S
    <3> QED BY <1>1
  <2> QED BY <2>1
<1>5. f = [k \in 0..g.n |-> IF k = 0 THEN v ELSE IF f[k - 1] = -1 THEN -1 ELSE pred[f[k - 1]]]
  <2> HIDE DEF S, step
  <2> QED BY <1>3, <1>4
<1> QED BY <1>5, Zenon DEF Climb

(* At each step of a call the reached vertices are those with a predecessor, *)
(* and their predecessors lead to the source.                              *)
THEOREM ReachedAreTree == Spec => []PredTree
<1>1. ASSUME TreeInv PROVE PredTree
  <2> SUFFICES ASSUME pc # "idle", NEW v \in Vertices(g) \ {g.source}
               PROVE  IF dist[v] = Infinity THEN pred[v] = -1 ELSE g.source \in Chain(v)
    BY DEF PredTree
  <2>1. CASE dist[v] = Infinity
    BY <1>1, <2>1 DEF TreeInv, Tree
  <2>2. CASE dist[v] # Infinity
    <3>1. PICK k \in Nat : k < g.n /\ \E f \in [0..k -> Vertices(g)] : IsWayUp(f, k, pred, g.source, v)
      BY <1>1, <2>2, WayUp
    <3>2. PICK f \in [0..k -> Vertices(g)] : IsWayUp(f, k, pred, g.source, v)
      BY <3>1
    <3>3. g.n \in Nat /\ -1 \notin Vertices(g)
      BY <1>1, DijkstraAssumption DEF TreeInv, Vertices
    <3> DEFINE Off == {i \in 0..k : Climb(v)[i] # f[i]}
    <3>4. Off = {}
      <4> SUFFICES ASSUME Off # {} PROVE FALSE
        OBVIOUS
      <4>1. PICK i \in Off : \A j \in Off : i <= j
        <5>1. Off \subseteq Nat
          OBVIOUS
        <5> HIDE DEF Off
        <5> QED BY <5>1, HasLeast
      <4>2. i \in 0..k /\ i \in 0..g.n
        BY <3>1, <3>3
      <4>3. Climb(v)[i] = IF i = 0 THEN v ELSE IF Climb(v)[i - 1] = -1 THEN -1 ELSE pred[Climb(v)[i - 1]]
        <5> DEFINE c == Climb(v)
        <5>1. c = [m \in 0..g.n |-> IF m = 0 THEN v ELSE IF c[m - 1] = -1 THEN -1 ELSE pred[c[m - 1]]]
          BY <1>1, ClimbSteps
        <5> HIDE DEF c
        <5>2. c[i] = IF i = 0 THEN v ELSE IF c[i - 1] = -1 THEN -1 ELSE pred[c[i - 1]]
          BY <4>2, <5>1
        <5> QED BY <5>2 DEF c
      <4>4. CASE i = 0
        BY <3>2, <4>1, <4>3, <4>4 DEF IsWayUp
      <4>5. CASE i # 0
        <5>1. i - 1 \in 0..(k - 1) /\ i - 1 \in 0..k /\ i - 1 \notin Off
          BY <3>1, <4>1, <4>2, <4>5
        <5>2. Climb(v)[i - 1] = f[i - 1] /\ f[i - 1] \in Vertices(g)
          BY <5>1
        <5>3. f[(i - 1) + 1] = pred[f[i - 1]] /\ (i - 1) + 1 = i
          BY <3>2, <4>2, <5>1 DEF IsWayUp
        <5> QED BY <3>3, <4>1, <4>3, <4>5, <5>2, <5>3
      <4> QED BY <4>4, <4>5
    <3>5. k \in 0..k /\ k \in 0..g.n
      BY <3>1, <3>3
    <3>6. Climb(v)[k] = g.source
      BY <3>2, <3>4, <3>5 DEF IsWayUp
    <3> QED BY <2>2, <3>5, <3>6 DEF Chain
  <2> QED BY <2>1, <2>2
<1> QED BY <1>1, AlwaysTree, PTL

-----------------------------------------------------------------------------
(* Walks, and the distances.                                               *)

(* Lengths for the vertices.                                                *)
Lengths(h) == [Vertices(h) -> 0..Infinity]

(* The edges that lead into a vertex are the edges of their tails.          *)
LEMMA IntoEdges ==
  ASSUME NEW h \in Inputs, Verdict(h) = "Ok", NEW v \in Vertices(h), NEW x \in Into(h, v)
  PROVE  /\ x[1] \in Vertices(h) /\ h.weights[x[2]] \in Nat /\ h.indices[x[2]] = v
         /\ x[2] \in h.indptr[x[1]]..(h.indptr[x[1] + 1] - 1)
<1>1. /\ x[1] \in Vertices(h) /\ x[2] \in 0..(Nnz(h) - 1) /\ h.indices[x[2]] = v
      /\ h.indptr[x[1]] <= x[2] /\ x[2] < h.indptr[x[1] + 1]
      /\ Nnz(h) \in Nat /\ h.n \in Nat
  BY DijkstraAssumption DEF Into
<1>2. x[1] \in 0..h.n /\ x[1] + 1 \in 0..h.n
  BY <1>1 DEF Vertices
<1>3. h.indptr[x[1]] \in Int /\ h.indptr[x[1] + 1] \in Int
  BY <1>1, <1>2, Offsets
<1> QED BY <1>1, <1>3, Edges

(* One edge more gives the least of the lengths there are. *)
LEMMA LongerLeast ==
  ASSUME NEW h \in Inputs, Verdict(h) = "Ok", NEW d \in Lengths(h)
  PROVE  /\ Longer(h, d) \in Lengths(h)
         /\ \A v \in Vertices(h) : /\ Longer(h, d)[v] \in LengthsAt(h, d, v)
                                   /\ \A s \in LengthsAt(h, d, v) : Longer(h, d)[v] <= s
<1>1. ASSUME NEW v \in Vertices(h)
      PROVE  /\ LengthsAt(h, d, v) \subseteq 0..Infinity
             /\ LeastOf(LengthsAt(h, d, v)) \in LengthsAt(h, d, v)
             /\ \A s \in LengthsAt(h, d, v) : LeastOf(LengthsAt(h, d, v)) <= s
  <2> DEFINE S == LengthsAt(h, d, v)
  <2>1. d[v] \in S /\ d[v] \in 0..Infinity
    BY DEF LengthsAt, Lengths
  <2>2. ASSUME NEW x \in Into(h, v) PROVE Add(d[x[1]], h.weights[x[2]]) \in 0..Infinity
    <3>1. d[x[1]] \in 0..Infinity /\ h.weights[x[2]] \in Nat
      BY IntoEdges DEF Lengths
    <3> QED BY <3>1, AddType
  <2>3. S \subseteq 0..Infinity
    BY <2>1, <2>2 DEF LengthsAt
  <2>4. S \subseteq Nat /\ S # {}
    BY <2>1, <2>3, DijkstraAssumption
  <2> HIDE DEF S
  <2>5. \E m \in S : \A s \in S : m <= s
    BY <2>4, HasLeast
  <2>6. LeastOf(S) \in S /\ \A s \in S : LeastOf(S) <= s
    BY <2>5, Zenon DEF LeastOf
  <2> QED BY <2>3, <2>6 DEF S
<1>2. \A v \in Vertices(h) : Longer(h, d)[v] = LeastOf(LengthsAt(h, d, v))
  BY DEF Longer
<1>3. Longer(h, d) \in Lengths(h)
  <2>1. \A v \in Vertices(h) : LeastOf(LengthsAt(h, d, v)) \in 0..Infinity
    BY <1>1
  <2> QED BY <2>1 DEF Longer, Lengths
<1> QED BY <1>1, <1>2, <1>3

(* The recursion of Walks. *)
LEMMA WalksSteps ==
  ASSUME NEW h \in Inputs, Verdict(h) = "Ok"
  PROVE  /\ h.n \in Nat \ {0}
         /\ Walks(h) \in [0..(h.n - 1) -> Lengths(h)]
         /\ Walks(h)[0] = StartLengths(h)
         /\ \A k \in 1..(h.n - 1) : Walks(h)[k] = Longer(h, Walks(h)[k - 1])
<1> DEFINE n == h.n - 1
           S == Lengths(h)
           step == [d \in S |-> Longer(h, d)]
<1>1. h.n \in Nat \ {0} /\ n \in Nat
  BY DijkstraAssumption DEF Vertices
<1>2. StartLengths(h) \in S /\ step \in [S -> S]
  BY LongerLeast, DijkstraAssumption DEF StartLengths, Lengths
<1> DEFINE Defines(f) == f = [k \in 0..n |-> IF k = 0 THEN StartLengths(h) ELSE Longer(h, f[k - 1])]
<1>3. PICK f \in [0..n -> S] : Defines(f)
  <2>1. PICK f \in [0..n -> S] : IsIteration(f, n, StartLengths(h), step)
    <3> HIDE DEF n, S, step
    <3> QED BY <1>1, <1>2, Iterates
  <2>2. \A k \in 0..n : k # 0 => step[f[k - 1]] = Longer(h, f[k - 1])
    <3> SUFFICES ASSUME NEW k \in 0..n, k # 0 PROVE step[f[k - 1]] = Longer(h, f[k - 1])
      OBVIOUS
    <3>1. f[k - 1] \in S
      <4> HIDE DEF S
      <4> QED BY <1>1
    <3> HIDE DEF S
    <3> QED BY <3>1
  <2>3. Defines(f)
    <3> HIDE DEF S, step, n
    <3> QED BY <2>1, <2>2 DEF IsIteration
  <2> QED BY <2>3
<1>4. Defines(Walks(h))
  BY <1>3, Zenon DEF Walks
<1> DEFINE w == Walks(h)
<1>5. ASSUME NEW k \in 0..n PROVE w[k] = IF k = 0 THEN StartLengths(h) ELSE Longer(h, w[k - 1])
  <2> HIDE DEF w
  <2> QED BY <1>4 DEF w
<1>6. w = [k \in 0..n |-> w[k]]
  <2>1. Defines(w)
    BY <1>4
  <2> HIDE DEF w
  <2> QED BY <2>1
<1> HIDE DEF w
<1> DEFINE T == {k \in 0..n : w[k] \notin S}
<1>7. T = {}
  <2> SUFFICES ASSUME T # {} PROVE FALSE
    OBVIOUS
  <2>1. PICK k \in T : \A j \in T : k <= j
    <3>1. T \subseteq Nat
      OBVIOUS
    <3> HIDE DEF T
    <3> QED BY <3>1, HasLeast
  <2>2. k # 0
    BY <1>1, <1>2, <1>5, <2>1
  <2>3. k - 1 \in 0..n /\ k - 1 \notin T
    BY <1>1, <2>1, <2>2
  <2>4. w[k - 1] \in S
    BY <2>3
  <2>5. w[k] = Longer(h, w[k - 1])
    BY <1>5, <2>1, <2>2
  <2> QED BY <2>1, <2>4, <2>5, LongerLeast
<1>8. w \in [0..n -> S]
  <2>1. \A k \in 0..n : w[k] \in S
    BY <1>7
  <2> HIDE DEF S, n
  <2> QED BY <1>6, <2>1
<1>9. w[0] = StartLengths(h)
  BY <1>1, <1>5
<1>10. \A k \in 1..n : w[k] = Longer(h, w[k - 1])
  BY <1>1, <1>5
<1> QED BY <1>1, <1>8, <1>9, <1>10 DEF w

(* A longer way stays longer by one edge more.                              *)
LEMMA AddMonotone ==
  ASSUME NEW a \in 0..Infinity, NEW b \in 0..Infinity, NEW w \in Nat, a <= b
  PROVE  Add(a, w) <= Add(b, w) /\ Add(a, w) \in 0..Infinity /\ Add(b, w) \in 0..Infinity
BY DijkstraAssumption DEF Add

(* Lengths that no edge improves are not above those of walks.              *)
LEMMA NotAboveWalks ==
  ASSUME NEW h \in Inputs, Verdict(h) = "Ok", NEW d \in Lengths(h), d[h.source] = 0,
         \A v \in Vertices(h) : \A x \in Into(h, v) : d[v] <= Add(d[x[1]], h.weights[x[2]])
  PROVE  \A k \in 0..(h.n - 1) : \A v \in Vertices(h) : d[v] <= Walks(h)[k][v]
<1> DEFINE w == Walks(h)
<1> DEFINE T == {k \in 0..(h.n - 1) : \E v \in Vertices(h) : ~ (d[v] <= w[k][v])}
<1> SUFFICES ASSUME T # {} PROVE FALSE
  OBVIOUS
<1>1. PICK k \in T : \A j \in T : k <= j
  <2>1. T \subseteq Nat
    OBVIOUS
  <2> HIDE DEF T
  <2> QED BY <2>1, HasLeast
<1>2. PICK v \in Vertices(h) : ~ (d[v] <= w[k][v])
  BY <1>1
<1>3. /\ h.n \in Nat \ {0} /\ w \in [0..(h.n - 1) -> Lengths(h)] /\ w[0] = StartLengths(h)
      /\ Infinity \in Nat
      /\ \A u \in Vertices(h) : d[u] \in 0..Infinity
  BY WalksSteps, DijkstraAssumption DEF Lengths
<1> HIDE DEF w
<1>4. CASE k = 0
  <2>1. w[0][v] = IF v = h.source THEN 0 ELSE Infinity
    BY <1>3 DEF StartLengths
  <2> QED BY <1>2, <1>3, <1>4, <2>1
<1>5. CASE k # 0
  <2>1. k \in 1..(h.n - 1) /\ k - 1 \in 0..(h.n - 1) /\ k - 1 \notin T
    BY <1>1, <1>3, <1>5
  <2>2. \A u \in Vertices(h) : d[u] <= w[k - 1][u]
    BY <2>1
  <2>3. w[k - 1] \in Lengths(h) /\ w[k] = Longer(h, w[k - 1])
    BY <1>3, <2>1, WalksSteps DEF w
  <2>4. w[k][v] \in LengthsAt(h, w[k - 1], v)
    BY <2>3, LongerLeast
  <2>5. CASE w[k][v] = w[k - 1][v]
    BY <1>2, <2>2, <2>5
  <2>6. ASSUME NEW x \in Into(h, v), w[k][v] = Add(w[k - 1][x[1]], h.weights[x[2]]) PROVE FALSE
    <3>1. x[1] \in Vertices(h) /\ h.weights[x[2]] \in Nat
      BY IntoEdges
    <3>2. d[x[1]] <= w[k - 1][x[1]] /\ w[k - 1][x[1]] \in 0..Infinity
      BY <2>2, <2>3, <3>1 DEF Lengths
    <3>3. Add(d[x[1]], h.weights[x[2]]) <= Add(w[k - 1][x[1]], h.weights[x[2]])
      BY <1>3, <3>1, <3>2, AddMonotone
    <3>4. /\ d[v] <= Add(d[x[1]], h.weights[x[2]])
          /\ Add(d[x[1]], h.weights[x[2]]) \in 0..Infinity
          /\ Add(w[k - 1][x[1]], h.weights[x[2]]) \in 0..Infinity
      BY <1>3, <3>1, <3>2, AddMonotone
    <3> QED BY <1>2, <1>3, <2>6, <3>3, <3>4
  <2> QED BY <2>4, <2>5, <2>6 DEF LengthsAt
<1> QED BY <1>4, <1>5

(* More edges never make the walks longer.                                 *)
LEMMA WalksShrink ==
  ASSUME NEW h \in Inputs, Verdict(h) = "Ok", NEW v \in Vertices(h),
         NEW k \in 0..(h.n - 1)
  PROVE  \A m \in k..(h.n - 1) : Walks(h)[m][v] <= Walks(h)[k][v]
<1> DEFINE w == Walks(h)
<1> DEFINE T == {m \in k..(h.n - 1) : ~ (w[m][v] <= w[k][v])}
<1> SUFFICES ASSUME T # {} PROVE FALSE
  OBVIOUS
<1>1. PICK m \in T : \A j \in T : m <= j
  <2>1. T \subseteq Nat
    OBVIOUS
  <2> HIDE DEF T
  <2> QED BY <2>1, HasLeast
<1>2. /\ h.n \in Nat \ {0} /\ Infinity \in Nat
      /\ \A i \in 0..(h.n - 1) : w[i] \in Lengths(h) /\ w[i][v] \in 0..Infinity
  BY WalksSteps, DijkstraAssumption DEF Lengths
<1>3. m # k
  BY <1>1, <1>2
<1>4. /\ m \in 1..(h.n - 1) /\ m - 1 \in 0..(h.n - 1) /\ m - 1 \in k..(h.n - 1) /\ m - 1 \notin T
      /\ m \in 0..(h.n - 1)
  BY <1>1, <1>2, <1>3
<1>5. w[m - 1][v] <= w[k][v]
  BY <1>4
<1>6. w[m][v] <= w[m - 1][v]
  <2>1. w[m] = Longer(h, w[m - 1])
    BY <1>4, WalksSteps
  <2>2. w[m - 1][v] \in LengthsAt(h, w[m - 1], v)
    BY DEF LengthsAt
  <2> HIDE DEF w
  <2> QED BY <1>2, <1>4, <2>1, <2>2, LongerLeast
<1> HIDE DEF w
<1> QED BY <1>1, <1>2, <1>4, <1>5, <1>6

(* The way up from v, walked down, is a walk that the length of v accounts  *)
(* for.                                                                    *)
LEMMA WayIsWalk ==
  ASSUME NEW h \in Inputs, Verdict(h) = "Ok", NEW d \in Lengths(h), d[h.source] = 0,
         NEW p \in [Vertices(h) -> Vertices(h) \cup {-1}],
         \A u \in Vertices(h) : p[u] # -1 =>
           \E x \in Into(h, u) : x[1] = p[u] /\ d[u] = Add(d[p[u]], h.weights[x[2]]),
         NEW v \in Vertices(h),
         NEW k \in 0..(h.n - 1), NEW f \in [0..k -> Vertices(h)],
         IsWayUp(f, k, p, h.source, v)
  PROVE  Walks(h)[k][v] <= d[v]
<1> DEFINE w == Walks(h)
<1> DEFINE T == {i \in 0..k : ~ (w[i][f[k - i]] <= d[f[k - i]])}
<1>1. SUFFICES T = {}
  <2>1. k \in 0..k /\ k - k = 0 /\ f[0] = v
    BY WalksSteps DEF IsWayUp
  <2>2. k \notin T
    BY <1>1
  <2> QED BY <2>1, <2>2
<1> SUFFICES ASSUME T # {} PROVE FALSE
  OBVIOUS
<1>2. PICK i \in T : \A j \in T : i <= j
  <2>1. T \subseteq Nat
    OBVIOUS
  <2> HIDE DEF T
  <2> QED BY <2>1, HasLeast
<1>3. /\ h.n \in Nat \ {0} /\ Infinity \in Nat /\ k \in Nat /\ k < h.n
      /\ \A j \in 0..(h.n - 1) : w[j] \in Lengths(h)
  <2>1. h.n \in Nat \ {0} /\ w \in [0..(h.n - 1) -> Lengths(h)]
    BY WalksSteps
  <2>2. Infinity \in Nat
    BY DijkstraAssumption
  <2>3. k \in Nat /\ k < h.n
    BY <2>1
  <2> HIDE DEF w, T
  <2>4. \A j \in 0..(h.n - 1) : w[j] \in Lengths(h)
    BY <2>1
  <2> QED BY <2>1, <2>2, <2>3, <2>4
<1>4. i \in 0..k /\ ~ (w[i][f[k - i]] <= d[f[k - i]])
  OBVIOUS
<1>5. CASE i = 0
  <2>1. f[k - i] = h.source /\ w[0] = StartLengths(h) /\ h.source \in Vertices(h)
    BY <1>3, <1>5, WalksSteps, DijkstraAssumption DEF IsWayUp
  <2>2. w[0][h.source] = 0
    BY <2>1 DEF StartLengths
  <2> HIDE DEF w
  <2> QED BY <1>4, <1>5, <2>1, <2>2
<1>6. CASE i # 0
  <2>1. /\ i - 1 \in 0..k /\ i - 1 \notin T /\ k - i \in 0..(k - 1) /\ k - i \in 0..k
        /\ k - (i - 1) = (k - i) + 1 /\ (k - i) + 1 \in 0..k
        /\ i - 1 \in 0..(h.n - 1) /\ i \in 1..(h.n - 1)
    BY <1>2, <1>3, <1>4, <1>6
  <2>2. PICK u, t : u = f[k - i] /\ t = f[(k - i) + 1]
    OBVIOUS
  <2>3. u \in Vertices(h) /\ t \in Vertices(h) /\ t = p[u] /\ t # -1
    <3>1. u \in Vertices(h) /\ t \in Vertices(h) /\ t = p[u]
      BY <2>1, <2>2 DEF IsWayUp
    <3> QED BY <1>3, <3>1 DEF Vertices
  <2>4. PICK x \in Into(h, u) : x[1] = t /\ d[u] = Add(d[t], h.weights[x[2]])
    BY <2>3
  <2>5. w[i] = Longer(h, w[i - 1]) /\ w[i - 1] \in Lengths(h)
    BY <1>3, <2>1, WalksSteps
  <2>6. w[i - 1][t] <= d[t]
    BY <2>1, <2>2
  <2> HIDE DEF w, T
  <2>7. PICK b, c \in 0..Infinity, z \in Nat : b = w[i - 1][t] /\ c = d[t] /\ z = h.weights[x[2]] 
    <3>1. h.weights[x[2]] \in Nat
      BY <2>3, IntoEdges
    <3>2. w[i - 1][t] \in 0..Infinity /\ d[t] \in 0..Infinity
      BY <2>3, <2>5 DEF Lengths
    <3> QED BY <3>1, <3>2
  <2>8. w[i][u] <= Add(b, z) /\ w[i][u] \in 0..Infinity
    <3>1. Add(b, z) \in LengthsAt(h, w[i - 1], u)
      BY <2>4, <2>7 DEF LengthsAt
    <3>2. Longer(h, w[i - 1]) \in Lengths(h) /\ Longer(h, w[i - 1])[u] <= Add(b, z)
      BY <2>3, <2>5, <3>1, LongerLeast
    <3> QED BY <2>3, <2>5, <3>2 DEF Lengths
  <2>9. Add(b, z) <= Add(c, z) /\ Add(b, z) \in 0..Infinity /\ Add(c, z) \in 0..Infinity
    BY <2>6, <2>7, AddMonotone
  <2>10. d[u] = Add(c, z)
    BY <2>4, <2>7
  <2>11. w[i][u] <= d[u]
    BY <1>3, <2>8, <2>9, <2>10
  <2> QED BY <1>4, <2>2, <2>11
<1> QED BY <1>5, <1>6

(* A vertex's edges are among those into their heads.                       *)
LEMMA EdgesInto ==
  ASSUME NEW h \in Inputs, Verdict(h) = "Ok", NEW u \in Vertices(h),
         NEW j \in h.indptr[u]..(h.indptr[u + 1] - 1)
  PROVE  /\ h.indices[j] \in Vertices(h)
         /\ <<u, j>> \in Into(h, h.indices[j])
<1>1. h.n \in Nat /\ u \in 0..h.n /\ u + 1 \in 0..h.n
  BY DijkstraAssumption DEF Vertices
<1>2. h.indptr[u] \in Nat /\ h.indptr[u + 1] \in Nat
  <2>1. h.indptr[u] \in 0..Nnz(h) /\ h.indptr[u + 1] \in 0..Nnz(h)
    BY <1>1, Offsets
  <2> QED BY <2>1, DijkstraAssumption
<1>3. j \in Nat /\ h.indptr[u] <= j /\ j < h.indptr[u + 1]
  BY <1>2
<1>4. j \in DOMAIN h.indices /\ h.indices[j] \in Vertices(h)
  BY <1>3, Edges
<1> QED BY <1>3, <1>4 DEF Into

(* dijkstra returns the least lengths of walks, for any graph: distances    *)
(* that are fixed points are not above them, and the tree of predecessors  *)
(* has a walk for each (dijkstra.rs:200-301).                              *)
THEOREM ReturnsDistances == Spec => []FinalDistances
<1>1. ASSUME TreeInv, Certificate PROVE FinalDistances
  <2> SUFFICES ASSUME Returned PROVE dist = WalkLength(g)
    BY DEF FinalDistances, Returned
  <2>1. /\ g \in Inputs /\ Verdict(g) = "Ok" /\ Infinity \in Nat
        /\ dist \in Lengths(g) /\ pred \in [Vertices(g) -> Vertices(g) \cup {-1}]
        /\ dist[g.source] = 0
        /\ g.source \in Vertices(g)
    BY <1>1, DijkstraAssumption DEF TreeInv, Tree, Lengths
  <2>2. /\ g.n \in Nat \ {0} /\ g.n - 1 \in 0..(g.n - 1)
        /\ WalkLength(g) \in Lengths(g)
    <3>1. g.n \in Nat \ {0} /\ Walks(g) \in [0..(g.n - 1) -> Lengths(g)]
      BY <2>1, WalksSteps
    <3> QED BY <3>1 DEF WalkLength
  <2>3. \A u \in Vertices(g) : \A x \in Into(g, u) : dist[u] <= Add(dist[x[1]], g.weights[x[2]])
    <3> TAKE u \in Vertices(g)
    <3> TAKE x \in Into(g, u)
    <3>1. x[1] \in Vertices(g) /\ g.indices[x[2]] = u /\ x[2] \in EdgesOf(x[1])
      BY <2>1, IntoEdges DEF EdgesOf
    <3>2. Relaxed(x[1], x[2])
      BY <1>1, <3>1 DEF Certificate
    <3> QED BY <3>1, <3>2 DEF Relaxed
  <2>4. \A u \in Vertices(g) : pred[u] # -1 =>
          \E x \in Into(g, u) : x[1] = pred[u] /\ dist[u] = Add(dist[pred[u]], g.weights[x[2]])
    <3> SUFFICES ASSUME NEW u \in Vertices(g), pred[u] # -1
                 PROVE  \E x \in Into(g, u) :
                          x[1] = pred[u] /\ dist[u] = Add(dist[pred[u]], g.weights[x[2]])
      OBVIOUS
    <3>1. PICK j \in EdgesOf(pred[u]) :
            g.indices[j] = u /\ dist[u] = Add(dist[pred[u]], g.weights[j])
      BY <1>1 DEF Certificate, PredTight
    <3>2. <<pred[u], j>> \in Into(g, u)
      BY <2>1, <3>1, EdgesInto DEF EdgesOf
    <3> QED BY <3>1, <3>2
  <2>5. ASSUME NEW v \in Vertices(g) PROVE dist[v] <= WalkLength(g)[v]
    BY <2>1, <2>2, <2>3, NotAboveWalks DEF WalkLength
  <2>6. ASSUME NEW v \in Vertices(g) PROVE WalkLength(g)[v] <= dist[v]
    <3>1. CASE dist[v] = Infinity
      BY <2>1, <2>2, <3>1 DEF Lengths
    <3>2. CASE dist[v] # Infinity
      <4>1. PICK k \in Nat : k < g.n /\ \E f \in [0..k -> Vertices(g)] : IsWayUp(f, k, pred, g.source, v)
        BY <1>1, <3>2, WayUp
      <4>2. PICK f \in [0..k -> Vertices(g)] : IsWayUp(f, k, pred, g.source, v)
        BY <4>1
      <4>3. k \in 0..(g.n - 1) /\ g.n - 1 \in k..(g.n - 1)
        BY <2>2, <4>1
      <4>4. Walks(g)[k][v] <= dist[v]
        BY <2>1, <2>4, <4>2, <4>3, WayIsWalk
      <4>5. Walks(g)[g.n - 1][v] <= Walks(g)[k][v]
        BY <2>1, <4>3, WalksShrink
      <4>6. /\ Walks(g)[g.n - 1][v] \in 0..Infinity /\ Walks(g)[k][v] \in 0..Infinity
            /\ dist[v] \in 0..Infinity
        <5>1. Walks(g) \in [0..(g.n - 1) -> Lengths(g)]
          BY <2>1, WalksSteps
        <5>2. Walks(g)[g.n - 1] \in Lengths(g) /\ Walks(g)[k] \in Lengths(g)
          BY <2>2, <4>3, <5>1
        <5> QED BY <2>1, <5>2 DEF Lengths
      <4> QED BY <2>1, <4>4, <4>5, <4>6 DEF WalkLength
    <3> QED BY <3>1, <3>2
  <2>7. \A v \in Vertices(g) : dist[v] = WalkLength(g)[v]
    <3> TAKE v \in Vertices(g)
    <3>1. dist[v] \in 0..Infinity /\ WalkLength(g)[v] \in 0..Infinity
      BY <2>1, <2>2 DEF Lengths
    <3> QED BY <2>1, <2>5, <2>6, <3>1
  <2> QED BY <2>1, <2>2, <2>7 DEF Lengths
<1> QED BY <1>1, AlwaysTree, Certified, PTL

-----------------------------------------------------------------------------
(* The room in the heap.                                                   *)

(* The slices of the edges do not overlap. *)
LEMMA OffsetsRise ==
  ASSUME NEW h \in Inputs, Verdict(h) = "Ok", NEW u \in 0..h.n
  PROVE  \A v \in u..h.n : h.indptr[u] <= h.indptr[v]
<1> DEFINE T == {v \in u..h.n : ~ (h.indptr[u] <= h.indptr[v])}
<1> SUFFICES ASSUME T # {} PROVE FALSE
  OBVIOUS
<1>1. h.n \in Nat /\ \A v \in 0..h.n : h.indptr[v] \in Int
  <2>1. h.n \in Nat /\ Nnz(h) \in Nat
    BY DijkstraAssumption
  <2> QED BY <2>1, Offsets
<1>2. PICK v \in T : \A x \in T : v <= x
  <2>1. T \subseteq Nat
    BY <1>1
  <2> HIDE DEF T
  <2> QED BY <2>1, HasLeast
<1>3. v # u
  BY <1>1, <1>2
<1>4. v \in 1..h.n /\ v - 1 \in u..h.n /\ v - 1 \notin T /\ v - 1 \in 0..h.n /\ v \in 0..h.n
  BY <1>1, <1>2, <1>3
<1>5. h.indptr[v - 1] <= h.indptr[v]
  BY <1>4, Checked DEF WellStructured
<1>6. h.indptr[u] <= h.indptr[v - 1]
  BY <1>4
<1> QED BY <1>1, <1>2, <1>4, <1>5, <1>6

(* No edge has two tails.                                                   *)
LEMMA OneTail ==
  ASSUME NEW h \in Inputs, Verdict(h) = "Ok", NEW u \in Vertices(h), NEW v \in Vertices(h),
         NEW j \in h.indptr[u]..(h.indptr[u + 1] - 1), j \in h.indptr[v]..(h.indptr[v + 1] - 1)
  PROVE  u = v
<1>1. /\ h.n \in Nat /\ {u, v, u + 1, v + 1} \subseteq 0..h.n
      /\ Nnz(h) \in Nat
  BY DijkstraAssumption DEF Vertices
<1>2. /\ h.indptr[u] \in Int /\ h.indptr[u + 1] \in Int
      /\ h.indptr[v] \in Int /\ h.indptr[v + 1] \in Int
  BY <1>1, Offsets
<1>3. CASE u < v
  <2>1. v \in (u + 1)..h.n
    BY <1>1, <1>3
  <2>2. h.indptr[u + 1] <= h.indptr[v]
    BY <1>1, <2>1, OffsetsRise
  <2> QED BY <1>2, <2>2
<1>4. CASE v < u
  <2>1. u \in (v + 1)..h.n
    BY <1>1, <1>4
  <2>2. h.indptr[v + 1] <= h.indptr[u]
    BY <1>1, <2>1, OffsetsRise
  <2> QED BY <1>2, <2>2
<1> QED BY <1>1, <1>3, <1>4

(* The entries that edges account for are not more than one for each edge,  *)
(* and the first.                                                          *)
LEMMA AccountedFew ==
  ASSUME IInv, pc # "idle", \A x \in heap : Accounted(x)
  PROVE  IsFiniteSet(heap) /\ Cardinality(heap) <= Nnz(g) + 1
<1>1. /\ g \in Inputs /\ Verdict(g) = "Ok" /\ Nnz(g) \in Nat /\ DOMAIN g.indices = 0..(Nnz(g) - 1)
      /\ heap \subseteq (0..Infinity) \X Vertices(g)
  BY RunFacts, DijkstraAssumption
<1>2. IsFiniteSet(DOMAIN g.indices) /\ Cardinality(DOMAIN g.indices) = Nnz(g)
  <2>1. 0 \in Int /\ Nnz(g) - 1 \in Int
    BY <1>1
  <2>2. IsFiniteSet(0..(Nnz(g) - 1))
    BY <2>1, FS_Interval, Zenon
  <2> QED BY <1>1, <2>2 DEF Nnz
<1> DEFINE E == DOMAIN g.indices
           Tail(j) == CHOOSE u \in Vertices(g) : j \in EdgesOf(u)
           Entry(j) == <<Add(dist[Tail(j)], g.weights[j]), g.indices[j]>>
           Entries == {Entry(j) : j \in E}
           f == [j \in E |-> Entry(j)]
           H == heap \ {<<0, g.source>>}
<1>3. f \in Surjection(E, Entries)
  <2>1. f \in [E -> Entries]
    OBVIOUS
  <2>2. \A t \in Entries : \E j \in E : f[j] = t
    OBVIOUS
  <2> HIDE DEF f, E, Entries
  <2> QED BY <2>1, <2>2 DEF Surjection
<1>4. IsFiniteSet(Entries) /\ Cardinality(Entries) <= Nnz(g)
  <2> HIDE DEF Entries, f
  <2> QED BY <1>2, <1>3, FS_Surjection
<1>5. H \subseteq Entries
  <2> SUFFICES ASSUME NEW x \in H PROVE x \in Entries
    OBVIOUS
  <2>0. PICK u \in Vertices(g) : \E j \in EdgesOf(u) :
          g.indices[j] = x[2] /\ x[1] = Add(dist[u], g.weights[j])
    BY DEF Accounted
  <2>1. PICK j \in EdgesOf(u) : g.indices[j] = x[2] /\ x[1] = Add(dist[u], g.weights[j])
    BY <2>0
  <2>2. j \in E
    BY <1>1, <2>1, EdgesInto DEF EdgesOf, Into
  <2>3. Tail(j) = u
    <3>1. Tail(j) \in Vertices(g) /\ j \in EdgesOf(Tail(j))
      BY <2>1, Zenon
    <3> HIDE DEF Tail
    <3> QED BY <1>1, <2>1, <3>1, OneTail DEF EdgesOf
  <2>4. x = Entry(j)
    <3>1. x = <<x[1], x[2]>>
      BY <1>1
    <3> HIDE DEF Tail
    <3> QED BY <2>1, <2>3, <3>1
  <2> HIDE DEF Entry, E
  <2> QED BY <2>2, <2>4
<1>6. IsFiniteSet(H) /\ Cardinality(H) <= Nnz(g) /\ Cardinality(H) \in Nat
  <2> HIDE DEF H, Entries
  <2>1. IsFiniteSet(H) /\ Cardinality(H) <= Cardinality(Entries)
    BY <1>4, <1>5, FS_Subset
  <2>2. Cardinality(H) \in Nat /\ Cardinality(Entries) \in Nat
    BY <1>4, <2>1, FS_CardinalityType
  <2> QED BY <1>1, <1>4, <2>1, <2>2
<1>7. CASE <<0, g.source>> \in heap
  <2>1. heap = H \cup {<<0, g.source>>} /\ <<0, g.source>> \notin H
    BY <1>7
  <2> HIDE DEF H
  <2>2. IsFiniteSet(heap) /\ Cardinality(heap) = Cardinality(H) + 1
    BY <1>6, <2>1, FS_AddElement
  <2> QED BY <1>1, <1>6, <2>2
<1>8. CASE <<0, g.source>> \notin heap
  <2>1. heap = H
    BY <1>8
  <2> HIDE DEF H
  <2> QED BY <1>1, <1>6, <2>1
<1> QED BY <1>7, <1>8

(* An empty array gets room for an entry for each edge and one more.        *)
LEMMA FreshCapacity ==
  ASSUME NEW h \in Inputs
  PROVE  ResetCapacity(0, h) > Nnz(h)
<1> DEFINE x == Nnz(h) + 1
           S == {x, 0, LeastCapacity}
           top == CHOOSE m \in S : \A k \in S : m >= k
<1>1. Nnz(h) \in Nat /\ LeastCapacity \in Nat /\ Nnz(h) + 1 - 0 = x /\ 2 * 0 = 0
  BY DijkstraAssumption
<1>2. ResetCapacity(0, h) = top
  BY <1>1 DEF ResetCapacity, Reserve
<1>3. \E m \in S : \A k \in S : m >= k
  BY <1>1
<1>4. top \in S /\ top >= x
  BY <1>3
<1> HIDE DEF top
<1> QED BY <1>1, <1>2, <1>4

(* Every entry stays accounted for: what is improved is above the frontier, *)
(* and the tails of the edges that account for entries are not.            *)
LEMMA CapacityStep ==
  ASSUME IInv, CapacityInv, [Next]_vars
  PROVE  CapacityInv'
<1>1. CASE Call
  <2>1. pc = "idle" /\ calls' = calls + 1 /\ calls \in Nat /\ heap = {}
    BY <1>1, DijkstraAssumption DEF Call, CapacityInv, IInv, TypeOK
  <2>2. PICK h \in Inputs : g' = h /\ (Reject(h) \/ Start(h))
    BY <1>1 DEF Call
  <2>3. CASE Reject(h)
    BY <2>1, <2>3 DEF Reject, CapacityInv
  <2>4. CASE Start(h)
    <3>1. /\ pc' = "pop" /\ heap' = {<<0, h.source>>} /\ capacity' = ResetCapacity(capacity, h)
      BY <2>4 DEF Start
    <3>2. calls' = 1 => capacity' > Nnz(h)
      BY <2>1, <3>1, FreshCapacity DEF CapacityInv
    <3>3. \A x \in heap' : Accounted(x)'
      BY <2>2, <3>1 DEF Accounted
    <3> QED BY <2>1, <2>2, <3>1, <3>2, <3>3 DEF CapacityInv
  <2> QED BY <2>2, <2>3, <2>4
<1>2. CASE PopStale \/ PopLive \/ RelaxWorse \/ Expanded \/ Return
  <2>1. /\ pc # "idle" /\ UNCHANGED <<g, calls, dist, capacity>> /\ heap' \subseteq heap
        /\ \/ pc' = "idle" /\ heap' = {}
           \/ pc' = "pop"
           \/ pc = "relax" /\ pc' = "relax" /\ cur' = cur
           \/ pc' = "relax" /\ cur' \in heap
    BY <1>2 DEF PopStale, PopLive, RelaxWorse, Expanded, Return, outputs
  <2>2. ASSUME NEW x \in heap', pc' # "idle" PROVE Accounted(x)'
    <3>1. Accounted(x)
      BY <2>1, <2>2 DEF CapacityInv
    <3>2. CASE x = <<0, g.source>>
      BY <2>1, <3>2 DEF Accounted
    <3>3. CASE x # <<0, g.source>>
      <4>1. PICK u \in Vertices(g) :
              /\ \E j \in EdgesOf(u) : g.indices[j] = x[2] /\ x[1] = Add(dist[u], g.weights[j])
              /\ \A y \in heap : dist[u] <= y[1]
              /\ pc = "relax" => dist[u] <= cur[1]
        BY <3>1, <3>3 DEF Accounted
      <4>2. pc' = "relax" => dist[u] <= cur'[1]
        BY <2>1, <4>1
      <4> QED BY <2>1, <4>1, <4>2 DEF Accounted, EdgesOf
    <3> QED BY <3>2, <3>3
  <2> QED BY <2>1, <2>2 DEF CapacityInv
<1>3. CASE RelaxBetter
  <2>1. PICK v, p \in Vertices(g), c, d \in 0..Infinity :
           /\ p # v /\ cur[1] = d /\ dist[p] = d /\ d <= c /\ c < dist[v]
           /\ e \in EdgesOf(p) /\ g.indices[e] = v /\ c = Add(d, g.weights[e])
           /\ pc = "relax" /\ pc' = "relax"
           /\ UNCHANGED <<g, calls, capacity, cur>>
           /\ dist' = [dist EXCEPT ![v] = c]
           /\ heap' = heap \cup {<<c, v>>}
    BY <1>3, Improvement
  <2>2. /\ dist \in [Vertices(g) -> 0..Infinity] /\ Infinity \in Nat
        /\ Frontier
    BY <2>1, RunFacts
  <2>3. \A u \in Vertices(g) : dist'[u] = IF u = v THEN c ELSE dist[u]
    BY <2>1, <2>2
  <2>4. ASSUME NEW x \in heap' PROVE Accounted(x)'
    <3>1. CASE x = <<c, v>>
      <4>1. dist'[p] = d
        BY <2>1, <2>3
      <4>2. \A y \in heap' : d <= y[1]
        BY <2>1, <2>2 DEF Frontier
      <4>3. e \in EdgesOf(p)' /\ g'.indices[e] = x[2] /\ x[1] = Add(dist'[p], g'.weights[e])
        BY <2>1, <3>1, <4>1 DEF EdgesOf
      <4> QED BY <2>1, <2>2, <4>1, <4>2, <4>3 DEF Accounted
    <3>2. CASE x \in heap
      <4>1. CASE x = <<0, g.source>>
        BY <2>1, <4>1 DEF Accounted
      <4>2. CASE x # <<0, g.source>>
        <5>1. Accounted(x)
          BY <2>1, <3>2 DEF CapacityInv
        <5>2. PICK u \in Vertices(g) :
                /\ \E j \in EdgesOf(u) : g.indices[j] = x[2] /\ x[1] = Add(dist[u], g.weights[j])
                /\ \A y \in heap : dist[u] <= y[1]
                /\ dist[u] <= d
          BY <2>1, <4>2, <5>1 DEF Accounted
        <5>3. u # v /\ dist'[u] = dist[u]
          BY <2>1, <2>2, <2>3, <5>2
        <5>4. \A y \in heap' : dist[u] <= y[1]
          BY <2>1, <2>2, <5>2
        <5> QED BY <2>1, <5>2, <5>3, <5>4 DEF Accounted, EdgesOf
      <4> QED BY <4>1, <4>2
    <3> QED BY <2>1, <3>1, <3>2
  <2> QED BY <2>1, <2>4 DEF CapacityInv
<1>4. CASE UNCHANGED vars
  BY <1>4 DEF vars, outputs, CapacityInv, Accounted, EdgesOf
<1> QED BY <1>1, <1>2, <1>3, <1>4 DEF Next, Run

(* A heap that no call used before has room for every push without a check *)
(* (dijkstra.rs:58-62), whatever the graph.                                *)
THEOREM RoomInFirstCall == Spec => [](calls <= 1 => WithinCapacity)
<1>1. Init => CapacityInv
  BY DEF Init, CapacityInv
<1>2. Spec => []CapacityInv
  BY <1>1, CapacityStep, Inductive, PTL DEF Spec
<1>3. ASSUME IInv, CapacityInv, calls <= 1 PROVE WithinCapacity
  <2>1. calls \in 0..1 /\ capacity \in Nat
    BY <1>3 DEF IInv, TypeOK
  <2>2. CASE pc = "idle"
    <3>1. heap = {} /\ Cardinality(heap) = 0
      BY <1>3, <2>2, FS_EmptySet DEF CapacityInv
    <3> QED BY <2>1, <3>1 DEF WithinCapacity
  <2>3. CASE pc # "idle"
    <3>1. calls = 1 /\ capacity > Nnz(g) /\ \A x \in heap : Accounted(x)
      BY <1>3, <2>1, <2>3 DEF CapacityInv
    <3>2. IsFiniteSet(heap) /\ Cardinality(heap) <= Nnz(g) + 1
      BY <1>3, <2>3, <3>1, AccountedFew
    <3>3. Cardinality(heap) \in Nat /\ Nnz(g) \in Nat
      BY <1>3, <2>3, <3>2, FS_CardinalityType, RunFacts, DijkstraAssumption
    <3> QED BY <2>1, <3>1, <3>2, <3>3 DEF WithinCapacity
  <2> QED BY <2>2, <2>3
<1> QED BY <1>2, <1>3, Inductive, PTL

=============================================================================
