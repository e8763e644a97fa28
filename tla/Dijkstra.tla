------------------------------ MODULE Dijkstra ------------------------------
(***************************************************************************)
(* dijkstra.rs: Dijkstra's algorithm with lazy deletion, which checks its  *)
(* arrays once and then reads them and pushes to its heap without checks   *)
(* of their bounds.                                                        *)
(*                                                                         *)
(* The heap is what Heap4 implements: a set of entries, of which one with  *)
(* a least key is popped.  No entry is ever pushed twice in one run, for   *)
(* each that is pushed improves its vertex.                                *)
(***************************************************************************)
EXTENDS CsrArrays

CONSTANTS
  Inputs,         (* The graphs, well formed or not, with a source each.   *)
  LeastCapacity,  (* The least capacity that an array ever grows to.       *)
  MaxCalls        (* Bound: the calls that share the caller's heap.        *)

VARIABLES
  g,              (* The graph of the last call.                           *)
  calls,          (* How many calls were made.                             *)
  result,         (* What the last call returned.                          *)
  pc,
  dist, pred,     (* The outputs.                                          *)
  heap,           (* Its entries <<key, val>>.                             *)
  capacity,       (* How many entries its arrays have room for.            *)
  cur,            (* The entry being expanded.                             *)
  e               (* The next edge of it.                                  *)

outputs == <<dist, pred>>
vars == <<g, calls, result, pc, outputs, heap, capacity, cur, e>>

-----------------------------------------------------------------------------
(* What the caller guarantees of the arrays of a graph (dijkstra.rs:210).   *)
ASSUME DijkstraAssumption ==
  /\ Infinity \in Nat \ {0} /\ LeastCapacity \in Nat /\ MaxCalls \in Nat
  /\ NaN \notin Int
  /\ \A h \in Inputs :
       /\ h.n \in Nat /\ h.source \in Vertices(h)
       /\ Nnz(h) \in Nat
       /\ h.indices \in [0..(Nnz(h) - 1) -> Int]
       /\ h.weights \in [0..(Nnz(h) - 1) -> Int \cup {NaN}]
       /\ h.indptr \in [DOMAIN h.indptr -> Int]

-----------------------------------------------------------------------------
(* The algorithm.                                                           *)

(* A sum of two lengths, which overflows to infinity. *)
Add(d, w) == IF d + w < Infinity THEN d + w ELSE Infinity

(* The capacity of an empty vector after reserve(additional), which the    *)
(* standard library grows to twice what it was at least.                   *)
Reserve(c, additional) ==
  IF c >= additional THEN c
  ELSE CHOOSE m \in {additional, 2 * c, LeastCapacity} :
         \A k \in {additional, 2 * c, LeastCapacity} : m >= k

(* Mutant: as if the heap held every vertex once. *)
ReserveVertices(c, h) == IF c < h.n THEN Reserve(c, h.n - c) ELSE c

(* reset_with_capacity(nnz + 1), of a heap just emptied. *)
ResetCapacity(c, h) == IF c < Nnz(h) + 1 THEN Reserve(c, Nnz(h) + 1 - c) ELSE c

NoGraph == [n |-> 0, indptr |-> [j \in {0} |-> 0], indices |-> [j \in {} |-> 0],
            weights |-> [j \in {} |-> 0], source |-> 0]

Init ==
  /\ g = NoGraph
  /\ calls = 0
  /\ result = "Ok"
  /\ pc = "idle"
  /\ dist = [v \in {} |-> 0] /\ pred = [v \in {} |-> 0]
  /\ heap = {}
  /\ capacity = 0
  /\ cur = <<0, 0>>
  /\ e = 0

Reject(h) ==
  /\ Verdict(h) # "Ok"
  /\ result' = Verdict(h)
  /\ UNCHANGED <<pc, outputs, heap, capacity, cur, e>>

Start(h) ==
  /\ Verdict(h) = "Ok"
  /\ dist' = [v \in Vertices(h) |-> IF v = h.source THEN 0 ELSE Infinity]
  /\ pred' = [v \in Vertices(h) |-> -1]
  /\ heap' = {<<0, h.source>>}
  /\ capacity' = ResetCapacity(capacity, h)
  /\ pc' = "pop"
  /\ UNCHANGED <<result, cur, e>>

Call ==
  /\ pc = "idle" /\ calls < MaxCalls
  /\ calls' = calls + 1
  /\ \E h \in Inputs : g' = h /\ (Reject(h) \/ Start(h))

IsLeast(x) == x \in heap /\ \A y \in heap : x[1] <= y[1]

(* Mutant: stale also when it is as good as what is known. *)
IsStaleOrEqual(x) == x[1] >= dist[x[2]]

IsStale(x) == x[1] > dist[x[2]]

PopStale ==
  /\ pc = "pop"
  /\ \E x \in heap : IsLeast(x) /\ IsStale(x) /\ heap' = heap \ {x}
  /\ UNCHANGED <<g, calls, result, pc, outputs, capacity, cur, e>>

PopLive ==
  /\ pc = "pop"
  /\ \E x \in heap :
       /\ IsLeast(x) /\ ~ IsStale(x)
       /\ heap' = heap \ {x}
       /\ cur' = x
       /\ e' = g.indptr[x[2]]
  /\ pc' = "relax"
  /\ UNCHANGED <<g, calls, result, outputs, capacity>>

End == g.indptr[cur[2] + 1]
Head == g.indices[e]
Candidate == Add(cur[1], g.weights[e])

(* Mutant: a tie is taken, too. *)
ImprovesOrTies == Candidate <= dist[Head]

Improves == Candidate < dist[Head]

RelaxBetter ==
  /\ pc = "relax" /\ e < End
  /\ Improves
  /\ dist' = [dist EXCEPT ![Head] = Candidate]
  /\ pred' = [pred EXCEPT ![Head] = cur[2]]
  /\ heap' = heap \cup {<<Candidate, Head>>}
  /\ e' = e + 1
  /\ UNCHANGED <<g, calls, result, pc, capacity, cur>>

RelaxWorse ==
  /\ pc = "relax" /\ e < End
  /\ ~ Improves
  /\ e' = e + 1
  /\ UNCHANGED <<g, calls, result, pc, outputs, heap, capacity, cur>>

Expanded ==
  /\ pc = "relax" /\ e >= End
  /\ pc' = "pop"
  /\ UNCHANGED <<g, calls, result, outputs, heap, capacity, cur, e>>

Return ==
  /\ pc = "pop" /\ heap = {}
  /\ pc' = "idle"
  /\ result' = "Ok"
  /\ UNCHANGED <<g, calls, outputs, heap, capacity, cur, e>>

Run == PopStale \/ PopLive \/ RelaxBetter \/ RelaxWorse \/ Expanded \/ Return

Next == Call \/ Run

Spec == Init /\ [][Next]_vars

(* A call runs until it returns. *)
FairSpec == Spec /\ WF_vars(Run)

-----------------------------------------------------------------------------

TypeOK ==
  /\ result \in {"Ok", "NegativeWeight", "MalformedCsr"}
  /\ pc \in {"idle", "pop", "relax"}
  /\ calls \in 0..MaxCalls
  /\ capacity \in Nat
  /\ pc # "idle" =>
       /\ dist \in [Vertices(g) -> 0..Infinity]
       /\ pred \in [Vertices(g) -> Vertices(g) \cup {-1}]
       /\ heap \subseteq (0..Infinity) \X Vertices(g)
       /\ pc = "relax" => cur \in (0..Infinity) \X Vertices(g)

(* The unchecked reads are within the arrays, whatever the graph is: of    *)
(* the offsets of each vertex that is popped, of each edge that is next    *)
(* and of its head (dijkstra.rs:254-257).                                  *)
InBounds ==
  /\ pc = "pop" => \A x \in heap : {x[2], x[2] + 1} \subseteq DOMAIN g.indptr
  /\ pc = "relax" /\ e < End =>
       /\ e \in DOMAIN g.indices \cap DOMAIN g.weights
       /\ Head \in DOMAIN dist

(* Each unchecked push finds room (dijkstra.rs:58-62): the entries never    *)
(* outnumber the slots that were reserved before the first.                *)
WithinCapacity == Cardinality(heap) <= capacity

EdgesOf(u) == g.indptr[u]..(g.indptr[u + 1] - 1)

(* The edge j of u leads to no better length. *)
Relaxed(u, j) == dist[g.indices[j]] <= Add(dist[u], g.weights[j])

PredTight ==
  \A v \in Vertices(g) : pred[v] # -1 =>
    \E j \in EdgesOf(pred[v]) :
      g.indices[j] = v /\ dist[v] = Add(dist[pred[v]], g.weights[j])

Returned == pc = "idle" /\ calls > 0 /\ result = "Ok"

(* What is returned certifies itself: no edge improves a length, and each  *)
(* vertex that has a predecessor gets its length by an edge from it, which *)
(* lowering the predecessor's own length later would belie                 *)
(* (dijkstra.rs:262-280).                                                  *)
Certificate ==
  Returned => PredTight /\ \A u \in Vertices(g) : \A j \in EdgesOf(u) : Relaxed(u, j)

(* What is known of the graph and the place in it while a call runs. *)
Running ==
  /\ pc # "idle" => g \in Inputs /\ Verdict(g) = "Ok"
  /\ pc = "relax" => e \in Nat /\ g.indptr[cur[2]] <= e

(* A vertex that was reached is in the heap at its length, or its edges     *)
(* are relaxed, as far as the loop has come.                               *)
Pending ==
  \A u \in Vertices(g) :
    \/ dist[u] = Infinity
    \/ <<dist[u], u>> \in heap
    \/ \A j \in EdgesOf(u) : (pc = "relax" /\ u = cur[2] /\ j >= e) \/ Relaxed(u, j)

(* Nothing in the heap is below what was expanded, which stays as it is.    *)
Frontier ==
  /\ \A x \in heap : dist[x[2]] <= x[1]
  /\ \A v \in Vertices(g) : pred[v] # -1 => \A x \in heap : dist[pred[v]] <= x[1]
  /\ pc = "relax" =>
       /\ dist[cur[2]] = cur[1]
       /\ \A x \in heap : cur[1] <= x[1]
       /\ \A v \in Vertices(g) : pred[v] # -1 => dist[pred[v]] <= cur[1]

Expanding == pc # "idle" => Pending /\ Frontier /\ PredTight

IInv == TypeOK /\ Running /\ InBounds /\ Expanding /\ Certificate

(* v is in each set that holds the source and all whose predecessors it     *)
(* holds: the predecessors lead from v to the source.                      *)
Rooted(v) ==
  \A T \in SUBSET Vertices(g) :
    g.source \in T /\ (\A u \in Vertices(g) : pred[u] \in T => u \in T) => v \in T

(* The vertices that were reached are a tree with the source as its root.  *)
Tree ==
  /\ dist[g.source] = 0 /\ pred[g.source] = -1
  /\ \A v \in Vertices(g) \ {g.source} : dist[v] = Infinity <=> pred[v] = -1
  /\ \A v \in Vertices(g) : dist[v] # Infinity => Rooted(v)

TreeInv ==
  pc # "idle" \/ Returned =>
    /\ g \in Inputs /\ Verdict(g) = "Ok"
    /\ dist \in [Vertices(g) -> 0..Infinity]
    /\ pred \in [Vertices(g) -> Vertices(g) \cup {-1}]
    /\ Tree

(* The entry x is the first, or some edge from a vertex that was expanded   *)
(* accounts for it still: that vertex is not above the frontier.           *)
Accounted(x) ==
  \/ x = <<0, g.source>>
  \/ \E u \in Vertices(g) :
       /\ \E j \in EdgesOf(u) : g.indices[j] = x[2] /\ x[1] = Add(dist[u], g.weights[j])
       /\ \A y \in heap : dist[u] <= y[1]
       /\ pc = "relax" => dist[u] <= cur[1]

(* In the first call there is room for an entry for each edge and one more. *)
CapacityInv ==
  /\ pc = "idle" => heap = {}
  /\ calls = 0 => pc = "idle" /\ capacity = 0
  /\ pc # "idle" =>
       /\ calls = 1 => capacity > Nnz(g)
       /\ \A x \in heap : Accounted(x)

(* The edges into v, each with its tail. *)
Into(h, v) ==
  {x \in Vertices(h) \X DOMAIN h.indices :
     /\ h.indices[x[2]] = v
     /\ h.indptr[x[1]] <= x[2] /\ x[2] < h.indptr[x[1] + 1]}

StartLengths(h) == [v \in Vertices(h) |-> IF v = h.source THEN 0 ELSE Infinity]

(* The lengths d, and those that one edge more gives, at v. *)
LengthsAt(h, d, v) == {d[v]} \cup {Add(d[x[1]], h.weights[x[2]]) : x \in Into(h, v)}

LeastOf(S) == CHOOSE m \in S : \A s \in S : m <= s

Longer(h, d) == [v \in Vertices(h) |-> LeastOf(LengthsAt(h, d, v))]

(* For each k below n the least lengths of walks from the source, of at     *)
(* most k edges: edge after edge, without a queue.                         *)
Walks(h) ==
  LET least[k \in 0..(h.n - 1)] ==
        IF k = 0 THEN StartLengths(h) ELSE Longer(h, least[k - 1])
  IN  least

WalkLength(h) == Walks(h)[h.n - 1]

(* What is returned are the distances. *)
FinalDistances ==
  pc = "idle" /\ calls > 0 /\ result = "Ok" => dist = WalkLength(g)

(* What is met on going from v to predecessors, in each of n steps. *)
Climb(v) ==
  LET up[k \in 0..g.n] == IF k = 0 THEN v
                          ELSE IF up[k - 1] = -1 THEN -1 ELSE pred[up[k - 1]]
  IN  up

Chain(v) == {Climb(v)[k] : k \in 0..g.n}

(* At any time the vertices that were reached, and only they, have a        *)
(* predecessor, and the way up ends at the source, though edges of length  *)
(* 0 may form cycles.                                                      *)
PredTree ==
  pc # "idle" =>
    \A v \in Vertices(g) \ {g.source} :
      IF dist[v] = Infinity THEN pred[v] = -1 ELSE g.source \in Chain(v)

(* Every call returns. *)
Termination == (pc # "idle") ~> (pc = "idle")

=============================================================================
