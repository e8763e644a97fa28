---------------------------- MODULE VariantEngine ----------------------------
(***************************************************************************)
(* variants/engine.rs: the fork of BMSSP that the variants configure.      *)
(*                                                                         *)
(* The fork repeats most of bmssp.rs, and what it repeats is taken from    *)
(* Bmssp.  What differs is here: FindPivots stops when its frontier is     *)
(* empty or, if lazy, when it no longer shrinks, with a lower threshold;   *)
(* a call of a low level or with a small S runs a bounded Dijkstra from    *)
(* all of S, without the cap on its size; and the assertions are gone.     *)
(* The parameters of a run include its Config.                             *)
(*                                                                         *)
(* With the transform turned off the graph is the caller's; of its         *)
(* parallel edges only a lightest one is modelled.                         *)
(***************************************************************************)
EXTENDS Bmssp

ASSUME ConfigAssumption ==
  \A p \in Params :
    /\ p.hybrid_max_level \in Nat \cup {-1}
    /\ p.hybrid_frontier \in Nat
    /\ p.lazy_pivots \in BOOLEAN

(* A fact of arithmetic of which the provers know nothing. *)
ASSUME PowersAssumption ==
  \A p \in Params : \A l \in 0..p.l : 2^(l * p.t) \in Nat \ {0}

(* A frame, with the size of the frontier that FindPivots relaxes from. *)
Frame(f, width) ==
  [x \in DOMAIN f \cup {"width"} |-> IF x = "width" THEN width ELSE f[x]]

(* Mutant: the oracle at large frontiers. *)
UsesDijkstraAbove(l, S) ==
  \/ l <= prm.hybrid_max_level
  \/ prm.hybrid_frontier > 0 /\ Cardinality(S) >= prm.hybrid_frontier

UsesDijkstra(l, S) ==
  \/ l <= prm.hybrid_max_level
  \/ prm.hybrid_frontier > 0 /\ Cardinality(S) <= prm.hybrid_frontier

(* bmssp: the oracle, the base case, or FindPivots and the loop.  Neither   *)
(* of the first two has popped anything yet.                               *)
EngineCall(l, b, S) ==
  IF UsesDijkstra(l, S)
  THEN Frame([Call(l, b, S) EXCEPT !.pc = "oracle", !.heap = Keys(S), !.U = {}], 0)
  ELSE Frame([Call(l, b, S) EXCEPT !.U = {}], Cardinality(S))

EngineChild(x, S) == EngineCall(top.l - 1, x, S)

EngineInit ==
  /\ wt \in Graphs
  /\ best = Shortest(wt)
  /\ prm \in Params
  /\ dhat = [v \in Vertex |-> IF v = Source THEN 0 ELSE InfLen]
  /\ hops = [v \in Vertex |-> IF v = Source THEN 0 ELSE InfHops]
  /\ pred = [v \in Vertex |-> -1]
  /\ settled = {}
  /\ stack = <<EngineCall(prm.l, KeyInf, {Source})>>
  /\ result = Result(KeyInf, {})

-----------------------------------------------------------------------------

(* Mutant: the threshold stays k though fewer rounds were run. *)
ThresholdOfK(f) == prm.k

(* The size from which a tree has a pivot: the rounds that were run. *)
Threshold(f) == f.round

(* The rounds end: none is left, nothing is left to relax from, or the     *)
(* frontier does not shrink.                                               *)
Stops(f) ==
  \/ f.round = prm.k
  \/ f.next = {}
  \/ prm.lazy_pivots /\ f.round >= 2 /\ Cardinality(f.next) >= f.width

EngineEndRound ==
  /\ At("expand")
  /\ top.todo = {}
  /\ LET W == top.W \cup top.next
     IN  \/ /\ Cardinality(W) > prm.k * Cardinality(top.S)
            /\ StartLoop(top.S, W)
         \/ /\ Cardinality(W) <= prm.k * Cardinality(top.S)
            /\ Stops(top)
            /\ StartLoop(PivotsOf(top.S, W, Threshold(top)), W)
         \/ /\ Cardinality(W) <= prm.k * Cardinality(top.S)
            /\ ~Stops(top)
            /\ SetTop([top EXCEPT !.round = @ + 1, !.todo = top.next, !.next = {},
                                  !.W = W, !.width = Cardinality(top.next)])
  /\ UNCHANGED <<run, labels, settled, result>>

EnginePull == PullFor(EngineChild)

(* Mutant: the entry counts again each time it is popped. *)
CountsLive(r) == Live(r)

(* The entry is popped for the first time while it is its vertex's label:  *)
(* with pop_stamp the vertices of u0 are told from the others.             *)
Counts(r) == Live(r) /\ IdOf[r] \notin top.U

(* The two heap oracles, base_case and dijkstra_base, pop and relax alike. *)
HeapPop ==
  \E r \in BagToSet(top.heap) :
    LET u == IdOf[r]
        R == IF Counts(r) THEN Gated(u) ELSE {}
    IN  /\ IsTop(r, top.heap)
        /\ Relabel(u, R)
        /\ SetTop([top EXCEPT
             !.heap = Popped(@, r, u, R),
             !.U    = IF Counts(r) THEN @ \cup {u} ELSE @])

(* base_case, for at most k + 1 vertices; it ends as Bmssp's does.         *)
EngineBasePop ==
  /\ At("base")
  /\ Cardinality(top.U) < prm.k + 1
  /\ HeapPop
  /\ UNCHANGED <<run, settled, result>>

(* dijkstra_base, the oracle, which has no cap. *)
OraclePop ==
  /\ At("oracle")
  /\ HeapPop
  /\ UNCHANGED <<run, settled, result>>

(* Mutant: what the oracle popped is not settled. *)
NotSettled == settled

OracleSettled == settled \cup top.U

OracleReturn ==
  /\ At("oracle")
  /\ top.heap = EmptyBag
  /\ settled' = OracleSettled
  /\ result' = Result(top.b, top.U)
  /\ Pop
  /\ UNCHANGED <<run, labels>>

EngineNext ==
  \/ \E u \in Vertex : Expand(u) \/ RelaxOut(u)
  \/ EngineEndRound
  \/ EnginePull
  \/ Resume
  \/ PrependBatch
  \/ Return
  \/ EngineBasePop
  \/ BaseReturn
  \/ OraclePop
  \/ OracleReturn

EngineSpec == EngineInit /\ [][EngineNext]_vars

-----------------------------------------------------------------------------

(* Of the properties of Bmssp, which the fork keeps without the assertions, *)
(* a run checks ReturnComplete and FinalDistances again.                   *)

(* The oracle is never called below a bound or beside another call's work: *)
(* wherever the switch is set, the first vertex it sees is the source with *)
(* all keys below its bound, so that one call does everything              *)
(* (engine.rs:734-738 counts on it for speed).                             *)
OracleTakesAll ==
  At("oracle") => top.S = {Source} /\ top.b = KeyInf

(* Relaxing again from a vertex that was popped would change no label: its  *)
(* own has not changed since, and those of its neighbors are as good as it *)
(* can make them, down to the tie on pred (engine.rs:684-694).             *)
RescanIdle ==
  At("base") \/ At("oracle") =>
    \A u \in top.U : \A v \in Gated(u) :
      Cand(u, v) = PathCode(dhat[v], hops[v]) /\ pred[v] = u

(* Copies of an entry do not multiply: each edge into a vertex pushes it at *)
(* most once with one key, and the call itself once (engine.rs:685-694).   *)
CopiesBounded ==
  At("base") \/ At("oracle") =>
    \A r \in BagToSet(top.heap) :
      LET v == IdOf[r]
      IN  top.heap[r]
            <= Cardinality({u \in Vertex : v \in Succ(u)}) + (IF v \in top.S THEN 1 ELSE 0)

=============================================================================
