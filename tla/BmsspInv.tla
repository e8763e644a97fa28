------------------------------ MODULE BmsspInv ------------------------------
(***************************************************************************)
(* Why BMSSP is correct: what holds of the labels, and of each call in     *)
(* progress, between any two steps of Bmssp.                               *)
(*                                                                         *)
(* The argument is about the shortest paths themselves, PathTo, of which   *)
(* the code knows nothing.  A vertex is final when its label is the one it *)
(* ends with.  Each call keeps the vertices below its bound covered: on    *)
(* the path to one that is not done with there is a final vertex from      *)
(* which the call still has to go on.                                      *)
(*                                                                         *)
(* At the end, what of the fork, VariantEngine, needs no more than the     *)
(* labels: its heaps, and when it calls the oracle.                        *)
(***************************************************************************)
EXTENDS VariantEngine

-----------------------------------------------------------------------------
(* The labels.                                                              *)

Code(v) == PathCode(dhat[v], hops[v])

(* What an edge adds to the code of its tail. *)
Om(g, u, v) == g[<<u, v>>] * (N + 1) + 1

(* The vertices with a smaller code than v. *)
Before(v) == {x \in Vertex : Code(x) < Code(v)}

(* A label is never better than the true one; it is one that the vertex's  *)
(* pred gave it, or would better by now; and it is as long as its path has *)
(* vertices with better ones.                                              *)
LabelsOk ==
  /\ dhat \in [Vertex -> Nat] /\ hops \in [Vertex -> Nat] /\ pred \in [Vertex -> Vertex \cup {-1}]
  /\ \A v \in Vertex : best[v] <= Code(v) /\ Code(v) <= Unreached
  /\ Code(Source) = 0
  /\ \A v \in Vertex :
       pred[v] # -1 =>
         /\ v # Source /\ Code(v) < Unreached
         /\ <<pred[v], v>> \in DOMAIN wt
         /\ Code(pred[v]) + Om(wt, pred[v], v) <= Code(v)
  /\ \A v \in Vertex \ {Source} : Code(v) < Unreached => pred[v] # -1
  /\ \A v \in Vertex :
       IF Code(v) < Unreached THEN hops[v] <= Cardinality(Before(v)) ELSE hops[v] = N

ReachedOnes == {v \in Vertex : Reached(v)}

(* The vertex before v on the shortest path to it. *)
Parent(v) == ShortestPred(v)

(* The label of v, with the pred, is the one it ends with. *)
Final(v) ==
  /\ Reached(v)
  /\ Code(v) = best[v]
  /\ v = Source \/ pred[v] = Parent(v)

Finals == {v \in Vertex : Final(v)}

-----------------------------------------------------------------------------
(* The calls.                                                               *)

(* A call whose callee has returned, about to relax from what it returned. *)
Resumed(f) ==
  [f EXCEPT !.pc = "relax", !.todo = result.set, !.U = @ \cup result.set, !.last = result.bound]

(* The i-th call, counting the return of its callee as seen. *)
F(i) ==
  IF i = Len(stack) /\ stack[i].pc = "wait" THEN Resumed(stack[i]) ELSE stack[i]

(* What the callers of the i-th call have completed is below this. *)
Low(i) == IF i = 1 THEN 0 ELSE stack[i - 1].last

(* Call f has still to go on from y: from its S, an entry of its D, its K   *)
(* or its heap, what is left of S_i, or the vertex before y in U_i.        *)
Active(y, f) ==
  \/ /\ y \in Finals
     /\ \/ f.pc = "expand" /\ y \in f.S
        \/ f.pc \in {"loop", "wait", "relax"} /\ TrueKey(y) \in f.D
        \/ f.pc = "wait" /\ y \in f.fresh
        \/ f.pc = "relax" /\ TrueKey(y) \in f.Kept
        \/ f.pc = "relax" /\ y \in f.fresh /\ f.last <= TrueKey(y)
        \/ f.pc \in {"base", "oracle"} /\ TrueKey(y) \in BagToSet(f.heap)
  \/ f.pc = "relax" /\ y # Source /\ Parent(y) \in f.todo /\ f.last <= TrueKey(y)

Covered(v, f) == \E y \in PathTo(v) : Active(y, f)

(* The vertices the call will return if they are below its B'. *)
Held(f) == f.U \cup f.next \cup IF f.pc \in {"base", "oracle"} THEN {} ELSE f.W

(* The vertices below the call's bound. *)
Near(f) == {v \in ReachedOnes : TrueKey(v) < f.b}

Upheld(v, i) == \E j \in 1..i : v \in Held(F(j))

(* A vertex below the bound of the i-th call is settled, or final and held *)
(* by it or by a caller, or it is covered.                                 *)
NearCovered(i, f) ==
  \A v \in Near(f) : v \in settled \/ (v \in Finals /\ Upheld(v, i)) \/ Covered(v, f)

(* If its path leads through S, it is final and held by the call itself,   *)
(* or it is covered.                                                       *)
BehindCovered(f) ==
  \A v \in Near(f) :
    PathTo(v) \cap Finals \cap f.S # {} => (v \in Finals /\ v \in Held(f)) \/ Covered(v, f)

(* No entry of D or K is below its vertex's label; the entries of vertices *)
(* that are not settled are there for a reason.                            *)
Entries(f) == IF f.pc = "relax" THEN f.D \cup f.Kept ELSE f.D

EntriesCovered(f) ==
  \A r \in Entries(f) :
    /\ r \in Nat /\ r < f.b
    /\ IdOf[r] \in ReachedOnes /\ Key(IdOf[r]) <= r
    /\ IdOf[r] \in settled \/ Covered(IdOf[r], f)

(* The vertices from y to z on the path to z. *)
Chain(y, z) == {x \in PathTo(z) : y \in PathTo(x)}

(* FindPivots in round i: on a path through a vertex y of S, the first one *)
(* on it, either the end is final and in W already, or the i vertices from *)
(* y on are.                                                               *)
Grown(f) ==
  \A y \in f.S \cap Finals :
    PathTo(y) \cap f.S \cap Finals = {y} =>
      \A v \in Near(f) : y \in PathTo(v) =>
        \/ v \in Finals /\ v \in f.W \cup f.next
        \/ \E z \in PathTo(v) :
             /\ y \in PathTo(z)
             /\ Chain(y, z) \subseteq Finals \cap (f.W \cup f.next)
             /\ \/ z \in f.todo /\ Cardinality(Chain(y, z)) >= f.round
                \/ z \in f.next /\ Cardinality(Chain(y, z)) >= f.round + 1

-----------------------------------------------------------------------------
(* The fields of the frames.                                                *)

Fields == {"pc", "l", "b", "S", "round", "todo", "next", "W", "D", "U",
           "last", "bi", "fresh", "Kept", "heap"}

IsFrame(f) ==
  /\ Fields \subseteq DOMAIN f
  /\ f.pc \in {"base", "oracle", "expand", "loop", "wait", "relax"}
  /\ f.l \in Nat /\ f.b \in Nat /\ f.round \in Nat /\ f.last \in Nat /\ f.bi \in Nat
  /\ f.D \subseteq Nat /\ f.Kept \subseteq Nat

(* Of every call: its bound; its vertices, none of which is below what was *)
(* completed before it.                                                    *)
CallOk(i, f) ==
  /\ f.b <= KeyInf /\ Low(i) < f.b
  /\ i = 1 => f.l = prm.l /\ f.b = KeyInf
  /\ f.pc = "base" => f.l = 0
  /\ f.pc \notin {"base", "oracle"} => f.l # 0
  /\ f.S \cup f.W \cup f.next \cup f.U \cup f.todo \cup f.fresh \subseteq ReachedOnes
  /\ \A x \in f.S : Key(x) < f.b
  /\ \A x \in f.S \cup f.W \cup f.next \cup f.U \cup f.todo : Low(i) <= Key(x)
  /\ f.pc # "wait" => i = Len(stack)

ExpandOk(f) ==
  f.pc = "expand" =>
    /\ f.U = {} /\ f.D = {} /\ f.todo \subseteq f.W
    /\ \A x \in (f.W \cup f.next) \ f.S : pred[x] \in f.W
    /\ Grown(f)

LoopOk(i, f) ==
  f.pc \in {"loop", "wait", "relax"} =>
    /\ f.next = {}
    /\ Low(i) <= f.last /\ f.last <= f.b
    /\ f.U \subseteq settled /\ \A x \in f.U : Key(x) < f.last
    /\ f.pc = "loop" => f.todo = {} /\ \A r \in f.D : f.last <= r

PulledOk(f) ==
  f.pc \in {"wait", "relax"} =>
    /\ f.last <= f.bi /\ f.bi <= f.b
    /\ \A r \in f.D : f.bi <= r
    /\ \A r \in f.Kept : f.last <= r /\ r < f.bi
    /\ \A x \in f.fresh : Key(x) < f.bi
    /\ f.todo \subseteq f.U

WaitOk(i, f) ==
  f.pc = "wait" =>
    /\ f.Kept = {}
    /\ IF i < Len(stack)
       THEN f.fresh = stack[i + 1].S /\ f.bi = stack[i + 1].b
       ELSE /\ result.bound \in Nat /\ f.last <= result.bound /\ result.bound <= f.bi
            /\ result.set \subseteq settled
            /\ \A x \in result.set : f.last <= Key(x) /\ Key(x) < result.bound

BaseOk(i, f) ==
  f.pc \in {"base", "oracle"} =>
    /\ f.pc = "base" => Cardinality(f.S) = 1
    /\ f.D = {} /\ f.next = {} /\ IsABag(f.heap)
    /\ \A r \in BagToSet(f.heap) :
         /\ r \in Nat /\ Low(i) <= r /\ r < f.b
         /\ IdOf[r] \in ReachedOnes /\ Key(IdOf[r]) <= r
         /\ \A u \in f.U : Key(u) <= r
    /\ \A u \in f.U : Key(u) < f.b

FrameOk(i, f) ==
  /\ IsFrame(f)
  /\ CallOk(i, f) /\ ExpandOk(f) /\ LoopOk(i, f) /\ PulledOk(f) /\ WaitOk(i, f) /\ BaseOk(i, f)

(* What the innermost call, and with it all others, has completed is below *)
(* this.                                                                   *)
Floor(f) == IF f.pc \in {"loop", "relax"} THEN f.last ELSE Low(Len(stack))

-----------------------------------------------------------------------------

(* Bmssp's inductive invariant. *)

FramesInv ==
  \A i \in 1..Len(stack) :
    /\ \A f \in {stack[i]} : FrameOk(i, f)
    /\ \A f \in {F(i)} : NearCovered(i, f) /\ BehindCovered(f) /\ EntriesCovered(f)

LowsRise == \A i, j \in 1..Len(stack) : i <= j => Low(i) <= Low(j)

SettledBelow ==
  Len(stack) > 0 => \A f \in {F(Len(stack))} : \A v \in settled : Key(v) < Floor(f)

AllDone ==
  Len(stack) = 0 =>
    /\ ReachedOnes \subseteq Finals
    /\ \A v \in ReachedOnes : TrueKey(v) < result.bound => v \in settled

Inv ==
  /\ LabelsOk
  /\ settled \subseteq Finals
  /\ LowsRise
  /\ FramesInv
  /\ SettledBelow
  /\ AllDone

-----------------------------------------------------------------------------
(* The fork keeps the invariant too, as it relaxes again from no vertex it  *)
(* has popped; of its heaps it needs what follows.                         *)

(* A copy of an entry comes from a vertex popped or from S.                 *)
Sources(r, f) ==
  Cardinality({u \in f.U : IdOf[r] \in Succ(u)}) + (IF IdOf[r] \in f.S THEN 1 ELSE 0)

(* What could still be relaxed from a vertex popped is labelled from it,   *)
(* and was popped or will be.                                              *)
HeapOk(f) ==
  f.pc \in {"base", "oracle"} =>
    /\ \A r \in BagToSet(f.heap) : f.heap[r] <= Sources(r, f)
    /\ \A u \in f.U : \A v \in Succ(u) :
         Passes(u, v) /\ CandKey(u, v) < f.b =>
           /\ Code(v) = Cand(u, v) /\ pred[v] = u
           /\ v \in f.U \/ Key(v) \in BagToSet(f.heap)

(* The oracle can be called. *)
OracleUsed == prm.hybrid_max_level >= 0 \/ prm.hybrid_frontier > 0

(* Then each call is made for the source alone, and as soon as one has      *)
(* returned there is nothing left to do for any.                           *)
OneDescent(i, f) ==
  /\ f.l <= prm.l /\ f.S = {Source} /\ f.b = KeyInf /\ f.pc # "base"
  /\ f.pc = "expand" => f.U = {}
  /\ f.pc = "loop" =>
       IF f.D = {} THEN f.last = KeyInf ELSE f.D = {Key(Source)} /\ f.U = {}
  /\ f.pc \in {"wait", "relax"} => f.D = {} /\ f.Kept = {} /\ f.bi = KeyInf
  /\ f.pc = "relax" => f.last = KeyInf
  /\ f.pc = "wait" /\ i = Len(stack) => result.bound = KeyInf

EngineFrameOk(i, f) ==
  /\ HeapOk(f)
  /\ f.pc = "oracle" => OracleUsed
  /\ OracleUsed => OneDescent(i, f)

EngineOk == \A i \in 1..Len(stack) : \A f \in {stack[i]} : EngineFrameOk(i, f)

EngineInv == Inv /\ EngineOk

=============================================================================
