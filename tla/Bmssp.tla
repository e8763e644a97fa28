------------------------------- MODULE Bmssp --------------------------------
(***************************************************************************)
(* BMSSP of bmssp.rs: FindPivots, BaseCase and the recursion of            *)
(* Algorithm 3, over the labels (dhat, hops, pred) that all calls share.   *)
(*                                                                         *)
(* The recursion is a stack of frames.  The order in which a call visits   *)
(* the vertices of a set (of S, of U_i, of a frontier) depends in the code *)
(* on the random pivots of earlier pulls, so here it is any order; the     *)
(* edges out of one vertex lead to different vertices and are relaxed in   *)
(* one step.  (In a transformed graph two edges join the same vertices     *)
(* only where a self-loop doubles a zero edge of a cycle: its relaxation   *)
(* at most repeats that edge's.)  D is the abstract structure of DQueue,   *)
(* which BlockQueue implements.                                            *)
(*                                                                         *)
(* A key (length, hops, id) is the number whose digits they are, so that   *)
(* keys compare as the triples do.                                         *)
(***************************************************************************)
EXTENDS Integers, FiniteSets, Sequences, Bags

CONSTANTS
  N,          (* The vertices are 0..N-1.                              *)
  Source,     (* The source vertex.                                    *)
  Graphs,     (* The graphs considered: functions from edges <<u, v>>  *)
              (* to weights.                                           *)
  MaxLen,     (* No path of these graphs is longer.                    *)
  Add(_, _),  (* Addition of a weight to a length: exact or rounded.   *)
  Params      (* The parameters considered: records with k, t and l,   *)
              (* the level of the first call, for which compute_params *)
              (* sees to it that its U has room for all vertices.      *)

ASSUME BmsspAssumption ==
  /\ N \in Nat \ {0} /\ Source \in 0..(N - 1) /\ MaxLen \in Nat
  /\ \A g \in Graphs : /\ DOMAIN g \subseteq (0..(N - 1)) \X (0..(N - 1))
                       /\ \A e \in DOMAIN g : g[e] \in Nat
  /\ \A p \in Params : /\ {p.k, p.t, p.l} \subseteq Nat \ {0}
                       /\ p.k * 2^(p.l * p.t) >= N

VARIABLES
  wt,         (* The graph of this run.                                *)
  prm,        (* The parameters of this run.                           *)
  best,       (* Its shortest labels, by definition; never read by the *)
              (* algorithm, only by the properties.                    *)
  dhat,       (* The tentative length of each vertex.                  *)
  hops,       (* The number of edges of that path.                     *)
  pred,       (* Its last edge's tail, or -1.                          *)
  settled,    (* The vertices settled.                                 *)
  stack,      (* The calls in progress, the innermost last.            *)
  result      (* What the last call returned.                          *)

labels == <<dhat, hops, pred>>
run == <<wt, prm, best>>
vars == <<run, dhat, hops, pred, settled, stack, result>>

Vertex == 0..(N - 1)

-----------------------------------------------------------------------------
(* Keys.                                                                    *)

InfLen == MaxLen + 1
InfHops == N

(* The pair (length, hops), and the key (length, hops, id), of vertex v. *)
PathCode(ln, h) == ln * (N + 1) + h
KeyOf(code, v) == code * N + v
Key(v) == KeyOf(PathCode(dhat[v], hops[v]), v)

(* KEY_INF is above the key of every vertex, reached or not. *)
KeyInf == KeyOf(PathCode(InfLen, InfHops) + 1, 0)

IdOf == [r \in 0..(KeyInf - 1) |-> r % N]

INSTANCE Labels WITH Label <- 0..(KeyInf - 1), VertexOf <- IdOf

Succ(u) == {v \in Vertex : <<u, v>> \in DOMAIN wt}

(* The path to v through u, and the key it would give v. *)
Cand(u, v) == PathCode(Add(dhat[u], wt[<<u, v>>]), hops[u] + 1)
CandKey(u, v) == KeyOf(Cand(u, v), v)

(* Mutant: the test without the tie on the id. *)
PassesOnTies(u, v) == Cand(u, v) <= PathCode(dhat[v], hops[v])

(* The "<=" test: (length, hops, u) against v's (length, hops, pred). *)
Passes(u, v) ==
  LET cur == PathCode(dhat[v], hops[v])
  IN  Cand(u, v) < cur \/ (Cand(u, v) = cur /\ u <= pred[v])

(* The labels of the vertices in R now come from u. *)
Relabel(u, R) ==
  /\ dhat' = [v \in Vertex |-> IF v \in R THEN Add(dhat[u], wt[<<u, v>>]) ELSE dhat[v]]
  /\ hops' = [v \in Vertex |-> IF v \in R THEN hops[u] + 1 ELSE hops[v]]
  /\ pred' = [v \in Vertex |-> IF v \in R THEN u ELSE pred[v]]

IsLeast(r, H) == r \in H /\ \A x \in H : r <= x

(* The definition of the shortest (length, hops) of each vertex of graph g: *)
(* the least over all paths of at most n edges, for n up to N.             *)
Extend(code, w) == PathCode(Add(code \div (N + 1), w), (code % (N + 1)) + 1)

Unreached == PathCode(InfLen, InfHops)

StartCodes == [v \in Vertex |-> IF v = Source THEN PathCode(0, 0) ELSE Unreached]

(* What the edges into v make of the codes of their tails. *)
Via(codes, g, v) ==
  {Extend(codes[e[1]], g[e]) : e \in {d \in DOMAIN g : d[2] = v /\ codes[d[1]] < Unreached}}

Better(codes, g) ==
  LET all == [v \in Vertex |->
                LET cs == Via(codes, g, v) \cup {codes[v]} IN CHOOSE c \in cs : IsLeast(c, cs)]
  IN  IF all = codes THEN codes ELSE all

Shortest(g) ==
  LET Paths[n \in 0..N] == IF n = 0 THEN StartCodes ELSE Better(Paths[n - 1], g)
  IN  Paths[N]

-----------------------------------------------------------------------------
(* Frames.                                                                  *)

(* The heap of the vertices in S, each of them once. *)
Keys(S) == SetToBag({Key(x) : x \in S})

(* A call BMSSP(l, b, S), about to start FindPivots, or BaseCase if l = 0. *)
Call(l, b, S) ==
  [pc    |-> IF l = 0 THEN "base" ELSE "expand",
   l     |-> l,
   b     |-> b,
   S     |-> S,
   round |-> 1,                              (* FindPivots' i           *)
   todo  |-> S,                              (* vertices to relax from  *)
   next  |-> {},                             (* W_i                     *)
   W     |-> S,
   D     |-> {},
   U     |-> IF l = 0 THEN S ELSE {},
   last  |-> b,                              (* B'_i                    *)
   bi    |-> b,                              (* B_i                     *)
   fresh |-> {},                             (* S_i without the settled *)
   Kept  |-> {},                             (* the batch K             *)
   heap  |-> IF l = 0 THEN Keys(S) ELSE EmptyBag]

top == stack[Len(stack)]
At(pc) == Len(stack) > 0 /\ top.pc = pc
SetTop(f) == stack' = [stack EXCEPT ![Len(stack)] = f]
Push(f, callee) == stack' = Append([stack EXCEPT ![Len(stack)] = f], callee)
Pop == stack' = SubSeq(stack, 1, Len(stack) - 1)

(* B' and U. *)
Result(bound, U) == [bound |-> bound, set |-> U]

Init ==
  /\ wt \in Graphs
  /\ best = Shortest(wt)
  /\ prm \in Params
  /\ dhat = [v \in Vertex |-> IF v = Source THEN 0 ELSE InfLen]
  /\ hops = [v \in Vertex |-> IF v = Source THEN 0 ELSE InfHops]
  /\ pred = [v \in Vertex |-> -1]
  /\ settled = {}
  /\ stack = <<Call(prm.l, KeyInf, {Source})>>
  /\ result = Result(KeyInf, {})

-----------------------------------------------------------------------------
(* FindPivots.                                                              *)

(* Relax the edges out of one vertex of the frontier. *)
Expand(u) ==
  /\ At("expand")
  /\ u \in top.todo
  /\ LET R == {v \in Succ(u) : Passes(u, v)}
     IN  /\ Relabel(u, R)
         /\ SetTop([top EXCEPT
              !.todo = @ \ {u},
              !.next = @ \cup {v \in R : CandKey(u, v) < top.b}])
  /\ UNCHANGED <<run, settled, result>>

(* v's label still is what its pred's label gives it. *)
Tight(v) ==
  /\ pred[v] >= 0
  /\ <<pred[v], v>> \in DOMAIN wt
  /\ dhat[v] = Add(dhat[pred[v]], wt[<<pred[v], v>>])
  /\ hops[v] = hops[pred[v]] + 1

(* The vertices of W below u in the forest of tight edges within W. *)
Tree(u, W) ==
  LET Below[n \in 0..Cardinality(W)] ==
        IF n = 0
        THEN {u}
        ELSE LET above == Below[n - 1]
             IN  above \cup {v \in W : Tight(v) /\ pred[v] \in above}
  IN  Below[Cardinality(W)]

(* The roots in S of trees of at least n vertices. *)
PivotsOf(S, W, n) ==
  {u \in S : ~(Tight(u) /\ pred[u] \in W) /\ Cardinality(Tree(u, W)) >= n}

Pivots(S, W) == PivotsOf(S, W, prm.k)

(* The call's D is made, holding the pivots. *)
StartLoop(P, W) ==
  LET keys == {Key(x) : x \in P}
  IN  \E first \in keys \cup {top.b} :
        /\ IsMinOr(first, keys, top.b)
        /\ SetTop([top EXCEPT
             !.pc = "loop", !.todo = {}, !.next = {}, !.W = W, !.D = keys, !.last = first])

(* The end of round i: another round, an early exit with P = S, or the     *)
(* pivots of the forest.                                                   *)
EndRound ==
  /\ At("expand")
  /\ top.todo = {}
  /\ LET W == top.W \cup top.next
     IN  \/ /\ Cardinality(W) > prm.k * Cardinality(top.S)
            /\ StartLoop(top.S, W)
         \/ /\ Cardinality(W) <= prm.k * Cardinality(top.S)
            /\ top.round < prm.k
            /\ SetTop([top EXCEPT
                 !.round = @ + 1, !.todo = top.next, !.next = {}, !.W = W])
         \/ /\ Cardinality(W) <= prm.k * Cardinality(top.S)
            /\ top.round = prm.k
            /\ StartLoop(Pivots(top.S, W), W)
  /\ UNCHANGED <<run, labels, settled, result>>

-----------------------------------------------------------------------------
(* The loop of Algorithm 3.                                                 *)

SizeCap(l) == prm.k * 2^(l * prm.t)
(* Mutant: M taken from the wrong level. *)
BlockSizeOfLevel(l) == 2^(l * prm.t)

BlockSize(l) == IF 2^((l - 1) * prm.t) < N THEN 2^((l - 1) * prm.t) ELSE N

(* Mutant: the loop does not stop when D is empty. *)
ContinuesEmpty(f) == Cardinality(f.U) < SizeCap(f.l)

Continues(f) == Cardinality(f.U) < SizeCap(f.l) /\ f.D # {}

(* Mutant: the settled vertices are not filtered out. *)
FreshUnfiltered(batch) == {IdOf[r] : r \in batch}

(* A sibling call may have settled a vertex whose label is still in D. *)
Fresh(batch) == {IdOf[r] : r \in batch} \ settled

Child(x, S) == Call(top.l - 1, x, S)

(* Pull S_i and call BMSSP on those of it that are not settled yet; when    *)
(* none is left there is no call.                                           *)
PullFor(Callee(_, _)) ==
  /\ At("loop")
  /\ Continues(top)
  /\ \E batch \in SUBSET top.D, x \in top.D \cup {top.b} :
       /\ IsPull(batch, x, top.D, BlockSize(top.l), top.b)
       /\ LET fresh == Fresh(batch)
              f     == [top EXCEPT !.D = @ \ batch, !.bi = x, !.fresh = fresh, !.Kept = {}]
          IN  IF fresh = {}
              THEN SetTop([f EXCEPT !.pc = "relax", !.todo = {}, !.last = x])
              ELSE Push([f EXCEPT !.pc = "wait"], Callee(x, fresh))
  /\ UNCHANGED <<run, labels, settled, result>>

PullBatch == PullFor(Child)

(* The call returns (B'_i, U_i). *)
Resume ==
  /\ At("wait")
  /\ SetTop([top EXCEPT
       !.pc = "relax", !.todo = result.set, !.U = @ \cup result.set, !.last = result.bound])
  /\ UNCHANGED <<run, labels, settled, result>>

(* Mutant: B_i forgotten. *)
ForDUnbounded(f, keys) == {r \in keys : r < f.b}

(* A new key in [B_i, B) goes into D, one in [B'_i, B_i) into K, and one    *)
(* below B'_i nowhere.                                                     *)
ForD(f, keys) == {r \in keys : f.bi <= r /\ r < f.b}
ForK(f, keys) == {r \in keys : f.last <= r /\ r < f.bi}

(* Relax the edges out of one vertex of U_i. *)
RelaxOut(u) ==
  /\ At("relax")
  /\ u \in top.todo
  /\ LET R    == {v \in Succ(u) : Passes(u, v)}
         keys == {CandKey(u, v) : v \in R}
     IN  /\ Relabel(u, R)
         /\ SetTop([top EXCEPT
              !.todo = @ \ {u},
              !.D    = KeepMin(@ \cup ForD(top, keys)),
              !.Kept = @ \cup ForK(top, keys)])
  /\ UNCHANGED <<run, settled, result>>

(* Mutant: what the call left of S_i is forgotten. *)
UnfinishedKept(f) == f.Kept

(* K and the part of S_i that the call did not finish. *)
Unfinished(f) == f.Kept \cup ForK(f, {Key(x) : x \in f.fresh})

PrependBatch ==
  /\ At("relax")
  /\ top.todo = {}
  /\ LET items == Unfinished(top)
     IN  SetTop([top EXCEPT
           !.pc = "loop",
           !.D  = IF items = {} THEN @ ELSE Prepended(@, items)])
  /\ UNCHANGED <<run, labels, settled, result>>

(* Mutants: no sweep, and a sweep up to the bound of the caller. *)
SweptNothing(f, bound) == {}
SweptToB(f, bound) == {x \in f.W : Key(x) < f.b}

(* The vertices of W that the call has completed. *)
Swept(f, bound) == {x \in f.W : Key(x) < bound}

(* The loop ends; the vertices of W below B' join U. *)
Return ==
  /\ At("loop")
  /\ ~Continues(top)
  /\ LET bound == IF top.last < top.b THEN top.last ELSE top.b
         swept == Swept(top, bound)
     IN  /\ settled' = settled \cup (swept \ top.U)
         /\ result' = Result(bound, top.U \cup swept)
  /\ Pop
  /\ UNCHANGED <<run, labels>>

-----------------------------------------------------------------------------
(* BaseCase: Dijkstra from one vertex, for at most k + 1 vertices.          *)

(* Mutant: the gate without the comparison. *)
GatedOnly(u) == {v \in Succ(u) : CandKey(u, v) < top.b}

(* What a pop of u relaxes: the relaxation is gated by the bound. *)
Gated(u) == {v \in Succ(u) : Passes(u, v) /\ CandKey(u, v) < top.b}

(* What BaseCase returns of its U_0: all of it, or all but the last.       *)
Completed(U, bound) == IF Cardinality(U) > prm.k THEN {v \in U : Key(v) < bound} ELSE U

(* The entry is its vertex's label still. *)
Live(r) == r = Key(IdOf[r])

(* Mutant: std's heap, which has the greatest on top, without Reverse.     *)
IsGreatest(r, heap) == BagIn(r, heap) /\ \A x \in BagToSet(heap) : x <= r

IsTop(r, heap) == BagIn(r, heap) /\ \A x \in BagToSet(heap) : r <= x

(* The heap without r, its top, and with what relaxing from u to R pushes: *)
(* a path as good as an earlier one pushes the same entry again.           *)
Popped(heap, r, u, R) == (heap (-) SetToBag({r})) (+) SetToBag({CandKey(u, v) : v \in R})

(* The top of the heap; it is stale unless it is its vertex's key.  A       *)
(* second copy of the entry is relaxed from like the first.                *)
BasePop ==
  /\ At("base")
  /\ Cardinality(top.U) < prm.k + 1
  /\ \E r \in BagToSet(top.heap) :
       LET u == IdOf[r]
           R == IF Live(r) THEN Gated(u) ELSE {}
       IN  /\ IsTop(r, top.heap)
           /\ Relabel(u, R)
           /\ SetTop([top EXCEPT
                !.heap = Popped(@, r, u, R),
                !.U    = IF Live(r) THEN @ \cup {u} ELSE @])
  /\ UNCHANGED <<run, settled, result>>

BaseReturn ==
  /\ At("base")
  /\ top.heap = EmptyBag \/ Cardinality(top.U) >= prm.k + 1
  /\ \E u \in top.U :
       LET bound == IF Cardinality(top.U) > prm.k THEN Key(u) ELSE top.b
           U     == Completed(top.U, bound)
       IN  /\ \A v \in top.U : Key(v) <= Key(u)
           /\ settled' = settled \cup U
           /\ result' = Result(bound, U)
  /\ Pop
  /\ UNCHANGED <<run, labels>>

Next ==
  \/ \E u \in Vertex : Expand(u) \/ RelaxOut(u)
  \/ EndRound
  \/ PullBatch
  \/ Resume
  \/ PrependBatch
  \/ Return
  \/ BasePop
  \/ BaseReturn

Spec == Init /\ [][Next]_vars

(* The code is one thread that runs until its stack is empty. *)
FairSpec == Spec /\ WF_vars(Next)

-----------------------------------------------------------------------------

(* The first call has returned. *)
Done == stack = << >>

TrueKey(v) == KeyOf(best[v], v)

(* A vertex is settled with its true shortest label, though calls settle   *)
(* vertices out of order and from three places.                            *)
SettledFinal == \A v \in settled : Key(v) = TrueKey(v)

(* A call has just returned to its caller. *)
Returned == At("wait")

Reached(v) == best[v] < PathCode(InfLen, InfHops)

(* A call that returns B' leaves no vertex below B' undone, whether it was  *)
(* completed by FindPivots, in a base case or by an earlier sibling: it is *)
(* settled, or has its true label and waits in the W of a call in progress,*)
(* which settles it when that call ends.                                   *)
ReturnComplete ==
  Returned \/ Done =>
    \A v \in Vertex :
      Reached(v) /\ TrueKey(v) < result.bound =>
        \/ v \in settled
        \/ Key(v) = TrueKey(v) /\ \E i \in 1..Len(stack) : v \in stack[i].W

(* No vertex is in the U_i of two calls of one caller: the code's           *)
(* assertion, which the filter of settled vertices is there to keep.       *)
ChildrenDisjoint == Returned => result.set \cap top.U = {}

(* The assertion of BatchPrepend: the batch is below all that D holds.     *)
BatchBelow ==
  At("relax") /\ top.todo = {} => AllBelow(Unfinished(top), top.D \cup {top.b})

(* The assertion of BaseCase: pulls at level 1 return single vertices, and *)
(* filtering leaves that one.                                              *)
BaseSingle == At("base") => Cardinality(top.S) = 1

(* In the loop D holds only labels from [B'_i, B): a stale label is never  *)
(* below what the calls so far have completed.                             *)
QueueAhead == At("loop") => \A r \in top.D : top.last <= r /\ r < top.b

(* The least tail of a last edge of a shortest path to v. *)
ShortestPred(v) ==
  LET tails == {x \in Vertex : /\ <<x, v>> \in DOMAIN wt
                               /\ Extend(best[x], wt[<<x, v>>]) = best[v]}
  IN  CHOOSE u \in Vertex : IsLeast(u, tails)

(* The vertices of the shortest path to v. *)
PathTo(v) ==
  LET Back[n \in 0..N] ==
        IF n = 0 THEN {v}
        ELSE LET on == Back[n - 1] IN on \cup {ShortestPred(x) : x \in on \ {Source}}
  IN  Back[N]

(* In the loop of any call, some vertex on the path to a vertex that is    *)
(* not settled has its true label and a call to go on from it: it is the   *)
(* end of the path and in a W, or it waits in a D; or, where a call has    *)
(* been through with it, all that follows it on the path is beyond that    *)
(* call's bound, so that the caller will relax the edge from it.  No       *)
(* vertex is lost between FindPivots, the calls and the batches.           *)
NothingLost ==
  At("loop") =>
    \A v \in {x \in Vertex \ settled : Reached(x)} :
      \E i \in 1..Len(stack) : \E y \in PathTo(v) :
        /\ Key(y) = TrueKey(y)
        /\ \/ y = v /\ v \in stack[i].W
           \/ Key(y) \in stack[i].D
           \/ /\ i > 1
              /\ y \in stack[i].U \cup stack[i].W
              /\ \A z \in PathTo(v) : TrueKey(z) > TrueKey(y) => TrueKey(z) >= stack[i].b

(* At the end the lengths are the shortest. *)
FinalDistances == Done => \A v \in Vertex : dhat[v] = best[v] \div (N + 1)

(* At the end the predecessors are a tree of shortest paths, the same one  *)
(* whatever the order of the pivots.                                       *)
FinalPreds ==
  Done => \A v \in Vertex \ {Source} :
            pred[v] = IF Reached(v) THEN ShortestPred(v) ELSE -1

(* No step makes a label worse, nor changes that of a settled vertex.      *)
LabelsImprove ==
  [][\A v \in Vertex : /\ Key(v)' <= Key(v)
                       /\ v \in settled => Key(v)' = Key(v)]_vars

(* The first call returns. *)
Termination == <>Done

=============================================================================
