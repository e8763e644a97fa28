-------------------------------- MODULE Sssp --------------------------------
(***************************************************************************)
(* A run of BMSSP from the caller's graph to the caller's answer: the      *)
(* checks and build_csr, transform_to_constant_degree, the search of the   *)
(* transformed graph, and recover_pred, which maps what was found back.    *)
(* With Config.transform off (the variants notransform and fast) the       *)
(* search is of the caller's graph and its labels are the answer.          *)
(*                                                                         *)
(* The search is one step here: it gives each vertex the labels that       *)
(* Bmssp's FinalDistances and FinalPreds promise.  Vertices are numbered   *)
(* from 0, edges, each <<tail, head, weight>>, and their ends from 1: the  *)
(* tail of edge i is end 2i - 1, its head is end 2i.                       *)
(***************************************************************************)
EXTENDS Integers, Sequences, FiniteSetsExt

CONSTANTS
  Inputs,     (* The graphs, [n, edges, source, transform].             *)
  Infinity,   (* f64's infinity; the lengths below it are exact.        *)
  NaN         (* A weight that is not a number.                         *)

(* What a caller may pass. *)
Callers ==
  [n : Nat, edges : Seq(Nat \X Nat \X (Int \cup {NaN})), source : Nat, transform : BOOLEAN]

ASSUME SsspAssumption ==
  /\ Infinity \in Nat \ {0}
  /\ NaN \notin Int
  /\ Inputs \subseteq Callers

VARIABLES
  g,          (* The graph, its edges in the order of the CSR once built. *)
  pc,
  result,     (* "Ok", or the error that was returned or raised.        *)
  tr,         (* The graph that is searched, and its relation to g.     *)
  lab,        (* The labels of its vertices.                            *)
  dist, pred, (* The outputs.                                           *)
  v, cur      (* recover_pred's loops.                                  *)

outputs == <<dist, pred>>
vars == <<g, pc, result, tr, lab, outputs, v, cur>>

Vertices(h) == 0..(h.n - 1)

-----------------------------------------------------------------------------
(* The transform.                                                           *)

(* The place of edge i in CSR order: behind the edges of smaller tails, and *)
(* of those of its own tail behind the earlier ones.                       *)
PlaceOf(h, i) ==
  Cardinality({j \in DOMAIN h.edges :
                 \/ h.edges[j][1] < h.edges[i][1]
                 \/ h.edges[j][1] = h.edges[i][1] /\ j <= i})

Enumerated(h) ==
  [p \in 1..Len(h.edges) |-> h.edges[CHOOSE i \in DOMAIN h.edges : PlaceOf(h, i) = p]]

Ends(h) == 1..(2 * Len(h.edges))
VertexAt(h, p) == h.edges[(p + 1) \div 2][IF p % 2 = 1 THEN 1 ELSE 2]
Degree(h, u) == Cardinality({p \in Ends(h) : VertexAt(h, p) = u})

(* The first id of each vertex's slots, and of what comes after the last. *)
Bases(h) ==
  LET base[u \in 0..h.n] ==
        IF u = 0 THEN 0 ELSE base[u - 1] + Max({1, Degree(h, u - 1)})
  IN  base

(* Mutant: every end in its vertex's first slot. *)
SlotFirst(h, base, p) == base[VertexAt(h, p)]

(* The ends of a vertex get its slots in the order of the edges. *)
Slot(h, base, p) ==
  base[VertexAt(h, p)] + Cardinality({q \in 1..(p - 1) : VertexAt(h, q) = VertexAt(h, p)})

(* Mutant: a path in place of the cycle. *)
PathEdges(h, base, u) == {<<base[u] + i, base[u] + i + 1, 0>> : i \in 0..(Degree(h, u) - 2)}

(* The cycle of length 0 through the slots of u. *)
CycleEdges(h, base, u) ==
  LET d == Degree(h, u)
  IN  {<<base[u] + i, base[u] + ((i + 1) % d), 0>> : i \in IF d >= 2 THEN 0..(d - 1) ELSE {}}

CrossEdges(h, base) ==
  {<<Slot(h, base, 2 * i - 1), Slot(h, base, 2 * i), h.edges[i][3]>> : i \in DOMAIN h.edges}

Transformed(h) ==
  LET base == Bases(h)
  IN  [n      |-> base[h.n],
       edges  |-> (UNION {CycleEdges(h, base, u) : u \in Vertices(h)}) \cup CrossEdges(h, base),
       source |-> base[h.source],
       rep    |-> [u \in Vertices(h) |-> base[u]],
       owner  |-> [x \in 0..(base[h.n] - 1) |->
                    CHOOSE u \in Vertices(h) : base[u] <= x /\ x < base[u + 1]]]

(* Transform off: every vertex represents itself. *)
Itself(h) ==
  LET id == [u \in Vertices(h) |-> u]
  IN  [n |-> h.n, edges |-> {h.edges[i] : i \in DOMAIN h.edges}, source |-> h.source,
       rep |-> id, owner |-> id]

-----------------------------------------------------------------------------
(* The search.                                                              *)

(* The sum of finite weights may be infinite. *)
Plus(a, w) == IF a + w >= Infinity THEN Infinity ELSE a + w

(* What p, a label of the tail of edge e, gives e's head.  Mutant: without *)
(* the number of edges.                                                    *)
AlongUncounted(p, e) == [at |-> e[2], len |-> Plus(p.len, e[3]), hops |-> 0, pred |-> e[1]]

Along(p, e) == [at |-> e[2], len |-> Plus(p.len, e[3]), hops |-> p.hops + 1, pred |-> e[1]]

(* The order of the labels of one vertex. *)
NotAfter(p, q) ==
  \/ p.len < q.len
  \/ p.len = q.len /\ p.hops < q.hops
  \/ p.len = q.len /\ p.hops = q.hops /\ p.pred <= q.pred

Root(t) == [at |-> t.source, len |-> 0, hops |-> 0, pred |-> -1]

(* The labels of B, and those they give along one edge more. *)
Extended(t, B) ==
  B \cup {Along(x[1], x[2]) : x \in {y \in B \X t.edges : y[1].at = y[2][1]}}

(* The first of each vertex's labels, where finite. *)
Firsts(all) ==
  {p \in all : p.len < Infinity /\ \A q \in all : q.at = p.at => NotAfter(p, q)}

(* The best labels of the vertices at finite length: those that paths of    *)
(* fewer than t.n edges give.                                              *)
BestLabels(t) ==
  LET upTo[k \in 0..(t.n - 1)] ==
        IF k = 0 THEN {Root(t)} ELSE Firsts(Extended(t, upTo[k - 1]))
  IN  upTo[t.n - 1]

(* The labels at the end of the search, but for vertices whose paths all    *)
(* are infinitely long.                                                    *)
Labels(t) ==
  LET B == BestLabels(t)
  IN  [x \in 0..(t.n - 1) |->
        IF \E p \in B : p.at = x
        THEN CHOOSE p \in B : p.at = x
        ELSE [at |-> x, len |-> Infinity, hops |-> 0, pred |-> -1]]

(* The vertices that the source leads to. *)
Reachable(t) ==
  LET upTo[k \in 0..t.n] ==
        IF k = 0 THEN {t.source}
        ELSE upTo[k - 1] \cup {e[2] : e \in {d \in t.edges : d[1] \in upTo[k - 1]}}
  IN  upTo[t.n]

(* A path that overflows may leave its last vertex, at infinite length, a  *)
(* predecessor: the tail of any edge from where the source leads, as paths *)
(* of infinite length are told apart by their edges and found in any order. *)
Tails(t, x) == {e[1] : e \in {d \in t.edges : d[2] = x /\ d[1] \in Reachable(t)}}

PredsAt(t, x) ==
  IF Labels(t)[x].len < Infinity THEN {Labels(t)[x].pred} ELSE {-1} \cup Tails(t, x)

-----------------------------------------------------------------------------

Init ==
  /\ g \in Inputs
  /\ pc = "build"
  /\ result = "Ok"
  /\ tr = Itself([n |-> 0, edges |-> << >>, source |-> 0])
  /\ lab = << >>
  /\ dist = << >> /\ pred = << >>
  /\ v = 0 /\ cur = 0

Fail(err) ==
  /\ result' = err
  /\ pc' = "done"
  /\ UNCHANGED <<g, tr, lab, outputs, v, cur>>

InRange(h) == \A i \in DOMAIN h.edges : h.edges[i][1] < h.n /\ h.edges[i][2] < h.n

(* build_csr, which panics on an end out of range. *)
BuildPanic == pc = "build" /\ ~InRange(g) /\ Fail("Panic")

Build ==
  /\ pc = "build" /\ InRange(g)
  /\ g' = [g EXCEPT !.edges = Enumerated(g)]
  /\ pc' = "check"
  /\ UNCHANGED <<result, tr, lab, outputs, v, cur>>

IsBad(w) == IF w = NaN THEN TRUE ELSE w < 0 \/ w >= Infinity

HasBadWeight == \E i \in DOMAIN g.edges : IsBad(g.edges[i][3])

Refuse ==
  /\ pc = "check"
  /\ \/ g.source >= g.n /\ Fail("SourceOutOfRange")
     \/ g.source < g.n /\ HasBadWeight /\ Fail("BadWeight")

Transform ==
  /\ pc = "check" /\ g.source < g.n /\ ~HasBadWeight
  /\ tr' = IF g.transform THEN Transformed(g) ELSE Itself(g)
  /\ pc' = "search"
  /\ UNCHANGED <<g, result, lab, outputs, v, cur>>

(* The search ends, and the lengths of the representatives are collected. *)
Search ==
  /\ pc = "search"
  /\ lab' = Labels(tr)
  /\ dist' = [u \in Vertices(g) |-> lab'[tr.rep[u]].len]
  /\ IF g.transform
     THEN /\ pred' = [u \in Vertices(g) |-> -1]
          /\ pc' = "next"
     ELSE /\ pred' \in {q \in [Vertices(g) -> {-1} \cup Vertices(g)] :
                           \A u \in Vertices(g) : q[u] \in PredsAt(tr, u)}
          /\ pc' = "done"
  /\ UNCHANGED <<g, result, tr, v, cur>>

(* recover_pred: the source and the vertices not reached are skipped, for  *)
(* the others a walk starts at their representative.                       *)
Skip ==
  /\ pc = "next" /\ v < g.n
  /\ v = g.source \/ lab[tr.rep[v]].len = Infinity
  /\ v' = v + 1
  /\ UNCHANGED <<g, pc, result, tr, lab, outputs, cur>>

StartWalk ==
  /\ pc = "next" /\ v < g.n
  /\ v # g.source /\ lab[tr.rep[v]].len # Infinity
  /\ cur' = tr.rep[v]
  /\ pc' = "walk"
  /\ UNCHANGED <<g, result, tr, lab, outputs, v>>

Prev == lab[cur].pred

(* Mutant: the first step back counts, whether it leaves the cycle or not. *)
LeavesAlways == Prev >= 0

Leaves == Prev >= 0 /\ tr.owner[Prev] # v

WalkBack ==
  /\ pc = "walk"
  /\ Prev >= 0 /\ ~Leaves
  /\ cur' = Prev
  /\ UNCHANGED <<g, pc, result, tr, lab, outputs, v>>

(* The walk has left the cycle of v, or (the code: "defensive") has ended. *)
EndWalk ==
  /\ pc = "walk"
  /\ Prev < 0 \/ Leaves
  /\ pred' = [pred EXCEPT ![v] = IF Prev < 0 THEN @ ELSE tr.owner[Prev]]
  /\ v' = v + 1
  /\ pc' = "next"
  /\ UNCHANGED <<g, result, tr, lab, dist, cur>>

Return ==
  /\ pc = "next" /\ v = g.n
  /\ pc' = "done"
  /\ UNCHANGED <<g, result, tr, lab, outputs, v, cur>>

RecoverPred == Skip \/ StartWalk \/ WalkBack \/ EndWalk \/ Return

Next == BuildPanic \/ Build \/ Refuse \/ Transform \/ Search \/ RecoverPred

Spec == Init /\ [][Next]_vars

(* recover_pred is one thread's loops, which do not stop before they end. *)
FairSpec == Spec /\ WF_vars(RecoverPred)

-----------------------------------------------------------------------------

Answered == pc = "done" /\ result = "Ok"

(* The lengths are those of the caller's graph: no path is lost or made     *)
(* longer or shorter where parallel edges, self-loops and vertices of      *)
(* degree 0 or 1 make unlike cycles, and wherever on its cycle a vertex's  *)
(* representative is.                                                      *)
Distances ==
  Answered => dist = [u \in Vertices(g) |-> Labels(Itself(g))[u].len]

(* A vertex other than the source has a predecessor exactly if its length   *)
(* is finite, and an edge from that accounts for the length.               *)
Accounted(u) ==
  \/ /\ u = g.source \/ dist[u] = Infinity
     /\ pred[u] = -1
  \/ /\ u # g.source /\ dist[u] # Infinity
     /\ \E i \in DOMAIN g.edges :
          /\ g.edges[i][1] = pred[u] /\ g.edges[i][2] = u
          /\ dist[u] = Plus(dist[pred[u]], g.edges[i][3])

(* The source leads to u, by paths whose sums all overflow, and no recovery *)
(* follows the search (engine.rs:1021).                                    *)
Overflown(u) == ~ g.transform /\ dist[u] = Infinity /\ Tails(Itself(g), u) # {}

(* Predecessors account for lengths: walking back round a cycle always      *)
(* leaves it, by an edge into the vertex it began at (bmssp.rs:694), and    *)
(* the recovery drops what the search left at infinite length.  Of the     *)
(* predecessors that nobody drops only NoneAtInfinity speaks.              *)
PredsTight == Answered => \A u \in Vertices(g) : Overflown(u) \/ Accounted(u)

(* "unreachable {v} must have pred -1", of every vertex at infinite length  *)
(* (tests/variants_correctness.rs:47-49).                                  *)
NoneAtInfinity ==
  Answered => \A u \in Vertices(g) : dist[u] = Infinity => pred[u] = -1

(* No transformed vertex has more than two edges out or two in, whatever    *)
(* the caller's graph is: what the bounds of BMSSP stand on.               *)
ConstantDegree ==
  g.transform /\ pc = "search" =>
    \A x \in 0..(tr.n - 1), side \in {1, 2} :
      Cardinality({e \in tr.edges : e[side] = x}) <= 2

(* recover_pred ends: a walk through predecessors of length 0 never goes    *)
(* round for ever, in the cycle of its vertex or in one of the caller's    *)
(* (bmssp.rs:688-700).                                                     *)
Termination == (pc = "next") ~> (pc = "done")

(* The vertices met from u on going from predecessor to predecessor. *)
Trail(u) ==
  LET up[k \in 0..g.n] ==
        IF k = 0 THEN u ELSE IF up[k - 1] = -1 THEN -1 ELSE pred[up[k - 1]]
  IN  {up[k] : k \in 0..g.n}

(* "Predecessor of each original vertex on a shortest path" (bmssp.rs:659): *)
(* from a vertex that is reached, the predecessors lead to the source.     *)
PredsLeadToSource ==
  Answered => \A u \in Vertices(g) : dist[u] # Infinity => g.source \in Trail(u)

-----------------------------------------------------------------------------
(* The inductive invariant.                                                 *)

TypeOK ==
  /\ g \in Callers
  /\ pc \in {"build", "check", "search", "next", "walk", "done"}
  /\ pc # "done" => result = "Ok"

(* What has been checked before the search. *)
Sound(h) ==
  /\ InRange(h) /\ h.source < h.n
  /\ \A i \in DOMAIN h.edges : ~IsBad(h.edges[i][3])

Searching ==
  result = "Ok" /\ pc \notin {"build", "check"} =>
    Sound(g) /\ tr = IF g.transform THEN Transformed(g) ELSE Itself(g)

Found ==
  result = "Ok" /\ pc \notin {"build", "check", "search"} =>
    /\ lab = Labels(tr)
    /\ dist = [u \in Vertices(g) |-> lab[tr.rep[u]].len]
    /\ pred \in [Vertices(g) -> {-1} \cup Vertices(g)]

(* recover_pred has done with the vertices before v. *)
Recovered ==
  /\ pc \in {"build", "check", "search"} => v = 0
  /\ pc \in {"next", "walk"} =>
       /\ g.transform /\ v \in 0..g.n
       /\ \A u \in Vertices(g) : IF u < v THEN Accounted(u) ELSE pred[u] = -1

(* The walk is on the cycle of v. *)
Walking ==
  pc = "walk" =>
    /\ v < g.n /\ v # g.source /\ dist[v] # Infinity
    /\ cur \in 0..(tr.n - 1) /\ tr.owner[cur] = v

IInv ==
  /\ TypeOK
  /\ pc = "check" => InRange(g)
  /\ Searching
  /\ Found
  /\ Recovered
  /\ Walking
  /\ PredsTight

=============================================================================
