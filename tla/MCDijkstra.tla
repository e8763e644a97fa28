----------------------------- MODULE MCDijkstra -----------------------------
(* Dijkstra on every well-formed graph of two or three vertices and three   *)
(* edges, and on arrays malformed in every way the checks name.             *)
EXTENDS Dijkstra

Edge == 0..2

Monotone(n) ==
  {p \in [0..n -> 0..3] : p[0] = 0 /\ p[n] = 3 /\ \A u \in 1..n : p[u - 1] <= p[u]}

(* Ends that are right with any offsets between, and ends that are not. *)
Malformed ==
  {[u \in 0..3 |-> CASE u = 0 -> 0 [] u = 1 -> x [] u = 2 -> y [] u = 3 -> 3] :
     x, y \in {-1, 0, 3, 4}}
  \cup {[u \in 0..k |-> IF u = 0 THEN x ELSE 3] : k \in 2..4, x \in {0, 1}}
  \cup {[u \in 0..3 |-> 0]}

(* f, but for x at j. *)
But(f, j, x) == [f EXCEPT ![j] = x]

Ones == [j \in Edge |-> 1]

MCInputs ==
  [n       : {2, 3},
   indptr  : Monotone(2) \cup Monotone(3) \cup Malformed,
   indices : [Edge -> 0..2] \cup {But(Ones, j, v) : j \in Edge, v \in {-1, 3}},
   weights : [Edge -> {0, 1, 3}] \cup {But(Ones, j, w) : j \in Edge, w \in {-1, NaN, Infinity}},
   source  : {0}]
=============================================================================
