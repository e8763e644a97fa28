------------------------------ MODULE MCBmssp -------------------------------
(* Bmssp on every weighting of a few sets of edges among the first five     *)
(* vertices, and on a few graphs of all eight.                             *)
EXTENDS Bmssp, Variants

CONSTANT Weights

ExactAdd(a, w) == a + w

(* Most vertices are reached in two ways, and there is a cycle. *)
Mesh == {<<0, 1>>, <<0, 2>>, <<1, 2>>, <<1, 3>>, <<2, 3>>, <<2, 4>>, <<3, 4>>, <<4, 1>>}

(* Few vertices within k edges, so that FindPivots gets to its forest;     *)
(* in the first, 4 is not reached.                                         *)
Line == {<<0, 1>>, <<1, 2>>, <<2, 3>>, <<3, 1>>, <<4, 2>>}
Fork == {<<0, 1>>, <<1, 2>>, <<1, 3>>, <<2, 4>>, <<3, 4>>}

(* Two ways to one vertex, so that base cases of k = 4 pop it twice. *)
Ladder == {<<0, 1>>, <<0, 2>>, <<1, 3>>, <<2, 3>>, <<3, 4>>}

(* A vertex waits in the W of one call while another returns past it, and  *)
(* one is between two calls of the same caller.                            *)
Branches ==
  <<0, 1>> :> 0 @@ <<0, 2>> :> 2 @@ <<1, 3>> :> 3 @@ <<2, 4>> :> 1 @@ <<3, 5>> :> 2
    @@ <<3, 6>> :> 3 @@ <<4, 6>> :> 1 @@ <<6, 7>> :> 2

Twigs ==
  <<0, 1>> :> 1 @@ <<1, 3>> :> 0 @@ <<1, 5>> :> 1 @@ <<3, 4>> :> 3 @@ <<3, 6>> :> 3
    @@ <<5, 7>> :> 2 @@ <<6, 2>> :> 1

(* 7 is not reached. *)
Stem ==
  <<0, 1>> :> 0 @@ <<0, 2>> :> 2 @@ <<0, 3>> :> 2 @@ <<2, 5>> :> 0 @@ <<3, 4>> :> 1
    @@ <<4, 6>> :> 1

(* With cycles, and most vertices reached in several ways. *)
Rings ==
  <<0, 1>> :> 0 @@ <<0, 2>> :> 2 @@ <<1, 3>> :> 3 @@ <<2, 4>> :> 1 @@ <<3, 4>> :> 0
    @@ <<3, 5>> :> 2 @@ <<3, 6>> :> 3 @@ <<4, 5>> :> 3 @@ <<4, 6>> :> 1 @@ <<6, 1>> :> 0
    @@ <<6, 4>> :> 1 @@ <<6, 7>> :> 2

Knots ==
  <<0, 1>> :> 1 @@ <<1, 2>> :> 1 @@ <<1, 3>> :> 0 @@ <<1, 5>> :> 1 @@ <<3, 4>> :> 3
    @@ <<3, 6>> :> 3 @@ <<4, 1>> :> 3 @@ <<5, 1>> :> 0 @@ <<5, 7>> :> 2 @@ <<6, 1>> :> 3
    @@ <<6, 2>> :> 1 @@ <<6, 7>> :> 0 @@ <<7, 4>> :> 1

MCGraphs ==
  UNION {[edges -> Weights] : edges \in {Mesh, Line, Fork, Ladder}}
    \cup {Branches, Twigs, Stem, Rings, Knots}

MCParams ==
  {ComputeParams(N, NoKt)}
    \cup {ComputeParams(N, Override(p[1], p[2])) : p \in {<<1, 1>>, <<2, 1>>, <<2, 2>>, <<3, 2>>, <<4, 2>>}}
=============================================================================
