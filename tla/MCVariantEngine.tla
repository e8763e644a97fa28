--------------------------- MODULE MCVariantEngine ---------------------------
(* VariantEngine on every weighting of two sets of edges, with the          *)
(* configurations of the variants and with the oracle at some calls only.  *)
EXTENDS VariantEngine, Variants

CONSTANT Weights

ExactAdd(a, w) == a + w

(* Few vertices within k edges, so that FindPivots gets to its forest. *)
Line == {<<0, 1>>, <<1, 2>>, <<2, 3>>, <<3, 1>>, <<4, 2>>}
Fork == {<<0, 1>>, <<1, 2>>, <<1, 3>>, <<2, 4>>, <<3, 4>>}
Chord == {<<0, 1>>, <<1, 2>>, <<2, 3>>, <<3, 4>>, <<0, 2>>, <<0, 4>>}

(* One vertex that is reached in two ways, and one behind it. *)
Ladder == {<<0, 1>>, <<0, 2>>, <<1, 3>>, <<2, 3>>, <<3, 4>>}

MCGraphs == UNION {[edges -> Weights] : edges \in {Line, Fork, Chord, Ladder}}

(* The graphs searched are transformed ones of 2 vertices and 2 or 3 edges, *)
(* or, without the transform, the caller's.                                *)
Run(v, args, k, t) == EngineParams([name |-> v, args |-> args], Override(k, t), 2, 3, N)

MCParams ==
  { Run("simpleq", << >>, 0, 1),      (* the default, of notransform, too *)
    Run("tuned", << >>, 2, 1),
    Run("lazypiv", << >>, 3, 1),
    Run("lazypiv", << >>, 4, 1),
    Run("hybrid:", <<0>>, 2, 1),      (* the oracle instead of the base case *)
    Run("hybrid:", << >>, 0, 0),      (* and at level 1 *)
    Run("hybrid:", <<-1, 2>>, 0, 0),  (* the oracle at small frontiers *)
    Run("fast", << >>, 0, 0) }        (* the first call *)
=============================================================================
