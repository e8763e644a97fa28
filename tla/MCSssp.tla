------------------------------- MODULE MCSssp -------------------------------
(* Sssp on every graph of three vertices and three edges of length 0 or 1,  *)
(* or two of 4 or 5, whose sum may be infinite, parallel edges and          *)
(* self-loops among them, and on inputs to be refused.                     *)
EXTENDS Sssp

Edge == (0..2) \X (0..2) \X {0, 1}

ByTail == {s \in [1..3 -> Edge] : s[1][1] <= s[2][1] /\ s[2][1] <= s[3][1]}

Heavy == [1..2 -> (0..2) \X (0..2) \X {4, 5}]

(* Tails out of order, an end out of range and weights that are refused. *)
Odd ==
  { <<<<2, 1, 1>>, <<0, 2, 0>>, <<2, 0, 0>>, <<0, 2, 1>>>>,
    <<<<0, 1, 1>>, <<1, 3, 1>>>>,
    <<<<0, 1, 1>>, <<1, 2, -1>>>>,
    <<<<0, 1, 1>>, <<1, 2, NaN>>>>,
    <<<<0, 1, 1>>, <<1, 2, Infinity>>>>,
    << >> }

MCInputs ==
  [n : {3}, edges : ByTail \cup Heavy \cup Odd, source : {0, 1}, transform : BOOLEAN]
    \cup [n : {3}, edges : Odd, source : {3}, transform : BOOLEAN]
    \cup [n : {0}, edges : {<< >>}, source : {0}, transform : BOOLEAN]
=============================================================================
