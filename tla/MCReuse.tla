------------------------------ MODULE MCReuse -------------------------------
(* Dijkstra, called twice with one heap, on stars of one edge up to six.    *)
EXTENDS Dijkstra

Star(m) ==
  [n |-> m + 1, indptr |-> [u \in 0..(m + 1) |-> IF u = 0 THEN 0 ELSE m],
   indices |-> [j \in 0..(m - 1) |-> j + 1], weights |-> [j \in 0..(m - 1) |-> 1],
   source |-> 0]

MCInputs == {Star(m) : m \in 1..6}
=============================================================================
