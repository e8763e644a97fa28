----------------------------- MODULE MCPredCycle -----------------------------
(* Sssp on a graph with a cycle of length 0 between 2 and 3.  The           *)
(* representative of 2 is the slot of an edge from 0, which is not         *)
(* reached, and from the slot where 1 comes in the way to it is shorter    *)
(* by 3 and back than round the slots of the self-loops.                   *)
EXTENDS Sssp

MCInputs ==
  [n : {4}, source : {1}, transform : {TRUE},
   edges : {<<<<0, 2, 0>>, <<1, 2, 0>>, <<2, 3, 0>>, <<2, 2, 0>>, <<2, 2, 0>>, <<3, 2, 0>>>>}]
=============================================================================
