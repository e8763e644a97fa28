------------------------------ MODULE MCHeaps -------------------------------
(* Small instances of the two machines with a heap, one of which moves: D   *)
(* as a flat heap, with Levels labels for each of N vertices, or the 4-ary  *)
(* heap, with the entries 1..Keys, at most two with each key.              *)
EXTENDS FlatHeap, Heap4

CONSTANTS N, Levels, Keys

ASSUME BoundOfInstance == B = N * Levels

MCVertex == 0..(N - 1)
MCLabel == 0..(N * Levels - 1)
MCVertexOf == [v \in MCLabel |-> v % N]

MCEntry == 1..Keys
MCKeyOf == [e \in MCEntry |-> e \div 2]

VARIABLE moves    (* Which of the two moves. *)

MCInit == Init /\ HeapInit /\ moves \in {"flat", "4-ary"}

FlatMoves == moves = "flat" /\ Next /\ UNCHANGED <<heapVars, moves>>
Heap4Moves == moves = "4-ary" /\ HeapNext /\ UNCHANGED <<vars, moves>>

MCSpec == MCInit /\ [][FlatMoves \/ Heap4Moves]_<<vars, heapVars, moves>>
=============================================================================
