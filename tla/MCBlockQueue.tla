---------------------------- MODULE MCBlockQueue ----------------------------
(* Small instances of the two machines of block_queue.rs: one selection on  *)
(* an array of at most MaxItems labels, and then, with Levels labels for    *)
(* each of N vertices, but one less for the last, D.                       *)
EXTENDS BlockQueue, QuickSelect

CONSTANTS N, Levels

ASSUME BoundOfInstance == B = N * Levels

MCVertex == 0..(N - 1)
MCLabel == 0..(N * Levels - 2)
MCVertexOf == [v \in MCLabel |-> v % N]

(* The labels of the array are the n least, in any order. *)
MCInit == Init /\ StartSelect /\ given = 0..(n - 1)

(* Of the ways in which the selection can end, D goes on from one: what it *)
(* does is the same after all.                                             *)
Rests == pc = "done" /\ n = 2 /\ items[0] = 0 /\ pivot = 0

Selecting == SelectStep /\ UNCHANGED vars
Queueing == Rests /\ Next /\ UNCHANGED selectVars
Ended == pc = "done" /\ ~ Rests /\ UNCHANGED <<vars, selectVars>>

MCSpec ==
  /\ MCInit
  /\ [][Selecting \/ Queueing \/ Ended]_<<vars, selectVars>>
  /\ WF_<<vars, selectVars>>(Selecting)
=============================================================================
