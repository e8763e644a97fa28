------------------------------- MODULE DQueue -------------------------------
(***************************************************************************)
(* What the structure D of Lemma 3.3 promises its caller (the recursion of *)
(* Algorithm 3): a map from vertices to labels below B with three          *)
(* operations.  BlockQueue (block_queue.rs) and FlatHeap                   *)
(* (variants/simple_queue.rs) implement it.                                *)
(***************************************************************************)
EXTENDS Labels

CONSTANTS
  M,          (* The most vertices one Pull returns.                   *)
  B           (* The upper bound on every stored label.                *)

VARIABLES
  content,    (* The labels stored, one per vertex.                    *)
  ret         (* What the last operation returned.                     *)

vars == <<content, ret>>

(* Insert and BatchPrepend return nothing. *)
NoResult == [keys |-> {}, bound |-> B]

Init ==
  /\ content = {}
  /\ ret = NoResult

Insert(v) ==
  /\ v < B
  /\ content' = Inserted(content, v)
  /\ ret' = NoResult

(* The batch is smaller than everything stored. *)
BatchPrepend(items) ==
  /\ items # {}
  /\ AllBelow(KeepMin(items), content \cup {B})
  /\ content' = Prepended(content, items)
  /\ ret' = NoResult

Pull ==
  \E T \in SUBSET content, x \in Label \cup {B} :
    /\ IsPull(T, x, content, M, B)
    /\ content' = content \ T
    /\ ret' = [keys |-> Vertices(T), bound |-> x]

Next ==
  \/ \E v \in Label : Insert(v)
  \/ \E items \in SUBSET Label : BatchPrepend(items)
  \/ Pull

Spec == Init /\ [][Next]_vars

=============================================================================
