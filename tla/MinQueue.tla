------------------------------ MODULE MinQueue ------------------------------
(***************************************************************************)
(* What a priority queue promises: Pop takes an entry with a least key.    *)
(* Entries are told apart, so that two with equal keys are two entries.    *)
(***************************************************************************)
EXTENDS Integers

CONSTANTS
  Entry,      (* The entries that may be pushed.                       *)
  KeyOf,      (* The key of each, as its rank in the order of keys.    *)
  Nothing     (* What Pop returns from an empty queue.                 *)

VARIABLES
  content,    (* The entries in the queue.                             *)
  popped      (* What the last Pop returned.                           *)

vars == <<content, popped>>

Init == content = {} /\ popped = Nothing

Push(e) ==
  /\ e \notin content
  /\ content' = content \cup {e}
  /\ popped' = Nothing

Pop ==
  \/ content = {} /\ popped' = Nothing /\ UNCHANGED content
  \/ \E e \in content :
       /\ \A x \in content : KeyOf[e] <= KeyOf[x]
       /\ content' = content \ {e}
       /\ popped' = e

Clear == content' = {} /\ popped' = Nothing

Next == (\E e \in Entry : Push(e)) \/ Pop \/ Clear

Spec == Init /\ [][Next]_vars

=============================================================================
