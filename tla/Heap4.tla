------------------------------- MODULE Heap4 --------------------------------
(***************************************************************************)
(* The 4-ary heap in arrays that dijkstra.rs (Heap) and the engine of the  *)
(* variants (KeyHeap) implement alike: sifting moves a hole through the    *)
(* arrays and writes the entry only where the hole stops.                  *)
(*                                                                         *)
(* The parallel arrays of an entry's fields, kept the same length, are one *)
(* array; a push writes nothing to the new slot before the hole passes it. *)
(***************************************************************************)
EXTENDS Integers, FiniteSets

CONSTANTS Entry, KeyOf, Nothing

ASSUME EntryAssumption ==
  /\ KeyOf \in [Entry -> Int]
  /\ Nothing \notin Entry

VARIABLES
  a,          (* The array: a function on 0..(len - 1).                *)
  len,        (* Its length.                                           *)
  hole,       (* While sifting, the slot to be written.                *)
  moving,     (* While sifting, the entry to be put there.             *)
  pc,
  popped      (* What the last pop returns, or Nothing.                *)

heapVars == <<a, len, hole, moving, pc, popped>>

HeapInit ==
  /\ a = [j \in {} |-> Nothing]
  /\ len = 0
  /\ hole = 0
  /\ moving = Nothing
  /\ pc = "idle"
  /\ popped = Nothing

Slots == 0..(len - 1)

(* Mutant: the parent of a slot of a heap that starts at 1. *)
ParentFromOne(j) == j \div 4

Parent(j) == (j - 1) \div 4

(* Mutant: one child less. *)
ThreeChildren(j) == {c \in Slots : 4 * j + 1 <= c /\ c < 4 * j + 4}

Children(j) == {c \in Slots : 4 * j + 1 <= c /\ c < 4 * j + 5}

(* The slots whose entries count: all but the hole. *)
Filled == IF pc = "idle" THEN Slots ELSE Slots \ {hole}

Content == {a[j] : j \in Filled} \cup (IF pc = "idle" THEN {} ELSE {moving})

Key(j) == KeyOf[a[j]]

(* push: the new slot holds nothing yet. *)
Push(e) ==
  /\ pc = "idle"
  /\ e \notin Content
  /\ a' = [j \in 0..len |-> IF j < len THEN a[j] ELSE Nothing]
  /\ len' = len + 1
  /\ hole' = len
  /\ moving' = e
  /\ pc' = "up"
  /\ popped' = Nothing

(* The parent moves down into the hole. *)
SiftUp ==
  /\ pc = "up"
  /\ hole > 0
  /\ KeyOf[moving] < Key(Parent(hole))
  /\ a' = [a EXCEPT ![hole] = a[Parent(hole)]]
  /\ hole' = Parent(hole)
  /\ UNCHANGED <<len, moving, pc, popped>>

(* Mutant: the entry in hand is dropped. *)
FillNothing ==
  /\ hole' = 0
  /\ moving' = Nothing
  /\ pc' = "idle"
  /\ UNCHANGED <<a, len, popped>>

(* The hole is filled, and the operation is over. *)
Fill ==
  /\ a' = [a EXCEPT ![hole] = moving]
  /\ hole' = 0
  /\ moving' = Nothing
  /\ pc' = "idle"
  /\ UNCHANGED <<len, popped>>

FillUp ==
  /\ pc = "up"
  /\ hole > 0 => KeyOf[moving] >= Key(Parent(hole))
  /\ Fill

PopEmpty ==
  /\ pc = "idle"
  /\ len = 0
  /\ popped' = Nothing
  /\ UNCHANGED <<a, len, hole, moving, pc>>

(* pop: the last entry leaves its slot, to go where the hole stops. *)
Pop ==
  /\ pc = "idle"
  /\ len > 0
  /\ popped' = a[0]
  /\ len' = len - 1
  /\ a' = [j \in 0..(len - 2) |-> a[j]]
  /\ hole' = 0
  /\ IF len > 1
     THEN pc' = "down" /\ moving' = a[len - 1]
     ELSE UNCHANGED <<pc, moving>>

(* The child that is moved: the first with a least key. *)
IsSmallestChild(c) ==
  /\ c \in Children(hole)
  /\ \A d \in Children(hole) : Key(c) < Key(d) \/ (Key(c) = Key(d) /\ c <= d)

SiftDown ==
  /\ pc = "down"
  /\ \E c \in Slots :
       /\ IsSmallestChild(c)
       /\ Key(c) < KeyOf[moving]
       /\ a' = [a EXCEPT ![hole] = a[c]]
       /\ hole' = c
  /\ UNCHANGED <<len, moving, pc, popped>>

FillDown ==
  /\ pc = "down"
  /\ \A c \in Children(hole) : Key(c) >= KeyOf[moving]
  /\ Fill

(* reset_with_capacity and clear: the next run finds the heap empty. *)
Clear ==
  /\ pc = "idle"
  /\ len' = 0
  /\ a' = [j \in {} |-> Nothing]
  /\ popped' = Nothing
  /\ UNCHANGED <<hole, moving, pc>>

HeapNext ==
  \/ \E e \in Entry : Push(e)
  \/ SiftUp \/ FillUp
  \/ Pop \/ PopEmpty
  \/ SiftDown \/ FillDown
  \/ Clear

HeapSpec == HeapInit /\ [][HeapNext]_heapVars

-----------------------------------------------------------------------------

HeapTypeOK ==
  /\ len \in Nat
  /\ a \in [Slots -> Entry \cup {Nothing}]
  /\ pc \in {"idle", "up", "down"}
  /\ IF pc = "idle" THEN moving = Nothing /\ hole = 0
                    ELSE moving \in Entry /\ hole \in Slots
  /\ popped \in Entry \cup {Nothing}

(* No slot is read before it is written (the new slot of a push is memory   *)
(* that was never initialized), and no entry is lost or there twice,       *)
(* however the holes moved.                                                *)
EachOnce ==
  /\ \A j \in Filled : a[j] \in Entry
  /\ \A j, k \in Filled : a[j] = a[k] => j = k
  /\ pc # "idle" => \A j \in Filled : a[j] # moving

(* Every entry is above its parent, but for the hole; what is above the     *)
(* hole is not larger than what is below, so that any of them may fill it. *)
HeapOrdered ==
  \A j \in Slots \ {0} :
    LET p == Parent(j)
    IN  IF pc # "idle" /\ p = hole
        THEN /\ pc = "up" => KeyOf[moving] <= Key(j)
             /\ hole # 0 => Key(Parent(hole)) <= Key(j)
        ELSE IF pc # "idle" /\ j = hole
             THEN pc = "down" => Key(p) <= KeyOf[moving]
             ELSE Key(p) <= Key(j)

HeapInv == HeapTypeOK /\ EachOnce /\ HeapOrdered

PQ == INSTANCE MinQueue WITH content <- Content

(* Push and pop implement a priority queue. *)
ImplementsMinQueue == PQ!Spec

=============================================================================
