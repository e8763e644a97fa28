------------------------------- MODULE Labels -------------------------------
(***************************************************************************)
(* The totally ordered values the priority structures hold.                *)
(*                                                                         *)
(* In the code a value is a Key (length, hops, id) compared                *)
(* lexicographically, and the id of a value stored in D is the vertex it   *)
(* belongs to, so two vertices never hold equal values.  Here a label is   *)
(* the rank of such a triple: an integer, with VertexOf giving its id.     *)
(***************************************************************************)
EXTENDS Integers, FiniteSets

CONSTANTS
  Vertex,     (* The vertices (u32 keys of the registry).              *)
  Label,      (* The ranks of the keys that may be stored.             *)
  VertexOf    (* The id component of each label.                       *)

ASSUME LabelAssumption ==
  /\ Label \subseteq Int /\ IsFiniteSet(Label)
  /\ VertexOf \in [Label -> Vertex]

(* The labels of S that belong to the vertex of v. *)
SameVertex(S, v) == {r \in S : VertexOf[r] = VertexOf[v]}

(* At most one label per vertex. *)
OnePerVertex(S) == \A x, y \in S : VertexOf[x] = VertexOf[y] => x = y

(* Every element of S is below every element of T. *)
AllBelow(S, T) == \A x \in S, y \in T : x < y

(***************************************************************************)
(* What a quickselect for the n smallest of S may return.  The pivots are  *)
(* random, but labels are distinct, so the set is unique; only its order   *)
(* depends on the pivots, and order inside a block is not modelled.        *)
(***************************************************************************)
IsSmallest(T, S, n) ==
  /\ T \subseteq S
  /\ Cardinality(T) = n
  /\ AllBelow(T, S \ T)

(* Of several labels of one vertex keep the smallest. *)
KeepMin(S) == {v \in S : \A w \in SameVertex(S, v) : v <= w}

(* The vertices a set of labels belongs to. *)
Vertices(S) == {VertexOf[v] : v \in S}

(* x is the least element of S, or the bound b when S is empty. *)
IsMinOr(x, S, b) ==
  \/ S = {} /\ x = b
  \/ x \in S /\ \A y \in S : x <= y

-----------------------------------------------------------------------------
(* What the operations of Lemma 3.3 do to the labels C that D holds.        *)

(* Insert: store v unless its vertex already has a label not larger. *)
Inserted(C, v) ==
  IF \E old \in SameVertex(C, v) : old <= v
  THEN C
  ELSE (C \ SameVertex(C, v)) \cup {v}

(* BatchPrepend: the batch, one label per vertex, replaces what its vertices *)
(* had.                                                                      *)
Prepended(C, items) ==
  {r \in C : \A v \in items : VertexOf[r] # VertexOf[v]} \cup KeepMin(items)

(* Pull: the m smallest, or all when m or fewer are left, and a bound that  *)
(* separates them from the rest.                                            *)
IsPull(T, x, C, m, b) ==
  /\ \/ Cardinality(C) <= m /\ T = C
     \/ Cardinality(C) > m /\ IsSmallest(T, C, m)
  /\ IsMinOr(x, C \ T, b)

=============================================================================
