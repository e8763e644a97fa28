------------------------------ MODULE FlatHeap ------------------------------
(***************************************************************************)
(* FlatHeap of variants/simple_queue.rs: the structure D as one binary     *)
(* heap with lazy deletion, and a map `best` with the live label of each   *)
(* vertex.  An entry of the heap that is not its vertex's `best` is stale. *)
(*                                                                         *)
(* The standard library's heap is a bag of labels of which a pop takes a   *)
(* least one.  A pull takes one step per pop.                              *)
(***************************************************************************)
EXTENDS Labels

CONSTANTS
  M,          (* The most vertices one pull returns, new's m.          *)
  B,          (* The upper bound, new's b.                             *)
  MaxCopies   (* Bound of the model: entries of one label in the heap. *)

ASSUME FlatHeapAssumption ==
  /\ M \in Nat \ {0}
  /\ B \in Int
  /\ MaxCopies \in Nat \ {0}

VARIABLES
  heap,       (* How many entries of each label the heap has.          *)
  best,       (* The live labels, one per vertex.                      *)
  batch,      (* What batch_prepend has not inserted yet.              *)
  pulling,    (* A pull is in progress.                                *)
  out,        (* The labels it has popped, all live.                   *)
  ret         (* What the last operation returned.                     *)

vars == <<heap, best, batch, pulling, out, ret>>

NoResult == [keys |-> {}, bound |-> B]

Entries == {r \in Label : heap[r] > 0}

Least(r) == r \in Entries /\ \A x \in Entries : r <= x

Init ==
  /\ heap = [r \in Label |-> 0]
  /\ best = {}
  /\ batch = {}
  /\ pulling = FALSE
  /\ out = {}
  /\ ret = NoResult

Idle == batch = {} /\ ~pulling

(* insert: a label not above v stays; else v becomes the live one and is    *)
(* pushed, whatever the heap still has of its vertex.                      *)
Keep(v) ==
  /\ \E old \in SameVertex(best, v) : old <= v
  /\ UNCHANGED <<heap, best>>

Store(v) ==
  /\ \A old \in SameVertex(best, v) : v < old
  /\ heap' = [heap EXCEPT ![v] = @ + 1]
  /\ best' = (best \ SameVertex(best, v)) \cup {v}

Insert(v) ==
  /\ Idle
  /\ v < B
  /\ heap[v] < MaxCopies
  /\ Keep(v) \/ Store(v)
  /\ ret' = NoResult
  /\ UNCHANGED <<batch, pulling, out>>

(* batch_prepend, called with labels below all that is live: the code      *)
(* relies on it and does not check it.                                     *)
PrependBegin(items) ==
  /\ Idle
  /\ items # {}
  /\ AllBelow(items, best \cup {B})
  /\ \A v \in items : heap[v] < MaxCopies
  /\ batch' = items
  /\ ret' = NoResult
  /\ UNCHANGED <<heap, best, pulling, out>>

(* It inserts the items one at a time, in the order the caller gave. *)
PrependOne(v) ==
  /\ v \in batch
  /\ Keep(v) \/ Store(v)
  /\ batch' = batch \ {v}
  /\ UNCHANGED <<pulling, out, ret>>

PullBegin ==
  /\ Idle
  /\ pulling' = TRUE
  /\ UNCHANGED <<heap, best, batch, out, ret>>

Popped(r) == [heap EXCEPT ![r] = @ - 1]

(* Mutant: the vertex stays live when its label is popped. *)
StillLive(r) == best

NoLongerLive(r) == best \ {r}

PopLive(r) ==
  /\ pulling
  /\ Cardinality(out) < M
  /\ Least(r)
  /\ r \in best
  /\ heap' = Popped(r)
  /\ best' = NoLongerLive(r)
  /\ out' = out \cup {r}
  /\ UNCHANGED <<batch, pulling, ret>>

(* A pop of either loop: a stale entry is discarded. *)
PopStale(r) ==
  /\ pulling
  /\ Least(r)
  /\ r \notin best
  /\ heap' = Popped(r)
  /\ UNCHANGED <<best, batch, pulling, out, ret>>

(* Mutant: the bound is the next entry, stale or not. *)
IsNextEntry(x) == IsMinOr(x, Entries, B)

(* The separating bound: the next entry once that is live, or B. *)
IsSeparating(x) == IsMinOr(x, Entries, B) /\ (Entries # {} => x \in best)

PullEnd ==
  /\ pulling
  /\ Cardinality(out) = M \/ Entries = {}
  /\ \E x \in Label \cup {B} :
       /\ IsSeparating(x)
       /\ ret' = [keys |-> Vertices(out), bound |-> x]
  /\ pulling' = FALSE
  /\ out' = {}
  /\ UNCHANGED <<heap, best, batch>>

Next ==
  \/ \E v \in Label : Insert(v) \/ PrependOne(v) \/ PopLive(v) \/ PopStale(v)
  \/ \E items \in SUBSET Label : PrependBegin(items)
  \/ PullBegin
  \/ PullEnd

Spec == Init /\ [][Next]_vars

-----------------------------------------------------------------------------

TypeOK ==
  /\ heap \in [Label -> 0..MaxCopies]
  /\ best \in SUBSET Label
  /\ batch \in SUBSET Label
  /\ pulling \in BOOLEAN
  /\ out \in SUBSET Label /\ Cardinality(out) <= M
  /\ ret \in [keys : SUBSET Vertex, bound : Label \cup {B}]

(* What is live can still be popped: stale entries and labels stored again *)
(* after they were popped never leave `best` with a label the heap lost,   *)
(* which no pull would return while is_empty says there is one.            *)
LiveInHeap == best \subseteq Entries /\ OnePerVertex(best)

(* A pull has no vertex twice, though the heap may hold its label twice,    *)
(* and what it has popped is below all that stays live.                    *)
PopsAscend == OnePerVertex(out \cup best) /\ AllBelow(out, best)

(* Only one operation is in progress, and what is left of a batch can be   *)
(* pushed.                                                                 *)
OneOperation ==
  /\ pulling => batch = {}
  /\ ~pulling => out = {}
  /\ \A v \in batch : heap[v] < MaxCopies

(* Together they are inductive. *)
IInv == TypeOK /\ LiveInHeap /\ PopsAscend /\ OneOperation

-----------------------------------------------------------------------------
(* FlatHeap keeps the same promise as BlockQueue. *)
Q == INSTANCE DQueue WITH content <- KeepMin(best \cup batch) \cup out

(* Lazy deletion is invisible: each pull returns the M least live labels   *)
(* and the least that remains, and a batch takes effect as a whole.        *)
Implements == Q!Spec

=============================================================================
