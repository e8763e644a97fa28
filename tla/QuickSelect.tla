----------------------------- MODULE QuickSelect ----------------------------
(***************************************************************************)
(* partition_smallest_in_place of block_queue.rs: the quickselect that     *)
(* every split of a block, halving of a batch and pull of D relies on.     *)
(*                                                                         *)
(* The pivots are random, here arbitrary.  The items are labels: no two    *)
(* are equal, and the vertex that travels with each is not modelled.       *)
(***************************************************************************)
EXTENDS Labels

CONSTANT MaxItems  (* Bound of the model: the length of the array.        *)

ASSUME QuickSelectAssumption == MaxItems \in Nat \ {0}

VARIABLES
  given,      (* The labels to select from; never changes.             *)
  n,          (* How many there are, items.len().                      *)
  m,          (* How many of the least to select; never changes.       *)
  items,      (* The array, from 0.                                    *)
  lo, hi,     (* The part of it that is not partitioned yet.           *)
  pivot,      (* The label it is being partitioned by.                 *)
  store,      (* Where the next label below the pivot goes.            *)
  i,          (* The next position to look at.                         *)
  pc

selectVars == <<given, n, m, items, lo, hi, pivot, store, i, pc>>

Values(a, S) == {a[j] : j \in S}

(* Called only when 0 < m < n. *)
StartSelect ==
  /\ n \in 2..MaxItems
  /\ m \in 1..(n - 1)
  /\ items \in [0..(n - 1) -> Label]
  /\ \A j, k \in 0..(n - 1) : items[j] = items[k] => j = k
  /\ given = Values(items, 0..(n - 1))
  /\ lo = 0
  /\ hi = n - 1
  /\ pivot = items[0] /\ store = 0 /\ i = 0       (* set by Pick *)
  /\ pc = "pick"

(* Mutant: one position before the last of the m items. *)
TargetBefore == m - 2

(* The index of the last of the m items. *)
target == m - 1

Swap(a, j, k) == [a EXCEPT ![j] = a[k], ![k] = a[j]]

(* Any label of the part that is left becomes the pivot, at its end. *)
Pick ==
  /\ pc = "pick"
  /\ lo < hi
  /\ \E p \in lo..hi :
       /\ pivot' = items[p]
       /\ items' = Swap(items, p, hi)
  /\ store' = lo
  /\ i' = lo
  /\ pc' = "scan"
  /\ UNCHANGED <<given, n, m, lo, hi>>

Scan ==
  /\ pc = "scan"
  /\ i < hi
  /\ i' = i + 1
  /\ \/ /\ items[i] < pivot
        /\ items' = Swap(items, store, i)
        /\ store' = store + 1
     \/ /\ items[i] >= pivot
        /\ UNCHANGED <<items, store>>
  /\ UNCHANGED <<given, n, m, lo, hi, pivot, pc>>

(* Mutant: the pivot stays in the part above it. *)
AboveWithPivot == store

Above == store + 1

(* The pivot goes between the two parts; the one with the target remains,   *)
(* unless the target is the pivot.                                         *)
Place ==
  /\ pc = "scan"
  /\ i = hi
  /\ items' = Swap(items, store, hi)
  /\ \/ store = target /\ pc' = "done" /\ UNCHANGED <<lo, hi>>
     \/ store < target /\ pc' = "pick" /\ lo' = Above /\ UNCHANGED hi
     \/ store > target /\ pc' = "pick" /\ hi' = store - 1 /\ UNCHANGED lo
  /\ UNCHANGED <<given, n, m, pivot, store, i>>

Exhausted ==
  /\ pc = "pick"
  /\ lo >= hi
  /\ pc' = "done"
  /\ UNCHANGED <<given, n, m, items, lo, hi, pivot, store, i>>

SelectStep == Pick \/ Scan \/ Place \/ Exhausted

SelectSpec == StartSelect /\ [][SelectStep]_selectVars

(* The loop runs until it ends. *)
FairSpec == SelectSpec /\ WF_selectVars(SelectStep)

-----------------------------------------------------------------------------

(* The indices never leave the array: in particular hi = store - 1 does not *)
(* wrap round below 0.                                                     *)
InSlice ==
  /\ n \in Nat /\ m \in 1..(n - 1)
  /\ items \in [0..(n - 1) -> Label]
  /\ lo \in 0..(n - 1) /\ hi \in 0..(n - 1)
  /\ store \in 0..(n - 1) /\ i \in 0..(n - 1)
  /\ pivot \in Label
  /\ pc \in {"pick", "scan", "done"}

(* The array always holds what it was given. *)
SameItems ==
  /\ given = Values(items, 0..(n - 1))
  /\ \A j, k \in 0..(n - 1) : items[j] = items[k] => j = k

(* The target stays in the part that is left, and that part is above all   *)
(* before it and below all behind it.                                      *)
Narrowing ==
  /\ pc # "done" => lo <= target /\ target <= hi
  /\ \A j, k \in 0..(n - 1) :
       (j < lo /\ lo <= k) \/ (j <= hi /\ hi < k) => items[j] < items[k]

(* Within that part the labels seen are partitioned by the pivot. *)
Partitioned ==
  pc = "scan" =>
    /\ lo <= store /\ store <= i /\ i <= hi /\ items[hi] = pivot
    /\ \A j \in lo..(store - 1) : items[j] < pivot
    /\ \A j \in store..(i - 1) : items[j] > pivot

(* At the end the first m items are the m least: what BlockQueue takes a    *)
(* quickselect to return.                                                  *)
Selects == pc = "done" => IsSmallest(Values(items, 0..(m - 1)), given, m)

SelectInv ==
  /\ InSlice
  /\ SameItems
  /\ Narrowing
  /\ Partitioned
  /\ pc = "done" => \A j, k \in 0..(n - 1) : j < m /\ m <= k => items[j] < items[k]

(* It ends, whatever the pivots. *)
Termination == <>(pc = "done")

=============================================================================
