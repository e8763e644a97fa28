--------------------------- MODULE FlatHeapProofs ---------------------------
(***************************************************************************)
(* Proofs about FlatHeap, for every set of labels, every M and every       *)
(* number of stale copies: its invariants, and that it keeps the promise   *)
(* of DQueue.                                                              *)
(***************************************************************************)
EXTENDS FlatHeap, FiniteSetTheorems, TLAPS

-----------------------------------------------------------------------------
(* The inductive invariant.                                                 *)

LEMMA NoResultType == NoResult \in [keys : SUBSET Vertex, bound : Label \cup {B}]
  BY DEF NoResult

LEMMA InitInv == Init => IInv
<1> SUFFICES ASSUME Init PROVE IInv
  OBVIOUS
<1>1. TypeOK
  <2>1. Cardinality({}) = 0
    BY FS_EmptySet
  <2>2. heap \in [Label -> 0..MaxCopies]
    BY FlatHeapAssumption DEF Init
  <2>3. Cardinality(out) <= M
    BY <2>1, FlatHeapAssumption DEF Init
  <2> QED BY <2>2, <2>3, NoResultType DEF Init, TypeOK
<1>2. LiveInHeap /\ PopsAscend /\ OneOperation
  BY DEF Init, LiveInHeap, PopsAscend, OneOperation, OnePerVertex, AllBelow
<1> QED BY <1>1, <1>2 DEF IInv

(* Storing v, which keeps its vertex's label or replaces it by a smaller   *)
(* one, keeps the live labels in the heap, one per vertex.                 *)
LEMMA StoreInv ==
  ASSUME IInv, NEW v \in Label, heap[v] < MaxCopies, Keep(v) \/ Store(v)
  PROVE  /\ heap' \in [Label -> 0..MaxCopies]
         /\ best' \in SUBSET Label
         /\ LiveInHeap'
         /\ \A x \in Label : x # v => heap'[x] = heap[x]
<1>1. heap \in [Label -> 0..MaxCopies] /\ best \in SUBSET Label /\ LiveInHeap
  BY DEF IInv, TypeOK
<1>2. CASE Keep(v)
  BY <1>1, <1>2 DEF Keep, LiveInHeap, Entries
<1>3. CASE Store(v)
  <2>1. /\ heap' \in [Label -> 0..MaxCopies]
        /\ heap'[v] = heap[v] + 1
        /\ \A x \in Label : x # v => heap'[x] = heap[x]
    BY <1>1, <1>3, FlatHeapAssumption DEF Store
  <2>2. best' = (best \ SameVertex(best, v)) \cup {v}
    BY <1>3 DEF Store
  <2>3. best' \subseteq Entries'
    BY <1>1, <2>1, <2>2 DEF LiveInHeap, Entries
  <2>4. OnePerVertex(best')
    BY <1>1, <2>2 DEF LiveInHeap, OnePerVertex, SameVertex
  <2> QED BY <1>1, <2>1, <2>2, <2>3, <2>4 DEF LiveInHeap
<1> QED BY <1>2, <1>3

LEMMA InsertInv ==
  ASSUME IInv, NEW v \in Label, Insert(v)
  PROVE  IInv'
<1>1. heap[v] < MaxCopies /\ (Keep(v) \/ Store(v))
  BY DEF Insert
<1>2. /\ ret' = NoResult /\ ~pulling /\ pulling' = pulling /\ batch = {} /\ batch' = {} /\ out' = out
  BY DEF Insert, Idle
<1>3. out = {}
  BY <1>2 DEF IInv, OneOperation
<1>4. /\ heap' \in [Label -> 0..MaxCopies] /\ best' \in SUBSET Label /\ LiveInHeap'
  BY <1>1, StoreInv
<1>5. TypeOK'
  BY <1>2, <1>4, NoResultType DEF IInv, TypeOK
<1>6. PopsAscend' /\ OneOperation'
  BY <1>2, <1>3, <1>4 DEF PopsAscend, OneOperation, LiveInHeap, AllBelow
<1> QED BY <1>4, <1>5, <1>6 DEF IInv

LEMMA PrependBeginInv ==
  ASSUME IInv, NEW items \in SUBSET Label, PrependBegin(items)
  PROVE  IInv'
<1>1. /\ ret' = NoResult /\ ~pulling /\ batch' = items
      /\ UNCHANGED <<heap, best, pulling, out>>
      /\ \A v \in items : heap[v] < MaxCopies
  BY DEF PrependBegin, Idle
<1> QED BY <1>1, NoResultType
        DEF IInv, TypeOK, LiveInHeap, PopsAscend, OneOperation, AllBelow, Entries

LEMMA PrependOneInv ==
  ASSUME IInv, NEW v \in Label, PrependOne(v)
  PROVE  IInv'
<1>1. /\ v \in batch /\ batch' = batch \ {v} /\ (Keep(v) \/ Store(v))
      /\ UNCHANGED <<pulling, out, ret>>
  BY DEF PrependOne
<1>2. heap[v] < MaxCopies /\ ~pulling /\ out = {}
  BY <1>1 DEF IInv, TypeOK, OneOperation
<1>3. /\ heap' \in [Label -> 0..MaxCopies] /\ best' \in SUBSET Label /\ LiveInHeap'
      /\ \A x \in Label : x # v => heap'[x] = heap[x]
  BY <1>1, <1>2, StoreInv
<1> QED BY <1>1, <1>2, <1>3
        DEF IInv, TypeOK, LiveInHeap, PopsAscend, OneOperation, AllBelow

LEMMA PullBeginInv ==
  ASSUME IInv, PullBegin
  PROVE  IInv'
  BY DEF PullBegin, Idle, IInv, TypeOK, LiveInHeap, PopsAscend, OneOperation, AllBelow, Entries

LEMMA PopLiveInv ==
  ASSUME IInv, NEW r \in Label, PopLive(r)
  PROVE  IInv'
<1>1. /\ pulling /\ Cardinality(out) < M /\ Least(r) /\ r \in best
      /\ heap' = [heap EXCEPT ![r] = @ - 1]
      /\ best' = best \ {r}
      /\ out' = out \cup {r}
      /\ UNCHANGED <<batch, pulling, ret>>
  BY DEF PopLive, Popped, NoLongerLive
<1>2. TypeOK'
  <2>1. heap \in [Label -> 0..MaxCopies] /\ heap[r] > 0
    BY <1>1 DEF IInv, TypeOK, Least, Entries
  <2>2. heap' \in [Label -> 0..MaxCopies]
    BY <1>1, <2>1, FlatHeapAssumption
  <2>3. Cardinality(out') <= M
    <3>1. IsFiniteSet(out) /\ out \subseteq Label
      BY FS_Subset, LabelAssumption DEF IInv, TypeOK
    <3>2. /\ Cardinality(out) \in Nat /\ Cardinality(out') \in Nat
          /\ Cardinality(out') <= Cardinality(out) + 1
      <4>1. Cardinality(out) \in Nat
        BY <3>1, FS_CardinalityType
      <4>2. Cardinality(out \cup {r})
              = IF r \in out THEN Cardinality(out) ELSE Cardinality(out) + 1
        BY <3>1, FS_AddElement
      <4> QED BY <1>1, <4>1, <4>2
    <3> QED BY <1>1, <3>2, FlatHeapAssumption
  <2> QED BY <1>1, <2>2, <2>3 DEF IInv, TypeOK
<1>3. LiveInHeap'
  BY <1>1 DEF IInv, TypeOK, LiveInHeap, Entries, OnePerVertex
<1>4. PopsAscend'
  <2>1. \A y \in best \ {r} : r < y
    BY <1>1, LabelAssumption DEF IInv, TypeOK, LiveInHeap, Least
  <2>2. out' \cup best' = out \cup best
    BY <1>1
  <2> QED BY <1>1, <2>1, <2>2 DEF IInv, PopsAscend, AllBelow
<1>5. OneOperation'
  BY <1>1 DEF IInv, OneOperation
<1> QED BY <1>2, <1>3, <1>4, <1>5 DEF IInv

LEMMA PopStaleInv ==
  ASSUME IInv, NEW r \in Label, PopStale(r)
  PROVE  IInv'
<1>1. /\ pulling /\ Least(r) /\ r \notin best
      /\ heap' = [heap EXCEPT ![r] = @ - 1]
      /\ UNCHANGED <<best, batch, pulling, out, ret>>
  BY DEF PopStale, Popped
<1>2. TypeOK'
  <2>1. heap \in [Label -> 0..MaxCopies] /\ heap[r] > 0
    BY <1>1 DEF IInv, TypeOK, Least, Entries
  <2> QED BY <1>1, <2>1, FlatHeapAssumption DEF IInv, TypeOK
<1>3. LiveInHeap'
  BY <1>1 DEF IInv, TypeOK, LiveInHeap, Entries
<1> QED BY <1>1, <1>2, <1>3 DEF IInv, PopsAscend, OneOperation

LEMMA PullEndInv ==
  ASSUME IInv, PullEnd
  PROVE  IInv'
<1>1. /\ pulling' = FALSE /\ out' = {} /\ pulling /\ UNCHANGED <<heap, best, batch>>
      /\ ret' \in [keys : SUBSET Vertex, bound : Label \cup {B}]
  BY LabelAssumption DEF PullEnd, Vertices, IInv, TypeOK
<1>2. TypeOK'
  <2>1. Cardinality({}) = 0 /\ 0 <= M
    BY FS_EmptySet, FlatHeapAssumption
  <2>2. Cardinality(out') <= M
    BY <1>1, <2>1
  <2> QED BY <1>1, <2>2 DEF IInv, TypeOK
<1>3. LiveInHeap' /\ PopsAscend'
  BY <1>1 DEF IInv, LiveInHeap, PopsAscend, AllBelow, Entries, OnePerVertex
<1> QED BY <1>1, <1>2, <1>3 DEF IInv, OneOperation

LEMMA NextInv == IInv /\ [Next]_vars => IInv'
<1> SUFFICES ASSUME IInv, [Next]_vars PROVE IInv'
  OBVIOUS
<1>1. CASE UNCHANGED vars
  BY <1>1
     DEF vars, IInv, TypeOK, LiveInHeap, PopsAscend, OneOperation, Entries
<1>2. CASE \E v \in Label : Insert(v) \/ PrependOne(v) \/ PopLive(v) \/ PopStale(v)
  BY <1>2, InsertInv, PrependOneInv, PopLiveInv, PopStaleInv
<1>3. CASE \E items \in SUBSET Label : PrependBegin(items)
  BY <1>3, PrependBeginInv
<1>4. CASE PullBegin
  BY <1>4, PullBeginInv
<1>5. CASE PullEnd
  BY <1>5, PullEndInv
<1> QED BY <1>1, <1>2, <1>3, <1>4, <1>5 DEF Next

(* The invariant holds in every state. *)
THEOREM Inductive == Spec => []IInv
  BY InitInv, NextInv, PTL DEF Spec

(* Every live label of FlatHeap can still be popped: an entry that was      *)
(* stale, popped or pushed twice never takes the live one with it.         *)
THEOREM LiveStaysInHeap == Spec => []LiveInHeap
<1>1. IInv => LiveInHeap
  BY DEF IInv
<1> QED BY <1>1, Inductive, PTL

(* What a pull of FlatHeap has popped is below all that stays, one label    *)
(* for each vertex.                                                        *)
THEOREM PullsAscend == Spec => []PopsAscend
<1>1. IInv => PopsAscend
  BY DEF IInv
<1> QED BY <1>1, Inductive, PTL

-----------------------------------------------------------------------------
(* The refinement.                                                          *)

(* The operators DQueue shares with FlatHeap through Labels. *)
LEMMA SharedOperators ==
  /\ Q!NoResult = NoResult
  /\ \A S, v : Q!SameVertex(S, v) = SameVertex(S, v)
  /\ \A S : Q!KeepMin(S) = KeepMin(S)
  /\ \A S, T : Q!AllBelow(S, T) <=> AllBelow(S, T)
  /\ \A T, x, S, n, b : Q!IsPull(T, x, S, n, b) <=> IsPull(T, x, S, n, b)
  /\ \A S, v : Q!Inserted(S, v) = Inserted(S, v)
  /\ \A S, T : Q!Prepended(S, T) = Prepended(S, T)
  /\ \A S : Q!Vertices(S) = Vertices(S)
<1>1. \A S : Q!Cardinality(S) = Cardinality(S)
  BY DEF Q!Cardinality, Cardinality
<1>2. \A S, v : Q!SameVertex(S, v) = SameVertex(S, v)
  BY DEF Q!SameVertex, SameVertex
<1>3. \A S : Q!KeepMin(S) = KeepMin(S)
  BY <1>2 DEF Q!KeepMin, KeepMin
<1>4. \A S, T : Q!AllBelow(S, T) <=> AllBelow(S, T)
  BY DEF Q!AllBelow, AllBelow
<1>5. \A S, T, n : Q!IsSmallest(T, S, n) <=> IsSmallest(T, S, n)
  BY <1>1, <1>4 DEF Q!IsSmallest, IsSmallest
<1>6. \A x, S, b : Q!IsMinOr(x, S, b) <=> IsMinOr(x, S, b)
  BY DEF Q!IsMinOr, IsMinOr
<1>7. \A T, x, S, n, b : Q!IsPull(T, x, S, n, b) <=> IsPull(T, x, S, n, b)
  BY <1>1, <1>5, <1>6 DEF Q!IsPull, IsPull
<1>8. \A S, v : Q!Inserted(S, v) = Inserted(S, v)
  BY <1>2 DEF Q!Inserted, Inserted
<1>9. \A S, T : Q!Prepended(S, T) = Prepended(S, T)
  BY <1>3 DEF Q!Prepended, Prepended
<1>10. \A S : Q!Vertices(S) = Vertices(S)
  BY DEF Q!Vertices, Vertices
<1> QED BY <1>2, <1>3, <1>4, <1>7, <1>8, <1>9, <1>10 DEF Q!NoResult, NoResult

(* KeepMin changes nothing where no vertex has two labels. *)
LEMMA KeepMinIdentity ==
  ASSUME NEW S \in SUBSET Label, OnePerVertex(S)
  PROVE  KeepMin(S) = S
<1>1. \A v \in S : \A w \in SameVertex(S, v) : v = w /\ v \in Int
  BY LabelAssumption DEF SameVertex, OnePerVertex
<1>2. \A v \in S : \A w \in SameVertex(S, v) : v <= w
  BY <1>1
<1> QED BY <1>2 DEF KeepMin

(* Between batches and pulls the content of D is the live labels. *)
LEMMA ContentIdle ==
  ASSUME IInv, batch = {}
  PROVE  KeepMin(best \cup batch) = best
<1>1. best \in SUBSET Label /\ OnePerVertex(best) /\ best \cup batch = best
  BY DEF IInv, TypeOK, LiveInHeap
<1> QED BY <1>1, KeepMinIdentity

LEMMA InitRefines == Init => Q!Init
  BY DEF Init, Q!Init, NoResult, Q!NoResult, KeepMin

LEMMA InsertRefines ==
  ASSUME IInv, NEW v \in Label, Insert(v)
  PROVE  Q!Insert(v)
<1>1. /\ batch = {} /\ batch' = {} /\ out = {} /\ out' = {} /\ v < B /\ ret' = NoResult
      /\ Keep(v) \/ Store(v)
  BY DEF Insert, Idle, IInv, OneOperation
<1>2. IInv'
  BY InsertInv
<1>3. KeepMin(best \cup batch) = best /\ KeepMin(best' \cup batch') = best'
  <2>1. KeepMin(best \cup batch) = best
    BY <1>1, ContentIdle
  <2>2. best' \in SUBSET Label /\ OnePerVertex(best') /\ best' \cup batch' = best'
    BY <1>1, <1>2 DEF IInv, TypeOK, LiveInHeap
  <2> QED BY <2>1, <2>2, KeepMinIdentity
<1>4. best' = Inserted(best, v)
  <2>1. SameVertex(best, v) \subseteq Int /\ v \in Int
    BY LabelAssumption DEF IInv, TypeOK, SameVertex
  <2>2. CASE Keep(v)
    BY <2>2 DEF Keep, Inserted
  <2>3. CASE Store(v)
    BY <2>1, <2>3 DEF Store, Inserted
  <2> QED BY <1>1, <2>2, <2>3
<1>5. (KeepMin(best \cup batch) \cup out)' = KeepMin(best' \cup batch') \cup out'
  BY DEF KeepMin, SameVertex
<1> QED BY <1>1, <1>3, <1>4, <1>5, SharedOperators DEF Q!Insert

(* Labels below all the live ones replace those of their vertices. *)
LEMMA KeepMinOfBatch ==
  ASSUME NEW S \in SUBSET Label, OnePerVertex(S), NEW items \in SUBSET Label,
         AllBelow(items, S)
  PROVE  KeepMin(S \cup items) = Prepended(S, items)
<1>1. S \cup items \subseteq Int
  BY LabelAssumption
<1>2. ASSUME NEW r \in KeepMin(S \cup items) PROVE r \in Prepended(S, items)
  <2>1. CASE r \in items
    <3>1. r \in KeepMin(items)
      BY <1>2, <2>1 DEF KeepMin, SameVertex
    <3> QED BY <3>1 DEF Prepended
  <2>2. CASE r \notin items
    <3>1. r \in S
      BY <1>2, <2>2 DEF KeepMin
    <3>2. ASSUME NEW v \in items, VertexOf[r] = VertexOf[v] PROVE FALSE
      <4>1. v < r
        BY <3>1 DEF AllBelow
      <4>2. r <= v
        BY <1>2, <3>2, <4>1 DEF KeepMin, SameVertex
      <4> QED BY <1>1, <3>1, <4>1, <4>2
    <3> QED BY <3>1, <3>2 DEF Prepended
  <2> QED BY <2>1, <2>2
<1>3. ASSUME NEW r \in Prepended(S, items) PROVE r \in KeepMin(S \cup items)
  <2>1. CASE r \in KeepMin(items)
    <3>1. r \in items /\ \A w \in items : VertexOf[w] = VertexOf[r] => r <= w
      BY <2>1 DEF KeepMin, SameVertex
    <3>2. \A w \in S : r < w
      BY <3>1 DEF AllBelow
    <3>3. \A w \in S \cup items : VertexOf[w] = VertexOf[r] => r <= w
      BY <1>1, <3>1, <3>2
    <3> QED BY <3>1, <3>3 DEF KeepMin, SameVertex
  <2>2. CASE r \in S /\ \A v \in items : VertexOf[r] # VertexOf[v]
    BY <1>1, <2>2 DEF KeepMin, SameVertex, OnePerVertex
  <2> QED BY <1>3, <2>1, <2>2 DEF Prepended
<1> QED BY <1>2, <1>3

LEMMA PrependBeginRefines ==
  ASSUME IInv, NEW items \in SUBSET Label, PrependBegin(items)
  PROVE  Q!BatchPrepend(items)
<1>1. /\ batch = {} /\ out = {} /\ out' = {} /\ items # {} /\ ret' = NoResult
      /\ AllBelow(items, best \cup {B}) /\ batch' = items /\ best' = best
  BY DEF PrependBegin, Idle, IInv, OneOperation
<1>2. KeepMin(best \cup batch) \cup out = best
  BY <1>1, ContentIdle
<1>3. KeepMin(best \cup items) = Prepended(best, items)
  <2>1. best \in SUBSET Label /\ OnePerVertex(best) /\ AllBelow(items, best)
    BY <1>1 DEF IInv, TypeOK, LiveInHeap, AllBelow
  <2> QED BY <2>1, KeepMinOfBatch
<1>4. (KeepMin(best \cup batch) \cup out)' = KeepMin(best' \cup batch') \cup out'
  BY DEF KeepMin, SameVertex
<1>5. AllBelow(KeepMin(items), best \cup {B})
  BY <1>1 DEF AllBelow, KeepMin
<1> QED BY <1>1, <1>2, <1>3, <1>4, <1>5, SharedOperators DEF Q!BatchPrepend

(* KeepMin is the same without labels that lose to one that stays. *)
LEMMA DropDominated ==
  ASSUME NEW S \in SUBSET Int, NEW T \in SUBSET S,
         \A r \in S \ T : \E x \in T :
           x < r /\ VertexOf[x] = VertexOf[r]
  PROVE  KeepMin(T) = KeepMin(S)
<1>1. ASSUME NEW r \in KeepMin(T) PROVE r \in KeepMin(S)
  <2>1. r \in T /\ \A w \in T : VertexOf[w] = VertexOf[r] => r <= w
    BY <1>1 DEF KeepMin, SameVertex
  <2>2. ASSUME NEW w \in S \ T, VertexOf[w] = VertexOf[r] PROVE r <= w
    <3>1. PICK x \in T : x < w /\ VertexOf[x] = VertexOf[w]
      OBVIOUS
    <3>2. r <= x
      BY <2>1, <2>2, <3>1
    <3> QED BY <2>1, <3>1, <3>2
  <2> QED BY <2>1, <2>2 DEF KeepMin, SameVertex
<1>2. ASSUME NEW r \in KeepMin(S) PROVE r \in KeepMin(T)
  <2>1. r \in S /\ \A w \in S : VertexOf[w] = VertexOf[r] => r <= w
    BY <1>2 DEF KeepMin, SameVertex
  <2>2. r \in T
    BY <2>1
  <2> QED BY <2>1, <2>2 DEF KeepMin, SameVertex
<1> QED BY <1>1, <1>2

(* Inserting one item of a batch only moves it from the batch to the live   *)
(* labels, or drops it when it is not its vertex's least.                  *)
LEMMA PrependOneStutters ==
  ASSUME IInv, NEW v \in Label, PrependOne(v)
  PROVE  UNCHANGED Q!vars
<1>1. /\ v \in batch /\ batch' = batch \ {v} /\ (Keep(v) \/ Store(v))
      /\ UNCHANGED <<out, ret>>
      /\ batch \in SUBSET Label /\ best \in SUBSET Label /\ best \cup batch \subseteq Int
  BY LabelAssumption DEF PrependOne, IInv, TypeOK
<1>2. KeepMin(best' \cup batch') = KeepMin(best \cup batch)
  <2>1. CASE Keep(v)
    <3>1. PICK old \in best : VertexOf[old] = VertexOf[v] /\ old <= v
      BY <2>1 DEF Keep, SameVertex
    <3>2. best' = best
      BY <2>1 DEF Keep
    <3>3. CASE v \in best
      <4>1. best' \cup batch' = best \cup batch
        BY <1>1, <3>2, <3>3
      <4> QED BY <4>1
    <3>4. CASE v \notin best
      <4>1. best' \cup batch' = (best \cup batch) \ {v} /\ old # v /\ old < v
        BY <1>1, <3>1, <3>2, <3>4
      <4> QED BY <1>1, <3>1, <4>1, DropDominated
    <3> QED BY <3>3, <3>4
  <2>2. CASE Store(v)
    <3>1. /\ best' = (best \ SameVertex(best, v)) \cup {v}
          /\ \A old \in SameVertex(best, v) : v < old
      BY <2>2 DEF Store
    <3>2. best' \cup batch' \subseteq best \cup batch /\ v \in best'
      BY <1>1, <3>1
    <3>3. \A r \in (best \cup batch) \ (best' \cup batch') : r \in SameVertex(best, v)
      BY <1>1, <3>1
    <3>4. \A r \in (best \cup batch) \ (best' \cup batch') :
            VertexOf[r] = VertexOf[v] /\ v < r
      BY <3>1, <3>3 DEF SameVertex
    <3> QED BY <1>1, <3>2, <3>4, DropDominated
  <2> QED BY <1>1, <2>1, <2>2
<1>3. (KeepMin(best \cup batch) \cup out)' = KeepMin(best' \cup batch') \cup out'
  BY DEF KeepMin, SameVertex
<1> QED BY <1>1, <1>2, <1>3 DEF Q!vars

(* Popping changes only where a label is, or discards a stale entry. *)
LEMMA PoppingStutters ==
  ASSUME IInv, \/ PullBegin \/ \E r \in Label : PopLive(r) \/ PopStale(r)
  PROVE  UNCHANGED Q!vars
<1>1. best \cup out = best' \cup out' /\ batch' = batch /\ ret' = ret
  BY DEF PullBegin, PopLive, PopStale, NoLongerLive
<1>2. batch = {}
  BY DEF IInv, OneOperation, PullBegin, PopLive, PopStale, Idle
<1>3. IInv'
  BY PullBeginInv, PopLiveInv, PopStaleInv
<1>4. KeepMin(best \cup batch) = best
  BY <1>2, ContentIdle
<1>5. KeepMin(best' \cup batch') = best'
  <2>1. best' \in SUBSET Label /\ OnePerVertex(best') /\ best' \cup batch' = best'
    BY <1>1, <1>2, <1>3 DEF IInv, TypeOK, LiveInHeap
  <2> QED BY <2>1, KeepMinIdentity
<1>6. (KeepMin(best \cup batch) \cup out)' = KeepMin(best' \cup batch') \cup out'
  BY DEF KeepMin, SameVertex
<1> QED BY <1>1, <1>4, <1>5, <1>6 DEF Q!vars

(* What was popped are the M least labels, or all of them. *)
LEMMA PullEndRefines ==
  ASSUME IInv, PullEnd
  PROVE  Q!Pull
<1>1. /\ batch = {} /\ batch' = {} /\ out' = {} /\ best' = best
      /\ Cardinality(out) = M \/ Entries = {}
  BY DEF PullEnd, IInv, OneOperation
<1>2. PICK x \in Label \cup {B} :
        IsSeparating(x) /\ ret' = [keys |-> Vertices(out), bound |-> x]
  BY DEF PullEnd
<1> DEFINE C == best \cup out
<1>3. /\ best \subseteq Entries /\ AllBelow(out, best) /\ best \cap out = {}
      /\ best \cup out \subseteq Int
      /\ Entries # {} => x \in best
  BY <1>2, LabelAssumption
     DEF IInv, TypeOK, LiveInHeap, PopsAscend, AllBelow, IsSeparating
<1>4. C \ out = best
  BY <1>3
<1>5. IsMinOr(x, C \ out, B)
  BY <1>2, <1>3, <1>4 DEF IsSeparating, IsMinOr
<1>6. \/ Cardinality(C) <= M /\ out = C
      \/ Cardinality(C) > M /\ IsSmallest(out, C, M)
  <2>1. IsFiniteSet(C) /\ IsFiniteSet(out)
    BY FS_Subset, FS_Union, LabelAssumption DEF IInv, TypeOK
  <2>2. CASE Entries = {}
    <3>1. C = out
      BY <1>3, <2>2
    <3> QED BY <3>1 DEF IInv, TypeOK
  <2>3. CASE Entries # {}
    <3>1. Cardinality(out) = M
      BY <1>1, <2>3
    <3>2. out \subseteq C /\ out # C
      BY <1>3, <2>3
    <3>3. Cardinality(out) < Cardinality(C)
      BY <2>1, <3>2, FS_Subset, FS_CardinalityType
    <3>4. Cardinality(C) > M
      BY <2>1, <3>1, <3>3, FS_CardinalityType, FlatHeapAssumption
    <3>5. IsSmallest(out, C, M)
      BY <1>3, <1>4, <3>1, <3>2 DEF IsSmallest
    <3> QED BY <3>4, <3>5
  <2> QED BY <2>2, <2>3
<1>7. IsPull(out, x, C, M, B)
  BY <1>5, <1>6 DEF IsPull
<1>8. KeepMin(best \cup batch) = best /\ KeepMin(best' \cup batch') = best
  <2>1. best' \cup batch' = best \cup batch
    BY <1>1
  <2> QED BY <1>1, <2>1, ContentIdle
<1>9. (KeepMin(best \cup batch) \cup out)' = KeepMin(best' \cup batch') \cup out'
  BY DEF KeepMin, SameVertex
<1>10. KeepMin(best \cup batch) \cup out = C /\ (KeepMin(best \cup batch) \cup out)' = C \ out
  BY <1>1, <1>4, <1>8, <1>9
<1> QED BY <1>2, <1>7, <1>10, SharedOperators DEF Q!Pull

LEMMA NextRefines == IInv /\ [Next]_vars => [Q!Next]_Q!vars
<1> SUFFICES ASSUME IInv, [Next]_vars PROVE [Q!Next]_Q!vars
  OBVIOUS
<1>1. CASE UNCHANGED vars
  BY <1>1 DEF vars, Q!vars, KeepMin, SameVertex
<1>2. CASE \E v \in Label : Insert(v)
  BY <1>2, InsertRefines DEF Q!Next
<1>3. CASE \E v \in Label : PrependOne(v)
  BY <1>3, PrependOneStutters
<1>4. CASE \/ PullBegin \/ \E r \in Label : PopLive(r) \/ PopStale(r)
  BY <1>4, PoppingStutters
<1>5. CASE \E items \in SUBSET Label : PrependBegin(items)
  BY <1>5, PrependBeginRefines DEF Q!Next
<1>6. CASE PullEnd
  BY <1>6, PullEndRefines DEF Q!Next
<1> QED BY <1>1, <1>2, <1>3, <1>4, <1>5, <1>6 DEF Next

(* FlatHeap implements DQueue: whatever stale entries its heap carries,     *)
(* each pull returns the M least live labels and the least that remains.   *)
THEOREM Refinement == Spec => Implements
  BY InitRefines, InitInv, NextInv, NextRefines, PTL DEF Spec, Implements, Q!Spec

=============================================================================
