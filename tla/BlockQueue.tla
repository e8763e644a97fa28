----------------------------- MODULE BlockQueue -----------------------------
(***************************************************************************)
(* BlockDs of block_queue.rs: two sequences of blocks and a registry.      *)
(*                                                                         *)
(* d0 receives only whole batches, at its front; d1 receives single        *)
(* insertions, each in the first block whose upper bound is not below it.  *)
(* A block is the set of its live slots: removing a label leaves the block *)
(* in place, perhaps empty.  The registry's (block, slot) address of a     *)
(* label is the block the label is in.                                     *)
(*                                                                         *)
(* The recursion of chunk_by_median, which halves the leftmost chunk that  *)
(* is too large until none is, takes one step per halving.                 *)
(***************************************************************************)
EXTENDS Labels, Sequences

CONSTANTS
  M,          (* The block size parameter, new's m.                    *)
  B           (* The upper bound, new's b.                             *)

ASSUME BlockAssumption ==
  /\ M \in Nat \ {0}
  /\ B \in Int

VARIABLES
  d0,         (* The blocks of prepended batches, front first.         *)
  d1,         (* The blocks of inserted labels.                        *)
  bounds,     (* The upper bound of each block of d1 (d1_bounds).      *)
  registry,   (* The labels stored; self.registry's values.            *)
  chunks,     (* The chunks of the batch being prepended, else empty.  *)
  limit,      (* The size no chunk of that batch may exceed.           *)
  ret         (* What the last operation returned.                     *)

vars == <<d0, d1, bounds, registry, chunks, limit, ret>>

NoResult == [keys |-> {}, bound |-> B]

-----------------------------------------------------------------------------
(* Sequences of blocks.                                                     *)

(* The labels of the first n blocks. *)
Prefix(q, n) == UNION {q[i] : i \in 1..n}

AllOf(q) == Prefix(q, Len(q))

(* Mutant: removed labels stay in their slots. *)
WithoutNothing(q, S) == q

(* The labels of S tombstoned in every block. *)
Without(q, S) == [i \in 1..Len(q) |-> q[i] \ S]

(* Mutant: the halves in the wrong order. *)
SplitAtReversed(q, i, lo, hi) ==
  [j \in 1..(Len(q) + 1) |->
    IF j < i THEN q[j] ELSE IF j = i THEN hi ELSE IF j = i + 1 THEN lo ELSE q[j - 1]]

(* Entry i replaced by the two entries lo and hi. *)
SplitAt(q, i, lo, hi) ==
  [j \in 1..(Len(q) + 1) |->
    IF j < i THEN q[j] ELSE IF j = i THEN lo ELSE IF j = i + 1 THEN hi ELSE q[j - 1]]

(* The sequence without its first n entries. *)
Drop(q, n) == [i \in 1..(Len(q) - n) |-> q[i + n]]

(* The first n entries of q are dead, and no longer prefix is, unless that *)
(* would leave fewer than `keep` entries.                                  *)
IsDeadPrefix(q, n, keep) ==
  /\ n + keep <= Len(q)
  /\ Prefix(q, n) = {}
  /\ n + keep < Len(q) => q[n + 1] # {}

(* The entry after the first n, if there is one. *)
Front(q, n) == IF n < Len(q) THEN q[n + 1] ELSE {}

(* x is what min_value returns: the least label of the first live block of *)
(* each sequence, or B when there is none.                                 *)
MinValueIs(x, q0, q1) ==
  \E n0 \in 0..Len(q0), n1 \in 0..Len(q1) :
    /\ IsDeadPrefix(q0, n0, 0)
    /\ IsDeadPrefix(q1, n1, 0)
    /\ IsMinOr(x, Front(q0, n0) \cup Front(q1, n1), B)

-----------------------------------------------------------------------------

Init ==
  /\ d0 = << >>
  /\ d1 = << {} >>
  /\ bounds = << B >>
  /\ registry = {}
  /\ chunks = << >>
  /\ limit = 0
  /\ ret = NoResult

(* partition_point: the first block whose bound is not below v. *)
IsBlockFor(idx, v) ==
  /\ bounds[idx] >= v
  /\ \A j \in 1..(idx - 1) : bounds[j] < v

(* The over-full block idx of q is replaced by its two halves; the lower    *)
(* half's bound is its largest label.                                      *)
SplitD1(q, idx) ==
  \E lower \in SUBSET q[idx] : \E top \in lower :
    /\ IsSmallest(lower, q[idx], Cardinality(q[idx]) \div 2)
    /\ \A y \in lower : y <= top
    /\ d1' = SplitAt(q, idx, lower, q[idx] \ lower)
    /\ bounds' = SplitAt(bounds, idx, top, bounds[idx])

Idle == chunks = << >>

(* Insert a label not below the one its vertex has: it is dropped. *)
InsertIgnored(v) ==
  /\ Idle
  /\ v < B
  /\ \E old \in SameVertex(registry, v) : v >= old
  /\ ret' = NoResult
  /\ UNCHANGED <<d0, d1, bounds, registry, chunks, limit>>

(* Insert a label of a new vertex, or a smaller one of a known vertex. *)
InsertStored(v) ==
  LET old == SameVertex(registry, v)
  IN  /\ Idle
      /\ v < B
      /\ \A o \in old : v < o
      /\ \E idx \in 1..Len(bounds) :
           LET pushed == [Without(d1, old) EXCEPT ![idx] = @ \cup {v}]
           IN  /\ IsBlockFor(idx, v)
               /\ \/ /\ Cardinality(pushed[idx]) <= M
                     /\ d1' = pushed
                     /\ UNCHANGED bounds
                  \/ /\ Cardinality(pushed[idx]) > M
                     /\ SplitD1(pushed, idx)
      /\ d0' = Without(d0, old)
      /\ registry' = (registry \ old) \cup {v}
      /\ ret' = NoResult
      /\ UNCHANGED <<chunks, limit>>

(* Mutant: chunks may be larger than a block. *)
LargeChunkCap == M + 1

(* max(1, ceil(M / 2)) *)
ChunkCap == (M + 1) \div 2

(* BatchPrepend up to the chunking: the batch is deduplicated and the old  *)
(* labels of its vertices are removed.  The guard is the operation's       *)
(* debug assertion.                                                        *)
PrependBegin(items) ==
  LET dedup == KeepMin(items)
      old   == {r \in registry : \E v \in items : VertexOf[r] = VertexOf[v]}
  IN  /\ Idle
      /\ items # {}
      /\ \E x \in Label \cup {B} :
           MinValueIs(x, d0, d1) /\ \A v \in dedup : v < x
      /\ d0' = Without(d0, old)
      /\ d1' = Without(d1, old)
      /\ registry' = registry \ old
      /\ chunks' = << dedup >>
      /\ limit' = IF Cardinality(dedup) <= M THEN M ELSE ChunkCap
      /\ ret' = NoResult
      /\ UNCHANGED bounds

(* The leftmost chunk over the limit is halved. *)
ChunkByMedian ==
  \E i \in 1..Len(chunks) : \E lower \in SUBSET chunks[i] :
    /\ Cardinality(chunks[i]) > limit
    /\ \A j \in 1..(i - 1) : Cardinality(chunks[j]) <= limit
    /\ IsSmallest(lower, chunks[i], Cardinality(chunks[i]) \div 2)
    /\ chunks' = SplitAt(chunks, i, lower, chunks[i] \ lower)
    /\ UNCHANGED <<d0, d1, bounds, registry, limit, ret>>

(* Mutant: the chunks go behind the blocks that are there. *)
PrependedLast == d0 \o chunks

PrependedFirst == chunks \o d0

(* The chunks become the first blocks of d0. *)
PrependEnd ==
  /\ ~Idle
  /\ \A i \in 1..Len(chunks) : Cardinality(chunks[i]) <= limit
  /\ d0' = PrependedFirst
  /\ registry' = registry \cup AllOf(chunks)
  /\ chunks' = << >>
  /\ limit' = 0
  /\ UNCHANGED <<d1, bounds, ret>>

(* Mutant: collecting stops one label early. *)
CollectsFewer(q, n) ==
  /\ n = Len(q) \/ Cardinality(Prefix(q, n)) >= M - 1
  /\ \A j \in 0..(n - 1) : Cardinality(Prefix(q, j)) < M - 1

(* Pull stops collecting blocks of q after the first n of them. *)
Collects(q, n) ==
  /\ n = Len(q) \/ Cardinality(Prefix(q, n)) >= M
  /\ \A j \in 0..(n - 1) : Cardinality(Prefix(q, j)) < M

(* Pull when everything fits: D starts again with one empty block. *)
PullAll ==
  \E n0 \in 0..Len(d0), n1 \in 0..Len(d1) :
    LET union == Prefix(d0, n0) \cup Prefix(d1, n1)
    IN  /\ Idle
        /\ Collects(d0, n0)
        /\ Collects(d1, n1)
        /\ Cardinality(union) <= M /\ n0 = Len(d0) /\ n1 = Len(d1)
        /\ registry' = registry \ union
        /\ d0' = << >>
        /\ d1' = << {} >>
        /\ bounds' = << B >>
        /\ ret' = [keys |-> Vertices(union), bound |-> B]
        /\ UNCHANGED <<chunks, limit>>

(* Pull of the M smallest of the collected labels. *)
PullSmallest ==
  \E n0 \in 0..Len(d0), n1 \in 0..Len(d1) :
    LET union == Prefix(d0, n0) \cup Prefix(d1, n1)
    IN  /\ Idle
        /\ Collects(d0, n0)
        /\ Collects(d1, n1)
        /\ ~(Cardinality(union) <= M /\ n0 = Len(d0) /\ n1 = Len(d1))
        /\ \E T \in SUBSET union :
             LET q0 == Without(d0, T)
                 q1 == Without(d1, T)
             IN  /\ \/ Cardinality(union) <= M /\ T = union
                    \/ Cardinality(union) > M /\ IsSmallest(T, union, M)
                 /\ registry' = registry \ T
                 /\ \E k0 \in 0..Len(q0), k1 \in 0..Len(q1) :
                      /\ IsDeadPrefix(q0, k0, 0)
                      /\ IsDeadPrefix(q1, k1, 1)
                      /\ d0' = Drop(q0, k0)
                      /\ d1' = Drop(q1, k1)
                      /\ bounds' = Drop(bounds, k1)
                 /\ \E x \in Label \cup {B} :
                      /\ MinValueIs(x, d0', d1')
                      /\ ret' = [keys |-> Vertices(T), bound |-> x]
        /\ UNCHANGED <<chunks, limit>>

Next ==
  \/ \E v \in Label : InsertIgnored(v) \/ InsertStored(v)
  \/ \E items \in SUBSET Label : PrependBegin(items)
  \/ ChunkByMedian
  \/ PrependEnd
  \/ PullAll
  \/ PullSmallest

Spec == Init /\ [][Next]_vars

-----------------------------------------------------------------------------
(* Invariants.                                                              *)

TypeOK ==
  /\ d0 \in Seq(SUBSET Label)
  /\ d1 \in Seq(SUBSET Label)
  /\ bounds \in Seq(Label \cup {B})
  /\ registry \in SUBSET Label
  /\ chunks \in Seq(SUBSET Label)
  /\ limit \in Nat
  /\ ret \in [keys : SUBSET Vertex, bound : Label \cup {B}]

(* Blocks of one sequence hold increasing ranges of labels. *)
Increasing(q) == \A i, j \in 1..Len(q) : i < j => AllBelow(q[i], q[j])

(* The registry and the blocks never drift apart: what the registry knows  *)
(* is exactly what is in the live slots, no label is in both sequences,    *)
(* and no vertex has two labels, not even one of them in a batch that is   *)
(* still being chunked.                                                    *)
RegistryCoherent ==
  /\ registry = AllOf(d0) \cup AllOf(d1)
  /\ AllOf(d0) \cap AllOf(d1) = {}
  /\ registry \cap AllOf(chunks) = {}
  /\ OnePerVertex(registry \cup AllOf(chunks))

(* Pull and min_value look only at a prefix of each sequence: that finds   *)
(* the smallest labels because the blocks are ordered, whatever has been   *)
(* moved, split or deleted since they were made.                           *)
BlocksOrdered == Increasing(d0) /\ Increasing(d1)

(* The bounds of d1 increase to B, and each label is above the bound before *)
(* its block and not above its own: Insert's bisection finds the one block  *)
(* where a label can go.                                                    *)
SeparatedBy(q, bs) ==
  /\ Len(bs) = Len(q)
  /\ Len(q) > 0
  /\ bs[Len(bs)] = B
  /\ \A i, j \in 1..Len(bs) : i < j => bs[i] < bs[j]
  /\ \A i \in 1..Len(q) : \A v \in q[i] :
       /\ v <= bs[i]
       /\ \A j \in 1..(i - 1) : bs[j] < v

BoundsSeparate ==
  /\ SeparatedBy(d1, bounds)
  /\ \A v \in registry : v < B

NoneOutgrows ==
  /\ \A i \in 1..Len(d0) : Cardinality(d0[i]) <= M
  /\ \A i \in 1..Len(d1) : Cardinality(d1[i]) <= M

ChunksFilled ==
  /\ ~Idle => limit > 0
  /\ \A i \in 1..Len(chunks) : chunks[i] # {}

(* No block outgrows M, so no pull collects more than 4M labels; and what a *)
(* batch is divided into are labels, not empty chunks.                     *)
SizesBounded == NoneOutgrows /\ ChunksFilled

(* The chunks of a batch are ordered and below everything stored, so that  *)
(* they may become the first blocks of d0.                                 *)
ChunksPending ==
  /\ Increasing(chunks)
  /\ AllBelow(AllOf(chunks), registry \cup {B})
  /\ limit <= M

(* Together they are inductive. *)
IInv ==
  /\ TypeOK
  /\ RegistryCoherent
  /\ BlocksOrdered
  /\ BoundsSeparate
  /\ ChunksPending

-----------------------------------------------------------------------------
(* BlockDs keeps the promise of Lemma 3.3: each Pull returns the M smallest *)
(* labels of everything stored, with the least remaining one as its bound.  *)
Q == INSTANCE DQueue WITH content <- registry \cup AllOf(chunks)

Implements == Q!Spec

=============================================================================
