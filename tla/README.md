# A verification of logtwothirds in TLA+

logtwothirds is a Rust crate with Python bindings that computes single-source
shortest paths with BMSSP, the O(m log^(2/3) n) algorithm of Duan, Mao, Mao,
Shu and Yin, with Dijkstra's algorithm as the baseline, and with a family of
variants of BMSSP. This directory models its algorithms in TLA+, checks the
models with TLC on small instances, and proves their central safety properties
with TLAPS for every value of the constants.

Paths below are relative to the root of the repository: `src/bmssp.rs` is the
crate's own file.

Contents:
[1. The system](#1-the-system) ·
[2. The modules](#2-the-modules) ·
[3. What is checked](#3-what-is-checked) ·
[4. What is proved](#4-what-is-proved) ·
[5. What was found](#5-what-was-found) ·
[6. What is abstracted](#6-what-is-abstracted) ·
[7. What is not modelled](#7-what-is-not-modelled) ·
[8. The plan](#8-the-plan) ·
[9. Running it](#9-running-it)

## 1. The system

One run of BMSSP goes through these parts:

    shortest_paths, shortest_paths_multi
         │  method, checks, copy, a run for each source
         ▼
    caller's arrays ──check, build_csr──► graph ──transform──► graph of degree ≤ 2
                                                                     │
         dist, pred ◄──recover_pred── labels ◄──── recursion (FindPivots,
                                                     BaseCase, Algorithm 3)
                                                        │         ▲
                                             insert, batch_prepend, pull
                                                        ▼         │
                                              D: BlockDs  or  SimpleHeapDs
                                                        │
                                                   quickselect

The variants run a fork of the recursion (`src/variants/engine.rs`) that can
take the place of each part: the transform may be off, D may be the flat heap,
and a bounded Dijkstra on a 4-ary heap (the oracle) may answer whole calls.
Dijkstra's algorithm proper has its own 4-ary heap.

### Components

**D, the block queue** (`src/block_queue.rs`, `BlockDs`). *State*: the deques
`d0` and `d1` of blocks, the upper bounds `d1_bounds`, a registry from vertices
to slots, an arena of blocks in which removal leaves tombstones. *Operations*:
`insert`, `batch_prepend`, `pull`; inside, `split_d1`, `chunk_by_median`,
`collect_prefix`, `prune_front`, `min_value`. *Used by* each call of the
recursion, which owns one D; *uses* quickselect. *Hard*: a long legal sequence
of operations (splits, prunings, decreases, batches) must not let the registry,
the order of the blocks and their bounds drift apart; an error shows only when
a much later pull returns the wrong labels or unwraps nothing. *Correct when* a
pull returns the M least labels and a bound that separates them from the rest
(Lemma 3.3 of the paper).

**Quickselect** (`partition_smallest_in_place`). *State*: the slice, the
interval `lo..=hi`, the scan's positions. *Hard*: indices at the edges of the
interval, for any random pivot. *Correct when* it ends, within the slice, with
the m least items in front.

**The flat heap queue** (`src/variants/simple_queue.rs`, `SimpleHeapDs`). D as
one `BinaryHeap` and a map of the live labels; entries that are no longer live
are dropped when popped. *Hard*: a stale entry that looks live, or from which
the separating bound is taken. *Correct when* it implements the same contract.

**The recursion** (`src/bmssp.rs`, `find_pivots`, `base_case`, `bmssp`).
*State*: the labels `dhat`, `hops`, `pred` and the flag `settled` of each
vertex, shared by all calls; in each call B, S, its D, W, U, the boundary B'_i.
*Interaction*: every call relaxes edges and so changes labels that lie in the D
of its callers; calls return partial results, whose rest is prepended to D.
*Hard*: the order of the windows [B'_i, B_i), ties, stale labels in D, partial
children, vertices completed by FindPivots alone that are swept at the end.
*Correct when* every call leaves nothing below the bound it returns unsettled,
what is settled is final, and no vertex is lost between FindPivots, D, and the
batches.

**Transform and recovery** (`build_csr`, `transform_to_constant_degree`,
`recover_pred`, `sssp_bmssp`). *State*: the caller's graph, the transformed
graph with the owner of each of its vertices, the representatives `rep`, the
labels. *Hard*: slots of vertices of degree 0 or 1, self-loops and parallel
edges; cycles of length 0 in the walk that recovers predecessors. *Correct
when* lengths are those of the caller's graph and each predecessor's edge
accounts for the length.

**The variant engine** (`src/variants/engine.rs` and the configurations around
it). As the recursion, with an early stop in FindPivots and a pivot threshold
that follows it (`lazy_pivots`), with the oracle below a level or at a small
frontier (`hybrid_*`), and without the assertions. *Hard*: these change what
FindPivots and the calls promise one another. *Correct when* the promises of
the recursion still hold.

**Dijkstra** (`src/dijkstra.rs`). *State*: `dist`, `pred`, the heap with its
capacity. *Hard*: the loop reads its arrays with `get_unchecked` and pushes with
`push_unchecked`, so that correctness rests on checks made once, before it, and
on a bound on the number of pushes; ties round cycles of length 0; sums that
reach infinity; stale entries. *Correct when* indices stay in bounds, pushes
within capacity, lengths are shortest and predecessors form a tree.

**The 4-ary heaps** (`Heap` in `src/dijkstra.rs`, `KeyHeap` in the engine).
*State*: parallel arrays and, while sifting, an unwritten hole. *Hard*: index
arithmetic and the entry in hand. *Correct when* pop returns a least entry and
none is lost or doubled.

**The entry points** (`python/logtwothirds/__init__.py`, `src/lib.rs`,
`src/multi.rs`). *State*: the caller's arrays, the copy of them that BMSSP
makes, the output matrices, one row for each source, and how far the run of
each row is. *Interaction*: the wrapper chooses a native function by the
method's name; that checks the arrays, releases the interpreter's lock and runs
an algorithm from each source, several in parallel on rayon's pool, where a
failure keeps others from beginning. *Hard*: the checks stand in a different
order in each function; which of several failing runs ends the call is a race;
other threads of the caller go on while the runs work. *Correct when* a reply
depends only on the call: a row for each source, each as a run from that source
alone gives it for the arrays as they were, or an error that applies to them.

**The Python reference** (`python/logtwothirds/_reference.py`), **operation
counters, phase timers and the settlement log**, **benchmarks, examples, tests
and the workflow** are the remaining components; section 7 says why they are
left out.

### Where the difficulty lies

A run is sequential: apart from the rows of `multi.rs`, and the caller's threads
beside them, nothing runs concurrently, nothing is persisted, and no message is
lost. What is hard to test
is (a) the long sequences of operations on D that the recursion produces, (b)
labels that one call leaves in another call's D and then changes, (c) ties,
bounds and thresholds off by one, (d) indices that are used unchecked, (e)
lengths that are rounded or overflow, and (f) rows that fail in any order. Random pivots make runs differ: the tests fix their
seed, and the models leave every such choice open. `PROJECT.json` lists the
hazards one by one, each at its line with the properties that would show it.

## 2. The modules

| Module | Models | Its place |
|---|---|---|
| `Labels` | the ordered values in D and what each operation does to a set of them | used by the next three, and by `Bmssp` |
| `DQueue` | the contract of Lemma 3.3 (`trait DQueue`) | abstract |
| `BlockQueue` | `BlockDs` | implements `DQueue` |
| `FlatHeap` | `SimpleHeapDs` | implements `DQueue` |
| `QuickSelect` | `partition_smallest_in_place` | justifies `IsSmallest` of `Labels` |
| `Bmssp` | `find_pivots`, `base_case`, `bmssp`, `relax` | assumes the contract `DQueue` |
| `VariantEngine` | `variants/engine.rs`, where it differs from `Bmssp` | extends `Bmssp` |
| `BmsspInv` | (proof) what holds between any two steps of either | extends `VariantEngine` |
| `Variants` | `run_variant`, the variants' modules, `compute_params` | gives the runs of the two above their parameters |
| `MinQueue` | a queue from which a least entry is popped | abstract |
| `Heap4` | `Heap`, `KeyHeap` | implements `MinQueue` |
| `CsrArrays` | a graph as callers pass it, and what makes it well formed | used by the next and by `Calls` |
| `Dijkstra` | `validate`, `dijkstra`, the capacity of `Heap` | assumes `MinQueue` |
| `Sssp` | `build_csr`, the transform, `recover_pred`, `sssp_bmssp`, `run` | assumes `Bmssp`'s results |
| `Calls` | calls of the Python functions, and what their checks look for | used by the next two |
| `PathsApi` | what the two functions promise their callers | abstract |
| `EntryPoints` | the wrapper's choice of method, `lib.rs`, `multi.rs` | implements `PathsApi`; assumes the runs of `Dijkstra` and `Sssp` |
| `LeastNumber` | (mathematics) lemmas: a nonempty set of naturals has a least member; what follows of repeated steps, of ways up a tree and of growing sets | used by five proofs |

`MC*` modules instantiate these for TLC. Two of them hold two machines that share
nothing, one of which moves in each behaviour or after the other:
`MCBlockQueue` those of `block_queue.rs`, first a selection, then D; and
`MCHeaps` the flat heap or the 4-ary heap. `*Proofs` modules hold theorems,
those about `QuickSelect` with those about `BlockQueue`, as in the code.

The modules compose along three contracts and one result:

- `BlockQueue` and `FlatHeap` are shown to implement `DQueue` by a refinement
  mapping, `Q == INSTANCE DQueue WITH content <- ..., ret <- ret`, and `Bmssp`
  uses D through the very operators that `DQueue`'s actions are made of
  (`Inserted`, `Prepended`, `IsPull`).
- `Heap4` implements `MinQueue`; `Dijkstra` and the oracle pop any least entry.
- `Sssp` searches in one step, which gives each vertex the label that
  `FinalDistances` and `FinalPreds` of `Bmssp` promise: the unique least
  (length, edges) and, of the predecessors that attain it, the least.
- `EntryPoints` makes the same verdict on arrays as `Dijkstra` (`Verdict` of
  `CsrArrays`) and refuses the weights `Sssp` refuses; a run that passes them is
  one step there, and its answer a function of algorithm, arrays and source,
  which `FinalDistances`, `FinalPreds` and `Distances` justify. It implements
  `PathsApi` with its own `asked` and `reply`, but for one panic (section 5).

### State and actions, module by module

**BlockQueue.** `d0`, `d1`, `bounds` and `registry` are the code's fields. A
block is the set of the labels of its live slots, so that a tombstone is a
label's absence and the registry's address of a label is the block it is in.
`InsertIgnored` and `InsertStored` are `insert` (the latter removes the old
label, finds its block by the bounds and splits it when it is too large);
`PrependBegin`, `ChunkByMedian`, `PrependEnd` are `batch_prepend`, the recursion
of `chunk_by_median` one step for each chunk it halves; `PullAll` and
`PullSmallest` are `pull`, with the blocks that `collect_prefix` visits and the
ones that `prune_front` drops.

**FlatHeap.** `best` is the map of live labels, `heap` the entries with the
stale ones. Each pop of `pull` is a step, `PopLive` or `PopStale`; `PullEnd`
takes the separating bound. A copy of an entry that is pushed again is counted:
the heap is a bag.

**QuickSelect.** `Pick` chooses a pivot and moves it to the end, `Scan` is one
iteration of the partition loop, `Place` swaps the pivot in and narrows the
interval.

**Bmssp.** A call is a frame of `stack`; its field `pc` says where in the
function it is. FindPivots: `Expand` relaxes all edges of one vertex of the
frontier, `EndRound` ends one of the k rounds and at the last builds the forest
and the pivots. The loop: `PullBatch` pulls, filters the settled, and calls;
`Resume` takes the child's result; `RelaxOut` relaxes the edges of one vertex of
U_i and files the new labels in D or K; `PrependBatch` prepends K and what the
child left; `Return` sweeps W. BaseCase: `BasePop`, `BaseReturn`, over a heap
that is a bag, for ties push an entry again. The labels
`dhat`, `hops`, `pred` and `settled` belong to no frame, as in the code.

**VariantEngine.** `EngineCall` decides between the oracle and the rest,
`EngineEndRound` has the early stops and the threshold, `EngineBasePop` is the
loop of `base_case`, `OraclePop` and `OracleReturn` are `dijkstra_base`; both pop
through `HeapPop`, whose `Counts` is the test of `pop_stamp`. Everything else is
`Bmssp`'s.

**Variants.** No state: `ConfigOf` is the Config that a variant's name leads to,
`ComputeParams` the k, t and number of levels for a number of vertices. The
parameters of `MCBmssp` and `MCVariantEngine` are computed by it.

**Heap4.** `Push`, `Pop` and `Clear` start an operation; `SiftUp`, `SiftDown`
move the hole one level; `Fill`, `FillUp`, `FillDown` write the entry in hand.

**Dijkstra.** `Call` is `validate` and the initialisation, and is refused or
starts; `PopStale`, `PopLive`, `RelaxBetter`, `RelaxWorse`, `Expanded` are the
loop, one edge a step; `Return` ends it.

**Sssp.** `Build`, `BuildPanic`, `Refuse`, `Transform`, `Search` and then
`recover_pred`'s loop: `Skip`, `StartWalk`, `WalkBack`, `EndWalk`, `Return`.
Sums saturate at `Infinity` (`Plus`).

**EntryPoints.** `Request` is a call. `Refuse` and `Enter` are the part with the
interpreter's lock: `Refusal` is the first check that fails, in the order of the
function called, and `Enter` makes the copy if the method has one. Then each row
goes through `StartRow` and `FinishRow` or `FailRow`, or is passed over by
`SkipRow`; `Return` joins them and picks one of their errors. `SplitPanics` is
rayon's refusal to cut rows of no columns. `CallerWrites` is another thread
that writes the arrays in place while the lock is free.

## 3. What is checked

| Run | Distinct states | What it shows |
|---|---|---|
| `block_queue` (`MCBlockQueue.cfg`) | 36,865 | Of block_queue.rs: for every arrangement of up to six items and every choice of pivots the selection ends with the m smallest in front; and whatever the sequence of inserts, batches and pulls, the registry and the blocks agree, the blocks are in order between their bounds, none is empty or too large, and D implements the contract of Lemma 3.3. |
| `heaps` (`MCHeaps.cfg`) | 55,379 | With stale entries left in it, the flat heap implements the contract of Lemma 3.3, and every live label stays in it; the 4-ary heap never loses or doubles an entry, not even while one is in hand, and pops a least one. |
| `bmssp` (`MCBmssp.cfg`) | 170,279 | On graphs full of ties and with every order in which sets can be visited, each call returns what Lemma 3.7 promises, the assertions of the code hold, and the end is the unique tree of shortest paths. |
| `dijkstra` (`MCDijkstra.cfg`) | 128,500 | On well-formed and malformed arrays Dijkstra's unchecked reads stay within bounds, its pushes within capacity, and what it returns is right and certifies itself. |
| `variant_engine` (`MCVariantEngine.cfg`) | 95,611 | The engine's early stops with their lower threshold and its oracles keep what the recursion promises, in every configuration of the variants; the stamps keep copies of heap entries from multiplying and skip nothing; the oracle is only ever called for the source alone with no bound. |
| `sssp` (`MCSssp.cfg`) | 61,222 | On every graph of three vertices and three edges the transform and the recovery of predecessors give the distances of the caller's graph, also where finite weights sum to infinity, and predecessors that account for them; there, without the transform, nothing is said of the predecessor (run overflow). |
| `entry_points` (`MCEntryPoints.cfg`) | 12,575 | Whatever the order of the parallel runs and their failures, and whatever the caller's other threads write meanwhile, a call is answered as documented for the arrays it was given: with rows, or with an error that applies to them; the one exception is a call for no rows of no columns (run no_rows). |
| `rounding` (`MCRounding.cfg`) | – | With lengths that are rounded, monotonically as those of doubles are, a distance may stay too large. (violated: `FinalDistances`) |
| `reuse` (`MCReuse.cfg`) | – | A heap that is reused for a larger graph may get less capacity than was asked for. (violated: `WithinCapacity`) |
| `pred_cycle` (`MCPredCycle.cfg`) | – | With a cycle of length 0 in the caller's graph the recovered predecessors may form a cycle away from the source. (violated: `PredsLeadToSource`) |
| `overflow` (`MCOverflow.cfg`) | – | Without the transform, a vertex all whose paths are longer than any finite number is left at infinite distance with a predecessor. (violated: `NoneAtInfinity`) |
| `no_rows` (`MCNoRows.cfg`) | – | Asked for the paths from no sources in a graph without vertices, shortest_paths_multi panics where arrays of shape (0, 0) are due. (violated: `Implements`) |

### The properties

- *BlockQueue*: `RegistryCoherent` (every stored label is in one block, and
  every slot that lives is registered), `BlocksOrdered` (all of a block is
  below all of the next, in `d0` and in `d1`), `BoundsSeparate` (the bounds of
  `d1` separate its blocks), `SizesBounded` (no block exceeds the size the
  amortized cost rests on, and halving leaves no empty chunk), `Implements`.
- *FlatHeap*: `LiveInHeap`, `Implements`.
- *QuickSelect*: `Selects`, `Termination`.
- *Bmssp*: what a call promises, `SettledFinal`, `ReturnComplete` (nothing below
  the bound that is returned is undone), `NothingLost` (some vertex on the path to
  one that is not settled is where a call will go on from it); the assertions of the code, `ChildrenDisjoint` (`U_i` are
  disjoint), `BatchBelow` (the precondition of `batch_prepend`), `BaseSingle`;
  `QueueAhead` (no stale label in D is behind the boundary, which the filter of
  settled vertices is there for); the result, `FinalPreds` (the same tree of
  shortest paths whatever the pivots); the action property `LabelsImprove`; and
  `Termination`. `Inv` of `BmsspInv` is the invariant behind the proof of all but
  the last (section 4).
- *VariantEngine*: `ReturnComplete` and `FinalDistances` again;
  `OracleTakesAll`: wherever the switch is set, the oracle is only ever called
  with S = {source} and B = ∞; and the two halves of the comment at
  `src/variants/engine.rs:684-694`: `RescanIdle`, what the stamps skip would
  have changed nothing, and `CopiesBounded`, with them there is at most one copy
  of an entry for each edge into its vertex.
- *Heap4*: `EachOnce` (the arrays and the hand hold each entry once, also while
  the hole is open), `HeapOrdered`, `ImplementsMinQueue`.
- *Dijkstra*: `InBounds`, `WithinCapacity`, `FinalDistances` against a
  definition by walks, `PredTree`, `Certificate` (a test of the result that a
  caller could make: a fixed point that each predecessor's edge accounts for),
  `Termination`.
- *Sssp*: `Distances` against walks in the caller's graph; `PredsTight`: a vertex
  other than the source has a predecessor exactly if its length is finite, and
  an edge from that accounts for the length, unless its paths overflow and the
  transform is off, of which the violated `NoneAtInfinity` speaks;
  `ConstantDegree`; `Termination` (the walk leaves every cycle).
- *EntryPoints*: `RowsAgree` (the runs of a call all succeed or all fail, and
  with one error, so that the race of the failures cannot be seen);
  `ImplementsElsewhere`, the contract `PathsApi` in every step but the panic of
  a call for no rows of no columns, for which `Implements` is violated;
  `Termination`.

Each property has a mutant in `PROJECT.json`: a plausible mistake in the code, with
which TLC finds the property violated. These operators stand in the modules,
marked as mutants, before the definitions they are mistakes of.

### The bounds, and why they are enough

- *BlockQueue, FlatHeap*: 4 vertices with 2 labels each (for `BlockQueue` the
  last has one), M = 2, any operation at any time. With M = 2 a block splits at
  its third label and a batch of four is chunked twice, so blocks split, empty, are pruned and refilled, and a label
  is decreased from any block to any other. The heap holds an entry at most
  twice (`MaxCopies`).
- *QuickSelect*: up to 6 items in any arrangement, any m, any pivots. In
  `MCBlockQueue` D goes on where one of the selections has ended, since what it
  does is the same after all of them; the others rest where they end.
- *Bmssp*: 8 vertices. Lengths 0 and 1 on four sets of edges among five of
  them, so that most paths tie. `Mesh` has more than k|S| vertices within k
  edges, so that FindPivots ends early; in `Line` and `Fork` it comes to its
  forest; in `Ladder` a base case with k = 4 pops copies of an entry. Besides, five
  graphs of 7 or 8 vertices found by search, where a call returns while a vertex
  that is completed waits in the W of a caller, or while the way on from one is
  beyond the bound of the call that was through with it: orders of events that
  need more than five vertices. The parameters (k, t, l) ∈ {(1,1,3), (1,2,2),
  (2,1,3), (2,2,2), (3,2,2), (4,2,2)}, computed from n = 8 and the overrides, give
  calls that are nested three deep, blocks of 1 to 4 labels, partial calls at each
  level and pivots of every kind. The order of every visit of a set is free.
- *VariantEngine*: eight configurations by the names and overrides that lead to
  them; the oracle at level 0, at level 1, at small frontiers, at the root; lazy
  stops with k = 3 and 4.
- *Heap4*: 7 entries, at most two with each key: a root with four children, a
  node with up to two, and a third level.
- *Dijkstra*: all well-formed graphs of 2 and 3 vertices with 3 edges and
  weights 0, 1, 3, where lengths of 5 or more are infinity, so that sums
  overflow; arrays malformed in each way `validate` names.
- *Sssp*: all graphs of 3 vertices and 3 edges (ordered by tail) with weights 0
  and 1, self-loops and parallel edges included, two sources, with and without
  the transform; two edges of 4 or 5 where 9 is infinity; unordered,
  out-of-range and refused inputs; the empty graph.
- *EntryPoints*: every method, lists of up to two sources with the bad one first
  or second, and 30 triples of arrays, malformed in each way a check names and
  some in several. One call: the second would begin in the state of the
  first (the proof is for any number).
- *Variants*: `LeastForT` holds for n < 26560.
- *reuse*: two calls on stars of 1 to 6 edges with one heap that never grows to
  less than 4 entries. *rounding*: one graph, found by search. *pred_cycle*:
  one graph. *overflow* and *no_rows*: the instances of `sssp` and
  `entry_points`.

### Fairness and deadlock

Each model is one thread that runs a loop, so the only fairness is that the
thread goes on: `WF_vars(Next)`, or, in `Dijkstra`, of a running call, and in
`Sssp`, of the loop of `recover_pred`, whose termination is the question there.
In `MCBlockQueue` it is fairness of the selection, whose termination is the
question there. In `EntryPoints` it is `WF_vars(Library)`: the calling thread and the pool's
together go on; which row goes on is left open, since a row has two steps and
`Return` waits for all. Nobody is obliged to make another call, or to write an
array. `CHECK_DEADLOCK FALSE` stands where a run
ends; the structures (`BlockQueue`, `FlatHeap`, `Heap4`) never do, and are checked
for deadlock. A selection ends too: it stutters there (`Ended` of
`MCBlockQueue`), and only there, so that a D that gets stuck still is a
deadlock.

## 4. What is proved

TLAPS checks these for every value of the constants: any number of labels, any M
and B, any graph.

| Theorem | Module | States |
|---|---|---|
| `TypeCorrect` | `BlockQueueProofs` | The block queue keeps its types, for any labels, M and B. |
| `RegistryNeverDrifts` | `BlockQueueProofs` | `RegistryCoherent`: The registry names each stored label once, in the block that holds it: no pull finds an entry missing. |
| `BlocksStayOrdered` | `BlockQueueProofs` | `BlocksOrdered`: Every block of D0 and D1 is below the next. |
| `BoundsStaySeparate` | `BlockQueueProofs` | `BoundsSeparate`: The bounds of D1 separate its blocks and are sorted. |
| `BlocksStaySmall` | `BlockQueueProofs` | `SizesBounded`: No block outgrows M and no chunk or half is empty, for any M, odd, even or 1, and any sequence of operations, so that a pull collects no more than 4M labels. |
| `ChunksStayPending` | `BlockQueueProofs` | The chunks of a batch still to be prepended are in order and below what D holds. |
| `Refinement` | `BlockQueueProofs` | `Implements`: The block queue implements the contract DQueue: every pull returns the M least labels with a separating bound. |
| `Inductive` | `BlockQueueProofs` | The inductive invariant behind the theorems above. |
| `LiveStaysInHeap` | `FlatHeapProofs` | `LiveInHeap`: Every live label has an entry in the heap, whatever stale ones there are. |
| `PullsAscend` | `FlatHeapProofs` | What a pull has taken is below all that is live. |
| `Refinement` | `FlatHeapProofs` | `Implements`: The flat heap implements DQueue. |
| `SelectInBounds` | `BlockQueueProofs` | The indices of the selection never leave the slice. |
| `Selected` | `BlockQueueProofs` | `Selects`: When the selection ends the m smallest items are in front, for slices of any length and any pivots. |
| `EntriesEachOnce` | `Heap4Proofs` | `EachOnce`: The slots and the hand hold every entry once. |
| `StaysOrdered` | `Heap4Proofs` | `HeapOrdered`: No entry is above its parent, apart from the hole, for any number of entries. |
| `Refinement` | `Heap4Proofs` | `ImplementsMinQueue`: The 4-ary heap implements a queue from which a least entry is popped. |
| `TypeCorrect` | `DijkstraProofs` | Dijkstra keeps its types, for any graphs. |
| `ReadsInBounds` | `DijkstraProofs` | `InBounds`: No unchecked read leaves the arrays, whatever they hold. |
| `Certified` | `DijkstraProofs` | `Certificate`: What is returned is a fixed point that each predecessor's edge accounts for. |
| `ReachedAreTree` | `DijkstraProofs` | `PredTree`: The predecessors are a tree of the vertices that were reached: following them ends at the source, also where edges of length 0 form cycles. |
| `ReturnsDistances` | `DijkstraProofs` | `FinalDistances`: What is returned are the shortest lengths, defined by the walks of at most n edges, for any graph with weights that are not negative. |
| `RoomInFirstCall` | `DijkstraProofs` | `WithinCapacity`: The unchecked pushes of a call with a fresh heap never exceed its capacity. |
| `Soundness` | `BmsspProofs` | The inductive invariant of BMSSP: the labels, the settled vertices and what each call in progress still covers are as BmsspInv says, for any graph, source, k, t and number of levels. |
| `SettlesFinalLabels` | `BmsspProofs` | `SettledFinal`: A vertex is settled with the label it ends with. |
| `ReturnsComplete` | `BmsspProofs` | `ReturnComplete`: A call that returns B' has left no vertex below B' undone: Lemma 3.7 of the paper, of this code. |
| `KeepsChildrenDisjoint` | `BmsspProofs` | `ChildrenDisjoint`: The U_i of one call are disjoint. |
| `PrependsBelow` | `BmsspProofs` | `BatchBelow`: Every batch is below all that D holds: batch_prepend's assertion. |
| `BaseFromOne` | `BmsspProofs` | `BaseSingle`: A base case starts from one vertex: BaseCase's assertion. |
| `QueueStaysAhead` | `BmsspProofs` | `QueueAhead`: D holds labels from [B'_i, B) only. |
| `LosesNothing` | `BmsspProofs` | `NothingLost`: No vertex is lost between FindPivots, the calls and the batches. |
| `EndsWithDistances` | `BmsspProofs` | `FinalDistances`: BMSSP is correct: when the first call returns, every length is the shortest. |
| `EndsWithPreds` | `BmsspProofs` | `FinalPreds`: The predecessors are one tree of shortest paths, whatever the random pivots. |
| `ImprovesLabels` | `BmsspProofs` | `LabelsImprove`: No step makes a label worse or touches that of a settled vertex. |
| `EngineSoundness` | `BmsspProofs` | The same invariant of the fork, with what its heaps and its oracle need besides, in every configuration. |
| `EngineReturnsComplete` | `BmsspProofs` | `ReturnComplete`: A call of the fork that returns B' has left no vertex below B' undone, be it the recursion's, a base case or the oracle. |
| `EngineEndsWithDistances` | `BmsspProofs` | `FinalDistances`: Every configuration of the fork ends with the shortest lengths. |
| `EngineEndsWithPreds` | `BmsspProofs` | `FinalPreds`: It ends with the predecessors that bmssp.rs ends with: the answer does not tell which of the two ran. |
| `EngineNeedsNoAssertions` | `BmsspProofs` | The assertions that the fork dropped hold in it. |
| `OracleRunsOnce` | `BmsspProofs` | `OracleTakesAll`: The oracle is only ever called for the source alone and without a bound, for any k, t, levels and limits. |
| `RescansChangeNothing` | `BmsspProofs` | `RescanIdle`: What the stamps skip would have changed no label. |
| `CopiesStayFew` | `BmsspProofs` | `CopiesBounded`: With the stamps there is at most one copy of an entry for each edge into its vertex, and one if the call started from it. |
| `TypeCorrect` | `SsspProofs` | The inductive invariant of a run from the caller's graph to the answer, for any graph, its weights finite or not. |
| `DistancesAgree` | `SsspProofs` | `Distances`: The transform keeps every distance, with parallel edges, self-loops and cycles of length 0, and sums that overflow. |
| `PredsAreTight` | `SsspProofs` | `PredsTight`: Every predecessor that is recovered accounts for its vertex's length, and the recovery leaves none at infinite length; what overflows without the transform is excepted (run overflow). |
| `DegreeIsConstant` | `SsspProofs` | `ConstantDegree`: The graph that is searched has degree at most 2 on each side, whatever the caller's has. |
| `WalksDescend` | `SsspProofs` | A step back on a cycle is to a slot of fewer edges: a walk comes to no slot twice. |
| `PositiveWeightsLeadBack` | `SsspProofs` | Where no weight is 0 the predecessors lead to the source: what fails with cycles of length 0 (run pred_cycle) does not fail otherwise. |
| `AllRowsAgree` | `EntryPointsProofs` | `RowsAgree`: The runs of a call all succeed or all fail, with one error, for any arrays, sources and methods. |
| `KeepsPromises` | `EntryPointsProofs` | `ImplementsElsewhere`: Every reply is one that the contract PathsApi allows for the call that was made, but for the panic of a call for no rows of no columns (run no_rows). |

**Assumptions.** Only the named ones of the modules: labels are integers, finitely many,
one vertex each; M is a positive natural number; keys of heap entries are
integers; Dijkstra's inputs have functions as arrays and naturals as sizes, and
infinity is positive; the entry points' arrays are functions from 0 to numbers;
the inputs of `Sssp` are sequences of edges, whatever their ends and weights;
the graphs of BMSSP have edges between their vertices and weights that are
natural numbers, k, t and the level of the first call are positive, and the cap
k·2^(lt) of the first call has room for all n vertices, which is what
`compute_params` (`src/bmssp.rs:160`) chooses the number of levels for; and of the
fork that its powers 2^(lt) are positive numbers, of which the provers know
nothing.
TLC evaluates each of them in a run. `EntryPoints` itself supposes that arrays
which Dijkstra only borrows stay as they are while it runs (`CallerWrites` has
the guard): the binding is written for that, and nothing in Rust can see
whether another thread of the caller keeps to it.

The theorems about `Bmssp` and `VariantEngine` have one hypothesis, `Exact`: the addition of lengths is
that of numbers. It is no technicality: with sums that are rounded
`FinalDistances` is false, as the run `rounding` shows (section 5).

**The block queue.** None of the properties is inductive alone: an insertion
goes to the right block only if the bounds separate the blocks, a split keeps
the bounds right only if the blocks are ordered, a pull removes the right labels
only if the registry agrees with the blocks, and in the middle of a batch
the chunks must be in order and below everything else. `IInv` is their
conjunction with the types: `TypeOK`, `RegistryCoherent`, `BlocksOrdered`,
`BoundsSeparate`, `ChunksPending`. The proof has a step for each action and
under it one for each conjunct; lemmas say what dropping a prefix, splitting a
block and removing labels do to a sequence of ordered blocks. Refinement maps
`content` to the registered labels and those of the chunks; the step that
matters is that the two collected prefixes hold the M least labels of all.

`SizesBounded` is inductive with `IInv`: a chunk is stored once it is at most half of
M, rounded up, and a block of `d1` that an insertion makes larger than M is
split in the same step, into halves that the median makes smaller than it. Both
halves of anything larger than one label have a member (`HalvesFilled`), so no
chunk is empty, for M = 1 and odd M too.

**The flat heap.** `IInv` adds `OneOperation`: what an operation under way has
done to the map. `content` is the live labels, with the batch that is still to
be stored in and the labels that are pulled and not yet returned.

**Quickselect.** The items are always a permutation of the slice
(`SameItems`), what lies outside the interval is on its right side
(`Narrowing`), and the scanned part is split by the pivot (`Partitioned`). Then
an interval of one item, or a pivot at the target, leaves the m least in front.

**The heap.** `HeapOrdered` speaks of the array with a hole: an entry is not
above its parent, the hole's children are not above its parent, and the entry
in hand fits in its place when sifting stops. That the root is a least entry
takes induction on the slots, from `HasLeast`: consider the least slot whose
entry is below the root's, and its parent.

**Dijkstra.** `InBounds` follows from `validate` alone, through `IInv`'s
`Running`. `Certificate` needs that every vertex with a length is either
expanded or has an entry with its length in the heap (`Pending`), that the vertex
being expanded has relaxed a prefix of its edges (`Frontier`), and that each
predecessor's edge accounts for the length (`PredTight`).

From the certificate the lengths follow: a walk of any number of edges is not
shorter than the length of its end, by induction on the edges (`HasLeast`), and
the way up the predecessors is a walk of that length. That the way up ends at
the source is `Tree`: the vertices with a predecessor are those with a length,
and each is `Rooted`, that is, in every set that holds the source and everything
whose predecessor it holds; only a strict improvement changes a predecessor, and
an expanded vertex is never improved, so no cycle closes, whatever edges of
length 0 there are. `CapacityInv` counts: each entry in the heap is the
source's or is accounted for by an edge out of an expanded vertex, so the
entries are at most one more than the edges.

**BMSSP.** The invariant `Inv` speaks of the shortest paths themselves, of which
the code knows nothing. A vertex is *final* when its label and predecessor are the
ones it ends with.

- `LabelsOk`: a label is never better than the true one, and is what the
  predecessor's label gives it, or would give it a better one by now.
- What is settled is final (`settled ⊆ Finals`), and below what the innermost call
  has completed (`SettledBelow`).
- `NearCovered`: for each call, a vertex below its bound is settled, or is final and
  held by the call or by a caller (in its U, W or W_i), or is *covered*: on
  the path to it there is a final vertex that is *active*, from which the call
  still has to go on (in its S, D, K, heap or S_i), or whose predecessor's
  edges the call is about to relax.
- `BehindCovered`: the vertices whose path leads through S are covered, or held
  by the call itself. This is what a call promises of S when it returns, and
  what lets its caller take the vertices it returns for complete.
- `EntriesCovered`: no entry in D is below the label of its vertex, and a vertex
  with an entry is settled or covered: entries may be stale, yet never in vain.
- `Grown` is FindPivots after i rounds: on a path through S, either its end is in W
  or the i vertices after S are. So a path that leaves W leads through a tree of k
  vertices, whose root is a pivot.
- `FramesInv` has the order of the bounds besides: B'_i ≤ B_i ≤ B, where D, K, S_i
  and U lie between them, and `LowsRise` that what the callers have completed
  is below what their callees work on.

The proof has a lemma for each action, `Relax`-lemmas for what new labels do to
each part of the invariant, and lemmas for what pushing and popping a call do
to its callers. Two properties had to be corrected on the way, since the forms
that TLC had found to hold of five vertices do not hold of eight:
`ReturnComplete` claimed that all below B' is settled, but FindPivots of a caller
may have completed a vertex that the caller settles later; `NothingLost` did
not allow for the moment when a vertex that a call has finished
stands for one beyond that call's bound, which the caller goes on to. The
first forms were refuted on random graphs of 8 vertices, of which the run
`bmssp` now has some. `Inv` itself is not listed in a `.cfg`; TLC finds it to hold
in all states of that run, which takes five times as long.

**The fork.** `VariantEngine` keeps `Inv`, and the lemmas about steps that both take
are shared. Its own steps need the following.

- An early stop of FindPivots leaves fewer rounds than k: `Grown` counts rounds, so
  that a tree that grows on has as many vertices as rounds were run, which is
  the threshold that goes with the stop (`Threshold`); the pivots of a higher one
  would not do, as the mutant `ThresholdOfK` shows.
- Skipping a vertex that was popped before loses nothing. Of its edges `HeapOk`
  says that each label they could still give is the one their end has, with the
  same predecessor, and that the end was popped or waits in the heap. This is
  `RescanIdle`. `HeapOk` also counts the copies of an entry: each comes from S or
  from another popped vertex (`Sources`), which gives `CopiesBounded`.
- The oracle settles all it pops without a cap, for which `BaseOk` and `Active` hold
  as for a base case.
- `OneDescent`: if the oracle is enabled at all, then every call there ever is has
  S = {source} and no bound. FindPivots of such a call ends with the source as
  its one pivot, the pull takes it and returns B, the callee does too, up from the
  oracle's call; so when a call is back in its loop, D is empty and it ends.
  `OracleTakesAll` follows, and that the base case never runs beside the oracle.

`EngineOk` is the conjunction of these for all frames; `EngineInv == Inv /\ EngineOk`
is inductive, and TLC finds it to hold in all states of the run
`variant_engine`. The fork has no assertions: those of `src/bmssp.rs` are theorems
about it.

**From the caller's graph to the answer.** Three things are put together for
`Sssp`, in lengths that saturate at infinity.

- *What a search ends with.* `BestLabels` repeats a round n - 1 times, n the number
  of vertices. A label that is new in round k came by a way through k + 1
  different vertices (`NewByWay`: each round is at least as good as the one before,
  and each further edge makes a label worse), so a round n would change nothing
  (`BestLabelsEnd`). What is left is a fixed point in which each label comes along
  an edge from another (`LabelsAre`), and no other feasible lengths are longer
  (`LeastSolution`).
- *What the transform makes.* The slots of a vertex are the numbers from its base
  to the next one (`SlotsApart`), each end of an edge has one of its own
  (`SlotOfEnd`, `SlotsDiffer`), also those of self-loops and parallel edges. So a
  slot has one edge of the cycle and at most one of the caller's on each side,
  which is `ConstantDegree`. All slots of a vertex are equally far
  (`SlotsAlike`), so the lengths of either graph are feasible in the other, and
  `LeastSolution` in both directions gives `Distances`.
- *What recovery does.* A step back from a slot of a vertex that is reached leads
  to another one of its slots, by a label of one edge less, or across an edge
  that accounts for the length (`StepBack`). With `Walking`, that a walk is on the
  cycle of its vertex, and `Recovered`, that the vertices before v are done,
  `PredsTight` is inductive: the loop visits every vertex, and at infinite
  length it leaves the -1 that it began with. That the hops decrease
  (`WalksDescend`) is why the
  walk ends; `Termination` itself is liveness.

`PositiveWeightsLeadBack` is the other side of the finding `pred_cycle` (section 5):
where no edge has length 0 the recovered predecessors lead to the source, since
each is nearer to it.

**The entry points.** `IInv` says of the rows that they read what the caller
passed, either in place or in a copy (`Held = c.arrays`), that rows that are
done hold the right answer, and that every run would end alike (`Outcome`). So
the errors are at most one, and none if a row is done: `RowsAgree`. Lemmas show
that a refusal and an outcome are errors that apply to the call, the former by
the order of the checks (a check may rely on those before it), and that a call
none of whose runs fails is a legal one. A step of `EntryPoints` then is an
`Ask`, an `Answer` or a stutter of `PathsApi`, or it is the panic of a call for no
rows of no columns: rayon refuses to cut only rows of length 0, and a list with
a source in it has been refused where there are no vertices
(`SplitPanicsForNoRows`).

**Only model-checked.** `Variants`, which has no state to prove about, and every
`Termination`. All safety and action properties of the passing runs are theorems. Out of the prover's reach are liveness and enabledness. Induction theorems that take an operator cannot be
used; where recursive functions over graphs are reasoned about (shortest
lengths by walks, trees, paths), induction is by the least element of a set
of numbers, `HasLeast`.

## 5. What was found

Five runs end in a violation, each of one sentence that the repository says of
itself.

1. `pred_cycle` – **predecessors that form a cycle.** `recover_pred`
   (`src/bmssp.rs:697`; the engine's copy, `src/variants/engine.rs:941`) walks
   back from a vertex's representative and takes the owner of the first
   transformed vertex outside its cycle. With a cycle of length 0 in the
   caller's graph the shortest way to the representative may leave the
   vertex's cycle and come back: edges 0→2, 1→2, 2→3, 2→2, 2→2, 3→2 of length 0
   from source 1 give pred[2] = 3 and pred[3] = 2. The doc comments promise a
   predecessor on a shortest path; here no path to the source can be followed.
   `PredsTight` does hold: each predecessor's edge accounts for the length; and
   with positive weights there is no such cycle (`PositiveWeightsLeadBack`).
   Lengths are right. Dijkstra and the variants without the transform return
   trees.

2. `rounding` – **lengths that are too large.** The recursion takes for granted
   that a path that gets shorter makes every path that continues it shorter.
   Rounded sums may tie where exact ones differ, and then the path with fewer
   edges wins: a vertex keeps a label from an older, longer path, the relaxation
   that should file it in D or K fails its test (`src/bmssp.rs:302`), and it is
   swept from W without its own edges ever being relaxed. What lies behind it is left too far away, or unreached. The run uses
   an addition that absorbs small weights, as doubles do at 2^54 and above. The
   repository's Python reference shows the same on random graphs with weights
   from 0, 1, 2, 3, 2^54, 2^55, 2^60. `ALGORITHM.md:458-459` says that there is
   no algorithmic dependence on precision.

3. `reuse` – **less capacity than asked for.** `Heap::reset_with_capacity`
   (`src/dijkstra.rs:52`) reserves `cap - capacity` on vectors that are empty,
   and `reserve` counts from the length. A heap reused for a larger graph may
   have room for fewer entries than the unchecked pushes rely on. All callers
   in the repository pass a fresh heap; the comment at `src/dijkstra.rs:31`
   has callers that reuse it in mind.

4. `overflow` – **predecessors at infinite distance.** Without the transform
   (`bmssp-notransform`) `run` returns the predecessors that the search ends
   with (`src/variants/engine.rs:1021`). A sum that overflows ties in length with
   the label of a vertex never reached and wins by its hops, so a vertex all
   whose paths overflow ends at distance infinity with a predecessor: edges 0→1
   and 1→2 whose lengths sum to infinity give dist[2] = ∞, pred[2] = 1.
   `tests/variants_correctness.rs:47-49` asserts -1 of every infinite distance.
   Dijkstra and the recovery after the transform return -1.

5. `no_rows` – **a panic in place of an empty answer.** `shortest_paths_multi`
   promises arrays of shape (k, n) (`python/logtwothirds/__init__.py:182-185`).
   For an empty list of sources and a graph without vertices it panics in
   `par_chunks_exact_mut(0)` (`src/multi.rs:44`, `81`). `ImplementsElsewhere`
   excepts this step, `NoRowsPanic`, and no other; code that returned no rows
   instead would satisfy `Implements`.

### Observations

These are not runs: no property of the passing runs depends on them, or the
repository knows them.

- Since `OracleTakesAll` holds, the first call at or below the oracle's level,
  or with a frontier within its limit, is on the first descent from the root,
  sees only the source and an infinite bound, and does all the work.
  `VARIANTS.md:226-231` says so of the root of `bmssp-fast`; that its recursion
  and flat heap are exercised by multi-pivot subproblems cannot be, for no
  subproblem is left.
- A partial child may leave D empty, and the call then returns B' < B with fewer
  than k·2^(lt) vertices, which Lemma 3.9 (`ALGORITHM.md:361`) excludes.
  `AUDIT.md:47` (F12) knows the corner; distances are not affected.
- Asked for several sources, BMSSP calls an infinite weight "negative or NaN"
  (`src/lib.rs:260`). `Applies` has the exception.
- Of several errors that apply, the functions for one source and for several
  may raise different ones: the source is checked before the arrays' shape in
  one and after it, for BMSSP after the structure, in the other. With no sources
  multi-source Dijkstra never looks into the arrays, and malformed ones pass.
- In the mainline's base case an entry is popped twice only if k is 4 or more
  (or where a self-loop doubles a zero edge of a cycle): with the default k that
  never happens for the sizes of today.
- At 256 vertices t is 3, not 4: the power of 8.0 is rounded (`LeastForT`).

## 6. What is abstracted

- *Labels.* A key (length, hops, id) is a number: in the queues its rank, in
  `Bmssp` the number whose digits the three are. Lengths are exact except in
  `MCRounding` and, at infinity, in `Dijkstra`.
- *Order within sets.* The arrays S, U_i and the frontiers are sets visited in
  any order, which covers the random pivots of every seed. The edges of one
  vertex are relaxed in one step where they lead to different vertices, as they
  do in a transformed graph but for a self-loop's doubled edge; where the
  transform is off, `VariantEngine` models a lightest edge of parallel ones.
- *Blocks.* Order inside a block, the arena and its compaction are left out.
- *Logarithms.* `Variants` has the numbers of vertices at which k and t grow in
  place of logarithms and powers.
- *Infinite lengths.* `Sssp` lets a vertex at infinite length have any
  predecessor that an overflowing path could give it; which one the search ends
  with depends on its order. `NoneAtInfinity` does not depend on it: the vertex
  of its counterexample has one edge into it.
- *Runs.* In `EntryPoints` one run of an algorithm is a step that either fails or
  fills its row; its rows are filled at once, as `copy_from_slice` does for
  BMSSP. Dijkstra fills its row in place, which no one reads before the join.
- *Counters, timers, prefetches and the settlement log* change no result.

## 7. What is not modelled

- Conversion of arrays: PyO3's in `src/lib.rs`, by NumPy and SciPy in
  `python/logtwothirds/__init__.py` (`_as_csr`), and the final `reshape`.
- rayon: `EntryPoints` models what `src/multi.rs` relies on, external.
- `python/logtwothirds/_reference.py`: the implementation that the Rust code
  ports; the ports are modelled, and the differential tests compare the two.
- Splitting a variant's name at its colons (`src/variants/mod.rs:54-56`):
  `Variants` takes the numbers that parse.
- Benchmarks, examples and tests: drivers. The tests were read for what they
  say of the program.

## 8. The plan

The order was by importance: D and its contract, the recursion on it, then what
surrounds the recursion, then the way in from Python. All of section 2 is done.
Left, in this order:

1. *One theorem for a whole run*: that the labels `Sssp` calls the search's are those
   that `Bmssp`'s `FinalDistances` and `FinalPreds` speak of; both are proved, each
   in its module, from its own definition of a shortest path.
2. *Parallel edges without the transform*, relaxed one at a time in
   `VariantEngine` instead of a lightest one.
3. *The contract of `recover_pred`*: with edges of length 0 but no cycles of them,
   the recovered predecessors should still be a tree.

## 9. Running it

    tlc -workers 2 -config MCBlockQueue.cfg MCBlockQueue.tla
    tlc -workers 2 -config MCOverflow.cfg MCSssp.tla
    tlc -workers 2 -config MCNoRows.cfg MCEntryPoints.tla
    tlapm BlockQueueProofs.tla

Every other `MC*.cfg` belongs to the module of its name.
