------------------------------- MODULE Calls --------------------------------
(***************************************************************************)
(* Calls of the Python functions: what they may be given, and what the     *)
(* checks on the way to the algorithms look for.                           *)
(***************************************************************************)
EXTENDS CsrArrays, Sequences

CONSTANTS
  Methods,        (* Methods by name: [base, variant]; "bmssp-" has a      *)
                  (* variant, every other base has "".                     *)
  Variants,       (* The names of variants that run_variant knows.         *)
  SourceLists,    (* What callers pass as sources: lists of integers.      *)
  Arrays          (* What callers pass as arrays.                          *)

ASSUME CallsAssumption ==
  /\ Infinity \in Nat \ {0} /\ NaN \notin Int
  /\ SourceLists \subseteq Seq(Int)
  /\ \A h \in Arrays :
       /\ h.n = Cardinality(DOMAIN h.indptr) - 1 /\ Nnz(h) \in Nat
       /\ h.indptr \in [0..h.n -> Int]
       /\ h.indices \in [0..(Nnz(h) - 1) -> Int]
       /\ h.weights \in [DOMAIN h.weights -> Int \cup {NaN}]

(* Calls of shortest_paths, with one source, and of shortest_paths_multi.  *)
CallsOn(h) ==
  {c \in [method : Methods, multi : BOOLEAN, sources : SourceLists, arrays : {h}] :
     c.multi \/ Len(c.sources) = 1}

(* "auto" is Dijkstra. *)
Algorithm(c) == IF c.method.base = "auto" THEN "dijkstra" ELSE c.method.base

(* The methods of each function, and the native function with operation    *)
(* counters, which the wrapper does not offer; the variants have one       *)
(* source only.                                                            *)
Supported(c) ==
  Algorithm(c) \in IF c.multi THEN {"dijkstra", "bmssp"}
                   ELSE {"dijkstra", "bmssp", "bmssp_instrumented", "bmssp-"}

UnknownVariant(c) == Algorithm(c) = "bmssp-" /\ c.method.variant \notin Variants

InRange(s, h) == 0 <= s /\ s < h.n

(* The i-th source is the first that is out of range. *)
IsFirstBad(i, c) ==
  /\ i \in DOMAIN c.sources
  /\ ~ InRange(c.sources[i], c.arrays)
  /\ \A j \in 1..(i - 1) : InRange(c.sources[j], c.arrays)

(* The arrays do not fit together. *)
Misshapen(h) ==
  \/ DOMAIN h.indptr = {}
  \/ DOMAIN h.indices # DOMAIN h.weights
  \/ h.indptr[h.n] # Nnz(h)

(* What BMSSP, unlike Dijkstra, refuses: infinite weights, too. *)
Unfit(w) == IF BadWeight(w) THEN TRUE ELSE w >= Infinity

SomeBadWeight(h) == \E j \in DOMAIN h.weights : BadWeight(h.weights[j])
SomeUnfitWeight(h) == \E j \in DOMAIN h.weights : Unfit(h.weights[j])

(* The answer for source s: what one run gives, which is a function of its *)
(* algorithm, its arrays and its source.                                   *)
Solution(c, h, s) == [method |-> c.method, arrays |-> h, source |-> s]

=============================================================================
