------------------------------ MODULE Variants ------------------------------
(***************************************************************************)
(* The parameters of a run: k, t and the number of levels from the number  *)
(* of vertices (compute_params), and the Config that run_variant and the   *)
(* modules of the variants give the engine for a variant's name.           *)
(*                                                                         *)
(* A name is [name, args]; args holds the numbers after "hybrid:", those   *)
(* of the two that are given and parse.                                    *)
(***************************************************************************)
EXTENDS Integers, FiniteSets, Sequences, TLC

(* The least n for which t = floor(log^(2/3) n) is 1, 2, ...; for 256, the *)
(* power of 8.0 falls short of 4.  Bound: n < 26560.                       *)
LeastForT == <<1, 8, 37, 257, 2321>>

DefaultKt(n) ==
  [k |-> Cardinality({k \in 1..2 : k = 1 \/ 2^(k * k * k) <= n}),
   t |-> Cardinality({i \in DOMAIN LeastForT : LeastForT[i] <= n})]

FastKt(n) == IF n < 2^13 THEN DefaultKt(n) ELSE [k |-> 1, t |-> 12]

TunedKt(n) == IF n < 2^14 THEN DefaultKt(n) ELSE [k |-> 8, t |-> 12]

(* No override of k and t. *)
NoKt == [k |-> 0, t |-> 0]

(* The binding overrides them with two positive numbers only. *)
Override(k, t) == IF k > 0 /\ t > 0 THEN [k |-> k, t |-> t] ELSE NoKt

Or(kt, default) == IF kt = NoKt THEN default ELSE kt

(* ceil(log n / t), and at least 1: the U of the first call never reaches  *)
(* its cap, k 2^(lt), before it holds all n vertices.                      *)
Levels(n, t) == CHOOSE l \in 1..n : 2^(l * t) >= n /\ (l > 1 => 2^((l - 1) * t) < n)

ComputeParams(n, kt) ==
  LET c == Or(kt, DefaultKt(n))
  IN  [k |-> c.k, t |-> c.t, l |-> Levels(n, c.t)]

-----------------------------------------------------------------------------

Default(kt) ==
  [queue |-> "BlockDs", transform |-> TRUE, kt |-> kt,
   hybrid_max_level |-> -1, hybrid_frontier |-> 0, lazy_pivots |-> FALSE]

Arg(v, i, default) == IF i \in DOMAIN v.args THEN v.args[i] ELSE default

(* The Config of variant v for a graph of n vertices and m edges; kt, if   *)
(* there is one, overrides the variant's k and t.                          *)
ConfigOf(v, kt, n, m) ==
  LET base == Default(kt)
  IN  CASE v.name = "tuned"   ->
             [base EXCEPT !.kt = Or(kt, TunedKt(IF 2 * m > n THEN 2 * m ELSE n))]
        [] v.name = "hybrid"  ->
             [base EXCEPT !.hybrid_max_level = 1, !.hybrid_frontier = 1024]
        [] v.name = "hybrid:" ->
             [base EXCEPT !.hybrid_max_level = Arg(v, 1, 1), !.hybrid_frontier = Arg(v, 2, 0)]
        [] v.name = "simpleq" -> [base EXCEPT !.queue = "FlatHeap"]
        [] v.name = "lazypiv" -> [base EXCEPT !.lazy_pivots = TRUE]
        [] v.name = "notransform" -> [base EXCEPT !.transform = FALSE]
        [] v.name = "fast" ->
             [queue |-> "FlatHeap", transform |-> FALSE, kt |-> Or(kt, FastKt(n)),
              hybrid_max_level |-> 1, hybrid_frontier |-> 1024, lazy_pivots |-> FALSE]

(* Config and parameters of a run whose search is of `inner` vertices.     *)
EngineParams(v, kt, n, m, inner) ==
  LET cfg == ConfigOf(v, kt, n, m)
  IN  cfg @@ ComputeParams(inner, cfg.kt)

=============================================================================
