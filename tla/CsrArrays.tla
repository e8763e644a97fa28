----------------------------- MODULE CsrArrays ------------------------------
(***************************************************************************)
(* A graph in arrays, as callers pass it, and what makes it well formed.   *)
(* h.n is one less than the length of h.indptr; the arrays are functions   *)
(* from 0.                                                                 *)
(***************************************************************************)
EXTENDS Integers, FiniteSets

CONSTANTS
  Infinity,       (* f64's infinity; the lengths below it are exact.       *)
  NaN             (* A weight that is not a number.                        *)

Vertices(h) == 0..(h.n - 1)
Nnz(h) == Cardinality(DOMAIN h.indices)

(* Mutant: offsets may decrease. *)
EndsOnly(h) ==
  /\ DOMAIN h.indptr = 0..h.n
  /\ h.indptr[0] = 0
  /\ h.indptr[h.n] = Nnz(h)

(* validate: every slice indptr[u]..indptr[u + 1] is a range of edges. *)
WellStructured(h) ==
  /\ DOMAIN h.indptr = 0..h.n
  /\ h.indptr[0] = 0
  /\ h.indptr[h.n] = Nnz(h)
  /\ \A u \in 1..h.n : h.indptr[u - 1] <= h.indptr[u] /\ h.indptr[u] <= Nnz(h)

BadWeight(w) == IF w = NaN THEN TRUE ELSE w < 0

BadNeighbor(h, j) == h.indices[j] < 0 \/ h.indices[j] >= h.n

(* The fused scan stops at the first edge that is bad, at its weight first. *)
Verdict(h) ==
  LET Bad == {j \in DOMAIN h.indices : BadWeight(h.weights[j]) \/ BadNeighbor(h, j)}
  IN  IF ~ WellStructured(h) THEN "MalformedCsr"
      ELSE IF Bad = {} THEN "Ok"
      ELSE LET j == CHOOSE j \in Bad : \A i \in Bad : j <= i
           IN  IF BadWeight(h.weights[j]) THEN "NegativeWeight" ELSE "MalformedCsr"

(* to_owned_csr and the engine's run refuse the same arrays. *)
WellFormed(h) == WellStructured(h) /\ \A j \in DOMAIN h.indices : ~ BadNeighbor(h, j)

=============================================================================
