---------------------------- MODULE MCEntryPoints ----------------------------
(* EntryPoints with every method, up to two sources, and arrays that fail   *)
(* each check, several of them more than one.                              *)
EXTENDS EntryPoints

MCMethods ==
  {[base |-> b, variant |-> ""] : b \in {"auto", "bmssp", "bmssp_instrumented", "bfs"}}
    \cup {[base |-> "bmssp-", variant |-> x] : x \in {"fast", "slow"}}

MCSourceLists == {<< >>, <<-1>>, <<0>>, <<1>>, <<0, 1>>, <<1, 1>>, <<1, 2>>, <<2, -1>>}

(* The arrays of one list each. *)
Array(s) == [j \in 0..(Len(s) - 1) |-> s[j + 1]]

Csr(indptr, indices, weights) ==
  [n |-> Len(indptr) - 1,
   indptr |-> Array(indptr), indices |-> Array(indices), weights |-> Array(weights)]

MCArrays ==
  { Csr(p, <<1>>, <<w>>) : p \in {<<0, 0, 1>>, <<0, 2, 1>>, <<1, 1, 1>>},
                           w \in {1, -1, NaN, Infinity} }
  \cup { Csr(<<0, 1, 1>>, i, w) : i \in {<<1>>, <<2>>, <<0, 1>>}, w \in {<<1>>, <<-1>>} }
  \cup { Csr(<<0, 1, 2>>, <<i, 0>>, <<1, w>>) : i \in {1, -1}, w \in {1, -1, Infinity} }
  \cup { Csr(p, << >>, << >>) : p \in {<< >>, <<0>>, <<0, 0>>, <<0, 0, 0>>, <<0, 1, 0>>, <<1>>} }
=============================================================================
