----------------------------- MODULE EntryPoints ----------------------------
(***************************************************************************)
(* From shortest_paths or shortest_paths_multi to their result: the choice *)
(* of the native function by method, its checks in their order (lib.rs),   *)
(* the copy of the graph that BMSSP makes, and, with the interpreter's     *)
(* lock released, a run from each source, in parallel for several          *)
(* (multi.rs), where a failure stops the runs that have not begun.  A run  *)
(* is that of Dijkstra or Sssp; here it ends in one step.                  *)
(*                                                                         *)
(* While runs work on a copy, other threads of the caller may write the    *)
(* arrays.  Arrays that are only borrowed they leave alone: the binding    *)
(* counts on it.                                                           *)
(***************************************************************************)
EXTENDS Calls

CONSTANT MaxCalls (* Bound: the calls made. *)

ASSUME EntryPointsAssumption == MaxCalls \in Nat

VARIABLES
  asked,          (* The last call, with its arrays as they were then.     *)
  reply,          (* Its result.                                           *)
  memory,         (* The caller's arrays, as they are now.                 *)
  copy,           (* The graph that to_owned_csr made.                     *)
  pc,             (* "out", in the caller; "in", with the lock; "rows".    *)
  row,            (* How far each row's run is.                            *)
  out,            (* The output matrices, by rows.                         *)
  errors,         (* What runs have failed with.                           *)
  calls           (* How many calls were made.                             *)

vars == <<asked, reply, memory, copy, pc, row, out, errors, calls>>

Api == INSTANCE PathsApi

NoCopy == [n |-> -1]
Zeros == [method |-> "none"]

Init ==
  /\ Api!Init
  /\ memory \in Arrays
  /\ copy = NoCopy
  /\ pc = "out"
  /\ row = << >> /\ out = << >>
  /\ errors = {}
  /\ calls = 0

Request ==
  /\ pc = "out" /\ calls < MaxCalls
  /\ asked' \in CallsOn(memory)
  /\ reply' = Api!NoReply
  /\ pc' = "in"
  /\ calls' = calls + 1
  /\ UNCHANGED <<memory, copy, row, out, errors>>

-----------------------------------------------------------------------------
(* With the lock.                                                           *)

Copies(c) == Algorithm(c) # "dijkstra"

ValueError(error) == [kind |-> "ValueError", error |-> error]
IndexError(s) == [kind |-> "IndexError", source |-> s]

AllInRange(c) == \A i \in DOMAIN c.sources : InRange(c.sources[i], c.arrays)

(* The check that a call does not pass, in the order of the checks: with   *)
(* one source its range is checked before the rest of the arrays' shape,   *)
(* with several after their structure.                                     *)
Refusal(c) ==
  LET h == c.arrays
  IN  IF ~ Supported(c) THEN "Method"
      ELSE IF DOMAIN h.indptr = {} THEN "Shape"
      ELSE IF ~ c.multi /\ ~ AllInRange(c) THEN "Source"
      ELSE IF Misshapen(h) THEN "Shape"
      ELSE IF Copies(c) /\ ~ WellFormed(h) THEN "Malformed"
      ELSE IF c.multi /\ ~ AllInRange(c) THEN "Source"
      ELSE "None"

FirstBad(c) == CHOOSE i \in DOMAIN c.sources : IsFirstBad(i, c)

Refuse ==
  /\ pc = "in" /\ Refusal(asked) # "None"
  /\ reply' = IF Refusal(asked) = "Source"
              THEN IndexError(asked.sources[FirstBad(asked)])
              ELSE ValueError(Refusal(asked))
  /\ pc' = "out"
  /\ UNCHANGED <<asked, memory, copy, row, out, errors, calls>>

(* The outputs are allocated and the lock is released. *)
Enter ==
  /\ pc = "in" /\ Refusal(asked) = "None"
  /\ copy' = IF Copies(asked) THEN memory ELSE NoCopy
  /\ row' = [i \in DOMAIN asked.sources |-> "todo"]
  /\ out' = [i \in DOMAIN asked.sources |-> Zeros]
  /\ errors' = {}
  /\ pc' = "rows"
  /\ UNCHANGED <<asked, reply, memory, calls>>

-----------------------------------------------------------------------------
(* Without the lock.                                                        *)

(* Mutant: no copy is made. *)
HeldBorrowed == memory

(* What the runs read. *)
Held == IF Copies(asked) THEN copy ELSE memory

(* par_chunks_exact_mut does not split rows of no columns. *)
SplitPanics ==
  /\ pc = "rows" /\ asked.multi /\ Held.n = 0
  /\ reply' = [kind |-> "panic"]
  /\ pc' = "out"
  /\ UNCHANGED <<asked, memory, copy, row, out, errors, calls>>

(* How a run ends, as what is raised says it.  BMSSP's runs do not check    *)
(* that the graph is well formed: the copy is.                             *)
Outcome(h) ==
  IF ~ Copies(asked)
  THEN CASE Verdict(h) = "Ok"             -> "Ok"
         [] Verdict(h) = "MalformedCsr"   -> "Malformed"
         [] Verdict(h) = "NegativeWeight" -> "NegativeWeight"
  ELSE IF UnknownVariant(asked) THEN "Method"
  ELSE IF SomeUnfitWeight(h) THEN (IF asked.multi THEN "NegativeWeight" ELSE "BadWeight")
  ELSE "Ok"

Split == pc = "rows" /\ ~ (asked.multi /\ Held.n = 0)

StartRow(i) ==
  /\ Split /\ row[i] = "todo"
  /\ row' = [row EXCEPT ![i] = "running"]
  /\ UNCHANGED <<asked, reply, memory, copy, pc, out, errors, calls>>

FinishRow(i) ==
  /\ Split /\ row[i] = "running"
  /\ Outcome(Held) = "Ok"
  /\ out' = [out EXCEPT ![i] = Solution(asked, Held, asked.sources[i])]
  /\ row' = [row EXCEPT ![i] = "done"]
  /\ UNCHANGED <<asked, reply, memory, copy, pc, errors, calls>>

FailRow(i) ==
  /\ Split /\ row[i] = "running"
  /\ Outcome(Held) # "Ok"
  /\ errors' = errors \cup {Outcome(Held)}
  /\ row' = [row EXCEPT ![i] = "failed"]
  /\ UNCHANGED <<asked, reply, memory, copy, pc, out, calls>>

(* try_for_each: once a run has failed the others need not begin. *)
SkipRow(i) ==
  /\ Split /\ row[i] = "todo"
  /\ errors # {}
  /\ row' = [row EXCEPT ![i] = "skipped"]
  /\ UNCHANGED <<asked, reply, memory, copy, pc, out, errors, calls>>

(* Mutants: a run that has begun counts, and a row that is skipped does not. *)
HasEndedOrBegun(i) == row[i] # "todo"
HasSucceededOrFailed(i) == row[i] \in {"done", "failed"}

HasEnded(i) == row[i] \in {"done", "failed", "skipped"}

(* The runs are joined, and one of their errors is raised. *)
Return ==
  /\ Split /\ \A i \in DOMAIN row : HasEnded(i)
  /\ \/ errors = {} /\ reply' = [kind |-> "rows", rows |-> out]
     \/ \E error \in errors : reply' = ValueError(error)
  /\ pc' = "out"
  /\ UNCHANGED <<asked, memory, copy, row, out, errors, calls>>

SameLengths(h, i) ==
  /\ DOMAIN h.indptr = DOMAIN i.indptr
  /\ DOMAIN h.indices = DOMAIN i.indices
  /\ DOMAIN h.weights = DOMAIN i.weights

(* Another thread of the caller, in place. *)
CallerWrites ==
  /\ pc = "rows" /\ Copies(asked)
  /\ memory' \in {h \in Arrays \ {memory} : SameLengths(h, memory)}
  /\ UNCHANGED <<asked, reply, copy, pc, row, out, errors, calls>>

Library ==
  \/ Refuse \/ Enter \/ SplitPanics \/ Return
  \/ \E i \in DOMAIN row : StartRow(i) \/ FinishRow(i) \/ FailRow(i) \/ SkipRow(i)

Next == Request \/ Library \/ CallerWrites

Spec == Init /\ [][Next]_vars

(* The thread that called, and the pool's, do not stop before they return. *)
FairSpec == Spec /\ WF_vars(Library)

-----------------------------------------------------------------------------

(* Every call is answered as PathsApi promises.  It is not: asked for no    *)
(* rows of no columns, "array of shape (k, n)" (__init__.py:182-185) with   *)
(* k = n = 0, the code panics.                                             *)
Implements == Api!Spec

(* No sources, and no vertices. *)
Degenerate(c) == c.multi /\ c.sources = << >> /\ c.arrays.n = 0

(* A step that PathsApi does not allow: where rows are due, no rows of no   *)
(* columns, the call panics (multi.rs:44, 81).                             *)
NoRowsPanic ==
  /\ reply = Api!NoReply
  /\ Api!Legal(asked) /\ Degenerate(asked)
  /\ reply' = [kind |-> "panic"]
  /\ UNCHANGED asked

(* But for that panic every call is answered as PathsApi promises: whatever *)
(* the order in which runs begin, end and fail, and whoever writes the     *)
(* caller's arrays while they work (multi.rs:4-7, __init__.py:163-165).     *)
ImplementsElsewhere == Api!Init /\ [][Api!Next \/ NoRowsPanic]_<<asked, reply>>

(* The runs of a call all succeed or all fail, with one error: that which  *)
(* of them fails first is a race shows nowhere (multi.rs:47-56, 84-92).    *)
RowsAgree ==
  /\ Cardinality(errors) <= 1
  /\ errors # {} => \A i \in DOMAIN row : row[i] # "done"

(* Every call returns, also when runs fail and others are never begun. *)
Termination == (pc # "out") ~> (pc = "out")

=============================================================================
