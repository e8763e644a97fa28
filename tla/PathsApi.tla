------------------------------ MODULE PathsApi ------------------------------
(***************************************************************************)
(* What shortest_paths and shortest_paths_multi promise their callers:     *)
(* after a call, either a row for each source, in their order, each of     *)
(* them the answer of a run from that source alone for the arrays as they  *)
(* were at the call, or an error that applies to the call.  Which one is   *)
(* raised where several do is not promised.                                *)
(***************************************************************************)
EXTENDS Calls

VARIABLES
  asked,          (* The last call.                                        *)
  reply           (* Its result, or NoReply until there is one.            *)

NoReply == [kind |-> "none"]

(* The errors that apply to a call.  One of them is not quite true: asked  *)
(* for several sources, BMSSP calls an infinite weight negative or NaN.    *)
Applies(error, c) ==
  \/ error = "Method" /\ (~ Supported(c) \/ UnknownVariant(c))
  \/ error = "Shape" /\ Misshapen(c.arrays)
  \/ error = "Malformed" /\ ~ WellFormed(c.arrays)
  \/ error = "BadWeight" /\ Algorithm(c) # "dijkstra" /\ SomeUnfitWeight(c.arrays)
  \/ /\ error = "NegativeWeight"
     /\ \/ SomeBadWeight(c.arrays)
        \/ c.multi /\ Algorithm(c) = "bmssp" /\ SomeUnfitWeight(c.arrays)

Errors == {"Method", "Shape", "Malformed", "BadWeight", "NegativeWeight"}

(* No error applies, or there are no sources for whose sake a run would    *)
(* have looked at the graph.                                               *)
Legal(c) ==
  /\ ~ Applies("Method", c) /\ ~ Applies("Shape", c)
  /\ \A i \in DOMAIN c.sources : ~ IsFirstBad(i, c)
  /\ c.sources # << >> => \A error \in Errors : ~ Applies(error, c)

(* As many rows as sources, of as many columns as vertices, be it none     *)
(* (__init__.py:182-185).                                                  *)
Answered(c) ==
  [kind |-> "rows",
   rows |-> [i \in DOMAIN c.sources |-> Solution(c, c.arrays, c.sources[i])]]

IsReply(r, c) ==
  \/ Legal(c) /\ r = Answered(c)
  \/ \E error \in Errors : Applies(error, c) /\ r = [kind |-> "ValueError", error |-> error]
  \/ \E i \in DOMAIN c.sources :
       IsFirstBad(i, c) /\ r = [kind |-> "IndexError", source |-> c.sources[i]]

Init == asked = << >> /\ reply = [kind |-> "start"]

Ask ==
  /\ reply # NoReply
  /\ \E h \in Arrays : asked' \in CallsOn(h)
  /\ reply' = NoReply

Answer ==
  /\ reply = NoReply
  /\ IsReply(reply', asked)
  /\ UNCHANGED asked

Next == Ask \/ Answer

Spec == Init /\ [][Next]_<<asked, reply>>

=============================================================================
