------------------------- MODULE EntryPointsProofs -------------------------
(***************************************************************************)
(* Proofs about EntryPoints, for every set of arrays, methods and lists of *)
(* sources: that the runs of one call agree, and that every call but one  *)
(* kind is answered as PathsApi promises.                                  *)
(***************************************************************************)
EXTENDS EntryPoints, LeastNumber

(* What is known of the runs of a call: they read what the caller passed,  *)
(* rows that are done are right, and a run fails only as every run would.  *)
RowsOf(c) ==
  /\ Refusal(c) = "None"
  /\ Held = c.arrays
  /\ DOMAIN row = DOMAIN c.sources
  /\ out = [i \in DOMAIN c.sources |->
              IF row[i] = "done" THEN Solution(c, c.arrays, c.sources[i]) ELSE Zeros]
  /\ errors \subseteq {Outcome(c.arrays)} \ {"Ok"}
  /\ \A i \in DOMAIN row : row[i] = "done" => Outcome(c.arrays) = "Ok"
  /\ \A i \in DOMAIN row : row[i] \in {"failed", "skipped"} => errors # {}

(* Stated without Cardinality, and of the last call's runs, too. *)
Agree ==
  /\ \E o : errors \subseteq {o}
  /\ errors # {} => \A i \in DOMAIN row : row[i] # "done"

IInv ==
  /\ memory \in Arrays
  /\ pc \in {"out", "in", "rows"}
  /\ pc = "out" => reply # Api!NoReply
  /\ pc # "out" => reply = Api!NoReply /\ \E h \in Arrays : asked \in CallsOn(h)
  /\ pc = "in" => asked.arrays = memory
  /\ pc = "rows" => RowsOf(asked)
  /\ Agree

-----------------------------------------------------------------------------
(* Both modules speak of calls in the words of module Calls.               *)

LEMMA SameMethods ==
  ASSUME NEW c
  PROVE  /\ Api!Supported(c) <=> Supported(c)
         /\ Api!UnknownVariant(c) <=> UnknownVariant(c)
         /\ Api!Algorithm(c) = Algorithm(c)
BY DEF Api!Supported, Supported, Api!UnknownVariant, UnknownVariant, Api!Algorithm, Algorithm

LEMMA SameSources ==
  ASSUME NEW c, NEW i
  PROVE  Api!IsFirstBad(i, c) <=> IsFirstBad(i, c)
BY DEF Api!IsFirstBad, IsFirstBad, Api!InRange, InRange

LEMMA SameSolutions ==
  ASSUME NEW c, NEW h, NEW s
  PROVE  Api!Solution(c, h, s) = Solution(c, h, s)
BY DEF Api!Solution, Solution

LEMMA SameCalls ==
  ASSUME NEW h
  PROVE  Api!CallsOn(h) = CallsOn(h)
BY DEF Api!CallsOn, CallsOn

LEMMA SameArrays ==
  ASSUME NEW h
  PROVE  /\ Api!Misshapen(h) <=> Misshapen(h)
         /\ Api!WellFormed(h) <=> WellFormed(h)
         /\ Api!SomeBadWeight(h) <=> SomeBadWeight(h)
         /\ Api!SomeUnfitWeight(h) <=> SomeUnfitWeight(h)
<1>1. Api!Nnz(h) = Nnz(h)
  BY DEF Api!Nnz, Nnz, Api!Cardinality, Cardinality
<1>2. Api!Misshapen(h) <=> Misshapen(h)
  BY <1>1 DEF Api!Misshapen, Misshapen
<1>3. Api!WellStructured(h) <=> WellStructured(h)
  BY <1>1 DEF Api!WellStructured, WellStructured
<1>4. Api!WellFormed(h) <=> WellFormed(h)
  BY <1>3 DEF Api!WellFormed, WellFormed, Api!BadNeighbor, BadNeighbor
<1>5. \A w : Api!BadWeight(w) <=> BadWeight(w)
  BY DEF Api!BadWeight, BadWeight
<1>6. \A w : Api!Unfit(w) <=> Unfit(w)
  BY <1>5 DEF Api!Unfit, Unfit
<1>7. Api!SomeBadWeight(h) <=> SomeBadWeight(h)
  BY <1>5 DEF Api!SomeBadWeight, SomeBadWeight
<1>8. Api!SomeUnfitWeight(h) <=> SomeUnfitWeight(h)
  BY <1>6 DEF Api!SomeUnfitWeight, SomeUnfitWeight
<1> QED BY <1>2, <1>4, <1>7, <1>8

LEMMA Applies ==
  ASSUME NEW c, NEW error
  PROVE  Api!Applies(error, c) <=>
           \/ error = "Method" /\ (~ Supported(c) \/ UnknownVariant(c))
           \/ error = "Shape" /\ Misshapen(c.arrays)
           \/ error = "Malformed" /\ ~ WellFormed(c.arrays)
           \/ error = "BadWeight" /\ Algorithm(c) # "dijkstra" /\ SomeUnfitWeight(c.arrays)
           \/ /\ error = "NegativeWeight"
              /\ \/ SomeBadWeight(c.arrays)
                 \/ c.multi /\ Algorithm(c) = "bmssp" /\ SomeUnfitWeight(c.arrays)
<1>1. /\ Api!Misshapen(c.arrays) <=> Misshapen(c.arrays)
      /\ Api!WellFormed(c.arrays) <=> WellFormed(c.arrays)
      /\ Api!SomeBadWeight(c.arrays) <=> SomeBadWeight(c.arrays)
      /\ Api!SomeUnfitWeight(c.arrays) <=> SomeUnfitWeight(c.arrays)
  BY SameArrays
<1> QED BY SameMethods, <1>1, Zenon DEF Api!Applies

-----------------------------------------------------------------------------
(* The checks.                                                              *)

LEMMA CallType ==
  ASSUME NEW h \in Arrays, NEW c \in CallsOn(h)
  PROVE  /\ c.arrays = h
         /\ c.sources \in Seq(Int)
         /\ c.multi \in BOOLEAN
BY CallsAssumption DEF CallsOn

(* If some source is out of range, one of them is the first.               *)
LEMMA FirstBadExists ==
  ASSUME NEW h \in Arrays, NEW c \in CallsOn(h), ~ AllInRange(c)
  PROVE  IsFirstBad(FirstBad(c), c)
<1> DEFINE T == {i \in DOMAIN c.sources : ~ InRange(c.sources[i], c.arrays)}
<1>1. T # {}
  BY DEF AllInRange
<1>2. DOMAIN c.sources = 1..Len(c.sources) /\ Len(c.sources) \in Nat
  BY CallType
<1>3. T \subseteq Nat
  BY <1>2
<1>4. PICK m \in T : \A i \in T : m <= i
  <2> HIDE DEF T
  <2> QED BY <1>1, <1>3, HasLeast
<1>5. IsFirstBad(m, c)
  <2>1. \A j \in 1..(m - 1) : j \in DOMAIN c.sources /\ ~ m <= j
    BY <1>2, <1>4
  <2>2. \A j \in 1..(m - 1) : j \notin T
    BY <1>4, <2>1
  <2> QED BY <1>4, <2>1, <2>2 DEF IsFirstBad
<1> QED BY <1>4, <1>5 DEF FirstBad

(* A call that is refused is refused for a reason that applies.            *)
LEMMA RefusalApplies ==
  ASSUME NEW h \in Arrays, NEW c \in CallsOn(h), Refusal(c) # "None"
  PROVE  \/ Refusal(c) = "Source" /\ ~ AllInRange(c)
         \/ /\ Refusal(c) \in {"Method", "Shape", "Malformed"}
            /\ Api!Applies(Refusal(c), c)
BY Applies DEF Refusal, Misshapen

(* What a call that is let in has passed.                                  *)
LEMMA LetIn ==
  ASSUME NEW h \in Arrays, NEW c \in CallsOn(h), Refusal(c) = "None"
  PROVE  /\ Supported(c) /\ ~ Misshapen(h) /\ AllInRange(c)
         /\ Copies(c) => WellFormed(h)
         /\ \A i \in DOMAIN c.sources : ~ IsFirstBad(i, c)
BY CallType DEF Refusal, AllInRange, IsFirstBad

LEMMA VerdictApplies ==
  ASSUME NEW h \in Arrays, ~ Misshapen(h)
  PROVE  /\ Verdict(h) \in {"Ok", "MalformedCsr", "NegativeWeight"}
         /\ Verdict(h) = "Ok" => WellFormed(h) /\ ~ SomeBadWeight(h)
         /\ Verdict(h) = "MalformedCsr" => ~ WellFormed(h)
         /\ Verdict(h) = "NegativeWeight" => SomeBadWeight(h)
<1> DEFINE Bad == {j \in DOMAIN h.indices : BadWeight(h.weights[j]) \/ BadNeighbor(h, j)}
           First == CHOOSE j \in Bad : \A i \in Bad : j <= i
<1>1. DOMAIN h.indices = DOMAIN h.weights
  BY DEF Misshapen
<1>2. ASSUME Bad # {} PROVE First \in Bad
  <2>1. h.indices \in [0..(Nnz(h) - 1) -> Int] /\ Nnz(h) \in Nat
    BY CallsAssumption
  <2>2. DOMAIN h.indices \subseteq Nat
    BY <2>1
  <2>3. \E j \in Bad : \A i \in Bad : j <= i
    <3>1. Bad \subseteq Nat
      BY <2>2
    <3> HIDE DEF Bad
    <3> QED BY <1>2, <3>1, HasLeast
  <2> HIDE DEF Bad
  <2> QED BY <2>3
<1>3. Verdict(h) = IF ~ WellStructured(h) THEN "MalformedCsr"
                   ELSE IF Bad = {} THEN "Ok"
                   ELSE IF BadWeight(h.weights[First]) THEN "NegativeWeight"
                   ELSE "MalformedCsr"
  BY DEF Verdict
<1>4. CASE ~ WellStructured(h)
  BY <1>3, <1>4 DEF WellFormed
<1>5. CASE WellStructured(h) /\ Bad = {}
  BY <1>1, <1>3, <1>5 DEF WellFormed, SomeBadWeight
<1>6. CASE WellStructured(h) /\ Bad # {}
  <2>1. First \in Bad
    BY <1>2, <1>6
  <2> HIDE DEF First
  <2> QED BY <1>1, <1>3, <1>6, <2>1 DEF WellFormed, SomeBadWeight
<1> QED BY <1>4, <1>5, <1>6

(* A run fails with an error that applies to the call.                     *)
LEMMA OutcomeApplies ==
  ASSUME NEW h \in Arrays, asked \in CallsOn(h), Refusal(asked) = "None",
         Outcome(h) # "Ok"
  PROVE  Outcome(h) \in Api!Errors /\ Api!Applies(Outcome(h), asked)
<1>1. asked.arrays = h /\ Supported(asked) /\ ~ Misshapen(h)
  BY LetIn, CallType
<1>2. CASE ~ Copies(asked)
  BY <1>1, <1>2, VerdictApplies, Applies DEF Outcome, Api!Errors
<1>3. CASE Copies(asked) /\ UnknownVariant(asked)
  BY <1>1, <1>3, Applies DEF Outcome, Api!Errors
<1>4. CASE Copies(asked) /\ ~ UnknownVariant(asked)
  <2>1. SomeUnfitWeight(h) /\ Outcome(h) = IF asked.multi THEN "NegativeWeight" ELSE "BadWeight"
    BY <1>4 DEF Outcome
  <2>2. Algorithm(asked) # "dijkstra" /\ (asked.multi => Algorithm(asked) = "bmssp")
    BY <1>1, <1>4 DEF Copies, Supported
  <2> QED BY <1>1, <2>1, <2>2, Applies DEF Api!Errors
<1> QED BY <1>2, <1>3, <1>4

(* If every run would succeed, the call is legal.                          *)
LEMMA OkIsLegal ==
  ASSUME NEW h \in Arrays, asked \in CallsOn(h), Refusal(asked) = "None",
         asked.sources # << >> => Outcome(h) = "Ok",
         asked.sources = << >> => asked.multi
  PROVE  Api!Legal(asked)
<1>1. /\ asked.arrays = h /\ Supported(asked) /\ ~ Misshapen(h)
      /\ Copies(asked) => WellFormed(h)
      /\ \A i \in DOMAIN asked.sources : ~ IsFirstBad(i, asked)
  BY LetIn, CallType
<1>2. ASSUME Outcome(h) = "Ok"
      PROVE  \A error \in Api!Errors : ~ Api!Applies(error, asked)
  <2>1. CASE ~ Copies(asked)
    <3>1. Verdict(h) = "Ok"
      BY <1>1, <1>2, <2>1, VerdictApplies DEF Outcome
    <3>2. WellFormed(h) /\ ~ SomeBadWeight(h)
      BY <1>1, <3>1, VerdictApplies
    <3> QED BY <1>1, <2>1, <3>2, Applies DEF Copies, UnknownVariant, Api!Errors
  <2>2. CASE Copies(asked)
    <3>1. ~ UnknownVariant(asked) /\ ~ SomeUnfitWeight(h)
      BY <1>2, <2>2 DEF Outcome
    <3>2. ~ SomeBadWeight(h)
      BY <3>1 DEF SomeBadWeight, SomeUnfitWeight, Unfit
    <3> QED BY <1>1, <2>2, <3>1, <3>2, Applies DEF Api!Errors
  <2> QED BY <2>1, <2>2
<1>3. CASE asked.sources = << >>
  <2>1. ~ UnknownVariant(asked)
    BY <1>1, <1>3 DEF Supported, UnknownVariant
  <2> QED BY <1>1, <1>3, <2>1, SameSources, Applies DEF Api!Legal
<1>4. CASE asked.sources # << >>
  BY <1>1, <1>2, <1>4, SameSources DEF Api!Legal, Api!Errors
<1> QED BY <1>3, <1>4

-----------------------------------------------------------------------------
(* The invariant, and what a step does to callers.                          *)

LEMMA InitIInv == Init => IInv
BY DEF Init, IInv, Api!Init, Api!NoReply, Agree

(* A call gets a reply, be it a panic, and its rows stay as they are.       *)
LEMMA AnswerKeeps ==
  ASSUME IInv, Api!Answer \/ NoRowsPanic, pc # "out", pc' = "out", memory' = memory,
         row' = row, errors' = errors
  PROVE  IInv'
<1>1. reply' # Api!NoReply
  BY DEF Api!Answer, Api!IsReply, Api!Answered, Api!NoReply, NoRowsPanic
<1> QED BY <1>1 DEF IInv, Agree, Api!NoReply

LEMMA RefuseAnswers ==
  ASSUME IInv, Refuse
  PROVE  Api!Answer
<1>1. PICK h \in Arrays : asked \in CallsOn(h)
  BY DEF IInv, Refuse
<1>2. CASE Refusal(asked) = "Source"
  <2>1. IsFirstBad(FirstBad(asked), asked)
    BY <1>1, <1>2, RefusalApplies, FirstBadExists
  <2>2. FirstBad(asked) \in DOMAIN asked.sources
    BY <2>1 DEF IsFirstBad
  <2>3. Api!IsFirstBad(FirstBad(asked), asked)
    BY <2>1, SameSources
  <2>4. reply' = [kind |-> "IndexError", source |-> asked.sources[FirstBad(asked)]]
    BY <1>2 DEF Refuse, IndexError
  <2> QED BY <2>2, <2>3, <2>4 DEF IInv, Refuse, Api!Answer, Api!IsReply
<1>3. CASE Refusal(asked) # "Source"
  <2>1. Refusal(asked) \in Api!Errors /\ Api!Applies(Refusal(asked), asked)
    BY <1>1, <1>3, RefusalApplies DEF Refuse, Api!Errors
  <2>2. reply' = [kind |-> "ValueError", error |-> Refusal(asked)]
    BY <1>3 DEF Refuse, ValueError
  <2> QED BY <2>1, <2>2 DEF IInv, Refuse, Api!Answer, Api!IsReply
<1> QED BY <1>2, <1>3

(* Only for no rows of no columns does a call panic. *)
LEMMA SplitPanicsForNoRows ==
  ASSUME IInv, SplitPanics
  PROVE  NoRowsPanic
<1>1. PICK h \in Arrays : asked \in CallsOn(h)
  BY DEF IInv, SplitPanics
<1>2. RowsOf(asked) /\ asked.multi /\ asked.arrays = h /\ h.n = 0
  BY <1>1, CallType DEF IInv, SplitPanics, RowsOf
<1>3. asked.sources = << >>
  <2>1. AllInRange(asked) /\ asked.sources \in Seq(Int)
    BY <1>1, <1>2, LetIn, CallType DEF RowsOf
  <2>2. \A i \in DOMAIN asked.sources : asked.sources[i] \in Int
    BY <2>1
  <2>3. DOMAIN asked.sources = {}
    BY <1>2, <2>1, <2>2 DEF AllInRange, InRange
  <2>4. Len(asked.sources) \in Nat /\ DOMAIN asked.sources = 1..Len(asked.sources)
    BY <2>1
  <2>5. Len(asked.sources) = 0
    <3> SUFFICES ASSUME Len(asked.sources) # 0 PROVE FALSE
      OBVIOUS
    <3>1. 1 \in 1..Len(asked.sources)
      BY <2>4
    <3> QED BY <2>3, <2>4, <3>1
  <2> QED BY <2>1, <2>5
<1>4. Api!Legal(asked)
  BY <1>1, <1>2, <1>3, OkIsLegal DEF RowsOf
<1>5. Degenerate(asked)
  BY <1>2, <1>3 DEF Degenerate
<1> QED BY <1>4, <1>5 DEF IInv, SplitPanics, NoRowsPanic

(* When every run has ended, their rows are the answer, or one of their    *)
(* errors is.                                                              *)
LEMMA ReturnAnswers ==
  ASSUME IInv, Return
  PROVE  Api!Answer
<1>1. PICK h \in Arrays : asked \in CallsOn(h)
  BY DEF IInv, Return, Split
<1>2. /\ RowsOf(asked) /\ asked.arrays = h /\ Refusal(asked) = "None"
      /\ asked.multi \in BOOLEAN /\ asked.sources \in Seq(Int)
  BY <1>1, CallType DEF IInv, Return, Split, RowsOf
<1>3. CASE errors = {}
  <2>1. \A i \in DOMAIN row : row[i] = "done"
    BY <1>2, <1>3 DEF Return, HasEnded, RowsOf
  <2>2. asked.sources # << >> => Outcome(h) = "Ok"
    <3> SUFFICES ASSUME asked.sources # << >> PROVE Outcome(h) = "Ok"
      OBVIOUS
    <3>1. 1 \in DOMAIN row
      BY <1>2 DEF RowsOf
    <3> QED BY <1>2, <2>1, <3>1 DEF RowsOf
  <2>3. asked.sources = << >> => asked.multi
    BY <1>1 DEF CallsOn
  <2>4. Api!Legal(asked)
    BY <1>1, <1>2, <2>2, <2>3, OkIsLegal
  <2>5. out = [i \in DOMAIN asked.sources |-> Solution(asked, asked.arrays, asked.sources[i])]
    BY <1>2, <2>1 DEF RowsOf
  <2>6. Api!Answered(asked) = [kind |-> "rows", rows |-> out]
    BY <2>5, SameSolutions DEF Api!Answered
  <2> QED BY <1>3, <2>4, <2>6 DEF IInv, Return, Split, Api!Answer, Api!IsReply
<1>4. CASE errors # {}
  <2>1. PICK error \in errors : reply' = [kind |-> "ValueError", error |-> error]
    BY <1>4 DEF Return, ValueError
  <2>2. error = Outcome(h) /\ Outcome(h) # "Ok"
    BY <1>2, <2>1 DEF RowsOf
  <2>3. error \in Api!Errors /\ Api!Applies(error, asked)
    BY <1>1, <1>2, <2>2, OutcomeApplies
  <2> QED BY <2>1, <2>3 DEF IInv, Return, Split, Api!Answer, Api!IsReply
<1> QED BY <1>3, <1>4

(* The other steps are the caller's, or show callers nothing.               *)

LEMMA RequestKeeps ==
  ASSUME IInv, Request
  PROVE  Api!Ask /\ IInv'
<1>1. asked' \in CallsOn(memory) /\ memory \in Arrays
  BY DEF IInv, Request
<1>2. asked'.arrays = memory
  BY <1>1, CallType
<1>3. Api!Ask
  BY <1>1, SameCalls DEF IInv, Request, Api!Ask, Api!NoReply
<1> QED BY <1>1, <1>2, <1>3 DEF IInv, Request, Agree, Api!Ask

LEMMA EnterKeeps ==
  ASSUME IInv, Enter
  PROVE  IInv'
<1>1. PICK h \in Arrays : asked \in CallsOn(h)
  BY DEF IInv, Enter
<1>2. asked.arrays = memory /\ Refusal(asked) = "None"
  BY DEF IInv, Enter
<1>3. Held' = asked.arrays
  BY <1>2 DEF Enter, Held, Copies, Algorithm
<1>4. Refusal(asked)' = "None"
  BY <1>2 DEF Enter
<1>5. RowsOf(asked)'
  BY <1>2, <1>3, <1>4 DEF Enter, RowsOf
<1> QED BY <1>5 DEF IInv, Enter, Agree, Api!NoReply

(* Rows, one at a time. *)
LEMMA RowsKeep ==
  ASSUME IInv, NEW i \in DOMAIN row,
         StartRow(i) \/ FinishRow(i) \/ FailRow(i) \/ SkipRow(i)
  PROVE  IInv' /\ UNCHANGED <<asked, reply>>
<1> DEFINE o == Outcome(asked.arrays)
<1>1. /\ pc = "rows" /\ pc' = pc /\ RowsOf(asked)
      /\ UNCHANGED <<asked, reply, memory, copy>>
  BY DEF IInv, StartRow, FinishRow, FailRow, SkipRow, Split
<1>2. /\ Refusal(asked)' = "None" /\ Held' = asked'.arrays
      /\ Outcome(asked.arrays)' = o
      /\ Held = asked.arrays
  BY <1>1 DEF RowsOf, Held, Outcome
<1>3. RowsOf(asked)'
  <2>1. CASE StartRow(i)
    BY <1>1, <1>2, <2>1 DEF StartRow, RowsOf
  <2>2. CASE FinishRow(i)
    BY <1>1, <1>2, <2>2 DEF FinishRow, RowsOf
  <2>3. CASE FailRow(i)
    BY <1>1, <1>2, <2>3 DEF FailRow, RowsOf
  <2>4. CASE SkipRow(i)
    BY <1>1, <1>2, <2>4 DEF SkipRow, RowsOf
  <2> QED BY <2>1, <2>2, <2>3, <2>4
<1>4. Agree'
  BY <1>2, <1>3 DEF RowsOf, Agree
<1> QED BY <1>1, <1>3, <1>4 DEF IInv, Api!NoReply

LEMMA CallerWritesKeeps ==
  ASSUME IInv, CallerWrites
  PROVE  IInv'
<1>1. /\ RowsOf(asked) /\ memory' \in Arrays
      /\ pc = "rows" /\ Copies(asked)
      /\ UNCHANGED <<asked, reply, copy, pc, row, out, errors>>
  BY DEF IInv, CallerWrites
<1>2. Held' = Held /\ Refusal(asked)' = Refusal(asked) /\ Outcome(asked.arrays)' = Outcome(asked.arrays)
  BY <1>1 DEF Held, Copies, Algorithm, Refusal, Outcome, AllInRange
<1>3. RowsOf(asked)'
  BY <1>1, <1>2 DEF RowsOf
<1> QED BY <1>1, <1>3 DEF IInv, Agree, Api!NoReply

LEMMA NextIInv ==
  ASSUME IInv, [Next]_vars
  PROVE  IInv' /\ [Api!Next \/ NoRowsPanic]_<<asked, reply>>
<1>1. CASE Request
  BY <1>1, RequestKeeps DEF Api!Next
<1>2. CASE Refuse
  <2>1. Api!Answer
    BY <1>2, RefuseAnswers
  <2> QED BY <1>2, <2>1, AnswerKeeps DEF Refuse, Api!Next
<1>3. CASE Enter
  BY <1>3, EnterKeeps DEF Enter
<1>4. CASE SplitPanics
  <2>1. NoRowsPanic
    BY <1>4, SplitPanicsForNoRows
  <2> QED BY <1>4, <2>1, AnswerKeeps DEF SplitPanics
<1>5. CASE Return
  <2>1. Api!Answer
    BY <1>5, ReturnAnswers
  <2> QED BY <1>5, <2>1, AnswerKeeps DEF Return, Split, Api!Next
<1>6. CASE \E i \in DOMAIN row : StartRow(i) \/ FinishRow(i) \/ FailRow(i) \/ SkipRow(i)
  BY <1>6, RowsKeep
<1>7. CASE CallerWrites
  BY <1>7, CallerWritesKeeps DEF CallerWrites
<1>8. CASE UNCHANGED vars
  <2>1. RowsOf(asked)' <=> RowsOf(asked)
    BY <1>8 DEF vars, RowsOf, Refusal, Held, Outcome, AllInRange
  <2> QED BY <1>8, <2>1 DEF vars, IInv, Agree, Api!NoReply
<1> QED BY <1>1, <1>2, <1>3, <1>4, <1>5, <1>6, <1>7, <1>8 DEF Next, Library

-----------------------------------------------------------------------------

LEMMA IInvRowsAgree ==
  ASSUME IInv
  PROVE  RowsAgree
<1>1. PICK o : errors \subseteq {o}
  BY DEF IInv, Agree
<1>2. errors = {} \/ errors = {o}
  BY <1>1
<1>3. Cardinality(errors) <= 1
  <2>1. Cardinality({}) = 0
    BY FS_EmptySet
  <2>2. Cardinality({o}) = 1
    BY FS_Singleton
  <2> QED BY <1>2, <2>1, <2>2
<1> QED BY <1>3 DEF IInv, Agree, RowsAgree

(* The runs of a call agree on whether it succeeds and on what it fails    *)
(* with, in whatever order they begin, end and fail.                       *)
THEOREM AllRowsAgree == Spec => []RowsAgree
<1>1. Init => IInv
  BY InitIInv
<1>2. IInv /\ [Next]_vars => IInv'
  BY NextIInv
<1>3. IInv => RowsAgree
  BY IInvRowsAgree
<1> QED BY <1>1, <1>2, <1>3, PTL DEF Spec

(* Every call is answered as PathsApi promises: with rows if it is legal,  *)
(* with an error only if that applies, and runs and callers of other       *)
(* threads interfere in no way.  Only where the rows due are no rows of no *)
(* columns may the call panic instead.                                     *)
THEOREM KeepsPromises == Spec => ImplementsElsewhere
<1>1. Init => IInv /\ Api!Init
  BY InitIInv DEF Init
<1>2. IInv /\ [Next]_vars => IInv' /\ [Api!Next \/ NoRowsPanic]_<<asked, reply>>
  BY NextIInv
<1> QED BY <1>1, <1>2, PTL DEF Spec, ImplementsElsewhere

=============================================================================
