----------------------------- MODULE MCRounding -----------------------------
(***************************************************************************)
(* Bmssp with lengths that are rounded, as those of the code are.          *)
(*                                                                         *)
(* Small lengths are exact, and a length of Big or more keeps only the     *)
(* multiple of Big it contains: what addition of doubles does to 0, 1, 2,  *)
(* ... and 2^60, say, when it rounds down.  Like that of doubles this      *)
(* addition is monotone, and adding a weight never gives less.             *)
(***************************************************************************)
EXTENDS Bmssp, TLC

CONSTANT Big

AbsorbingAdd(a, w) ==
  LET sum == a + w
  IN  IF sum >= Big THEN (sum \div Big) * Big ELSE sum

MCGraphs ==
  {  (<<0, 4>> :> 2 @@ <<0, 2>> :> 3 @@ <<4, 2>> :> 0 @@ <<2, 3>> :> Big
       @@ <<3, 1>> :> 0 @@ <<1, 2>> :> Big)  }

MCParams == {[k |-> 3, t |-> 2, l |-> 2]}
=============================================================================
