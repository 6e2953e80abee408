-------------------------------- MODULE Clock --------------------------------
(***************************************************************************)
(* time.monotonic() as the waiting commands of the CLI read it, in whole   *)
(* seconds, and the moment that has not come.                              *)
(***************************************************************************)
EXTENDS Naturals

CONSTANT Never
ASSUME NeverAssumption == Never \notin Nat

VARIABLE now

Moments == Nat \cup {Never}
Larger(x, y)  == IF x > y THEN x ELSE y
Smaller(x, y) == IF x < y THEN x ELSE y
=============================================================================
