------------------------------- MODULE Loops --------------------------------
(***************************************************************************)
(* A loop of n turns, as a recursive function: step[k][y] is what turn k   *)
(* makes of y.  A loop that may end early has turns that change nothing.   *)
(***************************************************************************)
EXTENDS Integers

Loop(step, x, n) ==
  LET after[k \in 0 .. n] == IF k = 0 THEN x ELSE step[k][after[k - 1]] IN after[n]

=============================================================================
