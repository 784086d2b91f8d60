-------------------------------- MODULE Sums --------------------------------
(***************************************************************************)
(* The sum of the first n values of a function on 1 .. n, as a recursive   *)
(* function: octets over the frames on a wire or in a queue, capacity over *)
(* the streams.                                                            *)
(***************************************************************************)
EXTENDS Integers

Total(f, n) ==
  LET sum[k \in 0 .. n] == IF k = 0 THEN 0 ELSE sum[k - 1] + f[k] IN sum[n]

=============================================================================
