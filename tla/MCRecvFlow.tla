---------------------------- MODULE MCRecvFlow ----------------------------
(* RecvFlow for TLC: two streams as model values.                          *)
EXTENDS RecvFlow

CONSTANTS s1, s2

=============================================================================
