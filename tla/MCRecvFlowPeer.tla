-------------------------- MODULE MCRecvFlowPeer --------------------------
(* RecvFlowPeer for TLC.                                                   *)
EXTENDS RecvFlowPeer

CONSTANTS s1, s2

=============================================================================
