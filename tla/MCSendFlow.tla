---------------------------- MODULE MCSendFlow ----------------------------
(* SendFlow for TLC.                                                       *)
EXTENDS SendFlow

=============================================================================
