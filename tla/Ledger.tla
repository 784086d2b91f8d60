------------------------------- MODULE Ledger -------------------------------
(***************************************************************************)
(* What receive-side flow control promises, seen from outside: an account  *)
(* of octets between a receiver and its peer.  The receiver has advertised *)
(* so many octets to the peer, holds so many that arrived and were not yet *)
(* given back, and means the two to come to its limit.  It may change the  *)
(* limit whenever it likes but cannot take back what it advertised, so a   *)
(* lower limit is approached as data arrives.  There are no streams here,  *)
(* no handles, no errors and no second window: RecvFlow shows that the     *)
(* bookkeeping of recv.rs comes to this.                                   *)
(***************************************************************************)
EXTENDS Integers

CONSTANTS
  MaxWindow,  \* the largest window the protocol knows
  Opening     \* what is advertised before anything is said

VARIABLES
  advertised,  \* octets the peer may still send
  held,        \* octets received and not given back
  limit        \* what the receiver wants the two to come to

account == <<advertised, held, limit>>

Init == advertised = Opening /\ held = 0 /\ limit = Opening

\* n octets arrive, of which some are given back at once: padding, and data
\* nobody wants.
Receive(n, back) ==
  /\ advertised' = advertised - n
  /\ held' = held + n - back
  /\ UNCHANGED limit

GiveBack(n) ==
  /\ held' = held - n
  /\ UNCHANGED <<advertised, limit>>

\* Exactly what is free is advertised, never more.
Advertise ==
  /\ advertised < limit - held
  /\ advertised' = limit - held
  /\ UNCHANGED <<held, limit>>

Retarget(sz) ==
  /\ limit' = sz
  /\ UNCHANGED <<advertised, held>>

Next ==
  \/ \E n \in 0 .. advertised : \E back \in 0 .. n : Receive(n, back)
  \/ \E n \in 0 .. held : GiveBack(n)
  \/ Advertise
  \/ \E sz \in 0 .. MaxWindow : Retarget(sz)

Spec == Init /\ [][Next]_account

=============================================================================
