---------------------------- MODULE FlowControl ----------------------------
(***************************************************************************)
(* The flow-control pair of proto/streams/flow_control.rs, used four times *)
(* per connection: for the connection and for every stream, in the         *)
(* sending and in the receiving direction.                                 *)
(*                                                                         *)
(* A FlowControl is a record of two windows.  "window" is the one the peer *)
(* knows about, "available" the one this endpoint knows about.  Both are   *)
(* i32 in the code and may be negative; MaxWindow stands for i32::MAX,     *)
(* which is also the largest window HTTP/2 allows.  The module is pure:    *)
(* each operator returns the updated record.  An operation that fails in   *)
(* the code leaves the record as it is, so every operator comes with the   *)
(* condition under which the code returns Ok.                              *)
(***************************************************************************)
EXTENDS Integers

CONSTANT MaxWindow  \* i32::MAX, and MAX_WINDOW_SIZE

ASSUME MaxWindowAssumption == MaxWindow \in Nat \ {0}

MinWindow == -MaxWindow - 1

Window == MinWindow .. MaxWindow

FlowControls == [window : Window, available : Window]

\* FlowControl::new, then inc_window and assign_capacity by the same amount,
\* which is how every user of the type initialises it.
NewFlow(sz) == [window |-> sz, available |-> sz]

\* Window::as_size: a negative window is no room at all.
AsSize(w) == IF w < 0 THEN 0 ELSE w

\* Mutation of WindowSize: a negative window is compared as it is.
RawWindowSize(fc) == fc.window

\* FlowControl::window_size, what every admission check compares with.
WindowSize(fc) == AsSize(fc.window)

Lesser(a, b) == IF a < b THEN a ELSE b

HasUnavailable(fc) == fc.window >= 0 /\ fc.window > fc.available

----------------------------------------------------------------------------
(* Capacity: the "available" side.                                         *)

CanClaim(fc, sz) == fc.available - sz >= MinWindow

ClaimCapacity(fc, sz) ==
  IF CanClaim(fc, sz) THEN [fc EXCEPT !.available = @ - sz] ELSE fc

CanAssign(fc, sz) == fc.available + sz <= MaxWindow

AssignCapacity(fc, sz) ==
  IF CanAssign(fc, sz) THEN [fc EXCEPT !.available = @ + sz] ELSE fc

----------------------------------------------------------------------------
(* The peer's window.                                                      *)

CanIncWindow(fc, sz) == fc.window + sz <= MaxWindow

IncWindow(fc, sz) ==
  IF CanIncWindow(fc, sz) THEN [fc EXCEPT !.window = @ + sz] ELSE fc

CanDecSendWindow(fc, sz) == fc.window - sz >= MinWindow

\* Only the peer's window shrinks: capacity that is already assigned stays
\* assigned, so "available" may exceed "window" from here on.
DecSendWindow(fc, sz) ==
  IF CanDecSendWindow(fc, sz) THEN [fc EXCEPT !.window = @ - sz] ELSE fc

CanDecRecvWindow(fc, sz) ==
  fc.window - sz >= MinWindow /\ fc.available - sz >= MinWindow

\* Mutation of DecRecvWindow: capacity stays, as on the sending side.
DecRecvWindowOnly(fc, sz) == [fc EXCEPT !.window = @ - sz]

\* The receiving side shrinks both.
DecRecvWindow(fc, sz) ==
  [fc EXCEPT !.window = @ - sz, !.available = @ - sz]

\* Mutation of SendData: the peer's window is not charged.
SendDataUncharged(fc, sz) == [fc EXCEPT !.available = @ - sz]

\* A frame of sz octets crosses the connection.  A zero-length frame changes
\* nothing; for any other the code asserts window >= sz.
SendData(fc, sz) ==
  [fc EXCEPT !.window = @ - sz, !.available = @ - sz]

----------------------------------------------------------------------------
(* The WINDOW_UPDATE this endpoint owes: FlowControl::unclaimed_capacity,   *)
(* with UNCLAIMED_NUMERATOR / UNCLAIMED_DENOMINATOR = 1/2.  Division of a   *)
(* negative window rounds toward zero in Rust; a negative window has a      *)
(* negative or zero threshold either way and every positive amount passes   *)
(* it.                                                                      *)

Threshold(fc) == AsSize(fc.window) \div 2

IsUnclaimed(fc) ==
  /\ fc.window < fc.available
  /\ fc.available - fc.window >= Threshold(fc)

\* The increment of the WINDOW_UPDATE when IsUnclaimed.
Unclaimed(fc) == fc.available - fc.window

============================================================================
