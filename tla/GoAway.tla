------------------------------- MODULE GoAway -------------------------------
(***************************************************************************)
(* proto/go_away.rs: what an endpoint remembers of the GOAWAY frames it    *)
(* has sent, and the one it has still to send.                             *)
(*                                                                         *)
(* An Option of the code is a set of at most one element.  MaxId stands    *)
(* for StreamId::MAX, which no stream of the model has.                    *)
(***************************************************************************)
EXTENDS Naturals

CONSTANTS
  MaxId,    \* StreamId::MAX
  Reasons   \* the error codes the model tells apart, "no_error" among them

ASSUME GoAwayAssumption == MaxId \in Nat \ {0} /\ "no_error" \in Reasons

\* frame::GoAway, and GoingAway, which keeps the same two fields
GoAwayFrames == [id : 0 .. MaxId, reason : Reasons]

AtMostOne(S) == {{}} \cup {{x} : x \in S}

GoAways ==
  [closeNow : BOOLEAN, going : AtMostOne(GoAwayFrames), user : BOOLEAN,
   pending : AtMostOne(GoAwayFrames)]

NewGoAway == [closeNow |-> FALSE, going |-> {}, user |-> FALSE, pending |-> {}]

\* GoAway::go_away
SetGoAway(g, f) == [g EXCEPT !.going = {f}, !.pending = {f}]

\* GoAway::go_away_now, which does not send the same GOAWAY twice
GoAwayNow(g, f) ==
  LET now == [g EXCEPT !.closeNow = TRUE]
  IN  IF f \in g.going THEN now ELSE SetGoAway(now, f)

\* GoAway::go_away_from_user
GoAwayFromUser(g, f) == GoAwayNow([g EXCEPT !.user = TRUE], f)

\* The assertion in go_away: identifiers never go up.
MayGoAway(g, id) == \A f \in g.going : id <= f.id

IsGoingAway(g) == g.going /= {}

ShouldCloseNow(g) == g.pending = {} /\ g.closeNow

ShouldCloseOnIdle(g) == ~g.closeNow /\ \E f \in g.going : f.id /= MaxId
=============================================================================
