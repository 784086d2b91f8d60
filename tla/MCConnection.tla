---------------------------- MODULE MCConnection ----------------------------
(* Connection for TLC: what the environment does in each scene.            *)
EXTENDS Connection

NoScene ==
  [role |-> "server", frames |-> {}, sends |-> 0, calls |-> {}, made |-> 0,
   reasons |-> {"no_error"}, requests |-> 0, pings |-> 0, limit |-> {}]

\* A server shuts down while requests and resets are under way.
ShuttingDown ==
  [NoScene EXCEPT !.frames = {"headers", "reset"}, !.sends = 3,
                  !.calls = {"graceful"}, !.made = 1]

\* Shutdowns, and a peer that breaks the rules.
Failing ==
  [NoScene EXCEPT !.frames = {"headers", "bad"}, !.sends = 2,
                  !.calls = {"graceful", "abrupt"}, !.made = 2,
                  !.reasons = {"no_error", "cancel"}]

\* SETTINGS in both directions among other frames.
Changing ==
  [NoScene EXCEPT !.frames = {"settings", "ping", "goAway"}, !.sends = 2,
                  !.calls = {"settings"}, !.made = 1]

\* A user's PING, answers to no PING, and a graceful shutdown, which has its own.
Pinged ==
  [NoScene EXCEPT !.frames = {"pong", "eof"}, !.sends = 1,
                  !.calls = {"graceful"}, !.made = 1, !.pings = 1]

\* A client whose handles go away.
Leaving ==
  [NoScene EXCEPT !.role = "client", !.frames = {"goAway"}, !.sends = 1,
                  !.requests = 2, !.limit = {1}]

\* A client whose peer goes away, or breaks the transport.
Abandoned ==
  [Leaving EXCEPT !.frames = {"goAway", "broken"}, !.requests = 1,
                  !.reasons = {"no_error", "cancel"}]

\* Nothing but two PINGs of the user, one after the other.
TwoPings == {[NoScene EXCEPT !.pings = 2]}

AllScenes == {ShuttingDown, Failing, Changing, Pinged, Leaving, Abandoned}
=============================================================================
