------------------------------- MODULE MCHpack -------------------------------
(* Hpack for TLC: names that collide in the hash table, and the scenes.    *)
EXTENDS Hpack

HashesMC == [a |-> 3, b |-> 3, c |-> 7, d |-> 0, bad |-> 2, m |-> 1]
StaticMC == <<[name |-> "m", value |-> "v"], [name |-> "d", value |-> "x"]>>
LengthsMC == [p \in Names \X Values |-> IF p = <<"d", "v">> THEN 2 ELSE 1]

H(n, v) == [name |-> n, value |-> v, sensitive |-> FALSE]
Secret(n, v) == [name |-> n, value |-> v, sensitive |-> TRUE]

NoScene == [blocks |-> {}, sizes |-> {}, room |-> 12, wire |-> 1, list |-> 9, ignore |-> 9]

\* One header at a time fills, grows and empties the encoder's table.
Filling ==
  [NoScene EXCEPT !.blocks = {<<H("a", "v")>>, <<H("a", "w")>>, <<H("b", "v")>>,
                              <<H("c", "v")>>, <<H("d", "v")>>, <<Secret("a", "w")>>},
                  !.sizes = {2}]

\* Sizes that change again before they are acknowledged.
Resizing ==
  [NoScene EXCEPT !.blocks = {<<H("a", "v")>>, <<H("b", "v"), H("a", "w")>>},
                  !.sizes = {0, 3, 5}, !.wire = 2]

\* Blocks in pieces, and too large for the receiver.
Cutting ==
  [NoScene EXCEPT !.blocks = {<<H("m", "w"), H("d", "v")>>,
                              <<H("a", "v"), H("a", "w"), H("d", "v"), H("b", "v")>>},
                  !.sizes = {2, 4}, !.room = 3, !.list = 3]

\* Malformed blocks, in one frame each.
Spoiling ==
  [NoScene EXCEPT !.blocks = {<<H("a", "v"), H("bad", "v"), H("b", "v")>>,
                              <<H("a", "w"), Secret("a", "v")>>, <<H("b", "v"), H("m", "v")>>},
                  !.sizes = {3}]

\* Malformed blocks in pieces: found so at the end, found so before the end, and
\* not found so at all.
Tearing ==
  [NoScene EXCEPT !.blocks = {<<H("a", "v"), H("bad", "v"), H("b", "v")>>,
                              <<H("bad", "v"), H("a", "w"), H("b", "v")>>,
                              <<H("a", "v"), H("b", "v"), H("bad", "v"), H("m", "v")>>},
                  !.sizes = {3}, !.room = 3]

\* Blocks at each of the receiver's limits and beyond it: the length of the list,
\* the number of CONTINUATION frames, and what may follow a list over its limit.
Bloated ==
  [NoScene EXCEPT !.blocks = {<<H("a", "v"), H("b", "v"), H("c", "v"), H("m", "w")>>,
                              <<H("a", "v"), H("a", "w"), H("b", "v"), H("d", "v")>>},
                  !.list = 1]
Flooding ==
  [NoScene EXCEPT !.blocks = {<<H("a", "v"), H("a", "w"), H("b", "v"), H("c", "v"), H("m", "v")>>,
                              <<H("a", "v"), H("b", "v"), H("b", "w"), H("c", "v"), H("c", "w"),
                                H("d", "x")>>},
                  !.room = 2]
Refusing ==
  [NoScene EXCEPT !.blocks = {<<H("a", "v"), H("b", "v")>>,
                              <<H("a", "v"), H("b", "v"), H("c", "v")>>},
                  !.sizes = {2}, !.room = 3, !.list = 1, !.ignore = 2]

AllScenes == {Filling, Resizing, Cutting, Spoiling, Tearing, Bloated, Flooding, Refusing}
=============================================================================
