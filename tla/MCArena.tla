------------------------------ MODULE MCArena ------------------------------
(***************************************************************************)
(* Small arenas for TLC.  One tile is one pixel wide (Scale = 1), so that  *)
(* the bounds of a move, which the code takes in pixels, keep the walkers  *)
(* on the few tiles of row 1.                                              *)
(***************************************************************************)
EXTENDS Arena

CONSTANTS c1, c2, u1, u2, lobby, annex, ruin

Rug(px, py) == [x |-> px, y |-> py, w |-> 1, h |-> 1, active |-> FALSE]
Sofa(px, py) == [x |-> px, y |-> py, w |-> 2, h |-> 1, active |-> TRUE]
Booth(px, py) == [x |-> px, y |-> py, w |-> 1, h |-> 1, active |-> TRUE]

Square(n, els) == [width |-> n, height |-> n, elements |-> els]

Corridor(els) == [width |-> 3, height |-> 4, elements |-> els]

\* Two spaces whose areas have the same key but not the same size; the second
\* seat of the sofa is beyond the last column.
SharedKey == lobby :> Corridor(<<Rug(1, 1), Sofa(2, 1)>>)
          @@ annex :> Corridor(<<Rug(1, 1), Booth(2, 1)>>)

\* Two spaces of one tile each: nobody can move.
Foyers == lobby :> Square(2, <<Rug(1, 1)>>) @@ annex :> Square(2, <<Rug(1, 1)>>)

\* A space with nothing on its map.
Bare == lobby :> Square(4, <<>>)

TwoConns == {c1, c2}
NoSpace == {}
OneRuin == {ruin}
NoConn == {}
OneConn == {c1}
TwoUsers == {u1, u2}

\* Every connection has a user of its own.
Owner == c1 :> u1 @@ c2 :> u2
OwnToken == [c \in Conns |-> {Owner[c]}]

\* Any user may be signed in on any connection.
AnyToken == [c \in Conns |-> Users]

\* What has been sent is read by nobody.
Unsent == <<up, open, user, rooms, areaMap, tasks>>

=============================================================================
