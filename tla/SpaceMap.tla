------------------------------ MODULE SpaceMap ------------------------------
(***************************************************************************)
(* What the handler of "join" (apps/ws/src/user.ts) computes from the row  *)
(* of a space: the call areas, the tiles a newcomer may be put on, and     *)
(* whether the computation runs off the end of its matrix.                 *)
(*                                                                         *)
(* A space is a record [width, height, elements]: its size in pixels and   *)
(* the sequence of the elements placed on it, in the order the database    *)
(* returns them.  An element is a record [x, y, w, h, active], `active'    *)
(* when its elementId is among the space's activeAreas.                    *)
(***************************************************************************)
EXTENDS Integers, Sequences, FiniteSets

CONSTANT Scale      \* the constant scale: pixels per tile

ASSUME ScaleAssumption == Scale \in Nat \ {0}

\* Math.round(n / scale): halves round up.
Round(n) == (2 * n + Scale) \div (2 * Scale)

Rows(space) == Round(space.height)
Cols(space) == Round(space.width)

\* The tiles an element covers, as <<x, y>>.
Covers(e) == (e.x .. (e.x + e.w - 1)) \X (e.y .. (e.y + e.h - 1))

\* mapMatrix[y][x]: how many elements cover a tile.
Count(space, t) ==
    Cardinality({i \in DOMAIN space.elements : t \in Covers(space.elements[i])})

\* mapMatrix[ry]! is undefined above the first and below the last row; a column
\* beyond the last one only earns a warning.
MarkingFails(space) ==
    \E i \in DOMAIN space.elements :
        \E t \in Covers(space.elements[i]) : t[2] \notin 0 .. (Rows(space) - 1)

\* getWalkingTile lets its first index run over the rows and its second over
\* the columns, and reads mapMatrix[second][first]: on a space with more
\* columns than rows it reads a row that does not exist.
WalkingFails(space) == Rows(space) > 0 /\ Cols(space) > Rows(space)

LayoutFails(space) == MarkingFails(space) \/ WalkingFails(space)

IsActiveOrigin(space, t) ==
    \E i \in DOMAIN space.elements :
        /\ space.elements[i].active
        /\ t = <<space.elements[i].x, space.elements[i].y>>

\* The list getWalkingTile returns, when it returns.
SpawnTiles(space) ==
    {t \in (0 .. Rows(space) - 1) \X (0 .. Cols(space) - 1) :
        /\ t[1] < Cols(space)
        /\ ~IsActiveOrigin(space, t)
        /\ Count(space, t) = 1}

-----------------------------------------------------------------------------
(* The call areas: the loop writes one entry of areaMap per active element *)
(* under the key "x,y" of its first tile, a later element over an earlier. *)

AreaKeys(space) ==
    {<<e.x, e.y>> : e \in {space.elements[i] : i \in
        {j \in DOMAIN space.elements : space.elements[j].active}}}

\* The last active element at a key.
AreaElement(space, key) ==
    LET at == {i \in DOMAIN space.elements :
                  /\ space.elements[i].active
                  /\ key = <<space.elements[i].x, space.elements[i].y>>}
    IN  space.elements[CHOOSE i \in at : \A j \in at : j <= i]

\* 'p2p' for an element of two tiles side by side, else 'group'.
SeatCount(e) == IF e.w = 2 /\ e.h = 1 THEN 2 ELSE 9

\* An areaMap entry with nobody seated.
EmptyArea(space, key) ==
    LET e == AreaElement(space, key)
    IN  [w |-> e.w, h |-> e.h, seatCount |-> SeatCount(e), seatUsers |-> {}]

=============================================================================
