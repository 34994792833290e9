---------------------------- MODULE Arena_proofs ----------------------------
(***************************************************************************)
(* Proofs about Arena.                                                     *)
(*                                                                         *)
(* In every arena, whatever the clients send and when: types, sound seats, *)
(* no jumps, no step during a call, and introductions among those who are  *)
(* settled in a room.                                                      *)
(***************************************************************************)
EXTENDS Arena, FiniteSetTheorems, SequenceTheorems, NaturalsInduction,
        WellFoundedInduction, TLAPS

-----------------------------------------------------------------------------
(* Numbers, sequences, and the layout of a space. *)

\* The least of some natural numbers is one of them.
LEMMA Least ==
    ASSUME NEW S, S \subseteq Nat, S # {}
    PROVE  \E x \in S : \A y \in S : x <= y
<1> DEFINE R == OpToRel(<, Nat)
<1>1. IsWellFoundedOn(R, Nat)
  BY NatLessThanWellFounded
<1>2. R = {ss \in Nat \X Nat : ss[1] < ss[2]}
  BY DEF OpToRel
<1> HIDE DEF R
<1>3. PICK x \in S : \A y \in S : ~ (<<y, x>> \in R)
  BY <1>1, WFMin
<1>4. ASSUME NEW y \in S PROVE x <= y
  <2>1. <<y, x>> \in Nat \X Nat /\ ~ (<<y, x>> \in R)
    BY <1>3
  <2>2. ~ (<<y, x>>[1] < <<y, x>>[2])
    BY <1>2, <2>1
  <2> QED BY <2>2, x \in Nat, y \in Nat
<1> QED BY <1>4

\* The greatest of some indices of a sequence is one of them.
LEMMA Greatest ==
    ASSUME NEW n \in Nat, NEW S, S \subseteq 1 .. n, S # {}
    PROVE  \E x \in S : \A y \in S : y <= x
<1> DEFINE D == {n - x : x \in S}
<1>1. D \subseteq Nat /\ D # {}
  <2>1. \A x \in S : x \in Int /\ 1 <= x /\ x <= n
    OBVIOUS
  <2>2. \A x \in S : n - x \in Nat
    BY <2>1
  <2> QED BY <2>2
<1> HIDE DEF D
<1>2. PICK d \in D : \A e \in D : d <= e
  BY <1>1, Least
<1>3. PICK x \in S : d = n - x
  BY DEF D
<1>4. ASSUME NEW y \in S PROVE y <= x
  <2>1. n - y \in D
    BY DEF D
  <2>2. n - x <= n - y
    BY <1>2, <1>3, <2>1
  <2> QED BY <2>2
<1> QED BY <1>4

\* Of some tiles there is a first one, column by column: what allSeat.find
\* returns is a seat of the list it searches.
LEMMA FirstSeatFound ==
    ASSUME NEW S, S \subseteq Tile, S # {}
    PROVE  FirstSeat(S) \in S
<1> DEFINE X == {s[1] : s \in S}
<1>1. X \subseteq Nat /\ X # {}
  BY DEF Tile
<1> HIDE DEF X
<1>2. PICK x \in X : \A y \in X : x <= y
  BY <1>1, Least
<1> DEFINE Y == {s[2] : s \in {r \in S : r[1] = x}}
<1>3. Y \subseteq Nat /\ Y # {}
  BY DEF Tile, X
<1> HIDE DEF Y
<1>4. PICK y \in Y : \A z \in Y : y <= z
  BY <1>3, Least
<1>5. PICK s \in S : s[1] = x /\ s[2] = y
  BY DEF Y
<1>6. ASSUME NEW r \in S PROVE s[1] < r[1] \/ (s[1] = r[1] /\ s[2] <= r[2])
  <2>1. r[1] \in X /\ r[1] \in Nat /\ x \in Nat
    BY <1>1 DEF X, Tile
  <2>2. CASE r[1] = x
    <3>1. r[2] \in Y
      BY <2>2 DEF Y
    <3> QED BY <1>4, <1>5, <2>2, <3>1
  <2>3. CASE r[1] # x
    BY <1>2, <1>5, <2>1, <2>3
  <2> QED BY <2>2, <2>3
<1> QED BY <1>6 DEF FirstSeat

\* What a handler that ends leaves of the list of suspended handlers.
LEMMA Removed ==
    ASSUME NEW S, NEW seq \in Seq(S), NEW i \in DOMAIN seq
    PROVE  /\ RemoveAt(seq, i) \in Seq(S)
           /\ \A j \in DOMAIN RemoveAt(seq, i) : \E k \in DOMAIN seq :
                 RemoveAt(seq, i)[j] = seq[k]
           /\ Len(RemoveAt(seq, i)) = Len(seq) - 1
           /\ \A k \in DOMAIN seq \ {i} : \E j \in DOMAIN RemoveAt(seq, i) :
                 RemoveAt(seq, i)[j] = seq[k]
<1>1. i \in 1 .. Len(seq) /\ Len(seq) \in Nat /\ DOMAIN seq = 1 .. Len(seq)
  BY LenProperties
<1> DEFINE a == SubSeq(seq, 1, i - 1)
           b == SubSeq(seq, i + 1, Len(seq))
<1>2. a \in Seq(S) /\ Len(a) = i - 1 /\ \A j \in 1 .. i - 1 : a[j] = seq[j]
  BY <1>1, SubSeqProperties
<1>3. b \in Seq(S) /\ Len(b) = Len(seq) - i /\ \A j \in 1 .. Len(seq) - i : b[j] = seq[j + i]
  <2>1. CASE i < Len(seq)
    BY <1>1, <2>1, SubSeqProperties
  <2>2. CASE i = Len(seq)
    BY <1>1, <2>2, SubSeqProperties
  <2> QED BY <1>1, <2>1, <2>2
<1>4. RemoveAt(seq, i) = a \o b
  BY DEF RemoveAt
<1> HIDE DEF a, b
<1>5. /\ a \o b \in Seq(S)
      /\ Len(a \o b) = Len(seq) - 1
      /\ \A j \in 1 .. Len(seq) - 1 :
            (a \o b)[j] = IF j <= i - 1 THEN a[j] ELSE b[j - (i - 1)]
  <2>1. /\ a \o b \in Seq(S)
        /\ Len(a \o b) = Len(a) + Len(b)
        /\ \A j \in 1 .. Len(a) + Len(b) :
              (a \o b)[j] = IF j <= Len(a) THEN a[j] ELSE b[j - Len(a)]
    BY <1>2, <1>3, ConcatProperties
  <2>2. Len(a) + Len(b) = Len(seq) - 1
    BY <1>1, <1>2, <1>3
  <2> QED BY <1>2, <2>1, <2>2
<1>6. DOMAIN (a \o b) = 1 .. Len(seq) - 1
  BY <1>5, LenProperties
<1>7. ASSUME NEW j \in 1 .. Len(seq) - 1
      PROVE  \E k \in DOMAIN seq : (a \o b)[j] = seq[k]
  <2>1. CASE j <= i - 1
    <3>1. (a \o b)[j] = a[j] /\ j \in 1 .. i - 1
      BY <1>1, <1>5, <2>1
    <3> QED BY <1>1, <1>2, <3>1
  <2>2. CASE ~ (j <= i - 1)
    <3>1. (a \o b)[j] = b[j - (i - 1)]
      BY <1>5, <2>2
    <3>2. j - (i - 1) \in 1 .. Len(seq) - i
      BY <1>1, <2>2
    <3>3. (a \o b)[j] = seq[j - (i - 1) + i]
      BY <1>3, <3>1, <3>2
    <3> QED BY <1>1, <3>2, <3>3
  <2> QED BY <2>1, <2>2
<1>8. ASSUME NEW k \in DOMAIN seq \ {i}
      PROVE  \E j \in 1 .. Len(seq) - 1 : (a \o b)[j] = seq[k]
  <2>0. k \in Nat /\ i \in Nat /\ k # i /\ 1 <= k /\ k <= Len(seq) /\ i <= Len(seq) /\ 1 <= i
    BY <1>1
  <2>1. CASE k < i
    <3>1. k \in 1 .. i - 1 /\ k \in 1 .. Len(seq) - 1 /\ k <= i - 1
      BY <1>1, <2>0, <2>1
    <3>2. (a \o b)[k] = IF k <= i - 1 THEN a[k] ELSE b[k - (i - 1)]
      BY <1>5, <3>1
    <3>3. (a \o b)[k] = a[k]
      BY <3>1, <3>2
    <3> QED BY <1>2, <3>1, <3>3
  <2>2. CASE i < k
    <3>1. k - 1 \in 1 .. Len(seq) - 1 /\ k - i \in 1 .. Len(seq) - i /\ ~ (k - 1 <= i - 1)
      BY <1>1, <2>0, <2>2
    <3>2. (a \o b)[k - 1] = IF k - 1 <= i - 1 THEN a[k - 1] ELSE b[(k - 1) - (i - 1)]
      BY <1>5, <3>1
    <3>3. (k - 1) - (i - 1) = k - i /\ k - i + i = k
      BY <2>0
    <3>4. (a \o b)[k - 1] = b[k - i]
      BY <3>1, <3>2, <3>3
    <3> QED BY <1>3, <3>1, <3>3, <3>4
  <2>3. k < i \/ i < k
    BY <2>0
  <2> QED BY <2>1, <2>2, <2>3
<1> QED BY <1>4, <1>5, <1>6, <1>7, <1>8

\* An added handler is the last one.
LEMMA Appended ==
    ASSUME NEW S, NEW seq \in Seq(S), NEW t \in S
    PROVE  /\ Append(seq, t) \in Seq(S)
           /\ \A j \in DOMAIN Append(seq, t) :
                 Append(seq, t)[j] = t \/ \E k \in DOMAIN seq : Append(seq, t)[j] = seq[k]
           /\ \A k \in DOMAIN seq : k \in DOMAIN Append(seq, t) /\ Append(seq, t)[k] = seq[k]
           /\ \E j \in DOMAIN Append(seq, t) : Append(seq, t)[j] = t
<1>1. /\ Append(seq, t) \in Seq(S)
      /\ Len(Append(seq, t)) = Len(seq) + 1
      /\ \A j \in 1 .. Len(seq) : Append(seq, t)[j] = seq[j]
      /\ Append(seq, t)[Len(seq) + 1] = t
  BY AppendProperties
<1>2. DOMAIN Append(seq, t) = 1 .. Len(seq) + 1 /\ DOMAIN seq = 1 .. Len(seq) /\ Len(seq) \in Nat
  BY <1>1, LenProperties
<1> QED BY <1>1, <1>2

-----------------------------------------------------------------------------
(* The map of a space.                                                     *)

Spaces == {Layout[s] : s \in DOMAIN Layout}

\* Rows and columns of a space are counted in integers.
LEMMA Sizes ==
    ASSUME NEW space \in Spaces
    PROVE  Rows(space) \in Int /\ Cols(space) \in Int
BY LayoutAssumption, ScaleAssumption DEF Rows, Cols, Round, Spaces

\* A newcomer is put on a tile.
LEMMA SpawnOnMap ==
    ASSUME NEW space \in Spaces
    PROVE  SpawnTiles(space) \subseteq Tile
BY Sizes DEF SpawnTiles, Tile

\* The active elements of a space have integer keys and sizes.
LEMMA AreasOfSpace ==
    ASSUME NEW space \in Spaces, NEW k \in AreaKeys(space)
    PROVE  k \in Int \X Int /\ EmptyArea(space, k) \in Area
<1> DEFINE els == space.elements
           at == {i \in DOMAIN els : els[i].active /\ k = <<els[i].x, els[i].y>>}
           E == [x : Int, y : Int, w : Int, h : Int, active : BOOLEAN]
<1>1. els \in Seq(E)
  BY LayoutAssumption DEF Spaces
<1>2. DOMAIN els = 1 .. Len(els) /\ Len(els) \in Nat /\ \A i \in DOMAIN els : els[i] \in E
  BY <1>1, LenProperties, ElementOfSeq
<1>3. at # {} /\ at \subseteq 1 .. Len(els)
  BY <1>2 DEF AreaKeys
<1>4. k \in Int \X Int
  BY <1>2, <1>3
<1>5. \E i \in at : \A j \in at : j <= i
  BY <1>2, <1>3, Greatest
<1>6. (CHOOSE i \in at : \A j \in at : j <= i) \in at
  BY <1>5
<1>7. AreaElement(space, k) \in E
  BY <1>2, <1>6 DEF AreaElement
<1>8. EmptyArea(space, k) \in Area
  <2> DEFINE e == AreaElement(space, k)
  <2>1. e.w \in Int /\ e.h \in Int
    BY <1>7
  <2>2. SeatCount(e) \in {2, 9}
    BY DEF SeatCount
  <2> QED BY <2>1, <2>2 DEF EmptyArea, Area
<1> QED BY <1>4, <1>8

-----------------------------------------------------------------------------
(* Types.                                                                  *)

\* Changed fields leave records what they are.
LEMMA UserRecords ==
    /\ NewUser \in UserObject
    /\ \A r \in UserObject, s \in SpaceIds : [r EXCEPT !.spaceId = s] \in UserObject
    /\ \A r \in UserObject, s \in SpaceIds, u \in Users :
          [r EXCEPT !.spaceId = s, !.userId = u] \in UserObject
    /\ \A r \in UserObject, p \in Position, w, h \in Nat :
          [r EXCEPT !.pos = p, !.dims = [width |-> w, height |-> h]] \in UserObject
    /\ \A r \in UserObject, p, q \in Position : [r EXCEPT !.prev = q, !.pos = p] \in UserObject
    /\ \A r \in UserObject, p \in Position : [r EXCEPT !.pos = p] \in UserObject
    /\ \A r \in UserObject, b \in BOOLEAN : [r EXCEPT !.isCall = b] \in UserObject
<1>1. NewUser \in UserObject
  BY DEF NewUser, NoDims, UserObject, UserIds, Position, Tile
<1>2. \A r \in UserObject, s \in SpaceIds : [r EXCEPT !.spaceId = s] \in UserObject
  BY DEF UserObject
<1>3. \A r \in UserObject, s \in SpaceIds, u \in Users :
         [r EXCEPT !.spaceId = s, !.userId = u] \in UserObject
  BY DEF UserObject, UserIds
<1>4. \A r \in UserObject, p \in Position, w, h \in Nat :
         [r EXCEPT !.pos = p, !.dims = [width |-> w, height |-> h]] \in UserObject
  BY DEF UserObject
<1>5. \A r \in UserObject, p, q \in Position : [r EXCEPT !.prev = q, !.pos = p] \in UserObject
  BY DEF UserObject
<1>6. \A r \in UserObject, p \in Position : [r EXCEPT !.pos = p] \in UserObject
  BY DEF UserObject
<1>7. \A r \in UserObject, b \in BOOLEAN : [r EXCEPT !.isCall = b] \in UserObject
  BY DEF UserObject
<1> QED BY <1>1, <1>2, <1>3, <1>4, <1>5, <1>6, <1>7

\* The fields of a User object.
LEMMA UserFields ==
    ASSUME NEW r \in UserObject
    PROVE  /\ r.userId \in UserIds /\ r.spaceId \in SpaceIds \cup {Undefined}
           /\ r.pos \in Position /\ r.prev \in Position
           /\ r.dims \in [width : Nat, height : Nat] /\ r.isCall \in BOOLEAN
BY DEF UserObject

\* Suspended handlers are tasks, and tasks hold spaces and keys.
LEMMA TaskRecords ==
    /\ \A s \in SpaceIds : [at |-> "space", space |-> s] \in Task
    /\ \A s \in SpaceIds : [at |-> "avatar", space |-> s] \in Task
    /\ \A k \in Tile : [at |-> "token", key |-> k] \in Task
    /\ [at |-> "refused"] \in Task
    /\ \A t \in Task : t.at \in {"space", "avatar"} => t.space \in SpaceIds
    /\ \A t \in Task : t.at = "token" => t.key \in Tile
BY DEF Task

\* Areas that take or lose users.
LEMMA AreaRecords ==
    /\ \A a \in Area, S \in SUBSET [userId : UserIds, seat : Tile] :
          [a EXCEPT !.seatUsers = S] \in Area /\ [a EXCEPT !.seatUsers = S].seatUsers = S
    /\ \A a \in Area : a.seatUsers \in SUBSET [userId : UserIds, seat : Tile]
BY DEF Area

\* A step is to a tile of the map.
LEMMA SteppedOnto ==
    ASSUME TypeOK, NEW c \in Conns, NEW t, MayStep(c, t)
    PROVE  /\ t \in Tile /\ t[1] > 0 /\ t[2] > 0
           /\ user[c].pos \in Tile
           /\ user[c].pos \in Neighbours(t)
           /\ user[c].dims # NoDims
<1>1. user[c] \in UserObject
  BY DEF TypeOK
<1>2. user[c].pos \in Position /\ user[c].pos # Undefined
  BY <1>1, UserFields DEF MayStep, Neighbours
<1>3. user[c].pos \in Tile
  BY <1>2 DEF Position
<1>4. PICK x, y \in Nat : user[c].pos = <<x, y>>
  BY <1>3 DEF Tile
<1>5. t \in {<<x + 1, y>>, <<x - 1, y>>, <<x, y + 1>>, <<x, y - 1>>}
  BY <1>2, <1>4 DEF MayStep, Neighbours
<1>6. t[1] > 0 /\ t[2] > 0 /\ t[1] < user[c].dims.width
  BY DEF MayStep, InBounds
<1>7. t \in Tile
  BY <1>5, <1>6 DEF Tile
<1>8. user[c].pos \in Neighbours(t)
  <2>1. t # Undefined
    BY <1>7, ConstantsAssumption DEF Tile
  <2> QED BY <2>1, <1>4, <1>5 DEF Neighbours
<1>9. user[c].dims # NoDims
  BY <1>6, <1>7 DEF NoDims, Tile
<1> QED BY <1>3, <1>6, <1>7, <1>8, <1>9

\* A tile an area has free is a seat of its own that nobody has.
LEMMA FreeSeatsAre ==
    ASSUME TypeOK, NEW key \in DOMAIN areaMap, key \in Tile, FreeSeats(key) # {}
    PROVE  /\ FirstSeat(FreeSeats(key)) \in SeatsOf(key) \ Taken(key)
           /\ FirstSeat(FreeSeats(key)) \in Tile
           /\ Cardinality(areaMap[key].seatUsers) < areaMap[key].seatCount
<1>1. areaMap[key] \in Area /\ IsFiniteSet(areaMap[key].seatUsers)
  BY DEF TypeOK
<1>2. areaMap[key].w \in Int /\ areaMap[key].h \in Int /\ areaMap[key].seatCount \in {2, 9}
  BY <1>1 DEF Area
<1>3. SeatsOf(key) \subseteq Tile
  BY <1>2 DEF SeatsOf, Tile
<1>4. Cardinality(areaMap[key].seatUsers) \in Nat
  BY <1>1, FS_CardinalityType
<1>5. FreeSeats(key) = SeatsOf(key) \ Taken(key)
  BY DEF FreeSeats
<1>6. Cardinality(areaMap[key].seatUsers) < areaMap[key].seatCount
  BY <1>2, <1>4 DEF FreeSeats
<1>7. FirstSeat(FreeSeats(key)) \in FreeSeats(key)
  BY <1>3, <1>5, FirstSeatFound
<1> QED BY <1>3, <1>5, <1>6, <1>7

\* The areas stay areas.
AreasOK(map) ==
    \A key \in DOMAIN map :
        key \in Int \X Int /\ map[key] \in Area /\ IsFiniteSet(map[key].seatUsers)

\* New areas are areas.
LEMMA ResetTypes ==
    ASSUME TypeOK, NEW space \in Spaces, ResetAreas(space)
    PROVE  AreasOK(areaMap)'
<1>1. \A k \in AreaKeys(space) : EmptyArea(space, k).seatUsers = {}
  BY DEF EmptyArea
<1>2. \A k \in AreaKeys(space) : IsFiniteSet(EmptyArea(space, k).seatUsers)
  BY <1>1, FS_EmptySet
<1> QED BY <1>2, AreasOfSpace DEF ResetAreas, AreasOK, TypeOK

\* A suspended handler has a task; a handler that goes on leaves the others.
LEMMA TaskTypes ==
    ASSUME TypeOK, NEW c \in Conns
    PROVE  /\ tasks[c] \in Seq(Task)
           /\ \A i \in DOMAIN tasks[c] : tasks[c][i] \in Task
           /\ \A t \in Task : Suspend(c, t) => tasks' \in [Conns -> Seq(Task)]
           /\ \A i \in DOMAIN tasks[c] : Finish(c, i) => tasks' \in [Conns -> Seq(Task)]
<1>1. tasks[c] \in Seq(Task)
  BY DEF TypeOK
<1>2. \A i \in DOMAIN tasks[c] : tasks[c][i] \in Task
  BY <1>1, ElementOfSeq, LenProperties
<1>3. ASSUME NEW t \in Task, Suspend(c, t) PROVE tasks' \in [Conns -> Seq(Task)]
  BY <1>1, <1>3, Appended DEF Suspend, TypeOK
<1>4. ASSUME NEW i \in DOMAIN tasks[c], Finish(c, i) PROVE tasks' \in [Conns -> Seq(Task)]
  BY <1>1, <1>4, Removed DEF Finish, TypeOK
<1> QED BY <1>1, <1>2, <1>3, <1>4

\* The type invariant in the pieces the steps change.
LEMMA TypeParts ==
    ASSUME TypeOK
    PROVE  /\ up \in BOOLEAN /\ open \in [Conns -> BOOLEAN]
           /\ user \in [Conns -> UserObject]
           /\ rooms \in [DOMAIN Layout -> [Conns -> Nat]]
           /\ AreasOK(areaMap)
           /\ tasks \in [Conns -> Seq(Task)]
           /\ joined \in [Conns -> BOOLEAN] /\ told \in [Conns -> SUBSET Conns]
BY DEF TypeOK, AreasOK

\* TypeOK of the next state, put together of its parts.
LEMMA TypePartsNext ==
    ASSUME up' \in BOOLEAN, open' \in [Conns -> BOOLEAN],
           user' \in [Conns -> UserObject],
           rooms' \in [DOMAIN Layout -> [Conns -> Nat]],
           AreasOK(areaMap)',
           tasks' \in [Conns -> Seq(Task)],
           joined' \in [Conns -> BOOLEAN], told' \in [Conns -> SUBSET Conns]
    PROVE  TypeOK'
BY DEF TypeOK, AreasOK

\* The initial states have their types.
LEMMA TypeInit == Init => TypeOK
<1> SUFFICES ASSUME Init PROVE TypeOK
  OBVIOUS
<1>1. user \in [Conns -> UserObject] /\ rooms \in [DOMAIN Layout -> [Conns -> Nat]]
  BY UserRecords DEF Init, Nobody
<1>2. joined \in [Conns -> BOOLEAN] /\ told \in [Conns -> SUBSET Conns]
  BY DEF Init
<1>3. DOMAIN areaMap = {}
  BY DEF Init
<1>4. tasks \in [Conns -> Seq(Task)]
  BY EmptySeq DEF Init
<1> QED BY <1>1, <1>2, <1>3, <1>4 DEF Init, TypeOK

\* Every step keeps the types.
LEMMA TypeNext == TypeOK /\ [Next]_vars => TypeOK'
<1> SUFFICES ASSUME TypeOK, [Next]_vars PROVE TypeOK'
  OBVIOUS
<1> USE TypeParts
<1>1. ASSUME NEW c \in Conns, NEW s \in SpaceIds, NEW u \in Tokens[c], Join(c, s, u)
      PROVE  TypeOK'
  <2>1. u \in Users
    BY ConstantsAssumption
  <2>2. user' \in [Conns -> UserObject]
    BY <1>1, <2>1, UserRecords DEF Join
  <2>3. tasks' \in [Conns -> Seq(Task)]
    BY <1>1, TaskRecords, TaskTypes DEF Join
  <2> QED BY <1>1, <2>2, <2>3, TypePartsNext DEF Join, AreasOK
<1>2. ASSUME NEW c \in Conns, NEW s \in SpaceIds, JoinRefused(c, s)
      PROVE  TypeOK'
  <2>1. user' \in [Conns -> UserObject] /\ open' \in [Conns -> BOOLEAN]
    BY <1>2, UserRecords DEF JoinRefused
  <2> QED BY <1>2, <2>1, TypePartsNext DEF JoinRefused, AreasOK
<1>3. ASSUME NEW c \in Conns, NEW t, Walk(c, t)
      PROVE  TypeOK'
  <2>1. t \in Position /\ user[c].pos \in Position
    BY <1>3, SteppedOnto DEF Walk, Position
  <2>2. user' \in [Conns -> UserObject]
    BY <1>3, <2>1, UserRecords DEF Walk, StepTo
  <2> QED BY <1>3, <2>2, TypePartsNext DEF Walk, AreasOK
<1>4. ASSUME NEW c \in Conns, NEW t, EnterArea(c, t)
      PROVE  TypeOK'
  <2>1. t \in Tile /\ t \in DOMAIN areaMap /\ user[c].pos \in Tile
    BY <1>4, SteppedOnto DEF EnterArea
  <2>2. user' \in [Conns -> UserObject]
    BY <1>4, <2>1, UserRecords DEF EnterArea, StepTo, Position
  <2>3. FirstSeat(FreeSeats(t)) \in Tile
    BY <1>4, <2>1, FreeSeatsAre DEF EnterArea
  <2> DEFINE r == [userId |-> user[c].userId, seat |-> FirstSeat(FreeSeats(t))]
             S == areaMap[t].seatUsers \cup {r}
  <2>4. areaMap[t] \in Area /\ IsFiniteSet(areaMap[t].seatUsers)
    BY <2>1 DEF AreasOK
  <2>5. r \in [userId : UserIds, seat : Tile]
    BY <2>3, UserFields
  <2> HIDE DEF r
  <2>6. S \in SUBSET [userId : UserIds, seat : Tile] /\ IsFiniteSet(S)
    <3>1. IsFiniteSet(S)
      BY <2>4, FS_AddElement
    <3>2. areaMap[t].seatUsers \in SUBSET [userId : UserIds, seat : Tile]
      BY <2>4, AreaRecords
    <3> QED BY <2>5, <3>1, <3>2
  <2>7. areaMap' = [areaMap EXCEPT ![t] = [areaMap[t] EXCEPT !.seatUsers = S]]
    BY <1>4 DEF EnterArea, r
  <2> HIDE DEF S
  <2>8. AreasOK(areaMap)'
    BY <2>1, <2>4, <2>6, <2>7, AreaRecords DEF AreasOK
  <2>9. tasks' \in [Conns -> Seq(Task)]
    BY <1>4, <2>1, TaskRecords, TaskTypes DEF EnterArea
  <2> QED BY <1>4, <2>2, <2>8, <2>9, TypePartsNext DEF EnterArea
<1>5. ASSUME NEW c \in Conns, NEW t, EnterRefused(c, t)
      PROVE  TypeOK'
  <2>1. t \in Tile /\ user[c].pos \in Tile
    BY <1>5, SteppedOnto DEF EnterRefused
  <2>2. user' \in [Conns -> UserObject]
    BY <1>5, <2>1, UserRecords DEF EnterRefused, StepTo, Position
  <2>3. tasks' \in [Conns -> Seq(Task)]
    BY <1>5, TaskRecords, TaskTypes DEF EnterRefused
  <2> QED BY <1>5, <2>2, <2>3, TypePartsNext DEF EnterRefused, AreasOK
<1>6. ASSUME NEW c \in Conns, NEW key \in DOMAIN areaMap \cup {Undefined}, LeaveCall(c, key)
      PROVE  TypeOK'
  <2>1. user' \in [Conns -> UserObject]
    BY <1>6, UserRecords DEF LeaveCall
  <2>3. AreasOK(areaMap)'
    <3>1. CASE key \in DOMAIN areaMap
      <4> DEFINE S == {s \in areaMap[key].seatUsers : s.userId # user[c].userId}
      <4>1. areaMap[key] \in Area /\ IsFiniteSet(areaMap[key].seatUsers)
        BY <3>1 DEF AreasOK
      <4>2. S \in SUBSET [userId : UserIds, seat : Tile]
        BY <4>1, AreaRecords
      <4>3. IsFiniteSet(S)
        BY <4>1, FS_Subset
      <4>4. areaMap' = [areaMap EXCEPT ![key] = [areaMap[key] EXCEPT !.seatUsers = S]]
        BY <1>6, <3>1 DEF LeaveCall, GiveBack
      <4> HIDE DEF S
      <4> QED BY <3>1, <4>1, <4>2, <4>3, <4>4, AreaRecords DEF AreasOK
    <3>2. CASE key \notin DOMAIN areaMap
      BY <1>6, <3>2 DEF LeaveCall, GiveBack, AreasOK
    <3> QED BY <3>1, <3>2
  <2> QED BY <1>6, <2>1, <2>3, TypePartsNext DEF LeaveCall
<1>7. ASSUME NEW c \in Conns, UserLeft(c)
      PROVE  TypeOK'
  <2>1. rooms' \in [DOMAIN Layout -> [Conns -> Nat]]
    BY <1>7 DEF UserLeft
  <2>2. told' \in [Conns -> SUBSET Conns]
    BY <1>7 DEF UserLeft
  <2> QED BY <1>7, <2>1, <2>2, TypePartsNext DEF UserLeft, AreasOK
<1>8. ASSUME NEW c \in Conns, Disconnect(c)
      PROVE  TypeOK'
  BY <1>8, TypePartsNext DEF Disconnect, AreasOK
<1>9. ASSUME NEW c \in Conns, NEW i \in DOMAIN tasks[c], SpaceMissing(c, i)
      PROVE  TypeOK'
  BY <1>9, TaskTypes, TypePartsNext DEF SpaceMissing, AreasOK
<1>10. ASSUME NEW c \in Conns, NEW i \in DOMAIN tasks[c], SpaceFound(c, i)
       PROVE  TypeOK'
  <2> DEFINE s == tasks[c][i].space
  <2>1. s \in DOMAIN Layout /\ Layout[s] \in Spaces
    BY <1>10 DEF SpaceFound, Spaces
  <2>2. AreasOK(areaMap)'
    BY <1>10, <2>1, ResetTypes DEF SpaceFound
  <2>3. rooms' \in [DOMAIN Layout -> [Conns -> Nat]]
    BY <1>10, <2>1 DEF SpaceFound
  <2>4. user' \in [Conns -> UserObject]
    <3>1. PICK p \in IF SpawnTiles(Layout[s]) = {} THEN {Undefined} ELSE SpawnTiles(Layout[s]) :
             user' = [user EXCEPT ![c].pos = p,
                        ![c].dims = [width |-> Layout[s].width, height |-> Layout[s].height]]
      BY <1>10 DEF SpaceFound
    <3>2. p \in Position
      BY <2>1, <3>1, SpawnOnMap DEF Position
    <3>3. Layout[s].width \in Nat /\ Layout[s].height \in Nat
      BY <2>1, LayoutAssumption
    <3>4. user' = [user EXCEPT ![c] = [user[c] EXCEPT !.pos = p,
                        !.dims = [width |-> Layout[s].width, height |-> Layout[s].height]]]
      BY <3>1
    <3> QED BY <3>2, <3>3, <3>4, UserRecords
  <2>5. tasks' \in [Conns -> Seq(Task)]
    <3>1. [at |-> "avatar", space |-> s] \in Task
      BY <2>1, TaskRecords DEF SpaceIds
    <3>2. tasks' = [tasks EXCEPT ![c] = [tasks[c] EXCEPT ![i] = [at |-> "avatar", space |-> s]]]
      BY <1>10 DEF SpaceFound
    <3>3. [tasks[c] EXCEPT ![i] = [at |-> "avatar", space |-> s]] \in Seq(Task)
      BY <3>1, TaskTypes, ExceptSeq
    <3> QED BY <3>2, <3>3
  <2> QED BY <1>10, <2>2, <2>3, <2>4, <2>5, TypePartsNext DEF SpaceFound
<1>11. ASSUME NEW c \in Conns, NEW i \in DOMAIN tasks[c], AvatarFound(c, i)
       PROVE  TypeOK'
  <2>1. joined' \in [Conns -> BOOLEAN]
    BY <1>11 DEF AvatarFound
  <2>2. told' \in [Conns -> SUBSET Conns]
    BY <1>11 DEF AvatarFound, Announce, Audience, Members
  <2> QED BY <1>11, <2>1, <2>2, TaskTypes, TypePartsNext DEF AvatarFound, AreasOK
<1>12. ASSUME NEW c \in Conns, NEW i \in DOMAIN tasks[c], StepBack(c, i)
       PROVE  TypeOK'
  <2>1. user' \in [Conns -> UserObject]
    BY <1>12, UserRecords, UserFields DEF StepBack
  <2> QED BY <1>12, <2>1, TaskTypes, TypePartsNext DEF StepBack, AreasOK
<1>13. ASSUME NEW c \in Conns, NEW i \in DOMAIN tasks[c], TokenAnswered(c, i)
       PROVE  TypeOK'
  <2>1. user' \in [Conns -> UserObject]
    BY <1>13, UserRecords DEF TokenAnswered
  <2> QED BY <1>13, <2>1, TaskTypes, TypePartsNext DEF TokenAnswered, AreasOK
<1>14. CASE Crash
  <2>1. user' \in [Conns -> UserObject] /\ rooms' \in [DOMAIN Layout -> [Conns -> Nat]]
    BY <1>14, UserRecords DEF Crash, Nobody
  <2>2. joined' \in [Conns -> BOOLEAN] /\ told' \in [Conns -> SUBSET Conns]
    BY <1>14 DEF Crash
  <2>3. tasks' \in [Conns -> Seq(Task)] /\ AreasOK(areaMap)'
    BY <1>14, EmptySeq DEF Crash, AreasOK
  <2> QED BY <1>14, <2>1, <2>2, <2>3, TypePartsNext DEF Crash
<1>15. CASE UNCHANGED vars
  BY <1>15 DEF vars, TypeOK
<1> QED
  BY <1>1, <1>2, <1>3, <1>4, <1>5, <1>6, <1>7, <1>8, <1>9, <1>10, <1>11, <1>12, <1>13,
     <1>14, <1>15 DEF Next, Message, Database, Answer, Resume

-----------------------------------------------------------------------------
(* Seats.                                                                  *)

\* A seat more, where there is a free one.
LEMMA SeatTaken ==
    ASSUME TypeOK, SeatsSound, NEW c \in Conns, NEW t, EnterArea(c, t)
    PROVE  SeatsSound'
<1>1. t \in Tile /\ t \in DOMAIN areaMap /\ FreeSeats(t) # {}
  BY SteppedOnto DEF EnterArea
<1> DEFINE seat == FirstSeat(FreeSeats(t))
           r == [userId |-> user[c].userId, seat |-> seat]
           S == areaMap[t].seatUsers
<1>2. seat \in SeatsOf(t) \ Taken(t) /\ Cardinality(S) < areaMap[t].seatCount
  BY <1>1, FreeSeatsAre
<1>3. areaMap[t] \in Area /\ IsFiniteSet(S)
  BY <1>1, TypeParts DEF AreasOK
<1>4. areaMap' = [areaMap EXCEPT ![t] = [areaMap[t] EXCEPT !.seatUsers = S \cup {r}]]
  BY DEF EnterArea
<1>5. DOMAIN areaMap' = DOMAIN areaMap
  BY <1>4
<1>6. /\ areaMap'[t].seatUsers = S \cup {r}
      /\ areaMap'[t].w = areaMap[t].w
      /\ areaMap'[t].h = areaMap[t].h
      /\ areaMap'[t].seatCount = areaMap[t].seatCount
  BY <1>1, <1>3, <1>4 DEF Area
<1>7. \A key \in DOMAIN areaMap \ {t} : areaMap'[key] = areaMap[key]
  BY <1>4
<1> HIDE DEF seat
<1>8. Cardinality(S \cup {r}) <= areaMap[t].seatCount
  <2>1. Cardinality(S) \in Nat /\ areaMap[t].seatCount \in {2, 9}
    BY <1>3, FS_CardinalityType DEF Area
  <2>2. Cardinality(S \cup {r}) = Cardinality(S) \/ Cardinality(S \cup {r}) = Cardinality(S) + 1
    <3> HIDE DEF r, S
    <3> QED BY <1>3, FS_AddElement
  <2> QED BY <1>2, <2>1, <2>2
<1>9. {s.seat : s \in S \cup {r}} \subseteq SeatsOf(t)
  BY <1>1, <1>2 DEF SeatsSound, Taken
<1>10. \A p, q \in S \cup {r} : p.seat = q.seat => p = q
  <2>1. \A q \in S : q.seat # r.seat
    BY <1>2 DEF Taken
  <2>2. \A p, q \in S : p.seat = q.seat => p = q
    BY <1>1 DEF SeatsSound
  <2> HIDE DEF r, S
  <2> QED BY <2>1, <2>2
<1> HIDE DEF r, S
<1>11. SeatsOf(t)' = SeatsOf(t)
  <2>1. \A k : k = t => SeatsOf(k)' = SeatsOf(k)
    BY <1>6 DEF SeatsOf
  <2> QED BY <2>1
<1>12. ASSUME NEW key \in DOMAIN areaMap'
       PROVE  /\ Cardinality(areaMap'[key].seatUsers) <= areaMap'[key].seatCount
              /\ Taken(key)' \subseteq SeatsOf(key)'
              /\ \A p, q \in areaMap'[key].seatUsers : p.seat = q.seat => p = q
  <2>1. CASE key = t
    BY <1>6, <1>8, <1>9, <1>10, <1>11, <2>1 DEF Taken
  <2>2. CASE key # t
    BY <1>5, <1>7, <2>2 DEF SeatsSound, Taken, SeatsOf
  <2> QED BY <2>1, <2>2
<1> QED BY <1>12 DEF SeatsSound

\* Some seats less.
LEMMA SeatsGiven ==
    ASSUME TypeOK, SeatsSound, NEW c \in Conns, NEW key, GiveBack(c, key)
    PROVE  SeatsSound'
<1>1. CASE key \notin DOMAIN areaMap
  BY <1>1 DEF GiveBack, SeatsSound, Taken, SeatsOf
<1>2. CASE key \in DOMAIN areaMap
  <2> DEFINE S == areaMap[key].seatUsers
             T == {s \in S : s.userId # user[c].userId}
  <2>1. areaMap[key] \in Area /\ IsFiniteSet(S)
    BY <1>2, TypeParts DEF AreasOK
  <2>2. areaMap' = [areaMap EXCEPT ![key] = [areaMap[key] EXCEPT !.seatUsers = T]]
    BY <1>2 DEF GiveBack
  <2>3. /\ DOMAIN areaMap' = DOMAIN areaMap
        /\ areaMap'[key].seatUsers = T
        /\ areaMap'[key].w = areaMap[key].w
        /\ areaMap'[key].h = areaMap[key].h
        /\ areaMap'[key].seatCount = areaMap[key].seatCount
        /\ \A k \in DOMAIN areaMap \ {key} : areaMap'[k] = areaMap[k]
    BY <1>2, <2>1, <2>2 DEF Area
  <2>4. T \subseteq S
    OBVIOUS
  <2> HIDE DEF T, S
  <2>5. Cardinality(T) <= areaMap[key].seatCount
    <3>1. Cardinality(T) <= Cardinality(S) /\ Cardinality(T) \in Nat /\ Cardinality(S) \in Nat
      BY <2>1, <2>4, FS_Subset, FS_CardinalityType
    <3>2. Cardinality(S) <= areaMap[key].seatCount /\ areaMap[key].seatCount \in {2, 9}
      BY <1>2, <2>1 DEF SeatsSound, S, Area
    <3> QED BY <3>1, <3>2
  <2>6. ASSUME NEW k \in DOMAIN areaMap'
        PROVE  /\ Cardinality(areaMap'[k].seatUsers) <= areaMap'[k].seatCount
               /\ Taken(k)' \subseteq SeatsOf(k)'
               /\ \A p, q \in areaMap'[k].seatUsers : p.seat = q.seat => p = q
    <3>1. CASE k = key
      <4>1. Taken(k) \subseteq SeatsOf(k) /\ \A p, q \in S : p.seat = q.seat => p = q
        BY <1>2, <3>1 DEF SeatsSound, S
      <4>2. SeatsOf(k)' = SeatsOf(k)
        BY <2>3, <3>1 DEF SeatsOf
      <4>3. Taken(k)' \subseteq Taken(k)
        BY <2>3, <2>4, <3>1 DEF Taken, S
      <4> QED BY <2>3, <2>4, <2>5, <3>1, <4>1, <4>2, <4>3
    <3>2. CASE k # key
      BY <2>3, <3>2 DEF SeatsSound, Taken, SeatsOf
    <3> QED BY <3>1, <3>2
  <2> QED BY <2>6 DEF SeatsSound
<1> QED BY <1>1, <1>2

\* Areas written anew seat nobody.
LEMMA SeatsReset ==
    ASSUME TypeOK, SeatsSound, NEW space \in Spaces, ResetAreas(space)
    PROVE  SeatsSound'
<1>1. ASSUME NEW k \in DOMAIN areaMap'
      PROVE  /\ Cardinality(areaMap'[k].seatUsers) <= areaMap'[k].seatCount
             /\ Taken(k)' \subseteq SeatsOf(k)'
             /\ \A p, q \in areaMap'[k].seatUsers : p.seat = q.seat => p = q
  <2>1. CASE k \in AreaKeys(space)
    <3>1. areaMap'[k] = EmptyArea(space, k)
      BY <2>1 DEF ResetAreas
    <3>2. areaMap'[k].seatUsers = {} /\ areaMap'[k].seatCount \in {2, 9}
      BY <2>1, <3>1, AreasOfSpace DEF EmptyArea, Area
    <3> QED BY <3>2, FS_EmptySet DEF Taken
  <2>2. CASE k \notin AreaKeys(space)
    BY <2>2 DEF ResetAreas, SeatsSound, Taken, SeatsOf
  <2> QED BY <2>1, <2>2
<1> QED BY <1>1 DEF SeatsSound

\* Every step keeps the seats sound.
LEMMA SeatsNext == TypeOK /\ SeatsSound /\ [Next]_vars => SeatsSound'
<1> SUFFICES ASSUME TypeOK, SeatsSound, [Next]_vars PROVE SeatsSound'
  OBVIOUS
<1>1. areaMap' = areaMap => SeatsSound'
  BY DEF SeatsSound, Taken, SeatsOf
<1>2. ASSUME NEW c \in Conns, Message(c) PROVE SeatsSound'
  <2>1. ASSUME NEW t, EnterArea(c, t) PROVE SeatsSound'
    BY <2>1, SeatTaken
  <2>2. ASSUME NEW key, LeaveCall(c, key) PROVE SeatsSound'
    BY <2>2, SeatsGiven DEF LeaveCall
  <2> QED
    BY <1>1, <1>2, <2>1, <2>2
       DEF Message, Join, JoinRefused, Walk, EnterRefused, UserLeft, Disconnect
<1>3. ASSUME NEW c \in Conns, Database(c) PROVE SeatsSound'
  <2>1. ASSUME NEW i, SpaceFound(c, i) PROVE SeatsSound'
    <3>1. Layout[tasks[c][i].space] \in Spaces /\ ResetAreas(Layout[tasks[c][i].space])
      BY <2>1 DEF SpaceFound, Spaces
    <3> QED BY <3>1, SeatsReset
  <2> QED BY <1>1, <1>3, <2>1 DEF Database, Answer, SpaceMissing, AvatarFound
<1>4. ASSUME NEW c \in Conns, Resume(c) PROVE SeatsSound'
  BY <1>1, <1>4 DEF Resume, StepBack, TokenAnswered
<1>5. CASE Crash
  BY <1>5 DEF Crash, SeatsSound
<1>6. CASE UNCHANGED vars
  BY <1>1, <1>6 DEF vars
<1> QED BY <1>2, <1>3, <1>4, <1>5, <1>6 DEF Next

-----------------------------------------------------------------------------
(* Refused moves.  While a refused move waits to be taken back, only       *)
(* messages of the same connection are handled, so no join puts its user   *)
(* somewhere else in between.                                              *)

Recoil ==
    \A c \in Conns : Waiting(c, "refused") # {} =>
        user[c].prev = user[c].pos \/ user[c].prev \in Neighbours(user[c].pos)

\* Which kinds of handlers a step makes.
LEMMA WaitingAdded ==
    ASSUME TypeOK, NEW c \in Conns, NEW t \in Task, Suspend(c, t), NEW d \in Conns, NEW what,
           t.at # what \/ d # c, Waiting(d, what)' # {}
    PROVE  Waiting(d, what) # {}
<1>1. tasks[c] \in Seq(Task)
  BY TypeParts
<1>2. tasks' = [tasks EXCEPT ![c] = Append(tasks[c], t)]
  BY DEF Suspend
<1>3. PICK j \in DOMAIN tasks'[d] : tasks'[d][j].at = what
  BY DEF Waiting
<1>4. CASE d = c
  <2>1. tasks'[d] = Append(tasks[c], t)
    BY <1>2, <1>4, TypeParts
  <2>2. tasks'[d][j] # t
    BY <1>3, <1>4
  <2>3. PICK k \in DOMAIN tasks[c] : tasks'[d][j] = tasks[c][k]
    BY <1>1, <1>3, <2>1, <2>2, Appended
  <2> QED BY <1>3, <1>4, <2>3 DEF Waiting
<1>5. CASE d # c
  BY <1>2, <1>3, <1>5 DEF Waiting
<1> QED BY <1>4, <1>5

\* Which kinds of handlers are left.
LEMMA WaitingLeft ==
    ASSUME TypeOK, NEW c \in Conns, NEW i \in DOMAIN tasks[c], Finish(c, i),
           NEW d \in Conns, NEW what, Waiting(d, what)' # {}
    PROVE  Waiting(d, what) # {}
<1>1. tasks[c] \in Seq(Task)
  BY TypeParts
<1>2. tasks' = [tasks EXCEPT ![c] = RemoveAt(tasks[c], i)]
  BY DEF Finish
<1>3. PICK j \in DOMAIN tasks'[d] : tasks'[d][j].at = what
  BY DEF Waiting
<1>4. CASE d = c
  <2>1. tasks'[d] = RemoveAt(tasks[c], i)
    BY <1>2, <1>4, TypeParts
  <2>2. PICK k \in DOMAIN tasks[c] : tasks'[d][j] = tasks[c][k]
    BY <1>1, <1>3, <2>1, Removed
  <2> QED BY <1>3, <1>4, <2>2 DEF Waiting
<1>5. CASE d # c
  BY <1>2, <1>3, <1>5 DEF Waiting
<1> QED BY <1>4, <1>5

\* The answer to a join makes no kind of handler but "avatar".
LEMMA WaitingAvatar ==
    ASSUME TypeOK, NEW c \in Conns, NEW i \in DOMAIN tasks[c], SpaceFound(c, i),
           NEW d \in Conns, NEW what, what # "avatar" \/ d # c, Waiting(d, what)' # {}
    PROVE  Waiting(d, what) # {}
<1> DEFINE t == [at |-> "avatar", space |-> tasks[c][i].space]
<1>1. tasks' = [tasks EXCEPT ![c] = [tasks[c] EXCEPT ![i] = t]]
  BY DEF SpaceFound
<1>2. PICK j \in DOMAIN tasks'[d] : tasks'[d][j].at = what
  BY DEF Waiting
<1>3. CASE d = c
  <2>1. tasks'[d] = [tasks[c] EXCEPT ![i] = t]
    BY <1>1, <1>3, TypeParts
  <2>2. j \in DOMAIN tasks[c] /\ (j # i => tasks'[d][j] = tasks[c][j])
    BY <1>2, <2>1
  <2>3. j # i
    BY <1>2, <1>3, <2>1
  <2> QED BY <1>2, <1>3, <2>2, <2>3 DEF Waiting
<1>4. CASE d # c
  BY <1>1, <1>2, <1>4 DEF Waiting
<1> QED BY <1>3, <1>4

\* A tile's neighbours have it as theirs.
LEMMA StepEffect ==
    ASSUME TypeOK, NEW c \in Conns, NEW t, MayStep(c, t), StepTo(c, t)
    PROVE  /\ user'[c].pos = t /\ user'[c].prev = user[c].pos
           /\ t \in Neighbours(user[c].pos)
           /\ user'[c].prev \in Neighbours(t)
           /\ \A d \in Conns \ {c} : user'[d] = user[d]
<1>1. user[c].pos \in Neighbours(t) /\ t \in Neighbours(user[c].pos)
  BY SteppedOnto DEF MayStep
<1>2. user' = [user EXCEPT ![c] = [user[c] EXCEPT !.prev = user[c].pos, !.pos = t]]
  BY DEF StepTo
<1>3. user[c] \in UserObject /\ user \in [Conns -> UserObject]
  BY TypeParts
<1>4. user'[c].pos = t /\ user'[c].prev = user[c].pos
  BY <1>2, <1>3 DEF UserObject
<1>5. \A d \in Conns \ {c} : user'[d] = user[d]
  BY <1>2, <1>3
<1> QED BY <1>1, <1>4, <1>5

\* What the refused moves of a connection need.
Back(c) ==
    Waiting(c, "refused") # {} =>
        user[c].prev = user[c].pos \/ user[c].prev \in Neighbours(user[c].pos)

\* A step of the two positions is to a neighbour, or there is none.
Calm(c) == user'[c].pos # user[c].pos => user'[c].pos \in Neighbours(user[c].pos)

\* A message leaves the positions, or it is a step to a neighbour.
LEMMA MessagesCalm ==
    ASSUME TypeOK, Recoil, NEW c \in Conns, Message(c), NEW d \in Conns
    PROVE  Back(d)' /\ Calm(d)
<1>1. Back(d)
  BY DEF Recoil, Back
<1>2. \A e \in Conns : user[e] \in UserObject
  BY TypeParts
<1>3. ASSUME user'[d].pos = user[d].pos, user'[d].prev = user[d].prev,
             Waiting(d, "refused")' # {} => Waiting(d, "refused") # {}
      PROVE  Back(d)' /\ Calm(d)
  BY <1>1, <1>3 DEF Back, Calm
<1>4. ASSUME NEW t, MayStep(c, t), StepTo(c, t),
             d # c => (Waiting(d, "refused")' # {} => Waiting(d, "refused") # {})
      PROVE  Back(d)' /\ Calm(d)
  <2>1. CASE d = c
    BY <1>4, <2>1, StepEffect DEF Back, Calm
  <2>2. CASE d # c
    BY <1>3, <1>4, <2>2, StepEffect
  <2> QED BY <2>1, <2>2
<1>5. ASSUME NEW s \in SpaceIds, NEW u \in Tokens[c], Join(c, s, u)
      PROVE  Back(d)' /\ Calm(d)
  <2>1. user'[d].pos = user[d].pos /\ user'[d].prev = user[d].prev
    BY <1>2, <1>5, TypeParts DEF Join, UserObject
  <2>2. Waiting(d, "refused")' # {} => Waiting(d, "refused") # {}
    BY <1>5, TaskRecords, WaitingAdded DEF Join
  <2> QED BY <1>3, <2>1, <2>2
<1>6. ASSUME NEW s \in SpaceIds, JoinRefused(c, s) PROVE Back(d)' /\ Calm(d)
  <2>1. user'[d].pos = user[d].pos /\ user'[d].prev = user[d].prev
    BY <1>2, <1>6, TypeParts DEF JoinRefused, UserObject
  <2> QED BY <1>3, <1>6, <2>1 DEF JoinRefused, Waiting
<1>7. ASSUME NEW t, Walk(c, t) PROVE Back(d)' /\ Calm(d)
  BY <1>4, <1>7 DEF Walk, Waiting
<1>8. ASSUME NEW t, EnterArea(c, t) PROVE Back(d)' /\ Calm(d)
  <2>1. t \in Tile
    BY <1>8, SteppedOnto DEF EnterArea
  <2>2. d # c => (Waiting(d, "refused")' # {} => Waiting(d, "refused") # {})
    BY <1>8, <2>1, TaskRecords, WaitingAdded DEF EnterArea
  <2> QED BY <1>4, <1>8, <2>2 DEF EnterArea
<1>9. ASSUME NEW t, EnterRefused(c, t) PROVE Back(d)' /\ Calm(d)
  <2>1. d # c => (Waiting(d, "refused")' # {} => Waiting(d, "refused") # {})
    BY <1>9, TaskRecords, WaitingAdded DEF EnterRefused
  <2> QED BY <1>4, <1>9, <2>1 DEF EnterRefused
<1>10. ASSUME NEW key, LeaveCall(c, key) PROVE Back(d)' /\ Calm(d)
  <2>1. user'[d].pos = user[d].pos /\ user'[d].prev = user[d].prev
    BY <1>2, <1>10, TypeParts DEF LeaveCall, UserObject
  <2> QED BY <1>3, <1>10, <2>1 DEF LeaveCall, Waiting
<1>11. ASSUME UserLeft(c) \/ Disconnect(c) PROVE Back(d)' /\ Calm(d)
  BY <1>3, <1>11 DEF UserLeft, Disconnect, Waiting
<1> QED BY <1>5, <1>6, <1>7, <1>8, <1>9, <1>10, <1>11 DEF Message

\* A join puts its user down while no refused move waits.
LEMMA DatabaseCalm ==
    ASSUME TypeOK, Recoil, NEW c \in Conns, Database(c), NEW d \in Conns
    PROVE  Back(d)' /\ (rooms' = rooms => Calm(d))
<1>1. PICK i \in DOMAIN tasks[c] : SpaceMissing(c, i) \/ SpaceFound(c, i) \/ AvatarFound(c, i)
  BY DEF Database, Answer
<1>2. Waiting(d, "refused") = {}
  BY <1>1 DEF SpaceMissing, SpaceFound, AvatarFound, IoTurn
<1>3. CASE SpaceMissing(c, i) \/ AvatarFound(c, i)
  <2>1. Finish(c, i) /\ user' = user
    BY <1>3 DEF SpaceMissing, AvatarFound
  <2>2. Waiting(d, "refused")' = {}
    BY <1>2, <2>1, WaitingLeft
  <2> QED BY <2>1, <2>2 DEF Back, Calm
<1>4. CASE SpaceFound(c, i)
  <2>1. Waiting(d, "refused")' = {}
    BY <1>2, <1>4, WaitingAvatar
  <2>2. rooms' # rooms
    <3> DEFINE s == tasks[c][i].space
    <3>1. s \in DOMAIN Layout /\ rooms' = [rooms EXCEPT ![s][c] = @ + 1]
      BY <1>4 DEF SpaceFound
    <3>2. rooms[s][c] \in Nat /\ rooms'[s][c] = rooms[s][c] + 1
      BY <3>1, TypeParts
    <3> QED BY <3>2
  <2> QED BY <2>1, <2>2 DEF Back
<1> QED BY <1>1, <1>3, <1>4

\* A refused move is taken back to where it came from.
LEMMA ResumeCalm ==
    ASSUME TypeOK, Recoil, NEW c \in Conns, Resume(c), NEW d \in Conns
    PROVE  Back(d)' /\ Calm(d)
<1>1. PICK i \in DOMAIN tasks[c] : StepBack(c, i) \/ TokenAnswered(c, i)
  BY DEF Resume
<1>2. Finish(c, i)
  BY <1>1 DEF StepBack, TokenAnswered
<1>3. Waiting(d, "refused")' # {} => Waiting(d, "refused") # {}
  BY <1>2, WaitingLeft
<1>4. \A e \in Conns : user[e] \in UserObject
  BY TypeParts
<1>5. CASE StepBack(c, i)
  <2>1. CASE d = c
    <3>1. Waiting(d, "refused") # {}
      BY <1>5, <2>1 DEF StepBack
    <3>2. user'[d].pos = user[d].prev /\ user'[d].prev = user[d].prev
      BY <1>4, <1>5, <2>1, TypeParts DEF StepBack, UserObject
    <3>3. user[d].prev = user[d].pos \/ user[d].prev \in Neighbours(user[d].pos)
      BY <3>1 DEF Recoil
    <3> QED BY <3>2, <3>3 DEF Back, Calm
  <2>2. CASE d # c
    <3>1. user'[d] = user[d]
      BY <1>5, <2>2, TypeParts DEF StepBack
    <3> QED BY <1>3, <3>1 DEF Recoil, Back, Calm
  <2> QED BY <2>1, <2>2
<1>6. CASE TokenAnswered(c, i)
  <2>1. user'[d].pos = user[d].pos /\ user'[d].prev = user[d].prev
    BY <1>4, <1>6, TypeParts DEF TokenAnswered, UserObject
  <2> QED BY <1>3, <2>1 DEF Recoil, Back, Calm
<1> QED BY <1>1, <1>5, <1>6

\* Every step keeps the way back of a refused move.
LEMMA RecoilNext == TypeOK /\ Recoil /\ [Next]_vars => Recoil'
<1> SUFFICES ASSUME TypeOK, Recoil, [Next]_vars, NEW d \in Conns PROVE Back(d)'
  BY DEF Recoil, Back
<1>1. CASE \E c \in Conns : Message(c) \/ Database(c) \/ Resume(c)
  BY <1>1, MessagesCalm, DatabaseCalm, ResumeCalm
<1>2. CASE Crash
  BY <1>2 DEF Crash, Back, Waiting
<1>3. CASE UNCHANGED vars
  BY <1>3 DEF vars, Back, Waiting, Recoil
<1> QED BY <1>1, <1>2, <1>3 DEF Next

-----------------------------------------------------------------------------
(* Calls.  A refused move is taken back before the answer to a token       *)
(* request is handled, so it is never taken back in the middle of a call.  *)

Free(c) == Waiting(c, "refused") # {} => ~user[c].isCall

\* Nothing but a join moves a user during a call.
Still(c) == user[c].isCall => user'[c].pos = user[c].pos

\* No refused move waits during a call, and no call is disturbed.
LEMMA FreeStep ==
    ASSUME TypeOK, \A e \in Conns : Free(e), [Next]_vars, NEW d \in Conns
    PROVE  Free(d)' /\ (rooms' = rooms /\ up' => Still(d))
<1>1. Free(d) /\ \A e \in Conns : user[e] \in UserObject
  BY TypeParts
<1>2. ASSUME user'[d].pos = user[d].pos, user'[d].isCall = user[d].isCall,
             Waiting(d, "refused")' # {} => Waiting(d, "refused") # {}
      PROVE  Free(d)' /\ Still(d)
  BY <1>1, <1>2 DEF Free, Still
<1>3. ASSUME NEW c \in Conns, NEW t, MayStep(c, t), StepTo(c, t),
             d # c => (Waiting(d, "refused")' # {} => Waiting(d, "refused") # {})
      PROVE  Free(d)' /\ Still(d)
  <2>1. ~user[c].isCall /\ user'[c].isCall = user[c].isCall /\ (d # c => user'[d] = user[d])
    BY <1>1, <1>3, TypeParts DEF MayStep, StepTo, UserObject
  <2> QED BY <1>2, <1>3, <2>1 DEF Free, Still
<1>4. ASSUME NEW c \in Conns, Message(c) PROVE Free(d)' /\ Still(d)
  <2>1. ASSUME NEW s \in SpaceIds, NEW u \in Tokens[c], Join(c, s, u)
        PROVE  Free(d)' /\ Still(d)
    <3>1. user'[d].pos = user[d].pos /\ user'[d].isCall = user[d].isCall
      BY <1>1, <2>1, TypeParts DEF Join, UserObject
    <3>2. Waiting(d, "refused")' # {} => Waiting(d, "refused") # {}
      BY <2>1, TaskRecords, WaitingAdded DEF Join
    <3> QED BY <1>2, <3>1, <3>2
  <2>2. ASSUME NEW s \in SpaceIds, JoinRefused(c, s) PROVE Free(d)' /\ Still(d)
    <3>1. user'[d].pos = user[d].pos /\ user'[d].isCall = user[d].isCall
      BY <1>1, <2>2, TypeParts DEF JoinRefused, UserObject
    <3> QED BY <1>2, <2>2, <3>1 DEF JoinRefused, Waiting
  <2>3. ASSUME NEW t, Walk(c, t) PROVE Free(d)' /\ Still(d)
    BY <1>3, <2>3 DEF Walk, Waiting
  <2>4. ASSUME NEW t, EnterArea(c, t) PROVE Free(d)' /\ Still(d)
    <3>1. t \in Tile
      BY <2>4, SteppedOnto DEF EnterArea
    <3>2. Waiting(d, "refused")' # {} => Waiting(d, "refused") # {}
      BY <2>4, <3>1, TaskRecords, WaitingAdded DEF EnterArea
    <3> QED BY <1>3, <2>4, <3>2 DEF EnterArea
  <2>5. ASSUME NEW t, EnterRefused(c, t) PROVE Free(d)' /\ Still(d)
    <3>1. d # c => (Waiting(d, "refused")' # {} => Waiting(d, "refused") # {})
      BY <2>5, TaskRecords, WaitingAdded DEF EnterRefused
    <3> QED BY <1>3, <2>5, <3>1 DEF EnterRefused
  <2>6. ASSUME NEW key, LeaveCall(c, key) PROVE Free(d)' /\ Still(d)
    <3>1. user'[d].pos = user[d].pos /\ (user'[d].isCall => user[d].isCall)
      BY <1>1, <2>6, TypeParts DEF LeaveCall, UserObject
    <3> QED BY <1>1, <2>6, <3>1 DEF LeaveCall, Waiting, Free, Still
  <2>7. ASSUME UserLeft(c) \/ Disconnect(c) PROVE Free(d)' /\ Still(d)
    BY <1>2, <2>7 DEF UserLeft, Disconnect, Waiting
  <2> QED BY <1>4, <2>1, <2>2, <2>3, <2>4, <2>5, <2>6, <2>7 DEF Message
<1>5. ASSUME NEW c \in Conns, Database(c) PROVE Free(d)' /\ (rooms' = rooms => Still(d))
  <2>1. PICK i \in DOMAIN tasks[c] : SpaceMissing(c, i) \/ SpaceFound(c, i) \/ AvatarFound(c, i)
    BY <1>5 DEF Database, Answer
  <2>2. Waiting(d, "refused") = {}
    BY <2>1 DEF SpaceMissing, SpaceFound, AvatarFound, IoTurn
  <2>3. CASE SpaceMissing(c, i) \/ AvatarFound(c, i)
    <3>1. Finish(c, i) /\ user' = user
      BY <2>3 DEF SpaceMissing, AvatarFound
    <3>2. Waiting(d, "refused")' = {}
      BY <2>2, <3>1, WaitingLeft
    <3> QED BY <3>1, <3>2 DEF Free, Still
  <2>4. CASE SpaceFound(c, i)
    <3>1. Waiting(d, "refused")' = {}
      BY <2>2, <2>4, WaitingAvatar
    <3>2. rooms' # rooms
      <4> DEFINE s == tasks[c][i].space
      <4>1. s \in DOMAIN Layout /\ rooms' = [rooms EXCEPT ![s][c] = @ + 1]
        BY <2>4 DEF SpaceFound
      <4>2. rooms[s][c] \in Nat /\ rooms'[s][c] = rooms[s][c] + 1
        BY <4>1, TypeParts
      <4> QED BY <4>2
    <3> QED BY <3>1, <3>2 DEF Free
  <2> QED BY <2>1, <2>3, <2>4
<1>6. ASSUME NEW c \in Conns, Resume(c) PROVE Free(d)' /\ Still(d)
  <2>1. PICK i \in DOMAIN tasks[c] : StepBack(c, i) \/ TokenAnswered(c, i)
    BY <1>6 DEF Resume
  <2>2. Waiting(d, "refused")' # {} => Waiting(d, "refused") # {}
    BY <2>1, WaitingLeft DEF StepBack, TokenAnswered
  <2>3. CASE StepBack(c, i)
    <3>1. user'[d].isCall = user[d].isCall /\ (d # c => user'[d] = user[d])
      BY <1>1, <2>3, TypeParts DEF StepBack, UserObject
    <3>2. d = c => ~user[d].isCall
      BY <1>1, <2>3 DEF StepBack, Free
    <3> QED BY <1>1, <2>2, <3>1, <3>2 DEF Free, Still
  <2>4. CASE TokenAnswered(c, i)
    <3>1. user'[d].pos = user[d].pos
      BY <1>1, <2>4, TypeParts DEF TokenAnswered, UserObject
    <3>2. Waiting(d, "refused") = {}
      BY <2>4 DEF TokenAnswered, IoTurn
    <3> QED BY <2>2, <3>1, <3>2 DEF Free, Still
  <2> QED BY <2>1, <2>3, <2>4
<1>7. CASE Crash
  BY <1>7 DEF Crash, Free, Waiting
<1>8. CASE UNCHANGED vars
  BY <1>1, <1>8 DEF vars, Free, Still, Waiting
<1> QED BY <1>4, <1>5, <1>6, <1>7, <1>8 DEF Next

-----------------------------------------------------------------------------
(* Introductions.  Whoever becomes a member of a room has a join under way *)
(* that will announce it there, unless it asks for another room first; it  *)
(* is ready once no such join is left.                                     *)

Joining(c, s) ==
    \E i \in DOMAIN tasks[c] :
        tasks[c][i].at \in {"space", "avatar"} /\ tasks[c][i].space = s

Ready(c, s) ==
    open[c] /\ user[c].spaceId = s /\ c \in Members(s) /\ ~Joining(c, s)

Met ==
    \A s \in DOMAIN Layout : \A c, d \in Conns :
        (c # d /\ Ready(c, s) /\ Ready(d, s)) => c \in told[d]

\* A new handler leaves the joins that are under way.
LEMMA JoiningAdded ==
    ASSUME TypeOK, NEW c \in Conns, NEW t \in Task, Suspend(c, t)
    PROVE  /\ \A d \in Conns : \A s : Joining(d, s) => Joining(d, s)'
           /\ t.at \in {"space", "avatar"} => Joining(c, t.space)'
<1>1. tasks[c] \in Seq(Task) /\ tasks' = [tasks EXCEPT ![c] = Append(tasks[c], t)]
  BY TypeParts DEF Suspend
<1>2. tasks'[c] = Append(tasks[c], t) /\ \A d \in Conns \ {c} : tasks'[d] = tasks[d]
  BY <1>1, TypeParts
<1>3. /\ \A k \in DOMAIN tasks[c] : k \in DOMAIN tasks'[c] /\ tasks'[c][k] = tasks[c][k]
      /\ \E j \in DOMAIN tasks'[c] : tasks'[c][j] = t
  BY <1>1, <1>2, Appended
<1> QED BY <1>2, <1>3 DEF Joining

\* A handler that ends leaves the other joins that are under way.
LEMMA JoiningLeft ==
    ASSUME TypeOK, NEW c \in Conns, NEW i \in DOMAIN tasks[c], Finish(c, i), NEW s,
           ~ (tasks[c][i].at \in {"space", "avatar"} /\ tasks[c][i].space = s)
    PROVE  \A d \in Conns : Joining(d, s) => Joining(d, s)'
<1>1. tasks[c] \in Seq(Task) /\ tasks' = [tasks EXCEPT ![c] = RemoveAt(tasks[c], i)]
  BY TypeParts DEF Finish
<1>2. tasks'[c] = RemoveAt(tasks[c], i) /\ \A d \in Conns \ {c} : tasks'[d] = tasks[d]
  BY <1>1, TypeParts
<1>3. \A k \in DOMAIN tasks[c] \ {i} : \E j \in DOMAIN tasks'[c] : tasks'[c][j] = tasks[c][k]
  BY <1>1, <1>2, Removed
<1> QED BY <1>2, <1>3 DEF Joining

\* A step that makes nobody ready and takes nothing back keeps Met.
LEMMA MetKept ==
    ASSUME Met, \A s \in DOMAIN Layout : \A d \in Conns : Ready(d, s)' => Ready(d, s),
           \A d \in Conns : told[d] \subseteq told'[d]
    PROVE  Met'
BY DEF Met

\* A connection's own join makes it unready; the other messages make nobody
\* ready.
LEMMA MessageMet ==
    ASSUME TypeOK, Met, NEW c \in Conns, Message(c)
    PROVE  Met'
<1>1. \A e \in Conns : user[e] \in UserObject
  BY TypeParts
<1>2. ASSUME open' = open, rooms' = rooms, told' = told,
             \A d \in Conns : user'[d].spaceId = user[d].spaceId,
             \A d \in Conns : \A s : Joining(d, s) => Joining(d, s)'
      PROVE  Met'
  BY <1>2, MetKept DEF Ready, Members
<1>3. ASSUME NEW s \in SpaceIds, NEW u \in Tokens[c], Join(c, s, u) PROVE Met'
  <2>1. [at |-> "space", space |-> s] \in Task
    BY TaskRecords
  <2>2. /\ \A d \in Conns : \A r : Joining(d, r) => Joining(d, r)'
        /\ Joining(c, s)'
    BY <1>3, <2>1, JoiningAdded DEF Join
  <2>3. user'[c].spaceId = s /\ \A d \in Conns \ {c} : user'[d] = user[d]
    BY <1>1, <1>3, TypeParts DEF Join, UserObject
  <2>4. ASSUME NEW r \in DOMAIN Layout, NEW d \in Conns, Ready(d, r)' PROVE Ready(d, r)
    BY <1>3, <2>2, <2>3, <2>4 DEF Ready, Join, Members
  <2> QED BY <1>3, <2>4, MetKept DEF Join
<1>4. ASSUME NEW s \in SpaceIds, JoinRefused(c, s) PROVE Met'
  <2>1. ~open'[c] /\ \A d \in Conns \ {c} : user'[d] = user[d] /\ open'[d] = open[d]
    BY <1>4, TypeParts DEF JoinRefused
  <2>2. ASSUME NEW r \in DOMAIN Layout, NEW d \in Conns, Ready(d, r)' PROVE Ready(d, r)
    BY <1>4, <2>1, <2>2 DEF Ready, JoinRefused, Members, Joining
  <2> QED BY <1>4, <2>2, MetKept DEF JoinRefused
<1>5. ASSUME NEW t, StepTo(c, t) PROVE \A d \in Conns : user'[d].spaceId = user[d].spaceId
  BY <1>1, <1>5, TypeParts DEF StepTo, UserObject
<1>6. ASSUME NEW t, Walk(c, t) PROVE Met'
  BY <1>2, <1>5, <1>6 DEF Walk, Joining
<1>7. ASSUME NEW t, EnterArea(c, t) PROVE Met'
  <2>1. t \in Tile
    BY <1>7, SteppedOnto DEF EnterArea
  <2>2. \A d \in Conns : \A s : Joining(d, s) => Joining(d, s)'
    BY <1>7, <2>1, TaskRecords, JoiningAdded DEF EnterArea
  <2> QED BY <1>2, <1>5, <1>7, <2>2 DEF EnterArea
<1>8. ASSUME NEW t, EnterRefused(c, t) PROVE Met'
  <2>1. \A d \in Conns : \A s : Joining(d, s) => Joining(d, s)'
    BY <1>8, TaskRecords, JoiningAdded DEF EnterRefused
  <2> QED BY <1>2, <1>5, <1>8, <2>1 DEF EnterRefused
<1>9. ASSUME NEW key, LeaveCall(c, key) PROVE Met'
  <2>1. \A d \in Conns : user'[d].spaceId = user[d].spaceId
    BY <1>1, <1>9, TypeParts DEF LeaveCall, UserObject
  <2> QED BY <1>2, <1>9, <2>1 DEF LeaveCall, Joining
<1>10. CASE UserLeft(c)
  <2> DEFINE s == user[c].spaceId
  <2>1. s \in DOMAIN Layout /\ rooms' = [rooms EXCEPT ![s] = [rooms[s] EXCEPT ![c] = 0]]
    BY <1>10 DEF UserLeft
  <2>2. /\ rooms'[s][c] = 0
        /\ \A d \in Conns \ {c} : rooms'[s][d] = rooms[s][d]
        /\ \A r \in DOMAIN Layout \ {s} : rooms'[r] = rooms[r]
    BY <2>1, TypeParts
  <2>3. ASSUME NEW r \in DOMAIN Layout, NEW d \in Conns, Ready(d, r)'
        PROVE  Ready(d, r) /\ d # c
    <3>1. d # c
      BY <1>10, <2>2, <2>3 DEF Ready, UserLeft, Members
    <3>2. d \in Members(r)
      BY <2>2, <2>3, <3>1 DEF Ready, Members
    <3> QED BY <1>10, <2>3, <3>1, <3>2 DEF Ready, UserLeft, Joining
  <2>4. \A d \in Conns : told[d] \ {c} \subseteq told'[d]
    BY <1>10 DEF UserLeft
  <2> QED BY <2>3, <2>4 DEF Met
<1>11. CASE Disconnect(c)
  <2>1. \A d \in Conns : open'[d] => open[d]
    BY <1>11, TypeParts DEF Disconnect
  <2>2. ASSUME NEW r \in DOMAIN Layout, NEW d \in Conns, Ready(d, r)' PROVE Ready(d, r)
    BY <1>11, <2>1, <2>2 DEF Ready, Disconnect, Members, Joining
  <2> QED BY <1>11, <2>2, MetKept DEF Disconnect
<1> QED BY <1>3, <1>4, <1>6, <1>7, <1>8, <1>9, <1>10, <1>11 DEF Message

\* Finding the space makes a member that is not ready; the announcement makes
\* one that has met everybody.
LEMMA DatabaseMet ==
    ASSUME TypeOK, Met, NEW c \in Conns, Database(c)
    PROVE  Met'
<1>1. PICK i \in DOMAIN tasks[c] : SpaceMissing(c, i) \/ SpaceFound(c, i) \/ AvatarFound(c, i)
  BY DEF Database, Answer
<1>0. PICK s : s = tasks[c][i].space
  OBVIOUS
<1>2. CASE SpaceMissing(c, i)
  <2>1. ASSUME NEW r \in DOMAIN Layout, NEW d \in Conns, Ready(d, r)' PROVE Ready(d, r)
    <3>1. s # r /\ Finish(c, i)
      BY <1>0, <1>2 DEF SpaceMissing
    <3>2. Joining(d, r) => Joining(d, r)'
      BY <1>0, <3>1, JoiningLeft
    <3> QED BY <1>2, <2>1, <3>2 DEF Ready, SpaceMissing, Members
  <2> QED BY <1>2, <2>1, MetKept DEF SpaceMissing
<1>3. CASE SpaceFound(c, i)
  <2>1. /\ s \in DOMAIN Layout
        /\ rooms' = [rooms EXCEPT ![s] = [rooms[s] EXCEPT ![c] = rooms[s][c] + 1]]
        /\ tasks' = [tasks EXCEPT ![c] = [tasks[c] EXCEPT ![i] = [at |-> "avatar", space |-> s]]]
        /\ tasks[c][i].at = "space"
    BY <1>0, <1>3 DEF SpaceFound, Waiting
  <2>2. /\ \A d \in Conns \ {c} : rooms'[s][d] = rooms[s][d]
        /\ \A r \in DOMAIN Layout \ {s} : rooms'[r] = rooms[r]
        /\ \A d \in Conns \ {c} : tasks'[d] = tasks[d]
        /\ tasks'[c] = [tasks[c] EXCEPT ![i] = [at |-> "avatar", space |-> s]]
    BY <2>1, TypeParts
  <2>3. DOMAIN tasks'[c] = DOMAIN tasks[c]
        /\ tasks'[c][i] = [at |-> "avatar", space |-> s]
        /\ \A j \in DOMAIN tasks[c] \ {i} : tasks'[c][j] = tasks[c][j]
    BY <2>2
  <2>4. Joining(c, s)' /\ \A d \in Conns : \A r : Joining(d, r) => Joining(d, r)'
    <3>1. Joining(c, s)'
      BY <2>3 DEF Joining
    <3>2. ASSUME NEW r, Joining(c, r) PROVE Joining(c, r)'
      <4>1. PICK j \in DOMAIN tasks[c] :
               tasks[c][j].at \in {"space", "avatar"} /\ tasks[c][j].space = r
        BY <3>2 DEF Joining
      <4>2. CASE j = i
        BY <1>0, <3>1, <4>1, <4>2
      <4>3. CASE j # i
        BY <2>3, <4>1, <4>3 DEF Joining
      <4> QED BY <4>2, <4>3
    <3>3. ASSUME NEW d \in Conns, d # c, NEW r, Joining(d, r) PROVE Joining(d, r)'
      BY <2>2, <3>3 DEF Joining
    <3> QED BY <3>1, <3>2, <3>3
  <2>5. \A d \in Conns : user'[d].spaceId = user[d].spaceId
    <3>1. PICK p \in IF SpawnTiles(Layout[s]) = {} THEN {Undefined} ELSE SpawnTiles(Layout[s]) :
             user' = [user EXCEPT ![c].pos = p,
                        ![c].dims = [width |-> Layout[s].width, height |-> Layout[s].height]]
      BY <1>0, <1>3 DEF SpaceFound
    <3> QED BY <3>1, TypeParts DEF UserObject
  <2>6. ASSUME NEW r \in DOMAIN Layout, NEW d \in Conns, Ready(d, r)' PROVE Ready(d, r)
    <3>1. d # c \/ r # s
      BY <2>4, <2>6 DEF Ready
    <3>2. d \in Members(r)
      BY <2>2, <2>6, <3>1 DEF Ready, Members
    <3> QED BY <1>3, <2>4, <2>5, <2>6, <3>2 DEF Ready, SpaceFound
  <2> QED BY <1>3, <2>6, MetKept DEF SpaceFound
<1>4. CASE AvatarFound(c, i)
  <2>1. Announce(c, s) /\ Finish(c, i) /\ user' = user /\ rooms' = rooms /\ open' = open
    BY <1>0, <1>4 DEF AvatarFound
  <2>2. /\ \A d \in Conns : told[d] \subseteq told'[d]
        /\ Audience(c, s) \subseteq told'[c]
        /\ \A d \in Audience(c, user[c].spaceId) : d \in Conns => c \in told'[d]
    BY <2>1 DEF Announce
  <2>3. ASSUME NEW r \in DOMAIN Layout, NEW d \in Conns, Ready(d, r)', d # c \/ r # s
        PROVE  Ready(d, r)
    <3>1. Joining(d, r) => Joining(d, r)'
      <4>1. CASE r # s
        BY <1>0, <2>1, <4>1, JoiningLeft
      <4>2. CASE d # c
        BY <2>1, <4>2, TypeParts DEF Finish, Joining
      <4> QED BY <2>3, <4>1, <4>2
    <3> QED BY <2>1, <2>3, <3>1 DEF Ready, Members
  <2>4. ASSUME NEW r \in DOMAIN Layout, NEW d \in Conns, NEW e \in Conns, d # e,
               Ready(d, r)', Ready(e, r)'
        PROVE  d \in told'[e]
    <3>1. d \in Members(r) /\ e \in Members(r) /\ user[d].spaceId = r /\ user[e].spaceId = r
      BY <2>1, <2>4 DEF Ready, Members
    <3>2. CASE r = s /\ d = c
      BY <2>2, <2>4, <3>1, <3>2 DEF Audience
    <3>3. CASE r = s /\ e = c
      BY <2>2, <2>4, <3>1, <3>3 DEF Audience
    <3>4. CASE r # s \/ (d # c /\ e # c)
      BY <2>2, <2>3, <2>4, <3>4 DEF Met
    <3> QED BY <3>2, <3>3, <3>4
  <2> QED BY <2>4 DEF Met
<1> QED BY <1>1, <1>2, <1>3, <1>4

\* Every step keeps Met.
LEMMA MetNext == TypeOK /\ Met /\ [Next]_vars => Met'
<1> SUFFICES ASSUME TypeOK, Met, [Next]_vars PROVE Met'
  OBVIOUS
<1>1. ASSUME NEW c \in Conns, Resume(c) PROVE Met'
  <2>1. PICK i \in DOMAIN tasks[c] : StepBack(c, i) \/ TokenAnswered(c, i)
    BY <1>1 DEF Resume
  <2>2. Finish(c, i) /\ rooms' = rooms /\ open' = open /\ told' = told
    BY <2>1 DEF StepBack, TokenAnswered
  <2>3. \A d \in Conns : user'[d].spaceId = user[d].spaceId
    <3>1. \A d \in Conns : user[d] \in UserObject
      BY TypeParts
    <3>2. CASE StepBack(c, i)
      BY <3>1, <3>2, TypeParts DEF StepBack, UserObject
    <3>3. CASE TokenAnswered(c, i)
      BY <3>1, <3>3, TypeParts DEF TokenAnswered, UserObject
    <3> QED BY <2>1, <3>2, <3>3
  <2>4. ASSUME NEW r \in DOMAIN Layout, NEW d \in Conns, Ready(d, r)' PROVE Ready(d, r)
    <3>1. Joining(d, r) => Joining(d, r)'
      BY <2>1, <2>2, JoiningLeft DEF StepBack, TokenAnswered, Waiting
    <3> QED BY <2>2, <2>3, <2>4, <3>1 DEF Ready, Members
  <2> QED BY <2>2, <2>4, MetKept
<1>2. CASE Crash
  BY <1>2 DEF Crash, Met, Ready
<1>3. CASE UNCHANGED vars
  BY <1>3 DEF vars, Met, Ready, Members, Joining
<1> QED BY <1>1, <1>2, <1>3, MessageMet, DatabaseMet DEF Next

-----------------------------------------------------------------------------
(* What holds in every arena.                                              *)

IInv == TypeOK /\ SeatsSound /\ Recoil /\ (\A c \in Conns : Free(c)) /\ Met

\* The seats are sound, whoever is being refused a seat has come from next to
\* where it stands and is not in a call, and those who are ready have met.
THEOREM Invariance == Spec => []IInv
<1>1. Init => IInv
  <2> SUFFICES ASSUME Init PROVE IInv
    OBVIOUS
  <2>1. DOMAIN areaMap = {} /\ \A c \in Conns : Waiting(c, "refused") = {}
    BY DEF Init, Waiting
  <2>2. Met
    BY DEF Init, Met, Ready, Members, Nobody
  <2> QED BY <2>1, <2>2, TypeInit DEF IInv, SeatsSound, Recoil, Free
<1>2. IInv /\ [Next]_vars => IInv'
  BY TypeNext, SeatsNext, RecoilNext, FreeStep, MetNext DEF IInv
<1> QED BY <1>1, <1>2, PTL DEF Spec

\* Positions stay on the quarter plane, seats on tiles, User objects in rooms
\* that exist (user.ts:84-254).
THEOREM TypeCorrect == Spec => []TypeOK
<1>1. IInv => TypeOK
  BY DEF IInv
<1> QED BY <1>1, Invariance, PTL

\* No area is overfull and no two users share a seat, however moves, joins and
\* leave-calls interleave (user.ts:371-400).
THEOREM SeatsStaySound == Spec => []SeatsSound
<1>1. IInv => SeatsSound
  BY DEF IInv
<1> QED BY <1>1, Invariance, PTL

\* Only joins move a user further than a step (user.ts:262-298).
THEOREM NobodyJumps == Spec => NoTeleport
<1> DEFINE A == (rooms' = rooms /\ up') => \A c \in Conns : Calm(c)
<1>1. IInv /\ [Next]_vars => A
  <2> SUFFICES ASSUME TypeOK, Recoil, [Next]_vars, rooms' = rooms, up', NEW d \in Conns
               PROVE  Calm(d)
    BY DEF IInv
  <2>1. CASE \E c \in Conns : Message(c) \/ Database(c) \/ Resume(c)
    BY <2>1, MessagesCalm, DatabaseCalm, ResumeCalm
  <2>2. CASE Crash
    BY <2>2 DEF Crash
  <2>3. CASE UNCHANGED vars
    BY <2>3 DEF vars, Calm
  <2> QED BY <2>1, <2>2, <2>3 DEF Next
<1>2. A = ((rooms' = rooms /\ up') =>
            \A c \in Conns : user'[c].pos # user[c].pos =>
                user'[c].pos \in Neighbours(user[c].pos))
  BY DEF Calm
<1> HIDE DEF A
<1>3. IInv /\ [Next]_vars => [(rooms' = rooms /\ up') =>
            \A c \in Conns : user'[c].pos # user[c].pos =>
                user'[c].pos \in Neighbours(user[c].pos)]_vars
  BY <1>1, <1>2
<1> QED BY <1>3, Invariance, PTL DEF Spec, NoTeleport

\* A call is not disturbed by the refused moves of its user
\* (user.ts:284-298).
THEOREM NobodyMovesInCall == Spec => StillInCall
<1>1. IInv /\ [Next]_vars =>
          [(rooms' = rooms /\ up') =>
              \A c \in Conns : user[c].isCall => user'[c].pos = user[c].pos]_vars
  BY FreeStep DEF IInv, Still
<1> QED BY <1>1, Invariance, PTL DEF Spec, StillInCall

\* Users who are settled in a room have been sent each other, in whatever
\* order their joins were found and answered (user.ts:96-253).
THEOREM SettledAreIntroduced == Spec => []Introduced
<1>1. IInv => Introduced
  <2>1. ASSUME NEW c \in Conns, NEW s \in DOMAIN Layout, Settled(c, s) PROVE Ready(c, s)
    BY <2>1 DEF Settled, Ready, Joining, Waiting
  <2> QED BY <2>1 DEF IInv, Met, Introduced
<1> QED BY <1>1, Invariance, PTL

=============================================================================
