------------------------------- MODULE Arena -------------------------------
(***************************************************************************)
(* The arena server, apps/ws: rooms of users who walk on a tile map and    *)
(* take seats in call areas.  One User object per WebSocket connection     *)
(* (user.ts), one roomManager and one areaMap for the whole process.       *)
(*                                                                         *)
(* JavaScript runs a message handler without interruption up to its next   *)
(* await; the messages of the same and of other connections are handled    *)
(* meanwhile.  So a handler is one action up to its first await and one    *)
(* more per await; a suspended handler is an entry of tasks[c] that says   *)
(* where it stopped and what its local variables hold.                     *)
(*                                                                         *)
(* A rejected promise in an async handler is handled nowhere, which ends   *)
(* the Node process: `up' becomes FALSE and nothing happens any more.      *)
(***************************************************************************)
EXTENDS SpaceMap, SequencesExt

CONSTANTS
    Conns,      \* WebSocket connections
    Users,      \* user ids
    Tokens,     \* Tokens[c]: the users whose token a client may send on c
    Layout,     \* the spaces of the database: space id -> [width, height, elements]
    NoSpaces,   \* space ids that are not in the database
    Undefined,  \* JavaScript's undefined
    Rejoining,  \* the connections whose clients may send join again
    MaxTasks,   \* bound on the suspended handlers of one connection
    MaxEntries  \* bound on the room entries a connection makes by joining again

ASSUME ConstantsAssumption ==
    /\ Rejoining \subseteq Conns
    /\ MaxTasks \in Nat
    /\ MaxEntries \in Nat
    /\ Tokens \in [Conns -> SUBSET Users]
    /\ Undefined \notin Users
    /\ Undefined \notin DOMAIN Layout \cup NoSpaces
    /\ Undefined \notin Nat \X Nat
    /\ NoSpaces \cap DOMAIN Layout = {}

\* The size of a space is read from digits (http/src/types/index.ts:20), the
\* numbers of an element are integers in the database.
ASSUME LayoutAssumption ==
    \A s \in DOMAIN Layout :
        Layout[s] \in
            [width : Nat, height : Nat,
             elements : Seq([x : Int, y : Int, w : Int, h : Int, active : BOOLEAN])]

SpaceIds == DOMAIN Layout \cup NoSpaces

VARIABLES
    up,         \* the process runs
    open,       \* open[c]: the socket is open
    user,       \* user[c]: the User object of the connection
    rooms,      \* roomManager.rooms: how often each User object is in each room
    areaMap,    \* the module's areaMap: key -> area
    tasks,      \* tasks[c]: the suspended handlers of c, oldest first
    joined,     \* joined[c]: c has been sent space-joined
    told        \* told[d]: the connections d has been sent as members of its room

vars == <<up, open, user, rooms, areaMap, tasks, joined, told>>

NoDims == [width |-> 0, height |-> 0]

\* The constructor of User.
NewUser ==
    [userId |-> Undefined, spaceId |-> Undefined, pos |-> <<0, 0>>,
     prev |-> <<0, 0>>, dims |-> NoDims, isCall |-> FALSE]

\* A room nobody has entered.
Nobody == [c \in Conns |-> 0]

Init ==
    /\ up = TRUE
    /\ open = [c \in Conns |-> TRUE]
    /\ user = [c \in Conns |-> NewUser]
    /\ rooms = [s \in DOMAIN Layout |-> Nobody]
    /\ areaMap = <<>>
    /\ tasks = [c \in Conns |-> <<>>]
    /\ joined = [c \in Conns |-> FALSE]
    /\ told = [c \in Conns |-> {}]

-----------------------------------------------------------------------------
(* Who may run.  A handler whose await got its value synchronously (a      *)
(* refused seat) goes on in a microtask: before it does, only further      *)
(* messages of the same connection, which arrived in the same chunk, can   *)
(* be handled.                                                             *)

Waiting(c, what) == {i \in DOMAIN tasks[c] : tasks[c][i].at = what}

MessageTurn(c) == \A d \in Conns \ {c} : Waiting(d, "refused") = {}

\* Mutant: the continuation waits in the queue of the other events.
IoTurnAny == TRUE

IoTurn == \A d \in Conns : Waiting(d, "refused") = {}

Members(s) == {c \in Conns : rooms[s][c] > 0}

Entries(c) == MapThenSumSet(LAMBDA s : rooms[s][c], DOMAIN Layout)

\* A connection that does not repeat join, as Arena.tsx does not, is outside
\* Rejoining.
MayJoin(c) ==
    \/ user[c].spaceId = Undefined
    \/ /\ c \in Rejoining
       /\ Entries(c) + Cardinality(Waiting(c, "space")) < MaxEntries

\* The server asks nothing of its clients: any message may come at any time,
\* in the middle of a suspended handler too.
CanSend(c) == up /\ open[c] /\ MessageTurn(c)

Suspend(c, task) ==
    /\ Len(tasks[c]) < MaxTasks
    /\ tasks' = [tasks EXCEPT ![c] = Append(@, task)]

Finish(c, i) == tasks' = [tasks EXCEPT ![c] = RemoveAt(@, i)]

-----------------------------------------------------------------------------
(* What the server sends about who is in a room.  A message names a user   *)
(* id; told keeps the connection it was sent for.  It is a record of what  *)
(* was sent, and nothing reads it: what a page makes of the messages is    *)
(* the page's affair.                                                      *)

\* Mutant: a broadcast leaves out the user, not the connection.
AudienceByUser(c, s) ==
    IF s \in DOMAIN Layout THEN {d \in Members(s) : user[d].userId # user[c].userId} ELSE {}

\* roomManager.broadcast: everybody in the room but the sender.
Audience(c, s) ==
    IF s \in DOMAIN Layout THEN Members(s) \ {c} ELSE {}

-----------------------------------------------------------------------------
(* "join". *)

\* Up to the first await, for a token that names user u.
Join(c, s, u) ==
    /\ CanSend(c)
    /\ MayJoin(c)
    /\ user' = [user EXCEPT ![c].spaceId = s, ![c].userId = u]
    /\ Suspend(c, [at |-> "space", space |-> s])
    /\ UNCHANGED <<up, open, rooms, areaMap, joined, told>>

\* A valid token without a user id: the socket is closed.
JoinRefused(c, s) ==
    /\ CanSend(c)
    /\ MayJoin(c)
    /\ user' = [user EXCEPT ![c].spaceId = s]
    /\ open' = [open EXCEPT ![c] = FALSE]
    /\ UNCHANGED <<up, rooms, areaMap, tasks, joined, told>>

\* The loop over the active areas: every area of the space is written anew.
ResetAreas(space) ==
    areaMap' = [k \in DOMAIN areaMap \cup AreaKeys(space) |->
        IF k \in AreaKeys(space) THEN EmptyArea(space, k) ELSE areaMap[k]]

\* prisma.space.findFirst answers null: no more is done.
SpaceMissing(c, i) ==
    /\ up /\ IoTurn
    /\ i \in Waiting(c, "space")
    /\ tasks[c][i].space \notin DOMAIN Layout
    /\ Finish(c, i)
    /\ UNCHANGED <<up, open, user, rooms, areaMap, joined, told>>

\* Mutant: a space without a room is treated like a missing one.
SpaceFoundNoRoom(c, i) ==
    /\ up /\ IoTurn
    /\ i \in Waiting(c, "space")
    /\ tasks[c][i].space \in DOMAIN Layout
    /\ Members(tasks[c][i].space) = {}
    /\ Finish(c, i)
    /\ UNCHANGED <<up, open, user, rooms, areaMap, joined, told>>

\* prisma.space.findFirst answers the space; up to the second await.  With
\* no spawn tile the position is undefined: the test for that looks at the
\* list, which is never falsy.
SpaceFound(c, i) ==
    /\ up /\ IoTurn
    /\ i \in Waiting(c, "space")
    /\ tasks[c][i].space \in DOMAIN Layout
    /\ LET s == tasks[c][i].space
           space == Layout[s]
           spawnTile == SpawnTiles(space)
       IN  /\ ~LayoutFails(space)
           /\ ResetAreas(space)
           /\ rooms' = [rooms EXCEPT ![s][c] = @ + 1]
           /\ \E p \in IF spawnTile = {} THEN {Undefined} ELSE spawnTile :
                 user' = [user EXCEPT ![c].pos = p,
                             ![c].dims = [width |-> space.width, height |-> space.height]]
           /\ tasks' = [tasks EXCEPT ![c][i] = [at |-> "avatar", space |-> s]]
    /\ UNCHANGED <<up, open, joined, told>>

\* space-joined to c itself, with the list of the room c asked for beside the
\* payload; user-joined to the room c is in now.
Announce(c, s) ==
    told' = [d \in Conns |->
        told[d] \cup (IF d = c THEN Audience(c, s) ELSE {})
                \cup (IF d \in Audience(c, user[c].spaceId) THEN {c} ELSE {})]

\* prisma.user.findFirst answers.
AvatarFound(c, i) ==
    /\ up /\ IoTurn
    /\ i \in Waiting(c, "avatar")
    /\ joined' = [joined EXCEPT ![c] = TRUE]
    /\ Announce(c, tasks[c][i].space)
    /\ Finish(c, i)
    /\ UNCHANGED <<up, open, user, rooms, areaMap>>

-----------------------------------------------------------------------------
(* "move". *)

Neighbours(p) ==
    IF p = Undefined THEN {}
    ELSE {<<p[1] + 1, p[2]>>, <<p[1] - 1, p[2]>>,
          <<p[1], p[2] + 1>>, <<p[1], p[2] - 1>>}

\* Mutant: the lower bounds are not tested.
InBoundsAbove(c, t) ==
    t[1] < user[c].dims.width /\ t[2] < user[c].dims.height - 2

InBounds(c, t) ==
    /\ t[1] > 0 /\ t[1] < user[c].dims.width
    /\ t[2] > 0 /\ t[2] < user[c].dims.height - 2

\* Any other move is answered with movement-Rejected, or not at all during
\* a call, and changes nothing.
MayStep(c, t) ==
    /\ CanSend(c)
    /\ ~user[c].isCall
    /\ t \in Neighbours(user[c].pos)
    /\ InBounds(c, t)

\* Mutant: the previous position is not remembered.
StepToForgetting(c, t) == user' = [user EXCEPT ![c].pos = t]

StepTo(c, t) == user' = [user EXCEPT ![c].prev = user[c].pos, ![c].pos = t]

Walk(c, t) ==
    /\ MayStep(c, t)
    /\ t \notin DOMAIN areaMap
    /\ StepTo(c, t)
    /\ UNCHANGED <<up, open, rooms, areaMap, tasks, joined, told>>

SeatsOf(key) == (key[1] .. key[1] + areaMap[key].w - 1)
                    \X (key[2] .. key[2] + areaMap[key].h - 1)
Taken(key) == {s.seat : s \in areaMap[key].seatUsers}

\* Mutant: the taken seats are not looked at.
FreeSeatsAll(key) ==
    IF Cardinality(areaMap[key].seatUsers) >= areaMap[key].seatCount THEN {}
    ELSE SeatsOf(key)

\* Empty when the area is full.
FreeSeats(key) ==
    IF Cardinality(areaMap[key].seatUsers) >= areaMap[key].seatCount THEN {}
    ELSE SeatsOf(key) \ Taken(key)

\* allSeat.find: column by column.
FirstSeat(seats) ==
    CHOOSE s \in seats : \A r \in seats :
        s[1] < r[1] \/ (s[1] = r[1] /\ s[2] <= r[2])

\* handleMove up to its await: the seat is taken, then a token is asked for.
EnterArea(c, t) ==
    /\ MayStep(c, t)
    /\ t \in DOMAIN areaMap
    /\ FreeSeats(t) # {}
    /\ StepTo(c, t)
    /\ areaMap' = [areaMap EXCEPT ![t].seatUsers =
            @ \cup {[userId |-> user[c].userId, seat |-> FirstSeat(FreeSeats(t))]}]
    /\ Suspend(c, [at |-> "token", key |-> t])
    /\ UNCHANGED <<up, open, rooms, joined, told>>

\* handleMove answers false.
EnterRefused(c, t) ==
    /\ MayStep(c, t)
    /\ t \in DOMAIN areaMap
    /\ FreeSeats(t) = {}
    /\ StepTo(c, t)
    /\ Suspend(c, [at |-> "refused"])
    /\ UNCHANGED <<up, open, rooms, areaMap, joined, told>>

\* The move is taken back and movement-Rejected is sent.
StepBack(c, i) ==
    /\ up
    /\ i \in Waiting(c, "refused")
    /\ user' = [user EXCEPT ![c].pos = user[c].prev]
    /\ Finish(c, i)
    /\ UNCHANGED <<up, open, rooms, areaMap, joined, told>>

\* axios answers, with a token or without one: the call begins wherever the
\* user is by now.
TokenAnswered(c, i) ==
    /\ up /\ IoTurn
    /\ i \in Waiting(c, "token")
    /\ user' = [user EXCEPT ![c].isCall = TRUE]
    /\ Finish(c, i)
    /\ UNCHANGED <<up, open, rooms, areaMap, joined, told>>

-----------------------------------------------------------------------------
(* "leave-call", "user-left", the end of a connection, the end of the      *)
(* process.                                                                *)

GiveBack(c, key) ==
    areaMap' = IF key \in DOMAIN areaMap
               THEN [areaMap EXCEPT ![key].seatUsers =
                        {s \in @ : s.userId # user[c].userId}]
               ELSE areaMap

\* The client names the area, any area or none.  The room is told the position
\* before the area, the server's own x and y stay.
LeaveCall(c, key) ==
    /\ CanSend(c)
    /\ GiveBack(c, key)
    /\ user' = [user EXCEPT ![c].isCall = FALSE]
    /\ UNCHANGED <<up, open, rooms, tasks, joined, told>>

\* destory(): out of the room of the last join, then user-left to those who
\* stay.  A handler of "join" that is suspended goes on.
UserLeft(c) ==
    /\ CanSend(c)
    /\ user[c].spaceId \in DOMAIN Layout
    /\ rooms' = [rooms EXCEPT ![user[c].spaceId][c] = 0]
    /\ told' = [d \in Conns |->
          IF d \in Audience(c, user[c].spaceId) THEN told[d] \ {c} ELSE told[d]]
    /\ UNCHANGED <<up, open, user, areaMap, tasks, joined>>

\* The client goes away: the handler of "close" is commented out.
Disconnect(c) ==
    /\ up /\ open[c]
    /\ MessageTurn(c)
    /\ open' = [open EXCEPT ![c] = FALSE]
    /\ UNCHANGED <<up, user, rooms, areaMap, tasks, joined, told>>

\* A promise is rejected or an exception leaves a handler: Jwt.verify on a
\* bad token, a query or the token request that fails, a layout that runs
\* off its matrix.  All state was in memory; nothing restarts the process.
Crash ==
    /\ up /\ IoTurn
    /\ \E c \in Conns : (CanSend(c) /\ MayJoin(c)) \/ tasks[c] # <<>>
    /\ up' = FALSE
    /\ open' = [c \in Conns |-> FALSE]
    /\ user' = [c \in Conns |-> NewUser]
    /\ rooms' = [s \in DOMAIN Layout |-> Nobody]
    /\ areaMap' = <<>>
    /\ tasks' = [c \in Conns |-> <<>>]
    /\ joined' = [c \in Conns |-> FALSE]
    /\ told' = [c \in Conns |-> {}]

-----------------------------------------------------------------------------

Message(c) ==
    \/ \E s \in SpaceIds, u \in Tokens[c] : Join(c, s, u)
    \/ \E s \in SpaceIds : JoinRefused(c, s)
    \/ \E t \in Neighbours(user[c].pos) :
          Walk(c, t) \/ EnterArea(c, t) \/ EnterRefused(c, t)
    \/ \E key \in DOMAIN areaMap \cup {Undefined} : LeaveCall(c, key)
    \/ UserLeft(c)
    \/ Disconnect(c)

Answer(c, i) == SpaceMissing(c, i) \/ SpaceFound(c, i) \/ AvatarFound(c, i)

Database(c) == \E i \in DOMAIN tasks[c] : Answer(c, i)

Resume(c) ==
    \E i \in DOMAIN tasks[c] :
        StepBack(c, i) \/ TokenAnswered(c, i)

Next == (\E c \in Conns : Message(c) \/ Database(c) \/ Resume(c)) \/ Crash

Spec == Init /\ [][Next]_vars

\* The first query of c that has no answer yet.
Oldest(c, i) ==
    \A j \in Waiting(c, "space") \cup Waiting(c, "avatar") : i <= j

\* The event loop runs a handler again once its awaited value is there.  The
\* database answers every query, or fails; the token request has no timeout
\* and may stay unanswered for ever.  A chunk has an end, after which its
\* continuations run and other events have their turn.
FairSpec ==
    /\ Spec
    /\ \A c \in Conns :
          /\ SF_vars(\E i \in DOMAIN tasks[c] : Oldest(c, i) /\ Answer(c, i))
          /\ WF_vars(\E i \in DOMAIN tasks[c] : StepBack(c, i))
    /\ []<>IoTurn

-----------------------------------------------------------------------------
Tile == Nat \X Nat
Position == Tile \cup {Undefined}
UserIds == Users \cup {Undefined}

UserObject ==
    [userId : UserIds, spaceId : SpaceIds \cup {Undefined},
     pos : Position, prev : Position, dims : [width : Nat, height : Nat],
     isCall : BOOLEAN]

\* An active element may stand anywhere; only those on the map can be entered.
Area ==
    [w : Int, h : Int, seatCount : {2, 9},
     seatUsers : SUBSET [userId : UserIds, seat : Tile]]

Task ==
    [at : {"space", "avatar"}, space : SpaceIds]
        \cup [at : {"token"}, key : Tile]
        \cup [at : {"refused"}]

\* A position never leaves the quarter plane, a seat is always on it, and a
\* User object is only ever in rooms that exist.
TypeOK ==
    /\ up \in BOOLEAN
    /\ open \in [Conns -> BOOLEAN]
    /\ user \in [Conns -> UserObject]
    /\ rooms \in [DOMAIN Layout -> [Conns -> Nat]]
    /\ \A key \in DOMAIN areaMap :
          key \in Int \X Int /\ areaMap[key] \in Area /\ IsFiniteSet(areaMap[key].seatUsers)
    /\ tasks \in [Conns -> Seq(Task)]
    /\ joined \in [Conns -> BOOLEAN]
    /\ told \in [Conns -> SUBSET Conns]

\* However the moves of the users interleave, and although any join rewrites
\* the areas, no area seats more users than it has seats for, no two users
\* share a seat, and every seat is a tile of its area (user.ts:371-400).
SeatsSound ==
    \A key \in DOMAIN areaMap :
        /\ Cardinality(areaMap[key].seatUsers) <= areaMap[key].seatCount
        /\ Taken(key) \subseteq SeatsOf(key)
        /\ \A r, s \in areaMap[key].seatUsers : r.seat = s.seat => r = s

\* c is in room s and no join of c is under way.
Settled(c, s) ==
    /\ open[c]
    /\ user[c].spaceId = s
    /\ c \in Members(s)
    /\ Waiting(c, "space") \cup Waiting(c, "avatar") = {}

\* In whatever order joins are sent, found and answered, also several joins of
\* one connection and several connections of one user, and whoever leaves in
\* between: two users who are settled in a room have each been sent the other,
\* in the list of space-joined or by user-joined (user.ts:96-253).
Introduced ==
    \A s \in DOMAIN Layout : \A c, d \in Conns :
        (c # d /\ Settled(c, s) /\ Settled(d, s)) => c \in told[d]

\* Except where a join puts it down, a user only ever moves to a neighbouring
\* tile, also when refused moves are taken back in the middle of further moves
\* and joins (user.ts:262-298).
NoTeleport ==
    [][(rooms' = rooms /\ up') =>
          \A c \in Conns :
              user'[c].pos # user[c].pos =>
                  user'[c].pos \in Neighbours(user[c].pos)]_vars

\* Nothing moves a user during a call, except a join: a refused move is taken
\* back before the answer to a token request can begin a call, however many
\* moves are under way (user.ts:284-298).
StillInCall ==
    [][(rooms' = rooms /\ up') =>
          \A c \in Conns : user[c].isCall => user'[c].pos = user[c].pos]_vars

\* Once a client has asked to join an existing space it is answered with
\* space-joined, unless a token names nobody and the socket is closed, or the
\* process dies.  The answer is to its first such join (user.ts:96-253).
JoinAnswered ==
    \A c \in Conns :
        (user[c].spaceId \in DOMAIN Layout) ~> (joined[c] \/ ~open[c] \/ ~up)

\* What user.ts:194-198 says of a space with no tile to put a newcomer on: "No
\* free tile available!", and the socket is closed.
NobodyNowhere == \A c \in Conns : user[c].pos = Undefined => ~open[c]

=============================================================================
