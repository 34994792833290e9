---------------------------- MODULE RoomSession ----------------------------
(***************************************************************************)
(* The rooms of one name on one node, and the sessions of one identity     *)
(* (apps/livekit/pkg/service/roommanager.go, rtc/room.go, and Close of     *)
(* rtc/participant.go).                                                    *)
(*                                                                         *)
(* Session s is one call of StartSession with its request source; its      *)
(* participant, if it gets one, is s too.  Sessions, workers, removals and *)
(* the closing of rooms are goroutines; an action is what one of them does *)
(* between two lock operations.  The map of the manager and the members of *)
(* a room have a lock each, and nobody holds both.                         *)
(*                                                                         *)
(* The room store and the message bus are left out.  So are the holds of a *)
(* room: they keep CloseIfEmpty from deciding to close it, but Close is    *)
(* called after the unlock, and DeleteRoom and Stop ask for no hold at     *)
(* all, so that a room that is on the map can close at any time after.     *)
(***************************************************************************)
EXTENDS Naturals

CONSTANTS
    Sessions,       \* calls of StartSession
    MaxRooms        \* bound on the number of Room objects

ASSUME RoomAssumption == MaxRooms \in Nat /\ 0 \notin Sessions

RoomIds == 1..MaxRooms
NoRoom == 0
Nobody == 0

VARIABLES
    \* the manager
    current,    \* RoomManager.rooms[name]
    made,       \* number of Room objects
    \* the rooms
    closed,     \* room.closed
    member,     \* room.participants[identity]
    source,     \* room.participantRequestSources[identity]
    closer,     \* "none", where Room.Close is: "people", "entry", or "done"
    request,    \* an API call is about to remove whoever holds the identity
    \* StartSession
    pc,
    room,       \* lastSeenRoom, and then the room the session works in
    peer,       \* the participant the session found or serves
    \* request sources and rtcSessionWorker
    sourceOpen,
    worker,     \* "none", "run", "act": the source was its own, "done"
    \* participants
    life,       \* "none", "open": has joined, "closed"
    removal     \* RemoveParticipant: "no", "asked", "taken": off the list

managerVars == <<current, made>>
roomVars == <<closed, member, source, closer, request>>
sessionVars == <<pc, room, peer>>
workerVars == <<sourceOpen, worker>>
peopleVars == <<life, removal>>
vars == <<managerVars, roomVars, sessionVars, workerVars, peopleVars>>

Init ==
    /\ current = NoRoom /\ made = 0
    /\ closed = [k \in RoomIds |-> FALSE]
    /\ member = [k \in RoomIds |-> Nobody]
    /\ source = [k \in RoomIds |-> Nobody]
    /\ closer = [k \in RoomIds |-> "none"]
    /\ request = [k \in RoomIds |-> FALSE]
    /\ pc = [s \in Sessions |-> "idle"]
    /\ room = [s \in Sessions |-> NoRoom]
    /\ peer = [s \in Sessions |-> Nobody]
    /\ sourceOpen = [s \in Sessions |-> FALSE]
    /\ worker = [s \in Sessions |-> "none"]
    /\ life = [s \in Sessions |-> "none"]
    /\ removal = [s \in Sessions |-> "no"]

Goto(s, where) == pc' = [pc EXCEPT ![s] = where]
At(s, where) == pc[s] = where

-----------------------------------------------------------------------------
(* Participants. *)

\* Mutant: a participant that closes is not taken off the list.
CloseParticipantOnly(p) ==
    /\ life' = [life EXCEPT ![p] = IF @ = "open" THEN "closed" ELSE @]
    /\ UNCHANGED removal

\* ParticipantImpl.Close: the state change asks the room to remove it, as long
\* as it is on the list; RemoveParticipant takes the callback away.
CloseParticipant(p) ==
    IF life[p] = "open"
    THEN /\ life' = [life EXCEPT ![p] = "closed"]
         /\ removal' = IF member[room[p]] = p /\ removal[p] = "no"
                       THEN [removal EXCEPT ![p] = "asked"] ELSE removal
    ELSE UNCHANGED peopleVars

\* RemoveParticipant, up to the unlock, when the ID does not stand against it.
TakeOff(k) ==
    /\ member' = [member EXCEPT ![k] = Nobody]
    /\ source' = [source EXCEPT ![k] = Nobody]
    /\ UNCHANGED <<closed, closer>>

\* The client leaves, its agent job ends, or it is not verified in time:
\* RemoveParticipant is called with the ID of p.
AskRemoval(p) ==
    /\ life[p] = "open"
    /\ removal[p] = "no"
    /\ removal' = [removal EXCEPT ![p] = "asked"]
    /\ UNCHANGED <<life, managerVars, roomVars, sessionVars, workerVars>>

\* Mutant: the ID is not compared.
RemovalTakesAnyone(p) ==
    LET k == room[p] IN
    /\ removal[p] = "asked"
    /\ IF member[k] # Nobody
       THEN TakeOff(k) /\ removal' = [removal EXCEPT ![p] = "no", ![member[k]] = "taken"]
       ELSE UNCHANGED <<closed, member, source, closer>> /\ removal' = [removal EXCEPT ![p] = "no"]
    /\ UNCHANGED <<request, life, managerVars, sessionVars, workerVars>>

\* Only p itself is taken off: "participant session has been replaced".
RemovalTakes(p) ==
    LET k == room[p] IN
    /\ removal[p] = "asked"
    /\ IF member[k] = p
       THEN TakeOff(k) /\ removal' = [removal EXCEPT ![p] = "taken"]
       ELSE UNCHANGED <<closed, member, source, closer>> /\ removal' = [removal EXCEPT ![p] = "no"]
    /\ UNCHANGED <<request, life, managerVars, sessionVars, workerVars>>

RemovalCloses(p) ==
    /\ removal[p] = "taken"
    /\ life' = [life EXCEPT ![p] = "closed"]
    /\ removal' = [removal EXCEPT ![p] = "no"]
    /\ UNCHANGED <<managerVars, roomVars, sessionVars, workerVars>>

\* RoomManager.RemoveParticipant found the room, which was on the map then, and
\* has found somebody with the identity in it.
ApiAsks(k) ==
    /\ k <= made
    /\ member[k] # Nobody
    /\ request' = [request EXCEPT ![k] = TRUE]
    /\ UNCHANGED <<closed, member, source, closer, managerVars, sessionVars, workerVars,
                   peopleVars>>

\* It calls the RemoveParticipant of the room without an ID: whoever holds the
\* identity by now is taken off.
ApiTakes(k) ==
    /\ request[k]
    /\ request' = [request EXCEPT ![k] = FALSE]
    /\ IF member[k] # Nobody
       THEN TakeOff(k) /\ removal' = [removal EXCEPT ![member[k]] = "taken"]
       ELSE UNCHANGED <<closed, member, source, closer, removal>>
    /\ UNCHANGED <<life, managerVars, sessionVars, workerVars>>

\* The peer connection fails, or the participant needs a full reconnect.
Fails(p) ==
    /\ life[p] = "open"
    /\ CloseParticipant(p)
    /\ UNCHANGED <<managerVars, roomVars, sessionVars, workerVars>>

-----------------------------------------------------------------------------
(* getOrCreateRoom. *)

Begin(s) ==
    /\ At(s, "idle")
    /\ sourceOpen' = [sourceOpen EXCEPT ![s] = TRUE]
    /\ room' = [room EXCEPT ![s] = current]
    /\ Goto(s, IF current = NoRoom THEN "install" ELSE "hold")
    /\ UNCHANGED <<peer, worker, managerVars, roomVars, peopleVars>>

\* Hold refuses a closed room: make a new one, or look again.
Hold(s) ==
    /\ At(s, "hold")
    /\ Goto(s, IF closed[room[s]] THEN "install" ELSE "inside")
    /\ UNCHANGED <<room, peer, managerVars, roomVars, workerVars, peopleVars>>

\* Mutant: the new entry is not compared with nil.
SeesOtherUnchecked(s) ==
    /\ At(s, "install")
    /\ current # room[s]
    /\ room' = [room EXCEPT ![s] = current]
    /\ Goto(s, "hold")
    /\ UNCHANGED <<peer, managerVars, roomVars, workerVars, peopleVars>>

\* Somebody else has changed the entry meanwhile.
SeesOther(s) ==
    /\ At(s, "install")
    /\ current # room[s]
    /\ room' = [room EXCEPT ![s] = current]
    /\ Goto(s, IF current = NoRoom THEN "install" ELSE "hold")
    /\ UNCHANGED <<peer, managerVars, roomVars, workerVars, peopleVars>>

\* Mutant: the entry is not looked at again after the room was allocated.
InstallBlind(s) ==
    /\ At(s, "install")
    /\ made < MaxRooms
    /\ made' = made + 1
    /\ current' = made'
    /\ room' = [room EXCEPT ![s] = made']
    /\ Goto(s, "inside")
    /\ UNCHANGED <<peer, roomVars, workerVars, peopleVars>>

\* The result of Hold on the new room is not looked at.
Install(s) ==
    /\ At(s, "install")
    /\ current = room[s]
    /\ made < MaxRooms
    /\ made' = made + 1
    /\ current' = made'
    /\ room' = [room EXCEPT ![s] = made']
    /\ Goto(s, "inside")
    /\ UNCHANGED <<peer, roomVars, workerVars, peopleVars>>

\* The allocator or the message bus fails.
RoomFails(s) ==
    /\ At(s, "install")
    /\ Goto(s, "done")
    /\ UNCHANGED <<room, peer, managerVars, roomVars, workerVars, peopleVars>>

-----------------------------------------------------------------------------
(* The rest of StartSession. *)

\* Nobody to join, nobody to resume, or no participant can be made.
Refuses(s) ==
    /\ At(s, "inside")
    /\ Goto(s, "done")
    /\ UNCHANGED <<room, peer, managerVars, roomVars, workerVars, peopleVars>>

FindsNobody(s) ==
    /\ At(s, "inside")
    /\ member[room[s]] = Nobody
    /\ Goto(s, "join")
    /\ UNCHANGED <<room, peer, managerVars, roomVars, workerVars, peopleVars>>

FindsDuplicate(s) ==
    /\ At(s, "inside")
    /\ member[room[s]] # Nobody
    /\ peer' = [peer EXCEPT ![s] = member[room[s]]]
    /\ Goto(s, "duplicate")
    /\ UNCHANGED <<room, managerVars, roomVars, workerVars, peopleVars>>

FindsOwn(s) ==
    /\ At(s, "inside")
    /\ member[room[s]] # Nobody
    /\ life[member[room[s]]] = "open"
    /\ peer' = [peer EXCEPT ![s] = member[room[s]]]
    /\ Goto(s, "resume")
    /\ UNCHANGED <<room, managerVars, roomVars, workerVars, peopleVars>>

\* RemoveParticipant of the duplicate, its two halves.
TakesDuplicate(s) ==
    /\ At(s, "duplicate")
    /\ IF member[room[s]] = peer[s]
       THEN TakeOff(room[s]) /\ Goto(s, "replace")
       ELSE UNCHANGED <<closed, member, source, closer>> /\ Goto(s, "join")
    /\ UNCHANGED <<request, room, peer, managerVars, workerVars, peopleVars>>

ClosesDuplicate(s) ==
    /\ At(s, "replace")
    /\ life' = [life EXCEPT ![peer[s]] = "closed"]
    /\ Goto(s, "join")
    /\ UNCHANGED <<removal, room, peer, managerVars, roomVars, workerVars>>

\* Mutant: Join does not look whether the room is closed.
JoinClosed(s) ==
    /\ At(s, "join")
    /\ member[room[s]] = Nobody
    /\ member' = [member EXCEPT ![room[s]] = s]
    /\ source' = [source EXCEPT ![room[s]] = s]
    /\ life' = [life EXCEPT ![s] = "open"]
    /\ peer' = [peer EXCEPT ![s] = s]
    /\ Goto(s, "joined")
    /\ UNCHANGED <<closed, closer, request, room, removal, managerVars, workerVars>>

\* Room.Join, under the lock of the room.
Join(s) ==
    /\ At(s, "join")
    /\ ~closed[room[s]]
    /\ member[room[s]] = Nobody
    /\ member' = [member EXCEPT ![room[s]] = s]
    /\ source' = [source EXCEPT ![room[s]] = s]
    /\ life' = [life EXCEPT ![s] = "open"]
    /\ peer' = [peer EXCEPT ![s] = s]
    /\ Goto(s, "joined")
    /\ UNCHANGED <<closed, closer, request, room, removal, managerVars, workerVars>>

\* ErrRoomClosed, ErrAlreadyJoined: the participant was never seen by anybody.
JoinRefused(s) ==
    /\ At(s, "join")
    /\ closed[room[s]] \/ member[room[s]] # Nobody
    /\ Goto(s, "done")
    /\ UNCHANGED <<room, peer, managerVars, roomVars, workerVars, peopleVars>>

\* The join response cannot be sent, or the message bus fails.
JoinUndone(s) ==
    /\ At(s, "joined")
    /\ CloseParticipant(s)
    /\ Goto(s, "done")
    /\ UNCHANGED <<room, peer, managerVars, roomVars, workerVars>>

StartWorker(s) ==
    /\ At(s, "joined")
    /\ worker' = [worker EXCEPT ![s] = "run"]
    /\ Goto(s, "done")
    /\ UNCHANGED <<room, peer, sourceOpen, managerVars, roomVars, peopleVars>>

\* ReplaceParticipantRequestSource goes by the identity alone.  Without a
\* response to the client there is no worker.
Resume(s) ==
    /\ At(s, "resume")
    /\ LET old == source[room[s]] IN
       sourceOpen' = IF old = Nobody THEN sourceOpen ELSE [sourceOpen EXCEPT ![old] = FALSE]
    /\ source' = [source EXCEPT ![room[s]] = s]
    /\ \/ worker' = [worker EXCEPT ![s] = "run"]
       \/ UNCHANGED worker
    /\ Goto(s, "done")
    /\ UNCHANGED <<closed, member, closer, request, room, peer, managerVars, peopleVars>>

-----------------------------------------------------------------------------
(* The clients and rtcSessionWorker. *)

SourceCloses(s) ==
    /\ sourceOpen[s]
    /\ sourceOpen' = [sourceOpen EXCEPT ![s] = FALSE]
    /\ UNCHANGED <<worker, managerVars, roomVars, sessionVars, peopleVars>>

\* The participant is gone, or a message cannot be handled.
WorkerReturns(s) ==
    /\ worker[s] = "run"
    /\ life[peer[s]] = "closed" \/ sourceOpen[s]
    /\ worker' = [worker EXCEPT ![s] = "done"]
    /\ sourceOpen' = [sourceOpen EXCEPT ![s] = FALSE]
    /\ UNCHANGED <<managerVars, roomVars, sessionVars, peopleVars>>

WorkerSeesClose(s) ==
    /\ worker[s] = "run"
    /\ ~sourceOpen[s]
    /\ worker' = [worker EXCEPT ![s] = IF source[room[s]] = s THEN "act" ELSE "done"]
    /\ UNCHANGED <<sourceOpen, managerVars, roomVars, sessionVars, peopleVars>>

\* HandleSignalSourceClose: one that has never connected is closed.
WorkerActs(s) ==
    /\ worker[s] = "act"
    /\ worker' = [worker EXCEPT ![s] = "done"]
    /\ CloseParticipant(peer[s]) \/ UNCHANGED peopleVars
    /\ UNCHANGED <<sourceOpen, managerVars, roomVars, sessionVars>>

-----------------------------------------------------------------------------
(* The end of a room. *)

\* Room.Close, called by CloseIfEmpty, DeleteRoom or Stop, each with a room that
\* it found on the map before.
CloseRoom(k) ==
    /\ k <= made
    /\ ~closed[k]
    /\ closed' = [closed EXCEPT ![k] = TRUE]
    /\ closer' = [closer EXCEPT ![k] = "people"]
    /\ UNCHANGED <<member, source, request, managerVars, sessionVars, workerVars, peopleVars>>

ClosePeople(k) ==
    /\ closer[k] = "people"
    /\ closer' = [closer EXCEPT ![k] = "entry"]
    /\ IF member[k] = Nobody THEN UNCHANGED peopleVars ELSE CloseParticipant(member[k])
    /\ UNCHANGED <<closed, member, source, request, managerVars, sessionVars, workerVars>>

\* The onClose callback: deleteRoom goes by the name.
DeleteEntry(k) ==
    /\ closer[k] = "entry"
    /\ closer' = [closer EXCEPT ![k] = "done"]
    /\ current' = NoRoom
    /\ UNCHANGED <<made, closed, member, source, request, sessionVars, workerVars,
                   peopleVars>>

-----------------------------------------------------------------------------

GetRoom(s) ==
    Hold(s) \/ SeesOther(s) \/ Install(s) \/ RoomFails(s)

StartSession(s) ==
    \/ GetRoom(s) \/ Refuses(s)
    \/ FindsNobody(s) \/ FindsDuplicate(s) \/ FindsOwn(s)
    \/ TakesDuplicate(s) \/ ClosesDuplicate(s)
    \/ Join(s) \/ JoinRefused(s) \/ JoinUndone(s) \/ StartWorker(s) \/ Resume(s)

Worker(s) == WorkerReturns(s) \/ WorkerSeesClose(s) \/ WorkerActs(s)
Removal(p) == RemovalTakes(p) \/ RemovalCloses(p)
Closing(k) == ClosePeople(k) \/ DeleteEntry(k)

Next ==
    \/ \E s \in Sessions :
        \/ Begin(s) \/ StartSession(s) \/ SourceCloses(s) \/ Worker(s)
        \/ AskRemoval(s) \/ Removal(s) \/ Fails(s)
    \/ \E k \in RoomIds : CloseRoom(k) \/ Closing(k) \/ ApiAsks(k) \/ ApiTakes(k)

Spec == Init /\ [][Next]_vars

\* Every goroutine that was started runs.  Clients, API calls and the idle
\* check owe nothing.
FairSpec ==
    /\ Spec
    /\ \A s \in Sessions : WF_vars(StartSession(s)) /\ WF_vars(Worker(s)) /\ WF_vars(Removal(s))
    /\ \A k \in RoomIds : WF_vars(Closing(k))

-----------------------------------------------------------------------------
Points == {"idle", "hold", "install", "inside", "join", "resume", "duplicate", "replace",
           "joined", "done"}

RoomTypes ==
    /\ made \in 0..MaxRooms /\ current \in 0..made
    /\ closed \in [RoomIds -> BOOLEAN]
    /\ member \in [RoomIds -> Sessions \cup {Nobody}]
    /\ source \in [RoomIds -> Sessions \cup {Nobody}]
    /\ closer \in [RoomIds -> {"none", "people", "entry", "done"}]
    /\ request \in [RoomIds -> BOOLEAN]

SessionTypes ==
    /\ pc \in [Sessions -> Points]
    /\ room \in [Sessions -> 0..made]
    /\ peer \in [Sessions -> Sessions \cup {Nobody}]
    /\ sourceOpen \in [Sessions -> BOOLEAN]
    /\ worker \in [Sessions -> {"none", "run", "act", "done"}]
    /\ life \in [Sessions -> {"none", "open", "closed"}]
    /\ removal \in [Sessions -> {"no", "asked", "taken"}]

\* The variables keep their types.  A session that is past the lookup has a
\* room, and one that has found or made a participant still knows it.
TypeOK ==
    /\ RoomTypes
    /\ SessionTypes
    /\ \A s \in Sessions :
        /\ pc[s] \notin {"idle", "install", "done"} => room[s] # NoRoom
        /\ pc[s] \in {"resume", "duplicate", "replace", "joined"} => peer[s] # Nobody
        /\ worker[s] # "none" => room[s] # NoRoom /\ peer[s] # Nobody
        /\ life[s] # "none" => room[s] # NoRoom

\* Whatever joins while a room closes is closed with it: once Close has gone
\* through the participants, none that is still on the list is open
\* (room.go:440-442 against 849-865).
ClosedRoomEmpty ==
    \A k \in RoomIds :
        closer[k] \in {"entry", "done"} /\ member[k] # Nobody => life[member[k]] = "closed"

\* A session that makes a new room never pushes an open one out of the map,
\* however long ago it looked (roommanager.go:560-587).
NoDisplacement ==
    [][current # NoRoom /\ current' # current /\ current' # NoRoom => closed[current]]_vars

\* Whoever is taken off the list of a room was meant: a removal was asked for
\* under its own ID, a session found it as its duplicate, or the API asked for
\* the identity.  A removal that comes late, when the identity has joined again,
\* spares the successor (room.go:1286-1290, 506-511, roommanager.go:376).
SuccessorSpared ==
    [][\A k \in RoomIds : member[k] # Nobody /\ member'[k] # member[k] =>
           \/ removal[member[k]] = "asked"
           \/ \E s \in Sessions : At(s, "duplicate") /\ peer[s] = member[k]
           \/ request[k] /\ ~request'[k]]_vars

\* An open participant that is off the list of its room, or whose room is
\* closed, is closed in the end, and a closed one leaves the list
\* (room.go:1274-1365, 506-509, 849-871; participant.go:1494-1552).
NoGhosts ==
    \A s \in Sessions :
        (life[s] # "none" /\ (life[s] = "closed" \/ closed[room[s]] \/ member[room[s]] # s))
            ~> (life[s] = "closed" /\ member[room[s]] # s)

\* An open room with a participant is the one that its name leads to: sessions,
\* API calls and the idle check find it (roommanager.go:182-187).  Not an
\* invariant: the end of a room deletes the entry of its successor (README, 5).
Reachable ==
    \A k \in RoomIds : ~closed[k] /\ member[k] # Nobody => current = k

=============================================================================
