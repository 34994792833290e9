------------------------- MODULE RoomSession_proofs -------------------------
(***************************************************************************)
(* What RoomSession promises, for every set of sessions and every number   *)
(* of rooms: its types, that a closed room keeps nobody open, and that no  *)
(* session pushes an open room off the map, and that a late removal spares *)
(* the successor.                                                          *)
(***************************************************************************)
EXTENDS RoomSession, TLAPS

\* The last part of TypeOK.
Placed ==
    \A s \in Sessions :
        /\ pc[s] \notin {"idle", "install", "done"} => room[s] # NoRoom
        /\ pc[s] \in {"resume", "duplicate", "replace", "joined"} => peer[s] # Nobody
        /\ worker[s] # "none" => room[s] # NoRoom /\ peer[s] # Nobody
        /\ life[s] # "none" => room[s] # NoRoom

\* A session that wants to make a room has seen none, or a closed one.
Lookup ==
    \A s \in Sessions : pc[s] = "install" => room[s] = NoRoom \/ closed[room[s]]

\* Who is on the list of a room has joined that room and no other.
Members ==
    \A k \in RoomIds : member[k] # Nobody =>
        /\ member[k] \in Sessions
        /\ room[member[k]] = k
        /\ life[member[k]] # "none"

\* A participant comes to life in Join, and only then is there anything to
\* remove, to take over or to serve.
Alive ==
    \A s \in Sessions :
        /\ life[s] # "none" => pc[s] \in {"joined", "done"}
        /\ removal[s] # "no" => life[s] # "none"
        /\ pc[s] \in {"duplicate", "replace"} => peer[s] \in Sessions /\ life[peer[s]] # "none"
        /\ worker[s] # "none" => pc[s] = "done"

\* A room that is being closed is closed, and once its participants have been
\* closed nobody on its list is open.
Closers ==
    \A k \in RoomIds :
        /\ closer[k] # "none" => closed[k]
        /\ closer[k] \in {"entry", "done"} /\ member[k] # Nobody => life[member[k]] = "closed"

\* The inductive invariant.
IInv == RoomTypes /\ SessionTypes /\ Placed /\ Lookup /\ Members /\ Alive /\ Closers

USE RoomAssumption DEF RoomIds, NoRoom, Nobody, managerVars, roomVars, sessionVars, workerVars, peopleVars

LEMMA InitIInv == Init => IInv
BY DEF Init, IInv, RoomTypes, SessionTypes, Placed, Lookup, Members, Alive, Closers, Points

\* A session that works in a room works in one that exists.
LEMMA RoomExists ==
    ASSUME NEW s \in Sessions, IInv, pc[s] \notin {"idle", "install", "done"} \/ life[s] # "none"
    PROVE  room[s] \in RoomIds /\ member[room[s]] \in Sessions \cup {Nobody}
<1>1. room[s] \in 0..made /\ made \in 0..MaxRooms
    BY DEF IInv, RoomTypes, SessionTypes
<1>2. room[s] # NoRoom
    BY DEF IInv, Placed
<1>3. room[s] \in RoomIds
    BY <1>1, <1>2
<1> QED BY <1>3 DEF IInv, RoomTypes

LEMMA BeginKeeps == ASSUME NEW s \in Sessions, IInv, Begin(s) PROVE IInv'
<1>1. RoomTypes'
    BY DEF IInv, RoomTypes, SessionTypes, Placed, Alive, Members, Begin, Goto, At
<1>2. SessionTypes'
    BY DEF IInv, RoomTypes, SessionTypes, Placed, Points, Begin, Goto, At
<1>3. Placed'
    BY DEF IInv, RoomTypes, SessionTypes, Placed, Alive, Members, Begin, Goto, At
<1>4. Lookup'
    BY DEF IInv, RoomTypes, SessionTypes, Lookup, Begin, Goto, At
<1>5. Members'
    BY DEF IInv, RoomTypes, SessionTypes, Members, Alive, Placed, Begin, Goto, At
<1>6. Alive'
    BY DEF IInv, RoomTypes, SessionTypes, Alive, Members, Placed, Begin, Goto, At
<1>7. Closers'
    BY DEF IInv, RoomTypes, SessionTypes, Closers, Members, Alive, Placed, Begin, Goto, At
<1> QED BY <1>1, <1>2, <1>3, <1>4, <1>5, <1>6, <1>7 DEF IInv

LEMMA HoldKeeps == ASSUME NEW s \in Sessions, IInv, Hold(s) PROVE IInv'
<1>1. RoomTypes'
    BY DEF IInv, RoomTypes, SessionTypes, Placed, Alive, Members, Hold, Goto, At
<1>2. SessionTypes'
    BY DEF IInv, RoomTypes, SessionTypes, Placed, Points, Hold, Goto, At
<1>3. Placed'
    BY DEF IInv, RoomTypes, SessionTypes, Placed, Alive, Members, Hold, Goto, At
<1>4. Lookup'
    BY DEF IInv, RoomTypes, SessionTypes, Lookup, Hold, Goto, At
<1>5. Members'
    BY DEF IInv, RoomTypes, SessionTypes, Members, Alive, Placed, Hold, Goto, At
<1>6. Alive'
    BY DEF IInv, RoomTypes, SessionTypes, Alive, Members, Placed, Hold, Goto, At
<1>7. Closers'
    BY DEF IInv, RoomTypes, SessionTypes, Closers, Members, Alive, Placed, Hold, Goto, At
<1> QED BY <1>1, <1>2, <1>3, <1>4, <1>5, <1>6, <1>7 DEF IInv

LEMMA SeesOtherKeeps == ASSUME NEW s \in Sessions, IInv, SeesOther(s) PROVE IInv'
<1>1. RoomTypes'
    BY DEF IInv, RoomTypes, SessionTypes, Placed, Alive, Members, SeesOther, Goto, At
<1>2. SessionTypes'
    BY DEF IInv, RoomTypes, SessionTypes, Placed, Points, SeesOther, Goto, At
<1>3. Placed'
    BY DEF IInv, RoomTypes, SessionTypes, Placed, Alive, Members, SeesOther, Goto, At
<1>4. Lookup'
    BY DEF IInv, RoomTypes, SessionTypes, Lookup, SeesOther, Goto, At
<1>5. Members'
    BY DEF IInv, RoomTypes, SessionTypes, Members, Alive, Placed, SeesOther, Goto, At
<1>6. Alive'
    BY DEF IInv, RoomTypes, SessionTypes, Alive, Members, Placed, SeesOther, Goto, At
<1>7. Closers'
    BY DEF IInv, RoomTypes, SessionTypes, Closers, Members, Alive, Placed, SeesOther, Goto, At
<1> QED BY <1>1, <1>2, <1>3, <1>4, <1>5, <1>6, <1>7 DEF IInv

LEMMA InstallKeeps == ASSUME NEW s \in Sessions, IInv, Install(s) PROVE IInv'
<1>1. RoomTypes'
    BY DEF IInv, RoomTypes, SessionTypes, Placed, Alive, Members, Install, Goto, At
<1>2. SessionTypes'
    BY DEF IInv, RoomTypes, SessionTypes, Placed, Points, Install, Goto, At
<1>3. Placed'
    BY DEF IInv, RoomTypes, SessionTypes, Placed, Alive, Members, Install, Goto, At
<1>4. Lookup'
    BY DEF IInv, RoomTypes, SessionTypes, Lookup, Install, Goto, At
<1>5. Members'
    BY DEF IInv, RoomTypes, SessionTypes, Members, Alive, Placed, Install, Goto, At
<1>6. Alive'
    BY DEF IInv, RoomTypes, SessionTypes, Alive, Members, Placed, Install, Goto, At
<1>7. Closers'
    BY DEF IInv, RoomTypes, SessionTypes, Closers, Members, Alive, Placed, Install, Goto, At
<1> QED BY <1>1, <1>2, <1>3, <1>4, <1>5, <1>6, <1>7 DEF IInv

LEMMA RoomFailsKeeps == ASSUME NEW s \in Sessions, IInv, RoomFails(s) PROVE IInv'
<1>1. RoomTypes'
    BY DEF IInv, RoomTypes, SessionTypes, Placed, Alive, Members, RoomFails, Goto, At
<1>2. SessionTypes'
    BY DEF IInv, RoomTypes, SessionTypes, Placed, Points, RoomFails, Goto, At
<1>3. Placed'
    BY DEF IInv, RoomTypes, SessionTypes, Placed, Alive, Members, RoomFails, Goto, At
<1>4. Lookup'
    BY DEF IInv, RoomTypes, SessionTypes, Lookup, RoomFails, Goto, At
<1>5. Members'
    BY DEF IInv, RoomTypes, SessionTypes, Members, Alive, Placed, RoomFails, Goto, At
<1>6. Alive'
    BY DEF IInv, RoomTypes, SessionTypes, Alive, Members, Placed, RoomFails, Goto, At
<1>7. Closers'
    BY DEF IInv, RoomTypes, SessionTypes, Closers, Members, Alive, Placed, RoomFails, Goto, At
<1> QED BY <1>1, <1>2, <1>3, <1>4, <1>5, <1>6, <1>7 DEF IInv

LEMMA RefusesKeeps == ASSUME NEW s \in Sessions, IInv, Refuses(s) PROVE IInv'
<1>1. RoomTypes'
    BY DEF IInv, RoomTypes, SessionTypes, Placed, Alive, Members, Refuses, Goto, At
<1>2. SessionTypes'
    BY DEF IInv, RoomTypes, SessionTypes, Placed, Points, Refuses, Goto, At
<1>3. Placed'
    BY DEF IInv, RoomTypes, SessionTypes, Placed, Alive, Members, Refuses, Goto, At
<1>4. Lookup'
    BY DEF IInv, RoomTypes, SessionTypes, Lookup, Refuses, Goto, At
<1>5. Members'
    BY DEF IInv, RoomTypes, SessionTypes, Members, Alive, Placed, Refuses, Goto, At
<1>6. Alive'
    BY DEF IInv, RoomTypes, SessionTypes, Alive, Members, Placed, Refuses, Goto, At
<1>7. Closers'
    BY DEF IInv, RoomTypes, SessionTypes, Closers, Members, Alive, Placed, Refuses, Goto, At
<1> QED BY <1>1, <1>2, <1>3, <1>4, <1>5, <1>6, <1>7 DEF IInv

LEMMA FindsNobodyKeeps == ASSUME NEW s \in Sessions, IInv, FindsNobody(s) PROVE IInv'
<1>1. RoomTypes'
    BY DEF IInv, RoomTypes, SessionTypes, Placed, Alive, Members, FindsNobody, Goto, At
<1>2. SessionTypes'
    BY DEF IInv, RoomTypes, SessionTypes, Placed, Points, FindsNobody, Goto, At
<1>3. Placed'
    BY DEF IInv, RoomTypes, SessionTypes, Placed, Alive, Members, FindsNobody, Goto, At
<1>4. Lookup'
    BY DEF IInv, RoomTypes, SessionTypes, Lookup, FindsNobody, Goto, At
<1>5. Members'
    BY DEF IInv, RoomTypes, SessionTypes, Members, Alive, Placed, FindsNobody, Goto, At
<1>6. Alive'
    BY DEF IInv, RoomTypes, SessionTypes, Alive, Members, Placed, FindsNobody, Goto, At
<1>7. Closers'
    BY DEF IInv, RoomTypes, SessionTypes, Closers, Members, Alive, Placed, FindsNobody, Goto, At
<1> QED BY <1>1, <1>2, <1>3, <1>4, <1>5, <1>6, <1>7 DEF IInv

LEMMA FindsDuplicateKeeps == ASSUME NEW s \in Sessions, IInv, FindsDuplicate(s) PROVE IInv'
<1>a. room[s] \in RoomIds /\ member[room[s]] \in Sessions \cup {Nobody}
    BY RoomExists DEF FindsDuplicate, At
<1>1. RoomTypes'
    BY <1>a DEF IInv, RoomTypes, SessionTypes, Placed, Alive, Members, FindsDuplicate, Goto, At
<1>2. SessionTypes'
    BY <1>a DEF IInv, RoomTypes, SessionTypes, Placed, Points, FindsDuplicate, Goto, At
<1>3. Placed'
    BY <1>a DEF IInv, RoomTypes, SessionTypes, Placed, Alive, Members, FindsDuplicate, Goto, At
<1>4. Lookup'
    BY <1>a DEF IInv, RoomTypes, SessionTypes, Lookup, FindsDuplicate, Goto, At
<1>5. Members'
    BY <1>a DEF IInv, RoomTypes, SessionTypes, Members, Alive, Placed, FindsDuplicate, Goto, At
<1>6. Alive'
    BY <1>a DEF IInv, RoomTypes, SessionTypes, Alive, Members, Placed, FindsDuplicate, Goto, At
<1>7. Closers'
    BY <1>a DEF IInv, RoomTypes, SessionTypes, Closers, Members, Alive, Placed, FindsDuplicate, Goto, At
<1> QED BY <1>1, <1>2, <1>3, <1>4, <1>5, <1>6, <1>7 DEF IInv

LEMMA FindsOwnKeeps == ASSUME NEW s \in Sessions, IInv, FindsOwn(s) PROVE IInv'
<1>a. room[s] \in RoomIds /\ member[room[s]] \in Sessions \cup {Nobody}
    BY RoomExists DEF FindsOwn, At
<1>1. RoomTypes'
    BY <1>a DEF IInv, RoomTypes, SessionTypes, Placed, Alive, Members, FindsOwn, Goto, At
<1>2. SessionTypes'
    BY <1>a DEF IInv, RoomTypes, SessionTypes, Placed, Points, FindsOwn, Goto, At
<1>3. Placed'
    BY <1>a DEF IInv, RoomTypes, SessionTypes, Placed, Alive, Members, FindsOwn, Goto, At
<1>4. Lookup'
    BY <1>a DEF IInv, RoomTypes, SessionTypes, Lookup, FindsOwn, Goto, At
<1>5. Members'
    BY <1>a DEF IInv, RoomTypes, SessionTypes, Members, Alive, Placed, FindsOwn, Goto, At
<1>6. Alive'
    BY <1>a DEF IInv, RoomTypes, SessionTypes, Alive, Members, Placed, FindsOwn, Goto, At
<1>7. Closers'
    BY <1>a DEF IInv, RoomTypes, SessionTypes, Closers, Members, Alive, Placed, FindsOwn, Goto, At
<1> QED BY <1>1, <1>2, <1>3, <1>4, <1>5, <1>6, <1>7 DEF IInv

LEMMA TakesDuplicateKeeps == ASSUME NEW s \in Sessions, IInv, TakesDuplicate(s) PROVE IInv'
<1>a. room[s] \in RoomIds /\ member[room[s]] \in Sessions \cup {Nobody}
    BY RoomExists DEF TakesDuplicate, At
<1>b. /\ \/ UNCHANGED <<closed, member, source, closer>>
         \/ /\ member' = [member EXCEPT ![room[s]] = Nobody]
            /\ source' = [source EXCEPT ![room[s]] = Nobody]
            /\ UNCHANGED <<closed, closer>>
      /\ UNCHANGED request
    BY Zenon DEF TakesDuplicate, TakeOff
<1>c. UNCHANGED <<made, current>>
    BY DEF TakesDuplicate
<1>1. RoomTypes'
    <2>1. CASE UNCHANGED <<closed, member, source, closer>>
        BY <1>b, <1>c, <2>1 DEF IInv, RoomTypes
    <2>2. CASE ~ UNCHANGED <<closed, member, source, closer>>
        BY <1>a, <1>b, <1>c, <2>2 DEF IInv, RoomTypes
    <2> QED BY <2>1, <2>2
<1>2. SessionTypes'
    BY <1>a, <1>b DEF IInv, RoomTypes, SessionTypes, Placed, Points, TakesDuplicate, Goto, At
<1>3. Placed'
    BY <1>a, <1>b DEF IInv, RoomTypes, SessionTypes, Placed, Alive, Members, TakesDuplicate, Goto, At
<1>4. Lookup'
    BY <1>a, <1>b DEF IInv, RoomTypes, SessionTypes, Lookup, TakesDuplicate, Goto, At
<1>5. Members'
    BY <1>a, <1>b DEF IInv, RoomTypes, SessionTypes, Members, Alive, Placed, TakesDuplicate, Goto, At
<1>6. Alive'
    BY <1>a, <1>b DEF IInv, RoomTypes, SessionTypes, Alive, Members, Placed, TakesDuplicate, Goto, At
<1>7. Closers'
    BY <1>a, <1>b DEF IInv, RoomTypes, SessionTypes, Closers, TakesDuplicate, roomVars, peopleVars
<1> QED BY <1>1, <1>2, <1>3, <1>4, <1>5, <1>6, <1>7 DEF IInv

LEMMA ClosesDuplicateKeeps == ASSUME NEW s \in Sessions, IInv, ClosesDuplicate(s) PROVE IInv'
<1>1. RoomTypes'
    BY DEF IInv, RoomTypes, SessionTypes, Placed, Alive, Members, ClosesDuplicate, Goto, At
<1>2. SessionTypes'
    BY DEF IInv, RoomTypes, SessionTypes, Placed, Points, ClosesDuplicate, Goto, At
<1>3. Placed'
    BY DEF IInv, RoomTypes, SessionTypes, Placed, Alive, Members, ClosesDuplicate, Goto, At
<1>4. Lookup'
    BY DEF IInv, RoomTypes, SessionTypes, Lookup, ClosesDuplicate, Goto, At
<1>5. Members'
    BY DEF IInv, RoomTypes, SessionTypes, Members, Alive, Placed, ClosesDuplicate, Goto, At
<1>6. Alive'
    BY DEF IInv, RoomTypes, SessionTypes, Alive, Members, Placed, ClosesDuplicate, Goto, At
<1>7. Closers'
    BY DEF IInv, RoomTypes, SessionTypes, Closers, Members, Alive, Placed, ClosesDuplicate, Goto, At
<1> QED BY <1>1, <1>2, <1>3, <1>4, <1>5, <1>6, <1>7 DEF IInv

LEMMA JoinKeeps == ASSUME NEW s \in Sessions, IInv, Join(s) PROVE IInv'
<1>1. RoomTypes'
    BY DEF IInv, RoomTypes, SessionTypes, Placed, Alive, Members, Join, Goto, At
<1>2. SessionTypes'
    BY DEF IInv, RoomTypes, SessionTypes, Placed, Points, Join, Goto, At
<1>3. Placed'
    BY DEF IInv, RoomTypes, SessionTypes, Placed, Alive, Members, Join, Goto, At
<1>4. Lookup'
    BY DEF IInv, RoomTypes, SessionTypes, Lookup, Join, Goto, At
<1>5. Members'
    BY DEF IInv, RoomTypes, SessionTypes, Members, Alive, Placed, Join, Goto, At
<1>6. Alive'
    BY DEF IInv, RoomTypes, SessionTypes, Alive, Members, Placed, Join, Goto, At
<1>7. Closers'
    BY DEF IInv, RoomTypes, SessionTypes, Closers, Members, Alive, Placed, Join, Goto, At
<1> QED BY <1>1, <1>2, <1>3, <1>4, <1>5, <1>6, <1>7 DEF IInv

LEMMA JoinRefusedKeeps == ASSUME NEW s \in Sessions, IInv, JoinRefused(s) PROVE IInv'
<1>1. RoomTypes'
    BY DEF IInv, RoomTypes, SessionTypes, Placed, Alive, Members, JoinRefused, Goto, At
<1>2. SessionTypes'
    BY DEF IInv, RoomTypes, SessionTypes, Placed, Points, JoinRefused, Goto, At
<1>3. Placed'
    BY DEF IInv, RoomTypes, SessionTypes, Placed, Alive, Members, JoinRefused, Goto, At
<1>4. Lookup'
    BY DEF IInv, RoomTypes, SessionTypes, Lookup, JoinRefused, Goto, At
<1>5. Members'
    BY DEF IInv, RoomTypes, SessionTypes, Members, Alive, Placed, JoinRefused, Goto, At
<1>6. Alive'
    BY DEF IInv, RoomTypes, SessionTypes, Alive, Members, Placed, JoinRefused, Goto, At
<1>7. Closers'
    BY DEF IInv, RoomTypes, SessionTypes, Closers, Members, Alive, Placed, JoinRefused, Goto, At
<1> QED BY <1>1, <1>2, <1>3, <1>4, <1>5, <1>6, <1>7 DEF IInv

LEMMA JoinUndoneKeeps == ASSUME NEW s \in Sessions, IInv, JoinUndone(s) PROVE IInv'
<1>1. RoomTypes'
    BY DEF IInv, RoomTypes, SessionTypes, Placed, Alive, Members, JoinUndone, CloseParticipant, Goto, At
<1>2. SessionTypes'
    BY DEF IInv, RoomTypes, SessionTypes, Placed, Points, JoinUndone, CloseParticipant, Goto, At
<1>3. Placed'
    BY DEF IInv, RoomTypes, SessionTypes, Placed, Alive, Members, JoinUndone, CloseParticipant, Goto, At
<1>4. Lookup'
    BY DEF IInv, RoomTypes, SessionTypes, Lookup, JoinUndone, CloseParticipant, Goto, At
<1>5. Members'
    BY DEF IInv, RoomTypes, SessionTypes, Members, Alive, Placed, JoinUndone, CloseParticipant, Goto, At
<1>6. Alive'
    BY DEF IInv, RoomTypes, SessionTypes, Alive, Members, Placed, JoinUndone, CloseParticipant, Goto, At
<1>7. Closers'
    BY DEF IInv, RoomTypes, SessionTypes, Closers, Members, Alive, Placed, JoinUndone, CloseParticipant, Goto, At
<1> QED BY <1>1, <1>2, <1>3, <1>4, <1>5, <1>6, <1>7 DEF IInv

LEMMA StartWorkerKeeps == ASSUME NEW s \in Sessions, IInv, StartWorker(s) PROVE IInv'
<1>1. RoomTypes'
    BY DEF IInv, RoomTypes, SessionTypes, Placed, Alive, Members, StartWorker, Goto, At
<1>2. SessionTypes'
    BY DEF IInv, RoomTypes, SessionTypes, Placed, Points, StartWorker, Goto, At
<1>3. Placed'
    BY DEF IInv, RoomTypes, SessionTypes, Placed, Alive, Members, StartWorker, Goto, At
<1>4. Lookup'
    BY DEF IInv, RoomTypes, SessionTypes, Lookup, StartWorker, Goto, At
<1>5. Members'
    BY DEF IInv, RoomTypes, SessionTypes, Members, Alive, Placed, StartWorker, Goto, At
<1>6. Alive'
    BY DEF IInv, RoomTypes, SessionTypes, Alive, Members, Placed, StartWorker, Goto, At
<1>7. Closers'
    BY DEF IInv, RoomTypes, SessionTypes, Closers, Members, Alive, Placed, StartWorker, Goto, At
<1> QED BY <1>1, <1>2, <1>3, <1>4, <1>5, <1>6, <1>7 DEF IInv

LEMMA ResumeKeeps == ASSUME NEW s \in Sessions, IInv, Resume(s) PROVE IInv'
<1>1. RoomTypes'
    BY DEF IInv, RoomTypes, SessionTypes, Placed, Alive, Members, Resume, Goto, At
<1>2. SessionTypes'
    BY DEF IInv, RoomTypes, SessionTypes, Placed, Points, Resume, Goto, At
<1>3. Placed'
    BY DEF IInv, RoomTypes, SessionTypes, Placed, Alive, Members, Resume, Goto, At
<1>4. Lookup'
    BY DEF IInv, RoomTypes, SessionTypes, Lookup, Resume, Goto, At
<1>5. Members'
    BY DEF IInv, RoomTypes, SessionTypes, Members, Alive, Placed, Resume, Goto, At
<1>6. Alive'
    BY DEF IInv, RoomTypes, SessionTypes, Alive, Members, Placed, Resume, Goto, At
<1>7. Closers'
    BY DEF IInv, RoomTypes, SessionTypes, Closers, Members, Alive, Placed, Resume, Goto, At
<1> QED BY <1>1, <1>2, <1>3, <1>4, <1>5, <1>6, <1>7 DEF IInv

LEMMA SourceClosesKeeps == ASSUME NEW s \in Sessions, IInv, SourceCloses(s) PROVE IInv'
<1>1. RoomTypes'
    BY DEF IInv, RoomTypes, SessionTypes, Placed, Alive, Members, SourceCloses, Goto, At
<1>2. SessionTypes'
    BY DEF IInv, RoomTypes, SessionTypes, Placed, Points, SourceCloses, Goto, At
<1>3. Placed'
    BY DEF IInv, RoomTypes, SessionTypes, Placed, Alive, Members, SourceCloses, Goto, At
<1>4. Lookup'
    BY DEF IInv, RoomTypes, SessionTypes, Lookup, SourceCloses, Goto, At
<1>5. Members'
    BY DEF IInv, RoomTypes, SessionTypes, Members, Alive, Placed, SourceCloses, Goto, At
<1>6. Alive'
    BY DEF IInv, RoomTypes, SessionTypes, Alive, Members, Placed, SourceCloses, Goto, At
<1>7. Closers'
    BY DEF IInv, RoomTypes, SessionTypes, Closers, Members, Alive, Placed, SourceCloses, Goto, At
<1> QED BY <1>1, <1>2, <1>3, <1>4, <1>5, <1>6, <1>7 DEF IInv

LEMMA WorkerReturnsKeeps == ASSUME NEW s \in Sessions, IInv, WorkerReturns(s) PROVE IInv'
<1>1. RoomTypes'
    BY DEF IInv, RoomTypes, SessionTypes, Placed, Alive, Members, WorkerReturns, Goto, At
<1>2. SessionTypes'
    BY DEF IInv, RoomTypes, SessionTypes, Placed, Points, WorkerReturns, Goto, At
<1>3. Placed'
    BY DEF IInv, RoomTypes, SessionTypes, Placed, Alive, Members, WorkerReturns, Goto, At
<1>4. Lookup'
    BY DEF IInv, RoomTypes, SessionTypes, Lookup, WorkerReturns, Goto, At
<1>5. Members'
    BY DEF IInv, RoomTypes, SessionTypes, Members, Alive, Placed, WorkerReturns, Goto, At
<1>6. Alive'
    BY DEF IInv, RoomTypes, SessionTypes, Alive, Members, Placed, WorkerReturns, Goto, At
<1>7. Closers'
    BY DEF IInv, RoomTypes, SessionTypes, Closers, Members, Alive, Placed, WorkerReturns, Goto, At
<1> QED BY <1>1, <1>2, <1>3, <1>4, <1>5, <1>6, <1>7 DEF IInv

LEMMA WorkerSeesCloseKeeps == ASSUME NEW s \in Sessions, IInv, WorkerSeesClose(s) PROVE IInv'
<1>1. RoomTypes'
    BY DEF IInv, RoomTypes, SessionTypes, Placed, Alive, Members, WorkerSeesClose, Goto, At
<1>2. SessionTypes'
    BY DEF IInv, RoomTypes, SessionTypes, Placed, Points, WorkerSeesClose, Goto, At
<1>3. Placed'
    BY DEF IInv, RoomTypes, SessionTypes, Placed, Alive, Members, WorkerSeesClose, Goto, At
<1>4. Lookup'
    BY DEF IInv, RoomTypes, SessionTypes, Lookup, WorkerSeesClose, Goto, At
<1>5. Members'
    BY DEF IInv, RoomTypes, SessionTypes, Members, Alive, Placed, WorkerSeesClose, Goto, At
<1>6. Alive'
    BY DEF IInv, RoomTypes, SessionTypes, Alive, Members, Placed, WorkerSeesClose, Goto, At
<1>7. Closers'
    BY DEF IInv, RoomTypes, SessionTypes, Closers, Members, Alive, Placed, WorkerSeesClose, Goto, At
<1> QED BY <1>1, <1>2, <1>3, <1>4, <1>5, <1>6, <1>7 DEF IInv

LEMMA WorkerActsKeeps == ASSUME NEW s \in Sessions, IInv, WorkerActs(s) PROVE IInv'
<1>1. RoomTypes'
    BY DEF IInv, RoomTypes, SessionTypes, Placed, Alive, Members, WorkerActs, CloseParticipant, Goto, At
<1>2. SessionTypes'
    BY DEF IInv, RoomTypes, SessionTypes, Placed, Points, WorkerActs, CloseParticipant, Goto, At
<1>3. Placed'
    BY DEF IInv, RoomTypes, SessionTypes, Placed, Alive, Members, WorkerActs, CloseParticipant, Goto, At
<1>4. Lookup'
    BY DEF IInv, RoomTypes, SessionTypes, Lookup, WorkerActs, CloseParticipant, Goto, At
<1>5. Members'
    BY DEF IInv, RoomTypes, SessionTypes, Members, Alive, Placed, WorkerActs, CloseParticipant, Goto, At
<1>6. Alive'
    BY DEF IInv, RoomTypes, SessionTypes, Alive, Members, Placed, WorkerActs, CloseParticipant, Goto, At
<1>7. Closers'
    BY DEF IInv, RoomTypes, SessionTypes, Closers, Members, Alive, Placed, WorkerActs, CloseParticipant, Goto, At
<1> QED BY <1>1, <1>2, <1>3, <1>4, <1>5, <1>6, <1>7 DEF IInv

LEMMA AskRemovalKeeps == ASSUME NEW s \in Sessions, IInv, AskRemoval(s) PROVE IInv'
<1>1. RoomTypes'
    BY DEF IInv, RoomTypes, SessionTypes, Placed, Alive, Members, AskRemoval, Goto, At
<1>2. SessionTypes'
    BY DEF IInv, RoomTypes, SessionTypes, Placed, Points, AskRemoval, Goto, At
<1>3. Placed'
    BY DEF IInv, RoomTypes, SessionTypes, Placed, Alive, Members, AskRemoval, Goto, At
<1>4. Lookup'
    BY DEF IInv, RoomTypes, SessionTypes, Lookup, AskRemoval, Goto, At
<1>5. Members'
    BY DEF IInv, RoomTypes, SessionTypes, Members, Alive, Placed, AskRemoval, Goto, At
<1>6. Alive'
    BY DEF IInv, RoomTypes, SessionTypes, Alive, Members, Placed, AskRemoval, Goto, At
<1>7. Closers'
    BY DEF IInv, RoomTypes, SessionTypes, Closers, Members, Alive, Placed, AskRemoval, Goto, At
<1> QED BY <1>1, <1>2, <1>3, <1>4, <1>5, <1>6, <1>7 DEF IInv

LEMMA RemovalTakesKeeps == ASSUME NEW s \in Sessions, IInv, RemovalTakes(s) PROVE IInv'
<1>a. room[s] \in RoomIds /\ member[room[s]] \in Sessions \cup {Nobody}
    BY RoomExists DEF IInv, Alive, RemovalTakes
<1>b. /\ \/ UNCHANGED <<closed, member, source, closer>>
         \/ /\ member' = [member EXCEPT ![room[s]] = Nobody]
            /\ source' = [source EXCEPT ![room[s]] = Nobody]
            /\ UNCHANGED <<closed, closer>>
      /\ UNCHANGED request
    BY Zenon DEF RemovalTakes, TakeOff
<1>c. UNCHANGED <<made, current>>
    BY DEF RemovalTakes
<1>1. RoomTypes'
    <2>1. CASE UNCHANGED <<closed, member, source, closer>>
        BY <1>b, <1>c, <2>1 DEF IInv, RoomTypes
    <2>2. CASE ~ UNCHANGED <<closed, member, source, closer>>
        BY <1>a, <1>b, <1>c, <2>2 DEF IInv, RoomTypes
    <2> QED BY <2>1, <2>2
<1>2. SessionTypes'
    BY <1>a, <1>b DEF IInv, RoomTypes, SessionTypes, Placed, Points, RemovalTakes, Goto, At
<1>3. Placed'
    BY <1>a, <1>b DEF IInv, RoomTypes, SessionTypes, Placed, Alive, Members, RemovalTakes, Goto, At
<1>4. Lookup'
    BY <1>b DEF IInv, Lookup, RemovalTakes, roomVars, sessionVars
<1>5. Members'
    BY <1>a, <1>b DEF IInv, RoomTypes, Members, RemovalTakes, sessionVars
<1>6. Alive'
    BY <1>a, <1>b DEF IInv, RoomTypes, SessionTypes, Alive, Members, Placed, RemovalTakes, Goto, At
<1>7. Closers'
    BY <1>a, <1>b DEF IInv, RoomTypes, Closers, RemovalTakes
<1> QED BY <1>1, <1>2, <1>3, <1>4, <1>5, <1>6, <1>7 DEF IInv

LEMMA RemovalClosesKeeps == ASSUME NEW s \in Sessions, IInv, RemovalCloses(s) PROVE IInv'
<1>1. RoomTypes'
    BY DEF IInv, RoomTypes, SessionTypes, Placed, Alive, Members, RemovalCloses, Goto, At
<1>2. SessionTypes'
    BY DEF IInv, RoomTypes, SessionTypes, Placed, Points, RemovalCloses, Goto, At
<1>3. Placed'
    BY DEF IInv, RoomTypes, SessionTypes, Placed, Alive, Members, RemovalCloses, Goto, At
<1>4. Lookup'
    BY DEF IInv, RoomTypes, SessionTypes, Lookup, RemovalCloses, Goto, At
<1>5. Members'
    BY DEF IInv, RoomTypes, SessionTypes, Members, Alive, Placed, RemovalCloses, Goto, At
<1>6. Alive'
    BY DEF IInv, RoomTypes, SessionTypes, Alive, Members, Placed, RemovalCloses, Goto, At
<1>7. Closers'
    BY DEF IInv, RoomTypes, SessionTypes, Closers, Members, Alive, Placed, RemovalCloses, Goto, At
<1> QED BY <1>1, <1>2, <1>3, <1>4, <1>5, <1>6, <1>7 DEF IInv

LEMMA ApiAsksKeeps == ASSUME NEW k \in RoomIds, IInv, ApiAsks(k) PROVE IInv'
<1>1. RoomTypes'
    BY DEF IInv, RoomTypes, SessionTypes, Placed, Alive, Members, ApiAsks
<1>2. SessionTypes'
    BY DEF IInv, RoomTypes, SessionTypes, Placed, Points, ApiAsks
<1>3. Placed'
    BY DEF IInv, RoomTypes, SessionTypes, Placed, Alive, Members, ApiAsks
<1>4. Lookup'
    BY DEF IInv, RoomTypes, SessionTypes, Lookup, ApiAsks
<1>5. Members'
    BY DEF IInv, RoomTypes, SessionTypes, Members, Alive, Placed, ApiAsks
<1>6. Alive'
    BY DEF IInv, RoomTypes, SessionTypes, Alive, Members, Placed, ApiAsks
<1>7. Closers'
    BY DEF IInv, RoomTypes, SessionTypes, Closers, Members, Alive, Placed, ApiAsks
<1> QED BY <1>1, <1>2, <1>3, <1>4, <1>5, <1>6, <1>7 DEF IInv

LEMMA ApiTakesKeeps == ASSUME NEW k \in RoomIds, IInv, ApiTakes(k) PROVE IInv'
<1>1. CASE member[k] = Nobody
    <2>1. request' \in [RoomIds -> BOOLEAN]
        BY DEF IInv, RoomTypes, ApiTakes
    <2>2. UNCHANGED <<closed, member, source, closer, removal, life, managerVars, sessionVars,
                      workerVars>>
        BY <1>1 DEF ApiTakes
    <2> QED BY <2>1, <2>2 DEF IInv, RoomTypes, SessionTypes, Placed, Lookup, Members, Alive, Closers
<1>2. CASE member[k] # Nobody
    <2>1. /\ member' = [member EXCEPT ![k] = Nobody]
          /\ source' = [source EXCEPT ![k] = Nobody]
          /\ request' = [request EXCEPT ![k] = FALSE]
          /\ removal' = [removal EXCEPT ![member[k]] = "taken"]
          /\ UNCHANGED <<closed, closer, life, managerVars, sessionVars, workerVars>>
        BY <1>2 DEF ApiTakes, TakeOff
    <2>2. member[k] \in Sessions /\ life[member[k]] # "none"
        BY <1>2 DEF IInv, Members
    <2>3. RoomTypes'
        BY <2>1 DEF IInv, RoomTypes
    <2>4. SessionTypes'
        BY <2>1 DEF IInv, SessionTypes
    <2>5. Placed' /\ Lookup'
        BY <2>1 DEF IInv, Placed, Lookup
    <2>6. Members' /\ Closers'
        BY <2>1 DEF IInv, RoomTypes, Members, Closers
    <2>7. Alive'
        BY <2>1, <2>2 DEF IInv, SessionTypes, Alive
    <2> QED BY <2>3, <2>4, <2>5, <2>6, <2>7 DEF IInv
<1> QED BY <1>1, <1>2

LEMMA FailsKeeps == ASSUME NEW s \in Sessions, IInv, Fails(s) PROVE IInv'
<1>1. RoomTypes'
    BY DEF IInv, RoomTypes, SessionTypes, Placed, Alive, Members, Fails, CloseParticipant, Goto, At
<1>2. SessionTypes'
    BY DEF IInv, RoomTypes, SessionTypes, Placed, Points, Fails, CloseParticipant, Goto, At
<1>3. Placed'
    BY DEF IInv, RoomTypes, SessionTypes, Placed, Alive, Members, Fails, CloseParticipant, Goto, At
<1>4. Lookup'
    BY DEF IInv, RoomTypes, SessionTypes, Lookup, Fails, CloseParticipant, Goto, At
<1>5. Members'
    BY DEF IInv, RoomTypes, SessionTypes, Members, Alive, Placed, Fails, CloseParticipant, Goto, At
<1>6. Alive'
    BY DEF IInv, RoomTypes, SessionTypes, Alive, Members, Placed, Fails, CloseParticipant, Goto, At
<1>7. Closers'
    BY DEF IInv, RoomTypes, SessionTypes, Closers, Members, Alive, Placed, Fails, CloseParticipant, Goto, At
<1> QED BY <1>1, <1>2, <1>3, <1>4, <1>5, <1>6, <1>7 DEF IInv

LEMMA CloseRoomKeeps == ASSUME NEW k \in RoomIds, IInv, CloseRoom(k) PROVE IInv'
<1>1. RoomTypes'
    BY DEF IInv, RoomTypes, SessionTypes, Placed, Alive, Members, CloseRoom, Goto, At
<1>2. SessionTypes'
    BY DEF IInv, RoomTypes, SessionTypes, Placed, Points, CloseRoom, Goto, At
<1>3. Placed'
    BY DEF IInv, RoomTypes, SessionTypes, Placed, Alive, Members, CloseRoom, Goto, At
<1>4. Lookup'
    BY DEF IInv, RoomTypes, SessionTypes, Lookup, CloseRoom, Goto, At
<1>5. Members'
    BY DEF IInv, RoomTypes, SessionTypes, Members, Alive, Placed, CloseRoom, Goto, At
<1>6. Alive'
    BY DEF IInv, RoomTypes, SessionTypes, Alive, Members, Placed, CloseRoom, Goto, At
<1>7. Closers'
    BY DEF IInv, RoomTypes, SessionTypes, Closers, Members, Alive, Placed, CloseRoom, Goto, At
<1> QED BY <1>1, <1>2, <1>3, <1>4, <1>5, <1>6, <1>7 DEF IInv

LEMMA ClosePeopleKeeps == ASSUME NEW k \in RoomIds, IInv, ClosePeople(k) PROVE IInv'
<1>1. RoomTypes'
    BY DEF IInv, RoomTypes, SessionTypes, Placed, Alive, Members, ClosePeople, CloseParticipant, Goto, At
<1>2. SessionTypes'
    BY DEF IInv, RoomTypes, SessionTypes, Placed, Points, ClosePeople, CloseParticipant, Goto, At
<1>3. Placed'
    BY DEF IInv, RoomTypes, SessionTypes, Placed, Alive, Members, ClosePeople, CloseParticipant, Goto, At
<1>4. Lookup'
    BY DEF IInv, RoomTypes, SessionTypes, Lookup, ClosePeople, CloseParticipant, Goto, At
<1>5. Members'
    BY DEF IInv, RoomTypes, SessionTypes, Members, Alive, Placed, ClosePeople, CloseParticipant, Goto, At
<1>6. Alive'
    BY DEF IInv, RoomTypes, SessionTypes, Alive, Members, Placed, ClosePeople, CloseParticipant, Goto, At
<1>7. Closers'
    BY DEF IInv, RoomTypes, SessionTypes, Closers, Members, Alive, Placed, ClosePeople, CloseParticipant, Goto, At
<1> QED BY <1>1, <1>2, <1>3, <1>4, <1>5, <1>6, <1>7 DEF IInv

LEMMA DeleteEntryKeeps == ASSUME NEW k \in RoomIds, IInv, DeleteEntry(k) PROVE IInv'
<1>1. RoomTypes'
    BY DEF IInv, RoomTypes, SessionTypes, Placed, Alive, Members, DeleteEntry, Goto, At
<1>2. SessionTypes'
    BY DEF IInv, RoomTypes, SessionTypes, Placed, Points, DeleteEntry, Goto, At
<1>3. Placed'
    BY DEF IInv, RoomTypes, SessionTypes, Placed, Alive, Members, DeleteEntry, Goto, At
<1>4. Lookup'
    BY DEF IInv, RoomTypes, SessionTypes, Lookup, DeleteEntry, Goto, At
<1>5. Members'
    BY DEF IInv, RoomTypes, SessionTypes, Members, Alive, Placed, DeleteEntry, Goto, At
<1>6. Alive'
    BY DEF IInv, RoomTypes, SessionTypes, Alive, Members, Placed, DeleteEntry, Goto, At
<1>7. Closers'
    BY DEF IInv, RoomTypes, SessionTypes, Closers, Members, Alive, Placed, DeleteEntry, Goto, At
<1> QED BY <1>1, <1>2, <1>3, <1>4, <1>5, <1>6, <1>7 DEF IInv

LEMMA NextKeeps == IInv /\ [Next]_vars => IInv'
<1> SUFFICES ASSUME IInv, [Next]_vars PROVE IInv'
    OBVIOUS
<1>1. CASE UNCHANGED vars
    BY <1>1 DEF vars, IInv, RoomTypes, SessionTypes, Placed, Lookup, Members, Alive, Closers
<1>2. ASSUME NEW s \in Sessions,
             \/ Begin(s) \/ StartSession(s) \/ SourceCloses(s) \/ Worker(s)
             \/ AskRemoval(s) \/ Removal(s) \/ Fails(s)
      PROVE  IInv'
    BY <1>2, Zenon,
       BeginKeeps, HoldKeeps, SeesOtherKeeps, InstallKeeps, RoomFailsKeeps, RefusesKeeps,
       FindsNobodyKeeps, FindsDuplicateKeeps, FindsOwnKeeps, TakesDuplicateKeeps,
       ClosesDuplicateKeeps, JoinKeeps, JoinRefusedKeeps, JoinUndoneKeeps,
       StartWorkerKeeps, ResumeKeeps, SourceClosesKeeps, WorkerReturnsKeeps,
       WorkerSeesCloseKeeps, WorkerActsKeeps, AskRemovalKeeps, RemovalTakesKeeps,
       RemovalClosesKeeps, FailsKeeps
    DEF StartSession, GetRoom, Worker, Removal
<1>3. ASSUME NEW k \in RoomIds, CloseRoom(k) \/ Closing(k) \/ ApiAsks(k) \/ ApiTakes(k)
      PROVE  IInv'
    BY <1>3, Zenon, CloseRoomKeeps, ClosePeopleKeeps, DeleteEntryKeeps, ApiAsksKeeps, ApiTakesKeeps
    DEF Closing
<1> QED BY <1>1, <1>2, <1>3, Zenon DEF Next

\* The inductive invariant holds in every reachable state.
THEOREM Invariance == Spec => []IInv
BY InitIInv, NextKeeps, PTL DEF Spec

\* The variables keep their types, and whoever works in a room, or lives in it,
\* has one.
THEOREM TypeCorrect == Spec => []TypeOK
<1>1. IInv => TypeOK
    BY DEF IInv, TypeOK, Placed
<1> QED BY <1>1, Invariance, PTL

\* Once Close has gone through the participants of a room, nobody on its list is
\* open: a session that joins meanwhile is refused or closed with the others.
THEOREM ClosedRoomsEmpty == Spec => []ClosedRoomEmpty
<1>1. IInv => ClosedRoomEmpty
    BY DEF IInv, Closers, ClosedRoomEmpty
<1> QED BY <1>1, Invariance, PTL

\* Only Install puts a room on the map, and it has compared the entry with what
\* the session saw: none, or a room that refused to be held.
LEMMA InstallDisplacesNone ==
    ASSUME IInv, [Next]_vars, current # NoRoom, current' # current, current' # NoRoom
    PROVE  closed[current]
<1>1. PICK s \in Sessions : Install(s)
    BY DEF Next, vars, StartSession, GetRoom, Worker, Removal, Closing, Begin, Hold, SeesOther,
       RoomFails, Refuses, FindsNobody, FindsDuplicate, FindsOwn, TakesDuplicate,
       ClosesDuplicate, Join, JoinRefused, JoinUndone, StartWorker, Resume, SourceCloses,
       WorkerReturns, WorkerSeesClose, WorkerActs, AskRemoval, RemovalTakes, RemovalCloses,
       ApiAsks, ApiTakes, Fails, CloseRoom, ClosePeople, DeleteEntry
<1> QED BY <1>1 DEF Install, At, IInv, Lookup

\* A session that makes a new room never pushes an open one off the map.
THEOREM NeverDisplaced == Spec => NoDisplacement
<1>1. IInv /\ [Next]_vars =>
          [current # NoRoom /\ current' # current /\ current' # NoRoom => closed[current]]_vars
    BY InstallDisplacesNone
<1> QED BY <1>1, Invariance, PTL DEF Spec, NoDisplacement

\* Who takes somebody off a list: a removal by ID, a session that has found a
\* duplicate, and a request of the API.  Each has asked for just that one, or
\* for whoever is there.
LEMMA TakenWasMeant ==
    ASSUME IInv, [Next]_vars, NEW k \in RoomIds, member[k] # Nobody, member'[k] # member[k]
    PROVE  \/ removal[member[k]] = "asked"
           \/ \E s \in Sessions : At(s, "duplicate") /\ peer[s] = member[k]
           \/ request[k] /\ ~request'[k]
<1>1. \/ \E s \in Sessions : TakesDuplicate(s) \/ Join(s) \/ RemovalTakes(s)
      \/ \E j \in RoomIds : ApiTakes(j)
    BY DEF Next, vars, StartSession, GetRoom, Worker, Removal, Closing, Begin, Hold, SeesOther,
       Install, RoomFails, Refuses, FindsNobody, FindsDuplicate, FindsOwn,
       ClosesDuplicate, JoinRefused, JoinUndone, StartWorker, Resume, SourceCloses,
       WorkerReturns, WorkerSeesClose, WorkerActs, AskRemoval, RemovalCloses,
       ApiAsks, Fails, CloseRoom, ClosePeople, DeleteEntry
<1>2. ASSUME NEW s \in Sessions, TakesDuplicate(s)
      PROVE  At(s, "duplicate") /\ peer[s] = member[k]
    BY <1>2 DEF TakesDuplicate, TakeOff, IInv, RoomTypes
<1>3. ASSUME NEW s \in Sessions, Join(s) PROVE FALSE
    BY <1>3 DEF Join, IInv, RoomTypes
<1>4. ASSUME NEW s \in Sessions, RemovalTakes(s) PROVE removal[member[k]] = "asked"
    BY <1>4 DEF RemovalTakes, TakeOff, IInv, RoomTypes
<1>5. ASSUME NEW j \in RoomIds, ApiTakes(j) PROVE request[k] /\ ~request'[k]
    BY <1>5 DEF ApiTakes, TakeOff, IInv, RoomTypes
<1> QED BY <1>1, <1>2, <1>3, <1>4, <1>5, Zenon

\* A removal that comes late never takes the session that has come after.
THEOREM SuccessorsSpared == Spec => SuccessorSpared
<1>1. IInv /\ [Next]_vars =>
          [\A k \in RoomIds : member[k] # Nobody /\ member'[k] # member[k] =>
               \/ removal[member[k]] = "asked"
               \/ \E s \in Sessions : At(s, "duplicate") /\ peer[s] = member[k]
               \/ request[k] /\ ~request'[k]]_vars
    BY TakenWasMeant
<1> QED BY <1>1, Invariance, PTL DEF Spec, SuccessorSpared

=============================================================================
