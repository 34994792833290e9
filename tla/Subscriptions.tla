--------------------------- MODULE Subscriptions ---------------------------
(***************************************************************************)
(* The subscriptions of one participant of a media-server room to the      *)
(* tracks of the others: SubscriptionManager with its reconcile worker     *)
(* (apps/livekit/pkg/rtc/subscriptionmanager.go) against the published     *)
(* tracks, which open and close on their own (mediatrackreceiver.go,       *)
(* mediatracksubscriptions.go, roomtrackmanager.go).                       *)
(*                                                                         *)
(* Callers only say what is desired.  The worker makes it so, one          *)
(* subscription at a time: it resolves the track, adds itself to it, gets  *)
(* a down track, installs the down track's close hook and stores it in the *)
(* subscription.  The way back is made of goroutines: a down track closes, *)
(* takes itself off the list of its media track and calls its hook, which  *)
(* lets the subscription go.                                               *)
(*                                                                         *)
(* An action is what happens under one lock, or between two calls another  *)
(* goroutine can observe.  Only the asynchronous signalling mode is        *)
(* modelled, and closes that are not followed by a resumption.             *)
(***************************************************************************)
EXTENDS Integers, Sequences, FiniteSets, SequencesExt

CONSTANTS
    Tracks,     \* track ids
    Media,      \* media tracks: a track id can be published again
    TrackOf,    \* TrackOf[m]: the track id of a media track
    Callers,    \* goroutines that subscribe and unsubscribe
    Limit,      \* subscription limit of the kind all tracks are of, 0 for none
    MaxSubs,    \* bound on the trackSubscription objects alive at a time
    MaxDowns,   \* bound on the down tracks alive at a time
    MaxPending, \* bound on the pending removals from one media track
    Events,     \* what happens besides subscribing and unsubscribing
    None

ASSUME SubscriptionsAssumption ==
    /\ TrackOf \in [Media -> Tracks]
    /\ Limit \in Nat /\ MaxSubs \in Nat /\ MaxDowns \in Nat /\ MaxPending \in Nat
    /\ Events \subseteq {"settings", "clear", "permission", "unpublish", "close"}
    /\ None \notin 1..MaxSubs \cup 1..MaxDowns \cup Media

Subs == 1..MaxSubs
Downs == 1..MaxDowns

VARIABLES
    \* SubscriptionManager
    subscriptions,  \* track id -> trackSubscription, or None
    sub,            \* the trackSubscription objects: [track, desired, down]
    count,          \* subscribedAudioCount or subscribedVideoCount
    subscribedTo,   \* the track ids in subscribedTo, of one publisher
    closed,         \* Close(): "no", "asked" (closeCh closed), "done"
    call,           \* call[c]: where a SubscribeToTrack stands
    w,              \* the worker: [pc, sub, media, down]
    \* the published tracks and the room
    permitted,      \* CanSubscribe and the publisher's permission
    state,          \* state[m]: "unborn", "open", "closing", "cleared", "closed"
    listed,         \* RoomTrackManager.tracks: per track id, the media tracks
    entry,          \* entry[m]: the subscriber's down track in subscribedTracks
    unsub,          \* unsub[m]: pending goroutines that call RemoveSubscriber
    watched,        \* the track ids with a removed observer
    removal,        \* removal[t]: the observer's goroutine: "none", "notified",
                    \* "gone" (it has seen that the track is gone)
    passed,         \* the media tracks whose close passed over a down track, for
                    \* its codec
    \* the down tracks
    down            \* [phase, media, owner]

managerVars == <<subscriptions, sub, count, subscribedTo, closed, call>>
roomVars == <<permitted, passed, state, listed, watched, removal>>
vars == <<managerVars, w, roomVars, entry, unsub, down>>

Blank == [track |-> None, desired |-> FALSE, down |-> None]
Idle == [pc |-> "idle", sub |-> None, media |-> None, down |-> None]
NoDown == [phase |-> "none", media |-> None, owner |-> None]

Init ==
    /\ subscriptions = [t \in Tracks |-> None]
    /\ sub = [s \in Subs |-> Blank]
    /\ count = 0
    /\ subscribedTo = {}
    /\ closed = "no"
    /\ call = [c \in Callers |-> [pc |-> "idle", track |-> None, sub |-> None]]
    /\ w = Idle
    /\ permitted = TRUE
    /\ state = [m \in Media |-> "unborn"]
    /\ listed = [t \in Tracks |-> <<>>]
    /\ entry = [m \in Media |-> None]
    /\ unsub = [m \in Media |-> 0]
    /\ watched = {}
    /\ passed = {}
    /\ removal = [t \in Tracks |-> "none"]
    /\ down = [d \in Downs |-> NoDown]

-----------------------------------------------------------------------------
(* Objects nobody refers to are used again. *)

Mapped(s) == \E t \in Tracks : subscriptions[t] = s
Owners(D) == {down[d].owner : d \in D}

Referenced(s) ==
    Mapped(s) \/ w.sub = s \/ (\E c \in Callers : call[c].sub = s) \/ s \in Owners(Downs)

FreeSubs == {s \in Subs : ~Referenced(s)}

Kept(d) == w.down = d \/ \E s \in Subs : Referenced(s) /\ sub[s].down = d

FreeDowns == {d \in Downs : down[d].phase \in {"none", "gone"} /\ ~Kept(d)}

\* A down track at the end of its goroutine; its media track matters as long
\* as a subscription keeps it.
Gone(d) ==
    IF Kept(d) THEN [down EXCEPT ![d].phase = "gone", ![d].owner = None]
    ELSE [down EXCEPT ![d] = NoDown]

-----------------------------------------------------------------------------
(* The callers. *)

\* SubscribeToTrack: setDesired finds the subscription.
Subscribe(c, t) ==
    /\ call[c].pc = "idle"
    /\ subscriptions[t] # None
    /\ sub' = [sub EXCEPT ![subscriptions[t]].desired = TRUE]
    /\ UNCHANGED <<subscriptions, count, subscribedTo, closed, call, w, roomVars,
                   entry, unsub, down>>

\* setDesired does not find it: a new object is made.
SubscribeNew(c, t) ==
    /\ call[c].pc = "idle"
    /\ subscriptions[t] = None
    /\ FreeSubs # {}
    /\ LET s == Min(FreeSubs)
       IN  /\ sub' = [sub EXCEPT ![s] = [Blank EXCEPT !.track = t]]
           /\ call' = [call EXCEPT ![c] = [pc |-> "insert", track |-> t, sub |-> s]]
    /\ UNCHANGED <<subscriptions, count, subscribedTo, closed, w, roomVars, entry, unsub, down>>

\* It is put into the map, whatever is there by now.
Insert(c) ==
    /\ call[c].pc = "insert"
    /\ subscriptions' = [subscriptions EXCEPT ![call[c].track] = call[c].sub]
    /\ call' = [call EXCEPT ![c].pc = "desire", ![c].sub = None]
    /\ UNCHANGED <<sub, count, subscribedTo, closed, w, roomVars, entry, unsub, down>>

\* The second setDesired.
Desire(c) ==
    /\ call[c].pc = "desire"
    /\ sub' = [s \in Subs |->
          IF s = subscriptions[call[c].track] THEN [sub[s] EXCEPT !.desired = TRUE] ELSE sub[s]]
    /\ call' = [call EXCEPT ![c] = [pc |-> "idle", track |-> None, sub |-> None]]
    /\ UNCHANGED <<subscriptions, count, subscribedTo, closed, w, roomVars, entry, unsub, down>>

\* UnsubscribeFromTrack, also called when a down track fails to bind.
Unsubscribe(c, t) ==
    /\ call[c].pc = "idle"
    /\ subscriptions[t] # None
    /\ sub[subscriptions[t]].desired
    /\ sub' = [sub EXCEPT ![subscriptions[t]].desired = FALSE]
    /\ UNCHANGED <<subscriptions, count, subscribedTo, closed, call, w, roomVars,
                   entry, unsub, down>>

\* UpdateSubscribedTrackSettings for a track without a subscription.
UpdateSettings(c, t) ==
    /\ "settings" \in Events
    /\ call[c].pc = "idle"
    /\ subscriptions[t] = None
    /\ FreeSubs # {}
    /\ LET s == Min(FreeSubs)
       IN  /\ sub' = [sub EXCEPT ![s] = [Blank EXCEPT !.track = t]]
           /\ subscriptions' = [subscriptions EXCEPT ![t] = s]
    /\ UNCHANGED <<count, subscribedTo, closed, call, w, roomVars, entry, unsub, down>>

\* ClearAllSubscriptions.
ClearAll(c) ==
    /\ "clear" \in Events
    /\ call[c].pc = "idle"
    /\ sub' = [s \in Subs |->
          IF \E t \in Tracks : subscriptions[t] = s
          THEN [sub[s] EXCEPT !.desired = FALSE] ELSE sub[s]]
    /\ UNCHANGED <<subscriptions, count, subscribedTo, closed, call, w, roomVars,
                   entry, unsub, down>>

-----------------------------------------------------------------------------
(* The worker. *)

NeedsSubscribe(s) == sub[s].desired /\ sub[s].down = None
NeedsUnsubscribe(s) == ~sub[s].desired /\ sub[s].down # None

\* Mutant: it is cleaned up before it is unsubscribed.
NeedsCleanupEarly(s) == ~sub[s].desired

NeedsCleanup(s) == ~sub[s].desired /\ sub[s].down = None

\* A subscription that needs something is taken from the map.  reconcileCh
\* only makes that happen sooner than the ticker does.
Pick(t) ==
    /\ w.pc = "idle"
    /\ subscriptions[t] # None
    /\ LET s == subscriptions[t]
       IN  /\ NeedsSubscribe(s) \/ NeedsUnsubscribe(s) \/ NeedsCleanup(s)
           /\ w' = [Idle EXCEPT !.pc = "picked", !.sub = s]
    /\ UNCHANGED <<managerVars, roomVars, entry, unsub, down>>

\* canReconcile, and the end of the worker.
Stop ==
    /\ closed # "no"
    /\ w.pc \in {"idle", "picked"}
    /\ w' = [Idle EXCEPT !.pc = "done"]
    /\ UNCHANGED <<managerVars, roomVars, entry, unsub, down>>

\* Nothing is needed any more, or pending unsubscribes go first for a while.
GiveWay ==
    /\ w.pc = "picked"
    /\ \/ sub[w.sub].desired /\ sub[w.sub].down # None
       \/ NeedsSubscribe(w.sub) /\ \E m \in Media : unsub[m] > 0
    /\ w' = Idle
    /\ UNCHANGED <<managerVars, roomVars, entry, unsub, down>>

\* Mutant: the limit is not looked at again.
HasCapacityAlways == TRUE

HasCapacity == Limit = 0 \/ count < Limit

\* GetTrackInfo: the earliest media track, when it is open.
Resolved(t) ==
    IF listed[t] # <<>> /\ state[Head(listed[t])] = "open" THEN Head(listed[t]) ELSE None

\* subscribe() up to AddSubscriber.
Resolve ==
    /\ w.pc = "picked" /\ closed = "no"
    /\ NeedsSubscribe(w.sub)
    /\ permitted /\ HasCapacity
    /\ LET t == sub[w.sub].track
       IN  /\ Resolved(t) # None
           /\ w' = [w EXCEPT !.pc = "add", !.media = Resolved(t)]
           /\ watched' = watched \cup {t}
    /\ UNCHANGED <<managerVars, permitted, passed, state, listed, removal, entry, unsub, down>>

\* No permission or no capacity: tried again later.  Depending on which of
\* the tests fails the track was resolved first.
Refused ==
    /\ w.pc = "picked" /\ closed = "no"
    /\ NeedsSubscribe(w.sub)
    /\ ~permitted \/ ~HasCapacity
    /\ w' = Idle
    /\ watched' \in {watched, watched \cup {t \in {sub[w.sub].track} : Resolved(t) # None}}
    /\ UNCHANGED <<managerVars, permitted, passed, state, listed, removal, entry, unsub, down>>

\* ErrTrackNotFound.
NotFound ==
    /\ w.pc = "picked" /\ closed = "no"
    /\ NeedsSubscribe(w.sub)
    /\ Resolved(sub[w.sub].track) = None
    /\ w' = [w EXCEPT !.pc = "missing"]
    /\ UNCHANGED <<managerVars, roomVars, entry, unsub, down>>

\* After notFoundTimeout the desire is withdrawn.
Missing ==
    /\ w.pc = "missing"
    /\ w' = Idle
    /\ \/ sub' = [sub EXCEPT ![w.sub].desired = FALSE]
       \/ UNCHANGED sub
    /\ UNCHANGED <<subscriptions, count, subscribedTo, closed, call, roomVars,
                   entry, unsub, down>>

\* AddSubscriber of the media track: ErrNotOpen, ...
Admit ==
    /\ w.pc = "add"
    /\ w' = IF state[w.media] = "open" THEN [w EXCEPT !.pc = "look"] ELSE Idle
    /\ UNCHANGED <<managerVars, roomVars, entry, unsub, down>>

\* ... or a look at subscribedTracks.
Look ==
    /\ w.pc = "look"
    /\ w' = [w EXCEPT !.pc = IF entry[w.media] = None THEN "make" ELSE "recheck"]
    /\ UNCHANGED <<managerVars, roomVars, entry, unsub, down>>

\* A down track is made, with the hook that only detaches it, and listed.
MakeDown ==
    /\ w.pc = "make"
    /\ FreeDowns # {}
    /\ LET d == Min(FreeDowns)
       IN  /\ down' = [down EXCEPT ![d] = [phase |-> "up", media |-> w.media, owner |-> None]]
           /\ entry' = [entry EXCEPT ![w.media] = d]
           /\ w' = [w EXCEPT !.pc = "recheck", !.down = d]
    /\ UNCHANGED <<managerVars, roomVars, unsub>>

\* The peer connection takes no track: any other error, tried again later.
MakeFails ==
    /\ w.pc = "make"
    /\ w' = Idle
    /\ UNCHANGED <<managerVars, roomVars, entry, unsub, down>>

\* CloseWithFlush: once, then in the background.
Closing(d) ==
    IF d # None /\ down[d].phase = "up" THEN [down EXCEPT ![d].phase = "closing"] ELSE down

\* Mutant: the media track is not looked at again.
RecheckNot ==
    /\ w.pc = "recheck"
    /\ w' = [w EXCEPT !.pc = IF w.down = None THEN "mark" ELSE "hook"]
    /\ UNCHANGED <<managerVars, roomVars, entry, unsub, down>>

\* The media track may have closed meanwhile.
Recheck ==
    /\ w.pc = "recheck"
    /\ IF state[w.media] = "open"
       THEN /\ w' = [w EXCEPT !.pc = IF w.down = None THEN "mark" ELSE "hook"]
            /\ UNCHANGED down
       ELSE /\ w' = Idle
            /\ down' = Closing(entry[w.media])
    /\ UNCHANGED <<managerVars, roomVars, entry, unsub>>

\* subTrack.OnClose(handleSubscribedTrackClose), unless it has been called.
Hook ==
    /\ w.pc = "hook"
    /\ w' = [w EXCEPT !.pc = "set"]
    /\ down' = [down EXCEPT ![w.down].owner =
          IF down[w.down].phase \in {"up", "closing"} THEN w.sub ELSE @]
    /\ UNCHANGED <<managerVars, roomVars, entry, unsub>>

\* setSubscribedTrack.
SetDown ==
    /\ w.pc = "set"
    /\ sub' = [sub EXCEPT ![w.sub].down = w.down]
    /\ w' = [w EXCEPT !.pc = "count"]
    /\ UNCHANGED <<subscriptions, count, subscribedTo, closed, call, roomVars, entry, unsub, down>>

Counted ==
    /\ w.pc = "count"
    /\ count' = count + 1
    /\ w' = [w EXCEPT !.pc = "mark"]
    /\ UNCHANGED <<subscriptions, sub, subscribedTo, closed, call, roomVars, entry, unsub, down>>

Mark ==
    /\ w.pc = "mark"
    /\ subscribedTo' = subscribedTo \cup {sub[w.sub].track}
    /\ w' = Idle
    /\ UNCHANGED <<subscriptions, sub, count, closed, call, roomVars, entry, unsub, down>>

\* Mutant: nothing is removed from a media track that closes.
AskRemovalIfOpen ==
    /\ w.pc = "picked" /\ closed = "no"
    /\ NeedsUnsubscribe(w.sub)
    /\ LET m == down[sub[w.sub].down].media
       IN  IF unsub[m] < MaxPending /\ state[m] = "open"
           THEN unsub' = [unsub EXCEPT ![m] = @ + 1] ELSE UNCHANGED unsub
    /\ w' = Idle
    /\ UNCHANGED <<managerVars, roomVars, entry, down>>

\* unsubscribe(): the removal is left to a goroutine.
AskRemoval ==
    /\ w.pc = "picked" /\ closed = "no"
    /\ NeedsUnsubscribe(w.sub)
    /\ LET m == down[sub[w.sub].down].media
       IN  IF unsub[m] < MaxPending THEN unsub' = [unsub EXCEPT ![m] = @ + 1] ELSE UNCHANGED unsub
    /\ w' = Idle
    /\ UNCHANGED <<managerVars, roomVars, entry, down>>

\* delete(m.subscriptions, s.trackID).
Cleanup ==
    /\ w.pc = "picked" /\ closed = "no"
    /\ NeedsCleanup(w.sub)
    /\ subscriptions' = [subscriptions EXCEPT ![sub[w.sub].track] = None]
    /\ sub' = IF w.sub \in Owners(Downs) THEN sub ELSE [sub EXCEPT ![w.sub] = Blank]
    /\ w' = Idle
    /\ UNCHANGED <<count, subscribedTo, closed, call, roomVars, entry, unsub, down>>

-----------------------------------------------------------------------------
(* The goroutines of a subscription that ends. *)

\* RemoveSubscriber.
RemoveSubscriber(m) ==
    /\ unsub[m] > 0
    /\ unsub' = [unsub EXCEPT ![m] = @ - 1]
    /\ down' = Closing(entry[m])
    /\ UNCHANGED <<managerVars, w, roomVars, entry>>

\* Mutant: the down track stays on the list.
DownClosedListed(d) ==
    /\ down[d].phase = "closing"
    /\ down' = [down EXCEPT ![d].phase = IF down[d].owner = None THEN "detach" ELSE "handle"]
    /\ UNCHANGED <<managerVars, w, roomVars, entry, unsub>>

\* OnDownTrackClose: the down track is off the list, its hook is called.
DownClosed(d) ==
    /\ down[d].phase = "closing"
    /\ entry' = [entry EXCEPT ![down[d].media] = None]
    /\ down' = [down EXCEPT ![d].phase = IF down[d].owner = None THEN "detach" ELSE "handle"]
    /\ UNCHANGED <<managerVars, w, roomVars, unsub>>

\* Mutant: a subscription that has no down track yet is let go as well.
LetGoAlways(d) ==
    /\ down[d].phase = "handle"
    /\ down' = [down EXCEPT ![d].phase = "uncount"]
    /\ sub' = [sub EXCEPT ![down[d].owner].down = None]
    /\ UNCHANGED <<subscriptions, count, subscribedTo, closed, call, w, roomVars, entry, unsub>>

\* What is left of the subscriptions when the hook of d, the last to refer to
\* its owner, returns.
Left(d) ==
    LET s == down[d].owner
    IN  IF Mapped(s) \/ w.sub = s \/ s \in Owners(Downs \ {d}) THEN sub
        ELSE [sub EXCEPT ![s] = Blank]

\* handleSubscribedTrackClose: the subscription lets its down track go.
LetGo(d) ==
    /\ down[d].phase = "handle"
    /\ LET s == down[d].owner
       IN  IF sub[s].down = None
           THEN down' = Gone(d) /\ sub' = Left(d)
           ELSE /\ down' = [down EXCEPT ![d].phase = "uncount"]
                /\ sub' = [sub EXCEPT ![s].down = None]
    /\ UNCHANGED <<subscriptions, count, subscribedTo, closed, call, w, roomVars, entry, unsub>>

\* Mutant: the count is not taken back.
UncountNot(d) ==
    /\ down[d].phase = "uncount"
    /\ down' = [down EXCEPT ![d].phase = "unmark"]
    /\ UNCHANGED <<managerVars, w, roomVars, entry, unsub>>

Uncount(d) ==
    /\ down[d].phase = "uncount"
    /\ count' = count - 1
    /\ down' = [down EXCEPT ![d].phase = "unmark"]
    /\ UNCHANGED <<subscriptions, sub, subscribedTo, closed, call, w, roomVars, entry, unsub>>

Unmark(d) ==
    /\ down[d].phase = "unmark"
    /\ subscribedTo' = subscribedTo \ {sub[down[d].owner].track}
    /\ down' = [down EXCEPT ![d].phase = "detach", ![d].owner = None]
    /\ sub' = Left(d)
    /\ UNCHANGED <<subscriptions, count, closed, call, w, roomVars, entry, unsub>>

\* RemoveTrackLocal.
Detach(d) ==
    /\ down[d].phase = "detach"
    /\ down' = Gone(d)
    /\ UNCHANGED <<managerVars, w, roomVars, entry, unsub>>

-----------------------------------------------------------------------------
(* SubscriptionManager.Close. *)

Close ==
    /\ "close" \in Events
    /\ closed = "no"
    /\ closed' = "asked"
    /\ UNCHANGED <<subscriptions, sub, count, subscribedTo, call, w, roomVars, entry, unsub, down>>

Held == {sub[subscriptions[t]].down : t \in {u \in Tracks : subscriptions[u] # None}} \ {None}

\* Mutant: the worker is not waited for.
CloseDownsAtOnce ==
    /\ closed = "asked"
    /\ closed' = "done"
    /\ sub' = [s \in Subs |-> IF sub[s].down \in Held THEN [sub[s] EXCEPT !.desired = FALSE] ELSE sub[s]]
    /\ down' = [d \in Downs |->
          IF d \in Held /\ down[d].phase = "up" THEN [down[d] EXCEPT !.phase = "closing"] ELSE down[d]]
    /\ UNCHANGED <<subscriptions, count, subscribedTo, call, w, roomVars, entry, unsub>>

\* After <-doneCh: what is subscribed is closed.
CloseDowns ==
    /\ closed = "asked"
    /\ w.pc = "done"
    /\ closed' = "done"
    /\ sub' = [s \in Subs |-> IF sub[s].down \in Held THEN [sub[s] EXCEPT !.desired = FALSE] ELSE sub[s]]
    /\ down' = [d \in Downs |->
          IF d \in Held /\ down[d].phase = "up" THEN [down[d] EXCEPT !.phase = "closing"] ELSE down[d]]
    /\ UNCHANGED <<subscriptions, count, subscribedTo, call, w, roomVars, entry, unsub>>

-----------------------------------------------------------------------------
(* The publishers. *)

Publish(m) ==
    /\ state[m] = "unborn"
    /\ state' = [state EXCEPT ![m] = "open"]
    /\ listed' = [listed EXCEPT ![TrackOf[m]] = Append(@, m)]
    /\ UNCHANGED <<managerVars, w, permitted, passed, watched, removal, entry, unsub, down>>

SetClosing(m) ==
    /\ "unpublish" \in Events
    /\ state[m] = "open"
    /\ state' = [state EXCEPT ![m] = "closing"]
    /\ UNCHANGED <<managerVars, w, permitted, passed, listed, watched, removal, entry, unsub, down>>

\* ClearAllReceivers: who is found in subscribedTracks with a down track of the
\* codec of a receiver is removed.  One that has another codec, as an Opus
\* down track of a RED receiver, is passed over; passed keeps a record of it,
\* which no step reads.
ClearReceivers(m) ==
    /\ state[m] = "closing"
    /\ state' = [state EXCEPT ![m] = "cleared"]
    /\ \/ down' = Closing(entry[m]) /\ UNCHANGED passed
       \/ entry[m] # None /\ passed' = passed \cup {m} /\ UNCHANGED down
    /\ UNCHANGED <<managerVars, w, permitted, listed, watched, removal, entry, unsub>>

\* The rest of Close: RemoveTrack in the room, which notifies who watches.  A
\* goroutine that takes an observer off after a withdrawn desire may come so
\* late that it takes off the observer of the next one.
CloseMedia(m) ==
    /\ state[m] = "cleared"
    /\ state' = [state EXCEPT ![m] = "closed"]
    /\ listed' = [listed EXCEPT ![TrackOf[m]] = RemoveFirst(@, m)]
    /\ \/ UNCHANGED removal
       \/ /\ TrackOf[m] \in watched
          /\ removal' = [removal EXCEPT ![TrackOf[m]] = "notified"]
    /\ watched' = watched \ {TrackOf[m]}
    /\ UNCHANGED <<managerVars, w, permitted, passed, entry, unsub, down>>

\* The removed observer resolves the track again.
LookAgain(t) ==
    /\ removal[t] = "notified"
    /\ removal' = [removal EXCEPT ![t] = IF Resolved(t) = None THEN "gone" ELSE "none"]
    /\ UNCHANGED <<managerVars, w, permitted, passed, state, listed, watched, entry, unsub, down>>

\* handleSourceTrackRemoved.
SourceRemoved(t) ==
    /\ removal[t] = "gone"
    /\ removal' = [removal EXCEPT ![t] = "none"]
    /\ sub' = [s \in Subs |->
          IF s = subscriptions[t] THEN [sub[s] EXCEPT !.desired = FALSE] ELSE sub[s]]
    /\ UNCHANGED <<subscriptions, count, subscribedTo, closed, call, w, permitted, passed, state,
                   listed, watched, entry, unsub, down>>

Permit ==
    /\ "permission" \in Events
    /\ permitted' = ~permitted
    /\ UNCHANGED <<managerVars, w, passed, state, listed, watched, removal, entry, unsub, down>>

\* RevokeDisallowedSubscribers, after the publisher changed the permissions.
Revoke(m) ==
    /\ ~permitted
    /\ down' = Closing(entry[m])
    /\ UNCHANGED <<managerVars, w, roomVars, entry, unsub>>

-----------------------------------------------------------------------------

Caller(c) ==
    \/ \E t \in Tracks :
          Subscribe(c, t) \/ SubscribeNew(c, t) \/ Unsubscribe(c, t) \/ UpdateSettings(c, t)
    \/ Insert(c) \/ Desire(c) \/ ClearAll(c)

Attempt == GiveWay \/ Refused \/ MakeFails \/ NotFound \/ Missing \/ AskRemoval \/ Cleanup
Addition == Admit \/ Look \/ MakeDown \/ Recheck \/ Hook \/ SetDown \/ Counted \/ Mark
Worker == Attempt \/ Resolve \/ Addition \/ Stop

Goroutine ==
    \/ \E m \in Media : RemoveSubscriber(m)
    \/ \E d \in Downs : DownClosed(d) \/ LetGo(d) \/ Uncount(d) \/ Unmark(d) \/ Detach(d)

Publisher ==
    \E m \in Media :
        Publish(m) \/ SetClosing(m) \/ ClearReceivers(m) \/ CloseMedia(m) \/ Revoke(m)

Next ==
    \/ \E c \in Callers : Caller(c)
    \/ (\E t \in Tracks : Pick(t)) \/ Worker
    \/ Goroutine
    \/ Publisher
    \/ (\E t \in Tracks : LookAgain(t) \/ SourceRemoved(t))
    \/ Permit
    \/ Close \/ CloseDowns

Spec == Init /\ [][Next]_vars

\* The Go scheduler runs the worker, the goroutines and who has called Close.
\* A select takes closeCh sooner or later when it is closed.
\* The ticker makes the worker go through all subscriptions again and again,
\* and a subscription gives way to pending unsubscribes for a second at most.  Adding a
\* track to the peer connection does not fail for ever.
FairSpec ==
    /\ Spec
    /\ WF_vars(Worker) /\ WF_vars(Stop)
    /\ \A t \in Tracks :
          SF_vars(Pick(t)) /\ SF_vars(Resolve /\ sub[w.sub].track = t)
    /\ \A m \in Media : SF_vars(MakeDown /\ w.media = m)
    /\ \A m \in Media : WF_vars(RemoveSubscriber(m))
    /\ \A d \in Downs :
          WF_vars(DownClosed(d) \/ LetGo(d) \/ Uncount(d) \/ Unmark(d) \/ Detach(d))
    /\ WF_vars(CloseDowns)

-----------------------------------------------------------------------------
WorkerPoints ==
    {"idle", "picked", "missing", "add", "look", "make", "recheck", "hook", "set", "count",
     "mark", "done"}

Subscription == [track : Tracks \cup {None}, desired : BOOLEAN, down : Downs \cup {None}]

Call ==
    [pc : {"idle", "insert", "desire"}, track : Tracks \cup {None}, sub : Subs \cup {None}]

WorkerState ==
    [pc : WorkerPoints, sub : Subs \cup {None}, media : Media \cup {None},
     down : Downs \cup {None}]

Phases == {"none", "up", "closing", "handle", "uncount", "unmark", "detach", "gone"}

DownTrack == [phase : Phases, media : Media \cup {None}, owner : Subs \cup {None}]

\* The count is an Int32: it is below zero for as long as a down track closes
\* between its being stored and its being counted.
TypeOK ==
    /\ subscriptions \in [Tracks -> Subs \cup {None}]
    /\ sub \in [Subs -> Subscription]
    /\ count \in -1..MaxDowns
    /\ subscribedTo \subseteq Tracks
    /\ closed \in {"no", "asked", "done"}
    /\ call \in [Callers -> Call]
    /\ w \in WorkerState
    /\ permitted \in BOOLEAN
    /\ state \in [Media -> {"unborn", "open", "closing", "cleared", "closed"}]
    /\ listed \in [Tracks -> Seq(Media)]
    /\ watched \subseteq Tracks
    /\ passed \subseteq Media
    /\ removal \in [Tracks -> {"none", "notified", "gone"}]
    /\ entry \in [Media -> Downs \cup {None}]
    /\ unsub \in [Media -> 0..MaxPending]
    /\ down \in [Downs -> DownTrack]

Up == {d \in Downs : down[d].phase = "up"}

\* Closing a media track and adding a subscriber to it race without a common
\* lock: the one sets its state and then looks for subscribers, the other
\* lists itself and then looks at the state, so one of them sees the other
\* and no down track survives its source
\* (mediatrackreceiver.go:379-391, 412-421, 588-607).  The only exception is one
\* that was found under another codec than the receiver's
\* (mediatracksubscriptions.go:308-321): an Opus down track of a RED receiver is
\* left to the removed observer and the end of the stream.
NoneLeftBehind ==
    \A d \in Up :
        down[d].media \notin passed /\ state[down[d].media] \in {"cleared", "closed"} =>
            w.pc = "recheck" /\ w.media = down[d].media

\* Whatever is asked for and however often, a down track that forwards is
\* held by the subscription in the map, so that it can be found and removed
\* (subscriptionmanager.go:141-166, 455-460).
NoOrphan == \A d \in Up : d \in Held \/ w.down = d

\* The down tracks that forward never exceed the limit, although the count is
\* kept by other goroutines than the one that reads it
\* (subscriptionmanager.go:495-508, 776-800).
CapacityKept == Limit > 0 => Cardinality(Up) <= Limit

Holding == {s \in Subs : Referenced(s) /\ sub[s].down # None}

Uncounting == {d \in Downs : down[d].phase = "uncount"}

\* However the worker's counting and the closing of down tracks interleave,
\* also when a down track closes before it is stored or counted, the count is
\* the number of subscriptions with a down track, but for those in between:
\* nothing is counted twice or taken back twice
\* (subscriptionmanager.go:595-602, 782-798).
CountAgrees ==
    count = Cardinality(Holding) + Cardinality(Uncounting) - (IF w.pc = "count" THEN 1 ELSE 0)

Dead(d) == down[d].phase \in {"none", "gone"}

\* "the subscription could be removed early if the published track is closed
\* while adding subscription [...] So, set it here to handle cases of early
\* close" (mediatracksubscriptions.go:249-252): a subscription does not keep a
\* down track whose close has been handled.
NoDeadTrack ==
    \A t \in Tracks :
        (subscriptions[t] # None /\ sub[subscriptions[t]].down # None) =>
            ~Dead(sub[subscriptions[t]].down)

Wanted(t) ==
    /\ subscriptions[t] # None
    /\ NeedsSubscribe(subscriptions[t])
    /\ permitted
    /\ Resolved(t) # None

\* A desired subscription to a track that is published, open and permitted
\* does not stay unserved for ever, unless the limit is reached or the manager
\* closed, whatever errors and removals come in between
\* (subscriptionmanager.go:357-460).
Served == \A t \in Tracks : Wanted(t) ~> (~Wanted(t) \/ ~HasCapacity \/ closed # "no")

Unwanted(t) ==
    /\ subscriptions[t] # None
    /\ NeedsUnsubscribe(subscriptions[t])
    /\ ~Dead(sub[subscriptions[t]].down)

\* A subscription that is not desired lets its down track go
\* (subscriptionmanager.go:435-447, 718-736, 776-800).
Withdrawn == \A t \in Tracks : Unwanted(t) ~> ~Unwanted(t)

\* After Close no down track is left that forwards, also none the worker was
\* just adding (subscriptionmanager.go:98-130).
CloseReleases == (closed = "asked") ~> (Up = {})

=============================================================================
