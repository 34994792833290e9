# Verification of the metaverse servers

This directory holds TLA+ specifications of the servers of the 2D metaverse:
the arena server that moves users over a tile map (`apps/ws`), and the media
server that carries their audio and video (`apps/livekit`, Go). TLC checks the
specifications on small instances; TLAPS proves their safety for all values of
their constants.

Paths below are relative to the root of the repository; `user.ts` is
`apps/ws/src/user.ts`, and Go files without a directory are under
`apps/livekit/pkg/`.

## 1. The system

```
  browser (apps/frontend) --HTTP--> apps/http --SQL--> database (packages/db)
        |                              ^                   ^
        | WebSocket                    | token request     | reads spaces, avatars
        +----------------------> apps/ws ------------------+
        |
        | signal connection       psrpc streams
        +----------------------> routing (one node) <======> media node: rtc, sfu
```

| Component | State it keeps | Operations | What makes it correct |
|---|---|---|---|
| Arena server, `user.ts`, `roomManager.ts` | one `User` per connection, room lists, one `areaMap` for all spaces; all in memory | join, move, leave-call, user-left, end of connection | seats are sound; nobody jumps or is moved in a call; who is in a room is introduced to the room; a join is answered |
| HTTP API, `apps/http` | none, the database | sign-up, spaces, elements, admin, tokens | a request is all or nothing; names are unique |
| Web client, `apps/frontend` | what the server told it | sends join and move | follows the server |
| Operation queue, `utils/opsqueue.go` | a deque, a one-slot wake-up channel, started and stopped flags | Start, Stop, Enqueue, process() | nothing stranded, order kept, flush on Stop |
| Signal relay, `routing/signal.go`, `messagechannel.go` | sequence number, queue, flags of the sink; sequence number of the reader; bounded channel | WriteMessage, Close, write(), Read, copying | ordered, complete, honest about its end |
| Subscriptions, `rtc/subscriptionmanager.go` with media tracks | map of subscriptions, their desire and down track, counters, per-track lists of subscribers | (un)subscribe, reconcile, publish, unpublish, revoke, Close | desire and reality converge; nothing forwards that nobody holds |
| Transport, `rtc/transport.go`, `sfu/utils/debounce.go` | negotiation state, events queue, debouncer, flags of postponed ICE restarts, a timer | Negotiate, the event handlers, the timer, close | no change and no restart is forgotten; one offer at a time |
| Room and room manager, `rtc/room.go`, `service/roommanager.go` | a map of rooms by name; the participants of a room by identity, their request sources | start or resume a session, join, remove, close | nobody stays behind in a closed room or off its list; an open room is not displaced |
| Packet numbers, `sfu/rtpmunger.go`, `sfu/utils/rangemap.go`, `sfu/forwarder.go` | highest number, last number sent, an offset for each range of numbers | forward, drop, pad, switch the source, resync | one gapless line of numbers, each for one packet |
| Participant, publishing, dynacast | tracks, supervision, quality reports | publish, unpublish, report | in part above, else planned |
| Node routing, room allocation, agents | redis records and locks, worker registry | register, select, allocate, assign | planned |
| Media buffers, congestion control, telemetry, configuration, egress, ingress, SIP | media and time series | numerical | not modelled: rates and clocks, or no state of their own |

The parts interact through shared state (the arena's `areaMap` and room lists;
the subscriber lists of a media track), through calls that suspend (`await` of
the database and of the token request), through goroutines that are spawned and
not waited for (removals, closes, notifications), through bounded channels
(`wake`, `reconcileCh`, `MessageChannel`), and over the network between nodes.

The hard behaviours are those: a handler that goes on after an `await` with
what it read before; a wake-up that is dropped; a packet that is sent again
with more in it; a track that closes while somebody subscribes to it; a close
that is handled before what it closes has been stored; a restart that is
postponed twice; a removal that meets the successor of whom it was meant for; a
packet that is dropped after its number was given out. `PROJECT.json` lists
them with their lines under `hazards`.

## 2. The modules

| Module | Models | Uses |
|---|---|---|
| `OpsQueue` | `utils/opsqueue.go` | |
| `OpsQueue_proofs` | theorems about it | `OpsQueue`, TLAPS |
| `SpaceMap` | what join computes from the row of a space (`user.ts:110-193`) | |
| `Arena` | `user.ts`, `roomManager.ts`, with clients that send anything | `SpaceMap` |
| `MCArena` | small maps and sets of users, a view | `Arena` |
| `Arena_proofs` | theorems about it | `Arena`, TLAPS |
| `OrderedDelivery` | nothing in the code: what a signal connection promises | |
| `SignalRelay` | `routing/signal.go`, `routing/messagechannel.go`; the psrpc stream is external | `OrderedDelivery` by refinement |
| `SignalRelay_proofs` | theorems about it, among them the refinement | `SignalRelay`, TLAPS |
| `Subscriptions` | `rtc/subscriptionmanager.go` with `mediatrackreceiver.go`, `mediatracksubscriptions.go`, `subscribedtrack.go`, `roomtrackmanager.go` | |
| `MCSubscriptions` | small rooms, a view | `Subscriptions` |
| `Subscriptions_proofs` | theorems about it | `Subscriptions`, TLAPS |
| `Negotiation` | the offering side of `rtc/transport.go` with the debouncer and its signal connection; pion and the client are external | |
| `Negotiation_proofs` | theorems about it | `Negotiation`, TLAPS |
| `RoomSession` | `service/roommanager.go`, the participants of `rtc/room.go`, Close of `rtc/participant.go` | |
| `RoomSession_proofs` | theorems about it | `RoomSession`, TLAPS |
| `RangeMap` | `sfu/utils/rangemap.go` | |
| `RangeMap_proofs` | what its operations do to a map | `RangeMap`, TLAPS |
| `RTPMunger` | the sequence numbers of `sfu/rtpmunger.go` as `sfu/forwarder.go` uses it | `RangeMap` |
| `RTPMunger_proofs` | theorems about it | `RTPMunger`, `RangeMap_proofs`, TLAPS |

Definitions that begin with "Mutant:" are wrong on purpose. Each is the code
with one plausible mistake; `PROJECT.json` says which property then fails, which
shows that the property depends on the code. They are in no next-state relation.

### OpsQueue

One action per critical section of `oq.lock` and per step of process() between
them. The wake-up channel is the number of its tokens; Stop closes it, and a
receive on the closed channel takes the token first and then returns at once.
Two history variables, `accepted` and `executed`, name the operations by the
order of their acceptance.

### SpaceMap and Arena

JavaScript runs a handler up to its next `await` without interruption, so a
handler is one action to its first `await` and one for each `await` after. A
suspended handler is a record in `tasks[c]`: where it waits and what its local
variables hold. `join` has two (space, avatar), `move` into a call area one: the
token request, or, when no seat is free, only a microtask. Before that microtask
runs, further messages can be handled only if they came in the same chunk
of the same socket; the guards `MessageTurn` and `IoTurn` say so.

A rejected promise in an async message handler is handled nowhere and ends the
process: the action `Crash`, after which `up` is FALSE. State is in memory only,
so a restart begins at `Init` and is not modelled as a step.

The end of a connection changes nothing on the server because the close handler
is commented out (`index.ts:12-14`): users stay in the room and keep their
seats. `SeatsSound` holds of such ghosts as well.

The server asks no discipline of its clients, and the repository's own page
keeps none: it sends moves without waiting for answers (`Arena.tsx:318-329`), in
pixels (263-268). So any client of the model may send any message at any time, in
the middle of its own suspended handlers too, up to `MaxTasks` of them; and
several connections may belong to one user where `Tokens` says so. No property
assumes more of the clients.

`told[d]` records for whom d has been sent an introduction: the list that comes
with space-joined, and user-joined, less user-left. It is what the server *sent*,
not what a page shows. The page looks for the list in `msg.payload.users`
(`Arena.tsx:285`) while the server puts it beside the payload (`user.ts:237`), so
the repository's page never gets it, and it does nothing on movement-Rejected.
No property claims that a page agrees with the server, or that the members of a
room agree on positions: section 5 says where they do not. `joined` records
that space-joined was sent.

`rooms[s][c]` says how often the User object of c is in the list of room s: a
client that joins again is in it twice, and leaving takes every copy out. The
order of the list is left out, as nothing observes it.

Tokens are the user ids they carry, `Undefined` is JavaScript's `undefined`,
avatars, random choices' weights, colours and log lines are left out. Tiles and
pixels: the code bounds a move by the size in *pixels*, so the model keeps
`dims` in pixels and uses one pixel per tile in the runs; how far off the map
this lets a user walk with 50 pixels per tile is listed as a hazard without a
property.

### SignalRelay and OrderedDelivery

One direction of a connection. write() holds `s.mu` except in `Stream.Send`, so
an action is what it does between two sends. The stream may lose, delay,
duplicate and reorder packets (`net` keeps every packet ever sent, `Deliver` may
take any of them, any number of times), a send may fail although its packet
arrived, and each end may or may not learn of the other's close. A send that
succeeds needs an arrival (`acks`). The retry deadline is a choice: any failed
send may be the one after the deadline (`GiveUp`). `closeOnFailure` is a variable
that never changes, so that one run has both kinds of sink.

`OrderedDelivery` is the promise: the receiver is handed a prefix of what was
accepted, in order and once each; the end is "complete" only after a close and
with everything handed over, else "broken". The refinement maps `sent` to
`accepted`, `closing` to `draining`, `got` to what the session has taken or can
still take out of its channel, and `end` to how the reader ended.

StartParticipantSignal, which opens the two directions, is left out.

### Subscriptions

Callers set desires; one worker reconciles them, one subscription at a time;
down tracks close in goroutines. An action is what happens under one lock, or
between two calls that another goroutine can observe: `subscribe()` alone is
the actions `Resolve`, `Admit`, `Look`, `MakeDown`, `Recheck`, `Hook`,
`SetDown`, `Counted` and `Mark`, and closing a down track is `DownClosed`,
`LetGo`, `Uncount`, `Unmark` and `Detach`. Objects live in small pools; one that
nobody refers to any more is used again.

A media track that closes looks its subscribers up by the codec of each of its
receivers (`mediatrackreceiver.go:388-390`, `mediatracksubscriptions.go:308-321`).
A publisher of RED with an Opus subscriber, or the reverse, has down tracks of
another codec than the receiver (`wrappedreceiver.go:57-73`, `sfu/downtrack.go:600`),
which are passed over. `ClearReceivers` may do so with any down track, and the
history variable `passed` records it for `NoneLeftBehind`. Such a down track
goes when the observer reports that the source was removed, when somebody
unsubscribes, or when the RTP ends (`sfu/receiver.go:757-768`), the last of which
is left out.

Abstractions: the receivers of a media track are open as long as the track is;
CanSubscribe and the publisher's permission are one flag `permitted`; all tracks
are of one kind, so there is one counter and one limit, and of one publisher;
the goroutine that takes an observer off may come at any later time, which is
the choice in `CloseMedia`. The channel `reconcileCh` and all timers only make
the worker look earlier or later: `Pick` may take any subscription that needs
something. Left out: the synchronous and one-shot modes, closes followed by a
resumption, binding and its timeout (its failure is an `Unsubscribe`),
settings other than that they create a subscription, telemetry.

### Negotiation

The i-th change of the peer connection is the number i, and an offer holds the
changes made before it was created; so "every change is offered" needs no SDP. A
change is followed by a call of `Negotiate`, debounced or forced. From there it
is handed on four times: timer, sending function (`fired`), event about to be
posted (`posting`), queue. Each has an action, as the lock is released in
between. The events queue is the one of `OpsQueue`; here it is a sequence whose
head is handled, which `FifoOrder` and `NoLostWakeup` allow, and a handler is one
action because nobody else touches what it keeps. The exception is the timer of
an unanswered offer: its callback runs beside the handlers without a lock and
is therefore three actions (`CheckTimerFires`, `CheckTimerClears`,
`CheckTimerDecides`).

The client answers what it gets, in order. Its signal connection may end at any
time; what was on its way is then lost, the signaller drops what the server
sends meanwhile, and the client comes back with `Resume`, which asks for an
ICE restart. An error in a handler (`HandlerFails`) and a negotiation that times
out fail the transport for good: its participant closes it.

Left out: the answering side, candidates, the selection of a transport, data
channels, and the fallback from UDP to TCP.

### RoomSession

One room name, one identity, any number of calls of `StartSession`. Its look-up
of the room, `Room.Hold`, the removal of a duplicate, `Join`, and the start of
its worker are separate actions, since the map of the manager and the list of a
room have a lock each and nobody holds both. A removal is two actions, off the
list and then closed (`RemovalTakes`, `RemovalCloses`), and so is the end of
a room (`ClosePeople`, `DeleteEntry`). The removals of the media node name the
participant by its ID and do nothing when another one has its place
(`RemovalTakes`). The API's RemoveParticipant has found somebody with the identity
(`ApiAsks`) and then removes without an ID (`roommanager.go:771`,
`room.go:1286`): whoever holds the identity by then is taken off and closed
(`ApiTakes`), a successor too. The idle check and DeleteRoom differ in when
they decide to close a room; `CloseRoom` may close any at any time.

Left out: the room store and the message bus, which only add ways to fail
(`RoomFails`, `JoinUndone`), and holds, for the reason given in the module.

### RangeMap and RTPMunger

A range map is a sequence of records whose last one is open. The operations are
translated one to one, with the pruning at the end of each.

`RTPMunger` is the record `m` with the fields of the munger and one operator for
each method; the actions are what the forwarder does with a packet. What the
layer selector and the codec decide is free: any packet may be forwarded, dropped
with its number, or dropped and its number taken back when none was missing
before it. `line` is a history: `line[i]` is the packet that owns the number
first + i - 1. It grows by what an ideal numbering would give out and never
looks at an offset, so that comparing it with the munger means something.
`Skim` is the one case where the forwarder asks for a number of a packet whose
source it has not taken over (section 5).

Numbers are integers: the code extends them to 64 bits before the munger sees
them. Timestamps, the retransmission gate and the codec's header are left out.

## 3. The runs

| Run | Question | Instance |
|---|---|---|
| `opsqueue_flush` | Is any operation stranded, lost, reordered or run too late; does Stop complete? | 4 operations, FlushOnStop |
| `arena_eager` | Do seats stay right, does nobody jump or move in a call, whatever comes in the middle of suspended handlers? | 2 connections, 2 suspended handlers each; two spaces whose areas have the same key and different sizes, a seat beyond the map's edge |
| `arena_foyers` | Has everybody who is settled in a room been told of the others; is every join answered? | 2 connections, any of 2 users on each, two spaces and a missing one, joins repeated by one client and crossing |
| `arena_bare` | Is a user let in where there is no tile to stand on? Violated. | a space with nothing on its map |
| `relay` | Is delivery in order and complete, does it refine the promise; is a message stranded; does one get lost while the sender's sink stays open; does Close return? | both kinds of sink, 3 messages, 2 sends before the deadline, buffers of 2 |
| `negotiation` | Is every change offered and every restart carried out; is there a second offer in flight before a connection is lost? | 3 changes or lost connections |
| `room_session` | Does anybody stay behind in a closed room, or off its list; is an open room displaced; does a removal take off a successor, other than the API's? | 2 sessions, 2 rooms |
| `rtp_munger` | Is a number used twice, or by another packet than its own? | 2 sources, 5 numbers, 2 closed ranges, a line of 6 |
| `subscriptions_one` | Do desire and reality converge, is anything left behind, do map and counts agree, also where a down track is passed over for its codec? | 1 caller, 1 track that closes at any moment, Close at any moment |
| `subscriptions_limit` | Is the limit kept? | 2 tracks, limit 1, changing permission |
| `subscriptions_dead` | Can a subscription keep a dead down track? Violated. | 1 track |
| `subscriptions_race` | Can a down track be in no subscription? Violated. | 2 callers |

Deadlock is not an error in any of them: a queue that is stopped, a process that
has died, a connection that has ended and a manager that is closed do nothing
any more. That what should go on does go on is what the liveness properties say.

### Bounds

* `MaxOps = 4`: the queue's behaviour depends on whether it has none, one or
  more elements and on whether more come while one runs; four operations give
  every order of these against Start and Stop. The theorems need no bound.
* Arena: two connections and two suspended handlers each give every crossing of
  two handlers, of one connection or of two. The two seats of an area can be
  taken by one user or by both, so that it is full for either. `MaxTasks` bounds
  the suspended handlers of a connection, and `MaxEntries` how often a client
  that joins again is in the room lists. The second seat of the sofa is beyond
  the edge of the map, since the seats are computed from the area's size and not
  from the map. In `arena_foyers` nobody can move: `JoinAnswered` is checked with
  joins, leaves and ends of connections in between, without moves. The safety
  theorems need no bound and no limit on the number of users.
* Relay: three messages make packets of no, one, two and three messages, and
  two packets that overlap by one and by two. A channel and a buffer
  of two can be full with a message left. `MaxTries = 1` gives one retry;
  `GiveUp` is possible at either send. The theorems need no bound.
* Negotiation: `MaxInputs = 3` bounds changes and lost connections together. An
  offer can be pending while a second change waits and a third arrives, and a
  restart can be postponed once by each flag and be asked for again. The
  theorems need no bound.
* RoomSession: two sessions are a newcomer and its duplicate, or a session and
  its resumption, each with a worker and a removal. Two rooms are a closed one
  and its successor. The theorems need no bound.
* RTPMunger: two closed ranges and the open one are full after two gaps, so that
  a third forgets the oldest (`MaxSN = 5` gives two gaps and a drop with late
  packets of each). A second source starts anew (`MaxEpochs = 2`), padding of two
  opens a range of its own, and a stream may start with padding from `DummySN`.
* Subscriptions: `MaxSubs` and `MaxDowns` bound the objects alive at a time. A
  subscription and a down track can each have a successor while the predecessor
  is still closing, which is where the races are. A second pending removal from
  the same media track would find nothing (`MaxPending = 1`).
  `subscriptions_limit` looks at states through `Seen`, which identifies states
  that differ only in objects nobody refers to; no action reads those.
  `arena_eager` looks at states through `Unsent`, which leaves out what has been
  sent: no action and none of its properties read it.

### Fairness

* `OpsQueue`: weak fairness of process(): the Go scheduler runs a goroutine that
  can run, and operations return. None of the callers.
* `Arena`: the database answers the oldest query of each connection, or the
  process dies (strong, since refused moves of other sockets can get in
  between); the microtask after a refused seat runs; and time and again none is
  waiting (`[]<>IoTurn`), as a chunk has an end. The token request has no timeout
  and no fairness. None of the clients.
* `SignalRelay`: weak fairness of the writer and of the reader: a send returns
  at the latest when its timeout passes. Nothing of the network.
* `Negotiation`: weak fairness of the handlers, of the timer, the sending
  function and the post of the debouncer: the Go scheduler and the timers of its
  runtime. Candidates are gathered in finite time; a client that is connected
  answers, and one that is not resumes (or its participant is closed, which
  `Close` models). None of who asks for changes or of what breaks connections.
* `RoomSession`: weak fairness of each goroutine that was started: sessions,
  workers, removals, and the closing of a room. None of clients, API calls or
  the idle check.
* `RTPMunger` has safety properties only.
* `Subscriptions`: weak fairness of the worker, of each goroutine and of who has
  called Close. Strong fairness of `Pick(t)`, as the ticker makes the worker go
  through all subscriptions again and again; of `Resolve`, as pending removals
  are waited for one second at most (`maxUnsubscribeWait`); of `MakeDown`, as
  adding a track to a peer connection does not fail for ever. A select with
  closeCh closed takes it sooner or later (`Stop`).

## 4. What is proved

All theorems are of `Spec`, without fairness, for every value of the constants
that the ASSUMEs allow (Booleans and natural numbers).

`OpsQueue_proofs`. `NoLostWakeup` is inductive only together with the order of
the operations and the place of process(): a flushed queue is empty at "done"
because Return is taken with an empty queue and nothing is accepted after
Stop. `IInv` is the conjunction; `NextIInv` has a step for each action, with the
two that change the queue (`EnqueueIInv`, `PopFrontIInv`) as lemmas. From it
follow `TypeCorrect`, `WakeupSafety`, `Fifo`, `Flushed` and the action property
`Quiet`.

`SignalRelay_proofs`. Order at the session does not follow from itself: it
rests on what every packet ever sent holds. `IInv`, in `SignalRelay`, has a
part for each station: what is queued is the end of what was accepted
(`SinkInv`); a packet holds what its sequence number announces, and one that
asks for the end holds the last messages (`StreamInv`); what was handed over and
is still to be copied adds up to the reader's sequence number (`ReaderInv`); and
`NoStranded`. Each part has a lemma of its own, under it a step per action.
Lemmas about runs of consecutive numbers (`FromAppend`, `FromTail`, `FromSub`,
`UnseenRun`) carry the sequences. From it follow `TypeCorrect`, `NeverStranded`,
`Ordered`, `CloseComplete`, and `Refinement`: initial states map to initial
states (`RefineInit`), each step to a step of `OrderedDelivery` or to none
(`RefineNext`).

`Negotiation_proofs`. A request that waits in the debouncer is safe only if a
pending debounce has a timer or a function that has fired (`PendingServed`); a
postponed request is safe only if "retry" means that an answer is still to come,
which is `StatesAgree`; a postponed restart is safe only if the second flag is
set when gathering is over (`NextRestartReady`). `IInv` is the conjunction of
these with the properties. It has a lemma for each action; `CreateOfferStep`,
`PostponeStep` and `RestartStep` serve the handlers that share them, `AppendQueue`
and `TailQueue` the queue. From it follow `TypeCorrect`, `RequestNeverLost`,
`RestartNeverLost`, `StatesAlwaysAgree` and the action property
`RestartWhenGathered`. `OneOfferAtATime` has an invariant of its own on top
(`FirstConnection`): until a connection is lost nobody has asked for a restart, and
the offer is in exactly one place, with the client, on its way back, or in the
queue.

`RoomSession_proofs`. `ClosedRoomEmpty` rests on `Members` (who is on a list is in
that room) and `Alive` (only who has joined can be removed, taken over or
served); `NoDisplacement` on `Lookup` (who wants to make a room has seen none, or
a closed one, and rooms do not open again). A lemma for each action, under it a
step for each part. From it follow `TypeCorrect`, `ClosedRoomsEmpty`,
`NeverDisplaced` and, by a case for each way off a list (`TakenWasMeant`),
`SuccessorsSpared`.

`Arena_proofs`. All of it holds whatever the clients send, for any number of
connections, users, spaces, suspended handlers and repeated joins. `IInv` has
five parts. `SeatsSound` needs the types only, once a lemma says that the first
free seat exists (`FirstSeatFound`). `Recoil`: whoever is being refused a seat
stands next to where it came from; no join can put it elsewhere before the move
is taken back, since the answers of the database come after the microtask.
`Free`: whoever is being refused a seat is in no call, since no call can begin
before that microtask either. `Met`: two who are *ready* in a room have been told
of each other. Ready is whoever asked for that room last, is on its list, and has
no join of that room under way; joins of other rooms may be, so that a join
answered late does not disturb it, which `Introduced` leaves open. Each part
has lemmas for messages, for answers of the database, and for suspended handlers
that go on. From it follow `TypeCorrect`,
`SeatsStaySound`, `NobodyJumps`, `NobodyMovesInCall` and
`SettledAreIntroduced`.

`LayoutAssumption` says what the database can hold: the size of a space is read
from digits (`apps/http/src/types/index.ts:20`), the numbers of its elements are
integers (`packages/db/prisma/schema.prisma`). Elements may overlap, stand
outside the map, or have negative sizes.

`Subscriptions_proofs`. For any number of callers, `IInv` follows a down track
through its life. It is on the list of its media track until it closes
(`Entered`); it has an owner, or the worker is about to give it one (`Owned`,
`Hooked`, `Given`); its owner knows it, or the worker is about to tell (`Told`);
and no other subscription does (`Held1`). `Worked`, `Called` and `Filed` say
what the worker, the callers and the map hold. `NoneLeftBehind` is one of the
parts: a down track entered after the list was gone through is found by the
second look at the state of the media track. It excepts those that were
passed over; the other parts hold of them too. The limit rests on `CountCovers`:
the count is at least the number of down tracks whose owner knows them, and any
other one that is up is the one the worker is making; and on `Within`: between
the look at the limit and the counting nobody else counts. Steps are of four
kinds (`Kinds`): those that concern nobody else (`MinorStep`), the worker's
moves from one place to the next (`MoveStep`), the end of a down track
(`LeaveStep`), and eleven with a lemma each. From it follow `NothingLeftBehind`
and `Capacity`. With a single caller (`One`) nobody's entry in the map is
overwritten: `OInv` adds that what has a down track is in the map (`Busy`,
`Found`) and that the count is exact (`CountAgrees`), from which follow
`NothingOrphaned`, `Counts` and `TypeCorrect`. With two callers `NoOrphan` and
`CountAgrees` are false, which is finding 3 below.

`RTPMunger_proofs`. `RangeMap_proofs` first says what the operations of a map
leave: the ranges stay apart (`Good`), and up to the place of a change the keys
keep their values, apart from those whose range is forgotten (`Agrees`); this
holds for every `Size`. The invariant says that the offset is the one of the open
range (`Sound`), that the packet after the highest gets the number after the line
(`Continues`), that each packet of the source on the line is found by its offset
unless it is too old (`Kept`), and the reverse, that an offset leads only to the
number of that packet (`Owned`). The reverse is what keeps a packet that was
dropped out of the range before it. A new source starts with an empty map
(`FreshNumbers`); a packet ahead extends the line (`ForwardNumbers`), a dropped
one leaves it (`SkipNumbers`), padding lengthens it (`SameNumbers`,
`LongerLine`). From it follow `LineTheorem` and `WrittenTheorem`.

TLC checked the parts of these invariants on the instances above first, apart
from those of the munger, which quantify over all integers: there TLC checks
only what follows from them. Some proved facts are in no run, since others imply
them or nothing adds to them there: `Quiet`, `StatesAlwaysAgree`, and the
invariants themselves.

Only model-checked: liveness and all that needs fairness or ENABLED, which TLAPS
does not handle: `EveryOpRuns`, `StopCompletes`, `JoinAnswered`, `CloseReturns`,
`ArrivesOrBroken`, `Served` (of both modules), `NoGhosts`, `Withdrawn` and
`CloseReleases`. Every other property that a passing run checks has a theorem.
No module that has theorems declares a recursive operator, and no theorem needs
induction over data.

## 5. What the checks found

Shown by a run that is violated:

1. `arena_bare`: the test for "No free tile available!" (`user.ts:194`) looks at a
   list, which is never falsy. In a space with nothing on its map the user is let
   in at no position, announced, and can never move.
2. `subscriptions_dead`: a media track that closes while a subscriber is added
   can have its down track's close handled before the subscription manager has
   stored it (`rtc/subscriptionmanager.go:595`). The subscription then keeps a
   closed down track and its place in the limit.
3. `subscriptions_race`: `SubscribeToTrack` looks a subscription up and inserts
   it under separate locks (`rtc/subscriptionmanager.go:147-156`). Two callers
   can overwrite each other, and a down track forwards that no subscription
   in the map holds.

The last two need five or more steps of three goroutines. `PROJECT.json` quotes what
the code says of them.

Further disagreements that the specifications contain, with the steps that lead
to them; they have no run of their own:

4. The timer of the wrong offer (`rtc/transport.go:2389`). Offer 1 is sent and its
   timer fires; before the callback clears "the" timer, the answer is handled, a
   waiting change makes offer 2 and sets its timer; now the callback clears that
   one. Its version is not the current one, so it reports nothing. If the client
   never answers offer 2, nobody notices. `Watched` in `Negotiation` is the
   property that fails.
5. Two open rooms of one name (`service/roommanager.go:186`). Room 1 closes and goes
   through its participants; a session finds it closed, makes room 2 and joins;
   then the callback of room 1 deletes the entry of the *name*, which is room 2's.
   The next session makes room 3, and neither API calls nor the idle check reach
   room 2 any more. `Reachable` in `RoomSession` is the property that fails.
6. A jump of numbers (`sfu/forwarder.go:2095`). A VP9 stream without dependency
   descriptor is resynchronised; the first packet of the next key frame is
   relevant but not selected (`vp9.go:51-105` only changes a local variable), so
   the munger numbers it as if it came after a gap in the old source. With as many
   packets missing as were skipped since the resync, numbers jump by that many,
   which the comments at `forwarder.go:500` and `526` mean to prevent. In
   `RTPMunger`: `Start`, `Resync`, `Skim` over a gap. They stay unique.

7. Positions (`user.ts:279-288`, `325-326`). leave-call tells the room the tile
   before the area, while the user stays on its entry; a step onto the entry of
   an area is told only with the call. So members of a room and the server can
   have a user on different tiles, for as long as it does not move. Nothing in
   the repository says they should agree, and no property does.
8. Two seats (`user.ts:283-302`). The seat is taken before the token comes. A client
   that walks on meanwhile can enter a second area and hold a seat in each;
   leave-call names one, and the other stays taken.
9. Two joins under way (`user.ts:96`, `244`). A join announces the user to the room of
   the latest join, which may be another than the one whose list it was given;
   a user-left that overtakes the join leaves an entry in the list that nobody
   takes out. `Introduced` speaks of those whose joins are over and went to the
   room they are in.
10. The list of members (`user.ts:237`). It is sent beside the payload, the page reads
   it inside (`Arena.tsx:285`): a newcomer sees who joins or moves after it only.
11. RED and Opus (`rtc/mediatracksubscriptions.go:313`). The close of a media track
   passes over down tracks of another codec than the receivers'; the comment of
   `NoneLeftBehind` says who closes them.
12. Removal by identity (`service/roommanager.go:771`). Between the look-up and the
   removal the participant can be replaced; the API then removes the successor,
   without an ID to tell them apart.

The properties that hold are stated so that the known flaws do not hide them:
`NoOrphan` holds for one caller, `Withdrawn` is about down tracks whose close
has not been handled, `Served` of Subscriptions about those that hold none,
`NoDisplacement` about the room that is on the map, `NoneLeftBehind` about
down tracks that were not passed over, `SuccessorSpared` about removals other than the API's, `OneInFlight` about
the time until a connection is lost.

## 6. Not modelled

Listed with reasons under `components` in `PROJECT.json`. In short: user
interface, telemetry, configuration and generated assembly carry no protocol;
media buffers, statistics and congestion control are numerical; egress, ingress,
SIP and WHIP forward requests; the rest is planned. The repository holds a whole
media server, of which the modules here cover the parts whose state several
goroutines or messages race for; most of its lines are media processing,
generated fakes and plumbing.

## 7. Plan

In order of importance:

1. `SpaceStore`: the HTTP API over the database. Requests as sequences of
   database calls that interleave; sign-up races, the interactive transaction
   that uses the global client (`space.ts:48`), the deletion that misses a
   foreign key (`space.ts:226`). Abstract specification: each request atomic.
2. `RoomLock`: room allocation under the redis lock that expires
   (`service/roomallocator.go`, `redisstore.go`), with crashes between steps.
3. `Dynacast`: quality reports against the debounce.
4. The sequencer of retransmissions and the timestamps of the munger, with
   their fixed widths.
