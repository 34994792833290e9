---------------------------- MODULE Negotiation ----------------------------
(***************************************************************************)
(* The negotiation of the server's subscriber transport with its client    *)
(* (apps/livekit/pkg/rtc/transport.go, PCTransport with IsOfferer).        *)
(*                                                                         *)
(* A change of the peer connection (a track added or removed) is followed  *)
(* by Negotiate, which is debounced and ends as a "send" event.  Events    *)
(* are handled one at a time by the events queue.  While an offer waits    *)
(* for its answer another one must wait; an ICE restart, which a resuming  *)
(* client asks for, must not.                                              *)
(*                                                                         *)
(* The i-th change is the number i; an offer contains the changes made     *)
(* before it was created.  The peer connection (pion) and the client are   *)
(* not part of this repository.  An error of a handler and a negotiation   *)
(* that times out fail the transport, and its participant closes it.       *)
(***************************************************************************)
EXTENDS Naturals, Sequences, FiniteSets

CONSTANTS
    MaxInputs       \* bound on the Negotiate calls and lost signal connections

ASSUME NegotiationAssumption == MaxInputs \in Nat

VARIABLES
    phase,          \* "open", "failed": OnNegotiationFailed, "closed"
    asked,          \* number of changes, each with its Negotiate (history)
    \* Negotiate and the Debouncer
    debouncePending,
    timer,          \* the debouncer's timer is armed with the sending function
    fired,          \* sending functions that have not taken the lock yet
    posting,        \* "send" events about to be posted, the lock released
    \* the events queue and what its handlers keep
    queue,
    negotiationState,
    localOfferId,
    restartAfterGathering, restartAtNextOffer,
    offered,        \* the changes in the newest offer (history)
    restartOwed,    \* an ICE restart was accepted but not offered (history)
    \* the timer that watches an unanswered offer
    signalStateCheckTimer,  \* the version it was set for, 0: none
    negotiateCounter,
    firing,         \* versions whose callback has started
    checking,       \* <<version, negotiation had failed>>: the timer is cleared
    \* the peer connection
    signaling,      \* "stable", "have-local-offer"
    hasRemote,      \* CurrentRemoteDescription() # nil
    gathering,      \* "new", "gathering", "complete"
    connected,      \* ConnectionState() is connected
    \* the signal connection and the client
    up, drops,
    offers,         \* offers on their way to the client
    answers         \* answers on their way to the server

debounceVars == <<asked, debouncePending, timer, fired>>
restartVars == <<restartAfterGathering, restartAtNextOffer, restartOwed>>
offerVars == <<negotiationState, localOfferId, offered>>
watchVars == <<signalStateCheckTimer, negotiateCounter>>
callbackVars == <<firing, checking>>
pcVars == <<signaling, hasRemote, gathering>>
wireVars == <<up, drops, offers, answers>>
loopVars == <<offerVars, restartVars, watchVars, pcVars>>
vars == <<phase, debounceVars, posting, queue, loopVars, callbackVars, connected, wireVars>>

Init ==
    /\ phase = "open"
    /\ asked = 0 /\ debouncePending = FALSE /\ timer = FALSE /\ fired = 0 /\ posting = 0
    /\ queue = <<>>
    /\ negotiationState = "none" /\ localOfferId = 0 /\ offered = 0
    /\ restartAfterGathering = FALSE /\ restartAtNextOffer = FALSE /\ restartOwed = FALSE
    /\ signalStateCheckTimer = 0 /\ negotiateCounter = 0 /\ firing = {} /\ checking = {}
    /\ signaling = "stable" /\ hasRemote = FALSE /\ gathering = "new" /\ connected = FALSE
    /\ up = TRUE /\ drops = 0 /\ offers = <<>> /\ answers = <<>>

Event(s) == [signal |-> s, id |-> 0]
Answer(i) == [signal |-> "answer", id |-> i]

-----------------------------------------------------------------------------
(* Negotiate(force) after a change, and the Debouncer. *)

Ask ==
    /\ asked + drops < MaxInputs
    /\ asked' = asked + 1

\* The lock is held; the event is posted after it is released.
NegotiateForced ==
    /\ phase = "open"
    /\ Ask
    /\ timer' = FALSE
    /\ debouncePending' = FALSE
    /\ posting' = posting + 1
    /\ UNCHANGED <<phase, fired, queue, loopVars, callbackVars, connected, wireVars>>

\* While a debounced call is pending another one has nothing to add.
NegotiateDebounced ==
    /\ phase = "open"
    /\ Ask
    /\ timer' = (timer \/ ~debouncePending)
    /\ debouncePending' = TRUE
    /\ UNCHANGED <<phase, fired, posting, queue, loopVars, callbackVars, connected, wireVars>>

DebounceExpires ==
    /\ phase # "closed"
    /\ timer
    /\ timer' = FALSE
    /\ fired' = fired + 1
    /\ UNCHANGED <<phase, asked, debouncePending, posting, queue, loopVars, callbackVars,
                   connected, wireVars>>

DebouncedLock ==
    /\ fired > 0
    /\ fired' = fired - 1
    /\ debouncePending' = FALSE
    /\ posting' = posting + 1
    /\ UNCHANGED <<phase, asked, timer, queue, loopVars, callbackVars, connected, wireVars>>

\* A stopped queue takes no event.
PostSend ==
    /\ posting > 0
    /\ posting' = posting - 1
    /\ queue' = IF phase = "closed" THEN queue ELSE Append(queue, Event("send"))
    /\ UNCHANGED <<phase, debounceVars, loopVars, callbackVars, connected, wireVars>>

-----------------------------------------------------------------------------
(* The handlers of the events queue. *)

\* OnOffer.  Without a signal connection the signaller drops the message
\* silently.
Send(i) ==
    /\ localOfferId' = i
    /\ offers' = IF up THEN Append(offers, i) ELSE offers
    /\ UNCHANGED <<up, drops, answers>>

\* Mutant: the version is computed, the counter is not advanced.
setupSignalStateCheckTimerUncounted ==
    /\ signalStateCheckTimer' = negotiateCounter + 1
    /\ UNCHANGED negotiateCounter

setupSignalStateCheckTimer ==
    /\ negotiateCounter' = negotiateCounter + 1
    /\ signalStateCheckTimer' = negotiateCounter'

\* Mutant: the postponed restart is reset without being put into the options.
CreateOfferOptionLost(iceRestart) ==
    /\ offered' = asked
    /\ restartAtNextOffer' = FALSE
    /\ restartOwed' = (restartOwed /\ ~iceRestart)
    /\ signaling' = "have-local-offer"
    /\ gathering' = IF iceRestart \/ gathering = "new" THEN "gathering" ELSE gathering
    /\ negotiationState' = "remote"
    /\ setupSignalStateCheckTimer
    /\ Send(localOfferId + 1)

\* createAndSendOffer from CreateOffer on.
CreateOffer(iceRestart) ==
    LET restart == iceRestart \/ restartAtNextOffer IN
    /\ offered' = asked
    /\ restartAtNextOffer' = FALSE
    /\ restartOwed' = (restartOwed /\ ~restart)
    /\ signaling' = "have-local-offer"
    /\ gathering' = IF restart \/ gathering = "new" THEN "gathering" ELSE gathering
    /\ negotiationState' = "remote"
    /\ setupSignalStateCheckTimer
    /\ Send(localOfferId + 1)

Handle(s) ==
    /\ phase = "open"
    /\ queue # <<>>
    /\ Head(queue).signal = s
    /\ queue' = Tail(queue)
    /\ UNCHANGED <<debounceVars, posting, callbackVars, connected>>

\* Mutant: an offer is created while another one is pending.
HandleSendOfferAtOnce ==
    /\ Handle("send")
    /\ negotiationState # "retry"
    /\ CreateOffer(FALSE)
    /\ UNCHANGED <<phase, restartAfterGathering, hasRemote>>

HandleSendOffer ==
    /\ Handle("send")
    /\ negotiationState = "none"
    /\ CreateOffer(FALSE)
    /\ UNCHANGED <<phase, restartAfterGathering, hasRemote>>

\* Mutant: the attempt is skipped and nobody tries again.
HandleSendOfferNever ==
    /\ Handle("send")
    /\ negotiationState # "none"
    /\ UNCHANGED <<phase, loopVars, wireVars>>

\* Let the ongoing negotiation finish, and try again then.
HandleSendOfferLater ==
    /\ Handle("send")
    /\ negotiationState # "none"
    /\ negotiationState' = "retry"
    /\ UNCHANGED <<phase, localOfferId, offered, restartVars, watchVars, pcVars, wireVars>>

\* Mutant: the answer of a negotiation that has to be repeated just ends it.
HandleAnswerOnce ==
    /\ Handle("answer")
    /\ signaling = "have-local-offer"
    /\ hasRemote' = TRUE
    /\ signaling' = "stable"
    /\ negotiationState' = "none"
    /\ signalStateCheckTimer' = 0
    /\ UNCHANGED <<phase, localOfferId, offered, restartVars, negotiateCounter, gathering,
                   wireVars>>

\* setRemoteDescription applies an answer to whatever offer is pending; the id
\* of the answer is compared only to log it.
HandleAnswer ==
    /\ Handle("answer")
    /\ signaling = "have-local-offer"
    /\ hasRemote' = TRUE
    /\ IF negotiationState = "retry"
       THEN /\ CreateOffer(FALSE)
            /\ UNCHANGED restartAfterGathering
       ELSE /\ signaling' = "stable"
            /\ negotiationState' = "none"
            /\ signalStateCheckTimer' = 0
            /\ UNCHANGED <<localOfferId, offered, restartVars, negotiateCounter, gathering,
                           wireVars>>
    /\ UNCHANGED phase

\* The peer connection refuses an answer when no offer is pending.
HandleAnswerRefused ==
    /\ Handle("answer")
    /\ signaling = "stable"
    /\ signalStateCheckTimer' = 0
    /\ phase' = "failed"
    /\ UNCHANGED <<offerVars, restartVars, negotiateCounter, pcVars, wireVars>>

\* doICERestart while candidates are gathered: continue afterwards.
DeferRestart ==
    /\ gathering = "gathering"
    /\ restartAfterGathering' = TRUE
    /\ restartOwed' = TRUE
    /\ UNCHANGED <<restartAtNextOffer, offerVars, watchVars, pcVars, wireVars>>

\* An offer with an ICE restart, at once: nothing is negotiated, or the pending
\* offer is abandoned by applying the last answer again.
RestartNow ==
    /\ gathering = "complete"
    /\ negotiationState = "none" \/ hasRemote
    /\ CreateOffer(TRUE)
    /\ UNCHANGED hasRemote

\* Mutant: the first offer is sent again while candidates are still gathered.
ResendOfferEarly ==
    /\ gathering # "new"
    /\ negotiationState # "none" /\ ~hasRemote
    /\ negotiationState' = "retry"
    /\ restartAtNextOffer' = TRUE
    /\ restartOwed' = TRUE
    /\ Send(localOfferId + 1)
    /\ UNCHANGED <<offered, watchVars, pcVars>>

\* The first offer has no answer yet: send it again, restart with the next one.
ResendOffer ==
    /\ gathering = "complete"
    /\ negotiationState # "none" /\ ~hasRemote
    /\ negotiationState' = "retry"
    /\ restartAtNextOffer' = TRUE
    /\ restartOwed' = TRUE
    /\ Send(localOfferId + 1)
    /\ UNCHANGED <<offered, watchVars, pcVars>>

\* On a peer connection that has not started there is nothing to restart.
HandleICERestart ==
    /\ Handle("restart")
    /\ \/ /\ gathering = "new"
          /\ UNCHANGED <<loopVars, wireVars>>
       \/ DeferRestart
       \/ (RestartNow \/ ResendOffer) /\ UNCHANGED restartAfterGathering
    /\ UNCHANGED phase

\* handleICEGatheringCompleteOfferer.
HandleICEGatheringComplete ==
    /\ Handle("gathered")
    /\ \/ /\ ~restartAfterGathering
          /\ UNCHANGED <<loopVars, wireVars>>
       \/ /\ restartAfterGathering
          /\ \/ DeferRestart
             \/ (RestartNow \/ ResendOffer) /\ restartAfterGathering' = FALSE
    /\ UNCHANGED phase

\* A handler returns an error: the offer cannot be created or written, ...
HandlerFails ==
    /\ phase = "open"
    /\ queue # <<>>
    /\ phase' = "failed"
    /\ UNCHANGED <<debounceVars, posting, queue, loopVars, callbackVars, connected, wireVars>>

-----------------------------------------------------------------------------
(* The callback of signalStateCheckTimer runs beside the handlers, without a *)
(* lock, in three steps.                                                     *)

CheckTimerFires ==
    /\ phase # "closed"
    /\ signalStateCheckTimer # 0
    /\ firing' = firing \cup {signalStateCheckTimer}
    /\ signalStateCheckTimer' = 0
    /\ UNCHANGED <<phase, debounceVars, posting, queue, offerVars, restartVars,
                   negotiateCounter, pcVars, checking, connected, wireVars>>

\* clearSignalStateCheckTimer clears the timer that is set now, which need not
\* be the one that fired.
CheckTimerClears(v) ==
    /\ v \in firing
    /\ firing' = firing \ {v}
    /\ signalStateCheckTimer' = 0
    /\ checking' = checking \cup {<<v, negotiationState # "none">>}
    /\ UNCHANGED <<phase, debounceVars, posting, queue, offerVars, restartVars,
                   negotiateCounter, pcVars, connected, wireVars>>

CheckTimerDecides(c) ==
    /\ c \in checking
    /\ checking' = checking \ {c}
    /\ phase' = IF phase = "open" /\ c = <<negotiateCounter, TRUE>> /\ connected
                THEN "failed" ELSE phase
    /\ UNCHANGED <<debounceVars, posting, queue, loopVars, firing, connected, wireVars>>

-----------------------------------------------------------------------------
(* The peer connection, the client and the signal connection (external). *)

GatheringCompletes ==
    /\ phase = "open"
    /\ gathering = "gathering"
    /\ gathering' = "complete"
    /\ queue' = Append(queue, Event("gathered"))
    /\ UNCHANGED <<phase, debounceVars, posting, offerVars, restartVars, watchVars,
                   signaling, hasRemote, callbackVars, connected, wireVars>>

\* A connection that is lost later is reported by OnFailed, not here.
Connects ==
    /\ hasRemote
    /\ ~connected
    /\ connected' = TRUE
    /\ UNCHANGED <<phase, debounceVars, posting, queue, loopVars, callbackVars, wireVars>>

\* The client answers each offer it gets.
ClientAnswers ==
    /\ offers # <<>>
    /\ offers' = Tail(offers)
    /\ answers' = Append(answers, Head(offers))
    /\ UNCHANGED <<phase, debounceVars, posting, queue, loopVars, callbackVars, connected,
                   up, drops>>

AnswerArrives ==
    /\ phase = "open"
    /\ up
    /\ answers # <<>>
    /\ answers' = Tail(answers)
    /\ queue' = Append(queue, Answer(Head(answers)))
    /\ UNCHANGED <<phase, debounceVars, posting, loopVars, callbackVars, connected,
                   up, drops, offers>>

\* What was on its way is lost; a client may keep the answers it has not sent.
SignalDrops ==
    /\ up
    /\ asked + drops < MaxInputs
    /\ drops' = drops + 1
    /\ up' = FALSE
    /\ offers' = <<>>
    /\ answers' \in {answers, <<>>}
    /\ UNCHANGED <<phase, debounceVars, posting, queue, loopVars, callbackVars, connected>>

\* ResumeParticipant links the new sink and ends in ICERestart.
Resume ==
    /\ phase = "open"
    /\ ~up
    /\ up' = TRUE
    /\ queue' = Append(queue, Event("restart"))
    /\ UNCHANGED <<phase, debounceVars, posting, loopVars, callbackVars, connected,
                   drops, offers, answers>>

\* Close stops the queue, which drops its events, and the timer.
Close ==
    /\ phase # "closed"
    /\ phase' = "closed"
    /\ queue' = <<>>
    /\ signalStateCheckTimer' = 0
    /\ UNCHANGED <<debounceVars, posting, offerVars, restartVars, negotiateCounter, pcVars,
                   callbackVars, connected, wireVars>>
-----------------------------------------------------------------------------

EventsQueue ==
    \/ HandleSendOffer \/ HandleSendOfferLater
    \/ HandleAnswer \/ HandleAnswerRefused
    \/ HandleICERestart \/ HandleICEGatheringComplete

Debounced == DebounceExpires \/ DebouncedLock \/ PostSend

Callback ==
    \/ CheckTimerFires
    \/ \E v \in firing : CheckTimerClears(v)
    \/ \E c \in checking : CheckTimerDecides(c)

Next ==
    \/ NegotiateForced \/ NegotiateDebounced
    \/ Debounced
    \/ EventsQueue \/ HandlerFails
    \/ Callback
    \/ GatheringCompletes \/ Connects \/ ClientAnswers \/ AnswerArrives
    \/ SignalDrops \/ Resume
    \/ Close

Spec == Init /\ [][Next]_vars

\* Timers fire and the Go scheduler runs every goroutine; gathering ends, a
\* client that is connected answers, and one that is not comes back or its
\* participant is closed.  Nothing makes anybody negotiate or drop a
\* connection.
FairSpec ==
    /\ Spec
    /\ WF_vars(EventsQueue)
    /\ WF_vars(DebounceExpires) /\ WF_vars(DebouncedLock) /\ WF_vars(PostSend)
    /\ WF_vars(GatheringCompletes)
    /\ WF_vars(ClientAnswers) /\ WF_vars(AnswerArrives)
    /\ WF_vars(Resume)

-----------------------------------------------------------------------------
Signal == {"send", "answer", "restart", "gathered"}

Events == [signal : Signal, id : Nat]

DebounceTypes ==
    /\ asked \in Nat /\ offered \in 0..asked
    /\ debouncePending \in BOOLEAN /\ timer \in BOOLEAN
    /\ fired \in Nat /\ posting \in Nat

LoopTypes ==
    /\ negotiationState \in {"none", "remote", "retry"}
    /\ localOfferId \in Nat
    /\ restartAfterGathering \in BOOLEAN /\ restartAtNextOffer \in BOOLEAN
    /\ restartOwed \in BOOLEAN
    /\ negotiateCounter \in Nat /\ signalStateCheckTimer \in 0..negotiateCounter
    /\ signaling \in {"stable", "have-local-offer"}
    /\ hasRemote \in BOOLEAN
    /\ gathering \in {"new", "gathering", "complete"}

CallbackTypes == firing \subseteq Nat /\ checking \subseteq Nat \X BOOLEAN

WireTypes ==
    /\ up \in BOOLEAN /\ drops \in Nat
    /\ offers \in Seq(Nat) /\ answers \in Seq(Nat)

TypeOK ==
    /\ phase \in {"open", "failed", "closed"}
    /\ DebounceTypes
    /\ queue \in Seq(Events)
    /\ LoopTypes
    /\ CallbackTypes
    /\ connected \in BOOLEAN
    /\ WireTypes

Carried(s) == {s[i] : i \in 1..Len(s)}

Queued(s) == \E i \in 1..Len(queue) : queue[i].signal = s

\* A change that no offer contains is never forgotten: something that will
\* send an offer is under way, in the debouncer, between it and the queue, in
\* the queue, or in the state that makes the next answer negotiate again
\* (transport.go:1838-1881, 2440-2447, 2785-2790).
RequestKept ==
    phase = "open" /\ offered < asked =>
        \/ timer \/ fired > 0 \/ posting > 0
        \/ Queued("send")
        \/ negotiationState = "retry"

\* An accepted ICE restart is never forgotten between the two flags that
\* postpone it (transport.go:2200-2208, 2810-2815, 2833-2835).
RestartKept ==
    phase = "open" /\ restartOwed =>
        \/ restartAfterGathering /\ (gathering = "gathering" \/ Queued("gathered"))
        \/ restartAtNextOffer /\ negotiationState = "retry"

\* The negotiation state and the peer connection agree on whether an offer is
\* pending, also after a restart took it back (transport.go:2440-2505,
\* 2762-2795, 2855-2864).
StatesAgree ==
    phase = "open" => (negotiationState = "none" <=> signaling = "stable")

\* As long as no client resumed there is never more than one offer without an
\* answer, and what is on its way is that offer or its answer
\* (transport.go:2440-2447).
OneInFlight ==
    LET received == {i \in 1..Len(queue) : queue[i].signal = "answer"} IN
    phase = "open" /\ drops = 0 =>
        /\ Len(offers) + Len(answers) + Cardinality(received)
             = (IF negotiationState = "none" THEN 0 ELSE 1)
        /\ \A i \in received : queue[i].id = localOfferId
        /\ Carried(offers) \cup Carried(answers) \subseteq {localOfferId}

\* The peer connection is never asked to restart ICE while it gathers, which
\* it refuses, whichever way the restart was postponed
\* (transport.go:2803-2815, 2461-2465).
NoRestartWhileGathering ==
    [][restartAtNextOffer /\ offered' = asked /\ localOfferId' # localOfferId
         /\ negotiationState' = "remote" => gathering = "complete"]_vars

\* Every change is offered to the client, unless the transport fails or is
\* closed (transport.go:1838-1881, 2433-2547).
Served == \A i \in 1..MaxInputs : asked >= i ~> (offered >= i \/ phase # "open")

\* An offer without an answer is watched as long as the peer connection is up:
\* the timer is set, or the callback that will report it has not finished
\* (transport.go:2384-2397, transport_test.go:390-397).  Not an invariant: a
\* callback that is late clears the timer of the next offer (README, 5).
Watched ==
    phase = "open" /\ connected /\ negotiationState # "none" =>
        \/ signalStateCheckTimer = negotiateCounter
        \/ negotiateCounter \in firing
        \/ <<negotiateCounter, TRUE>> \in checking

=============================================================================
