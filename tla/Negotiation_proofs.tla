-------------------------- MODULE Negotiation_proofs --------------------------
(***************************************************************************)
(* However many changes and lost connections there are: no change and no   *)
(* ICE restart is forgotten, the negotiation state agrees with the peer    *)
(* connection, ICE is never restarted while it gathers, and before the     *)
(* first client has to resume there is one offer at a time.                *)
(***************************************************************************)
EXTENDS Negotiation, FiniteSetTheorems, SequenceTheorems, TLAPS

USE NegotiationAssumption

\* A debounced call that others rely on has a timer or a fired function left.
PendingServed == debouncePending => timer \/ fired > 0

\* A restart is postponed to the next offer only when gathering is over.
NextRestartReady == restartAtNextOffer => gathering = "complete"

\* The inductive invariant.
IInv ==
    /\ TypeOK
    /\ PendingServed /\ RequestKept
    /\ StatesAgree
    /\ RestartKept /\ NextRestartReady

-----------------------------------------------------------------------------
(* The queue. *)

LEMMA AppendQueue ==
  ASSUME queue \in Seq(Events), NEW e \in Events, queue' = Append(queue, e)
  PROVE  /\ queue' \in Seq(Events)
         /\ \A s : Queued(s) => Queued(s)'
         /\ Queued(e.signal)'
<1>1. /\ Append(queue, e) \in Seq(Events)
      /\ Len(Append(queue, e)) = Len(queue) + 1
      /\ \A i \in 1..Len(queue) : Append(queue, e)[i] = queue[i]
      /\ Append(queue, e)[Len(queue) + 1] = e
  BY AppendProperties
<1>2. Len(queue) \in Nat
  BY LenProperties
<1>3. /\ Len(queue') = Len(queue) + 1
      /\ \A i \in 1..Len(queue) : queue'[i] = queue[i]
      /\ queue'[Len(queue) + 1] = e
  BY <1>1
<1>4. ASSUME NEW s, Queued(s) PROVE Queued(s)'
  <2>1. PICK i \in 1..Len(queue) : queue[i].signal = s
    BY <1>4 DEF Queued
  <2>2. i \in 1..Len(queue') /\ queue'[i].signal = s
    BY <1>2, <1>3, <2>1
  <2>3. QED BY <2>2 DEF Queued
<1>5. Len(queue) + 1 \in 1..Len(queue')
  BY <1>2, <1>3
<1>6. Queued(e.signal)'
  BY <1>3, <1>5 DEF Queued
<1>7. QED BY <1>1, <1>4, <1>6

LEMMA TailQueue ==
  ASSUME queue \in Seq(Events), queue # <<>>, queue' = Tail(queue)
  PROVE  /\ queue' \in Seq(Events)
         /\ \A s : Queued(s) /\ Head(queue).signal # s => Queued(s)'
<1>1. /\ Tail(queue) \in Seq(Events)
      /\ Len(Tail(queue)) = Len(queue) - 1
      /\ \A i \in 1..Len(Tail(queue)) : Tail(queue)[i] = queue[i + 1]
      /\ Head(queue) = queue[1]
      /\ Len(queue) \in Nat
  BY HeadTailProperties, LenProperties
<1>2. ASSUME NEW s, Queued(s), Head(queue).signal # s PROVE Queued(s)'
  <2>1. PICK i \in 1..Len(queue) : queue[i].signal = s
    BY <1>2 DEF Queued
  <2>2. i # 1
    BY <1>1, <1>2, <2>1
  <2>3. i - 1 \in 1..Len(queue') /\ queue'[i - 1].signal = s
    BY <1>1, <2>1, <2>2
  <2>4. QED BY <2>3 DEF Queued
<1>3. QED BY <1>1, <1>2

LEMMA EventTypes ==
  /\ Event("send") \in Events /\ Event("restart") \in Events /\ Event("gathered") \in Events
  /\ \A i \in Nat : Answer(i) \in Events
BY DEF Event, Answer, Events, Signal

-----------------------------------------------------------------------------
(* What a step leaves alone keeps its types. *)

LEMMA LoopSame == LoopTypes /\ UNCHANGED loopVars => LoopTypes'
BY DEF LoopTypes, loopVars, offerVars, restartVars, watchVars, pcVars

LEMMA DebounceSame ==
  DebounceTypes /\ UNCHANGED <<debounceVars, posting, offered>> => DebounceTypes'
BY DEF DebounceTypes, debounceVars

LEMMA CallbackSame == CallbackTypes /\ UNCHANGED callbackVars => CallbackTypes'
BY DEF CallbackTypes, callbackVars

LEMMA WireSame == WireTypes /\ UNCHANGED wireVars => WireTypes'
BY DEF WireTypes, wireVars

LEMMA QueuedSame == ASSUME queue' = queue PROVE \A s : Queued(s)' <=> Queued(s)
BY DEF Queued

\* A step that changes neither the debouncer nor what the handlers keep, and that
\* takes no event from the queue of an open transport, disturbs nothing.
LEMMA RestKept ==
  ASSUME IInv,
         UNCHANGED <<debounceVars, posting, offerVars, restartVars, signaling, gathering>>,
         phase' = "open" => phase = "open" /\ \A s : Queued(s) => Queued(s)'
  PROVE  PendingServed' /\ RequestKept' /\ StatesAgree' /\ RestartKept' /\ NextRestartReady'
<1>1. PendingServed' /\ RequestKept'
  BY DEF IInv, PendingServed, RequestKept, debounceVars, offerVars
<1>2. StatesAgree' /\ RestartKept' /\ NextRestartReady'
  BY DEF IInv, StatesAgree, RestartKept, NextRestartReady, offerVars, restartVars
<1>3. QED BY <1>1, <1>2

LEMMA InitIInv == Init => IInv
<1> SUFFICES ASSUME Init PROVE IInv
  OBVIOUS
<1>1. <<>> \in Seq(Events) /\ <<>> \in Seq(Nat)
  BY EmptySeq
<1>2. DebounceTypes /\ LoopTypes /\ CallbackTypes
  <2>1. /\ asked \in Nat /\ offered \in 0..asked /\ fired \in Nat /\ posting \in Nat
        /\ localOfferId \in Nat /\ negotiateCounter \in Nat
        /\ signalStateCheckTimer \in 0..negotiateCounter
    BY DEF Init
  <2>2. debouncePending \in BOOLEAN /\ timer \in BOOLEAN /\ hasRemote \in BOOLEAN
    BY Zenon DEF Init
  <2>3. restartAfterGathering \in BOOLEAN /\ restartAtNextOffer \in BOOLEAN
        /\ restartOwed \in BOOLEAN
    BY Zenon DEF Init
  <2>4. QED
    BY <2>1, <2>2, <2>3, Zenon DEF Init, DebounceTypes, LoopTypes, CallbackTypes
<1>3. queue \in Seq(Events) /\ offers \in Seq(Nat) /\ answers \in Seq(Nat)
  BY <1>1, Zenon DEF Init
<1>4. WireTypes
  BY <1>3 DEF Init, WireTypes
<1>5. TypeOK
  BY <1>2, <1>3, <1>4 DEF Init, TypeOK
<1>6. QED
  BY <1>5 DEF Init, IInv, PendingServed, RequestKept, StatesAgree, RestartKept,
              NextRestartReady

-----------------------------------------------------------------------------
(* The steps beside the queue and its handlers. *)

LEMMA NegotiateForcedStep == IInv /\ NegotiateForced => IInv'
<1> SUFFICES ASSUME IInv, NegotiateForced PROVE IInv'
  OBVIOUS
<1> USE DEF NegotiateForced, Ask
<1>1. DebounceTypes'
  <2>1. asked' \in Nat /\ offered' \in 0..asked' /\ fired' \in Nat /\ posting' \in Nat
    BY DEF IInv, TypeOK, DebounceTypes, loopVars, offerVars
  <2>2. debouncePending' \in BOOLEAN /\ timer' \in BOOLEAN
    BY Zenon DEF IInv, TypeOK, DebounceTypes
  <2>3. QED BY <2>1, <2>2, Zenon DEF DebounceTypes
<1>2. LoopTypes' /\ CallbackTypes'
  BY LoopSame, CallbackSame DEF IInv, TypeOK
<1>3. WireTypes'
  BY WireSame DEF IInv, TypeOK
<1>4. TypeOK'
  BY <1>1, <1>2, <1>3 DEF IInv, TypeOK
<1>5. \A s : Queued(s)' <=> Queued(s)
  BY QueuedSame
<1>6. PendingServed' /\ RequestKept'
  BY <1>5 DEF IInv, TypeOK, DebounceTypes, PendingServed, RequestKept,
              debounceVars, loopVars, offerVars
<1>7. StatesAgree' /\ RestartKept' /\ NextRestartReady'
  BY <1>5 DEF IInv, StatesAgree, RestartKept, NextRestartReady,
              loopVars, offerVars, restartVars, pcVars
<1>8. QED BY <1>4, <1>6, <1>7 DEF IInv

LEMMA NegotiateDebouncedStep == IInv /\ NegotiateDebounced => IInv'
<1> SUFFICES ASSUME IInv, NegotiateDebounced PROVE IInv'
  OBVIOUS
<1> USE DEF NegotiateDebounced, Ask
<1>1. DebounceTypes'
  <2>1. asked' \in Nat /\ offered' \in 0..asked' /\ fired' \in Nat /\ posting' \in Nat
    BY DEF IInv, TypeOK, DebounceTypes, loopVars, offerVars
  <2>2. debouncePending' \in BOOLEAN /\ timer' \in BOOLEAN
    BY Zenon DEF IInv, TypeOK, DebounceTypes
  <2>3. QED BY <2>1, <2>2, Zenon DEF DebounceTypes
<1>2. LoopTypes' /\ CallbackTypes'
  BY LoopSame, CallbackSame DEF IInv, TypeOK
<1>3. WireTypes'
  BY WireSame DEF IInv, TypeOK
<1>4. TypeOK'
  BY <1>1, <1>2, <1>3 DEF IInv, TypeOK
<1>5. \A s : Queued(s)' <=> Queued(s)
  BY QueuedSame
<1>6. PendingServed' /\ RequestKept'
  BY <1>5 DEF IInv, TypeOK, DebounceTypes, PendingServed, RequestKept,
              debounceVars, loopVars, offerVars
<1>7. StatesAgree' /\ RestartKept' /\ NextRestartReady'
  BY <1>5 DEF IInv, StatesAgree, RestartKept, NextRestartReady,
              loopVars, offerVars, restartVars, pcVars
<1>8. QED BY <1>4, <1>6, <1>7 DEF IInv

LEMMA DebounceExpiresStep == IInv /\ DebounceExpires => IInv'
<1> SUFFICES ASSUME IInv, DebounceExpires PROVE IInv'
  OBVIOUS
<1> USE DEF DebounceExpires
<1>1. DebounceTypes'
  <2>1. asked' \in Nat /\ offered' \in 0..asked' /\ fired' \in Nat /\ posting' \in Nat
    BY DEF IInv, TypeOK, DebounceTypes, loopVars, offerVars
  <2>2. debouncePending' \in BOOLEAN /\ timer' \in BOOLEAN
    BY Zenon DEF IInv, TypeOK, DebounceTypes
  <2>3. QED BY <2>1, <2>2, Zenon DEF DebounceTypes
<1>2. LoopTypes' /\ CallbackTypes'
  BY LoopSame, CallbackSame DEF IInv, TypeOK
<1>3. WireTypes'
  BY WireSame DEF IInv, TypeOK
<1>4. TypeOK'
  BY <1>1, <1>2, <1>3 DEF IInv, TypeOK
<1>5. \A s : Queued(s)' <=> Queued(s)
  BY QueuedSame
<1>6. PendingServed' /\ RequestKept'
  BY <1>5 DEF IInv, TypeOK, DebounceTypes, PendingServed, RequestKept,
              debounceVars, loopVars, offerVars
<1>7. StatesAgree' /\ RestartKept' /\ NextRestartReady'
  BY <1>5 DEF IInv, StatesAgree, RestartKept, NextRestartReady,
              loopVars, offerVars, restartVars, pcVars
<1>8. QED BY <1>4, <1>6, <1>7 DEF IInv

LEMMA DebouncedLockStep == IInv /\ DebouncedLock => IInv'
<1> SUFFICES ASSUME IInv, DebouncedLock PROVE IInv'
  OBVIOUS
<1> USE DEF DebouncedLock
<1>1. DebounceTypes'
  <2>1. asked' \in Nat /\ offered' \in 0..asked' /\ fired' \in Nat /\ posting' \in Nat
    BY DEF IInv, TypeOK, DebounceTypes, loopVars, offerVars
  <2>2. debouncePending' \in BOOLEAN /\ timer' \in BOOLEAN
    BY Zenon DEF IInv, TypeOK, DebounceTypes
  <2>3. QED BY <2>1, <2>2, Zenon DEF DebounceTypes
<1>2. LoopTypes' /\ CallbackTypes'
  BY LoopSame, CallbackSame DEF IInv, TypeOK
<1>3. WireTypes'
  BY WireSame DEF IInv, TypeOK
<1>4. TypeOK'
  BY <1>1, <1>2, <1>3 DEF IInv, TypeOK
<1>5. \A s : Queued(s)' <=> Queued(s)
  BY QueuedSame
<1>6. PendingServed' /\ RequestKept'
  BY <1>5 DEF IInv, TypeOK, DebounceTypes, PendingServed, RequestKept,
              debounceVars, loopVars, offerVars
<1>7. StatesAgree' /\ RestartKept' /\ NextRestartReady'
  BY <1>5 DEF IInv, StatesAgree, RestartKept, NextRestartReady,
              loopVars, offerVars, restartVars, pcVars
<1>8. QED BY <1>4, <1>6, <1>7 DEF IInv

LEMMA HandlerFailsStep == IInv /\ HandlerFails => IInv'
<1> SUFFICES ASSUME IInv, HandlerFails PROVE IInv'
  OBVIOUS
<1> USE DEF HandlerFails
<1>1. DebounceTypes'
  BY DebounceSame DEF IInv, TypeOK, loopVars, offerVars
<1>2. LoopTypes' /\ CallbackTypes'
  BY LoopSame, CallbackSame DEF IInv, TypeOK
<1>3. WireTypes'
  BY WireSame DEF IInv, TypeOK
<1>4. TypeOK'
  BY <1>1, <1>2, <1>3 DEF IInv, TypeOK
<1>5. \A s : Queued(s)' <=> Queued(s)
  BY QueuedSame
<1>6. PendingServed' /\ RequestKept' /\ StatesAgree' /\ RestartKept' /\ NextRestartReady'
  BY <1>5, RestKept DEF loopVars, pcVars
<1>7. QED BY <1>4, <1>6 DEF IInv

LEMMA ConnectsStep == IInv /\ Connects => IInv'
<1> SUFFICES ASSUME IInv, Connects PROVE IInv'
  OBVIOUS
<1> USE DEF Connects
<1>1. DebounceTypes'
  BY DebounceSame DEF IInv, TypeOK, loopVars, offerVars
<1>2. LoopTypes' /\ CallbackTypes'
  BY LoopSame, CallbackSame DEF IInv, TypeOK
<1>3. WireTypes'
  BY WireSame DEF IInv, TypeOK
<1>4. TypeOK'
  BY <1>1, <1>2, <1>3 DEF IInv, TypeOK
<1>5. \A s : Queued(s)' <=> Queued(s)
  BY QueuedSame
<1>6. PendingServed' /\ RequestKept' /\ StatesAgree' /\ RestartKept' /\ NextRestartReady'
  BY <1>5, RestKept DEF loopVars, pcVars
<1>7. QED BY <1>4, <1>6 DEF IInv

LEMMA ClientAnswersStep == IInv /\ ClientAnswers => IInv'
<1> SUFFICES ASSUME IInv, ClientAnswers PROVE IInv'
  OBVIOUS
<1> USE DEF ClientAnswers
<1>1. DebounceTypes'
  BY DebounceSame DEF IInv, TypeOK, loopVars, offerVars
<1>2. LoopTypes' /\ CallbackTypes'
  BY LoopSame, CallbackSame DEF IInv, TypeOK
<1>3. WireTypes'
  <2>1. Head(offers) \in Nat /\ Tail(offers) \in Seq(Nat)
    BY HeadTailProperties DEF IInv, TypeOK, WireTypes
  <2>2. Append(answers, Head(offers)) \in Seq(Nat)
    BY <2>1, AppendProperties DEF IInv, TypeOK, WireTypes
  <2>3. QED BY <2>1, <2>2, Zenon DEF IInv, TypeOK, WireTypes
<1>4. TypeOK'
  BY <1>1, <1>2, <1>3 DEF IInv, TypeOK
<1>5. \A s : Queued(s)' <=> Queued(s)
  BY QueuedSame
<1>6. PendingServed' /\ RequestKept' /\ StatesAgree' /\ RestartKept' /\ NextRestartReady'
  BY <1>5, RestKept DEF loopVars, pcVars
<1>7. QED BY <1>4, <1>6 DEF IInv

LEMMA SignalDropsStep == IInv /\ SignalDrops => IInv'
<1> SUFFICES ASSUME IInv, SignalDrops PROVE IInv'
  OBVIOUS
<1> USE DEF SignalDrops
<1>1. DebounceTypes'
  BY DebounceSame DEF IInv, TypeOK, loopVars, offerVars
<1>2. LoopTypes' /\ CallbackTypes'
  BY LoopSame, CallbackSame DEF IInv, TypeOK
<1>3. WireTypes'
  <2>1. drops' \in Nat
    BY DEF IInv, TypeOK, WireTypes
  <2>2. <<>> \in Seq(Nat)
    BY EmptySeq
  <2>3. offers' \in Seq(Nat) /\ answers' \in Seq(Nat) /\ up' \in BOOLEAN
    BY <2>2, Zenon DEF IInv, TypeOK, WireTypes
  <2>4. QED BY <2>1, <2>3, Zenon DEF WireTypes
<1>4. TypeOK'
  BY <1>1, <1>2, <1>3 DEF IInv, TypeOK
<1>5. \A s : Queued(s)' <=> Queued(s)
  BY QueuedSame
<1>6. PendingServed' /\ RequestKept' /\ StatesAgree' /\ RestartKept' /\ NextRestartReady'
  BY <1>5, RestKept DEF loopVars, pcVars
<1>7. QED BY <1>4, <1>6 DEF IInv

LEMMA GatheringCompletesStep == IInv /\ GatheringCompletes => IInv'
<1> SUFFICES ASSUME IInv, GatheringCompletes PROVE IInv'
  OBVIOUS
<1> USE DEF GatheringCompletes
<1>1. DebounceTypes'
  BY DebounceSame DEF IInv, TypeOK, loopVars, offerVars
<1>2. LoopTypes' /\ CallbackTypes'
  <2>1. LoopTypes'
    BY DEF IInv, TypeOK, LoopTypes, offerVars, restartVars, watchVars
  <2>2. QED BY <2>1, CallbackSame DEF IInv, TypeOK
<1>3. WireTypes'
  BY WireSame DEF IInv, TypeOK
<1>5. queue' \in Seq(Events) /\ \A s : Queued(s) => Queued(s)'
  BY EventTypes, AppendQueue DEF IInv, TypeOK
<1>4. TypeOK'
  BY <1>1, <1>2, <1>3, <1>5 DEF IInv, TypeOK
<1>6. Queued("gathered")'
  BY EventTypes, AppendQueue DEF IInv, TypeOK, Event
<1>7. PendingServed' /\ RequestKept'
  BY <1>5 DEF IInv, PendingServed, RequestKept, debounceVars, offerVars
<1>8. StatesAgree' /\ RestartKept' /\ NextRestartReady'
  BY <1>5, <1>6 DEF IInv, StatesAgree, RestartKept, NextRestartReady, offerVars, restartVars
<1>9. QED BY <1>4, <1>7, <1>8 DEF IInv

LEMMA AnswerArrivesStep == IInv /\ AnswerArrives => IInv'
<1> SUFFICES ASSUME IInv, AnswerArrives PROVE IInv'
  OBVIOUS
<1> USE DEF AnswerArrives
<1>1. DebounceTypes'
  BY DebounceSame DEF IInv, TypeOK, loopVars, offerVars
<1>2. LoopTypes' /\ CallbackTypes'
  BY LoopSame, CallbackSame DEF IInv, TypeOK
<1>3. WireTypes'
  <2>1. Tail(answers) \in Seq(Nat)
    BY HeadTailProperties DEF IInv, TypeOK, WireTypes
  <2>2. QED BY <2>1, Zenon DEF IInv, TypeOK, WireTypes
<1>5. queue' \in Seq(Events) /\ \A s : Queued(s) => Queued(s)'
  <2>1. Head(answers) \in Nat
    BY HeadTailProperties DEF IInv, TypeOK, WireTypes
  <2>2. QED BY <2>1, EventTypes, AppendQueue DEF IInv, TypeOK
<1>4. TypeOK'
  BY <1>1, <1>2, <1>3, <1>5 DEF IInv, TypeOK
<1>6. PendingServed' /\ RequestKept' /\ StatesAgree' /\ RestartKept' /\ NextRestartReady'
  BY <1>5, RestKept DEF loopVars, pcVars
<1>7. QED BY <1>4, <1>6 DEF IInv

LEMMA ResumeStep == IInv /\ Resume => IInv'
<1> SUFFICES ASSUME IInv, Resume PROVE IInv'
  OBVIOUS
<1> USE DEF Resume
<1>1. DebounceTypes'
  BY DebounceSame DEF IInv, TypeOK, loopVars, offerVars
<1>2. LoopTypes' /\ CallbackTypes'
  BY LoopSame, CallbackSame DEF IInv, TypeOK
<1>3. WireTypes'
  BY Zenon DEF IInv, TypeOK, WireTypes
<1>5. queue' \in Seq(Events) /\ \A s : Queued(s) => Queued(s)'
  BY EventTypes, AppendQueue DEF IInv, TypeOK
<1>4. TypeOK'
  BY <1>1, <1>2, <1>3, <1>5 DEF IInv, TypeOK
<1>6. PendingServed' /\ RequestKept' /\ StatesAgree' /\ RestartKept' /\ NextRestartReady'
  BY <1>5, RestKept DEF loopVars, pcVars
<1>7. QED BY <1>4, <1>6 DEF IInv

LEMMA PostSendStep == IInv /\ PostSend => IInv'
<1> SUFFICES ASSUME IInv, PostSend PROVE IInv'
  OBVIOUS
<1> USE DEF PostSend
<1>1. DebounceTypes'
  BY DEF IInv, TypeOK, DebounceTypes, debounceVars, loopVars, offerVars
<1>2. LoopTypes' /\ CallbackTypes' /\ WireTypes'
  BY LoopSame, CallbackSame, WireSame DEF IInv, TypeOK
<1>3. /\ queue' \in Seq(Events) /\ \A s : Queued(s) => Queued(s)'
      /\ phase' = "open" => Queued("send")'
  <2>1. CASE phase = "closed"
    BY <2>1, QueuedSame DEF IInv, TypeOK
  <2>2. CASE phase # "closed"
    BY <2>2, EventTypes, AppendQueue DEF IInv, TypeOK, Event
  <2>3. QED BY <2>1, <2>2
<1>4. TypeOK'
  BY <1>1, <1>2, <1>3 DEF IInv, TypeOK
<1>5. PendingServed' /\ RequestKept'
  BY <1>3 DEF IInv, PendingServed, RequestKept, debounceVars
<1>6. StatesAgree' /\ RestartKept' /\ NextRestartReady'
  BY <1>3 DEF IInv, StatesAgree, RestartKept, NextRestartReady,
              loopVars, offerVars, restartVars, pcVars
<1>7. QED BY <1>4, <1>5, <1>6 DEF IInv

LEMMA CloseStep == IInv /\ Close => IInv'
<1> SUFFICES ASSUME IInv, Close PROVE IInv'
  OBVIOUS
<1> USE DEF Close
<1>1. DebounceTypes' /\ CallbackTypes' /\ WireTypes'
  BY DebounceSame, CallbackSame, WireSame DEF IInv, TypeOK, offerVars
<1>2. LoopTypes'
  BY DEF IInv, TypeOK, LoopTypes, offerVars, restartVars, pcVars
<1>3. queue' \in Seq(Events)
  BY EmptySeq, Zenon
<1>4. TypeOK'
  BY <1>1, <1>2, <1>3 DEF IInv, TypeOK
<1>5. PendingServed' /\ RequestKept' /\ StatesAgree' /\ RestartKept' /\ NextRestartReady'
  BY RestKept DEF pcVars
<1>6. QED BY <1>4, <1>5 DEF IInv

LEMMA CallbackStep == IInv /\ Callback => IInv'
<1> SUFFICES ASSUME IInv, Callback PROVE IInv'
  OBVIOUS
<1> USE DEF CheckTimerFires, CheckTimerClears, CheckTimerDecides
<1>1. DebounceTypes' /\ WireTypes'
  BY DebounceSame, WireSame DEF IInv, TypeOK, Callback, loopVars, offerVars
<1>2. LoopTypes'
  <2>1. CASE UNCHANGED loopVars
    BY <2>1, LoopSame DEF IInv, TypeOK
  <2>2. CASE signalStateCheckTimer' = 0
             /\ UNCHANGED <<offerVars, restartVars, negotiateCounter, pcVars>>
    BY <2>2 DEF IInv, TypeOK, LoopTypes, offerVars, restartVars, pcVars
  <2>3. QED BY <2>1, <2>2 DEF Callback
<1>3. CallbackTypes'
  <2>1. CASE CheckTimerFires
    BY <2>1 DEF IInv, TypeOK, LoopTypes, CallbackTypes
  <2>2. ASSUME NEW v \in firing, CheckTimerClears(v) PROVE CallbackTypes'
    <3>1. v \in Nat /\ (negotiationState # "none") \in BOOLEAN
      BY DEF IInv, TypeOK, CallbackTypes
    <3>2. <<v, negotiationState # "none">> \in Nat \X BOOLEAN
      BY <3>1, Zenon
    <3>3. checking' = checking \cup {<<v, negotiationState # "none">>}
          /\ firing' = firing \ {v}
      BY <2>2, Zenon
    <3>4. QED BY <3>2, <3>3, Zenon DEF IInv, TypeOK, CallbackTypes
  <2>3. ASSUME NEW c \in checking, CheckTimerDecides(c) PROVE CallbackTypes'
    BY <2>3 DEF IInv, TypeOK, CallbackTypes
  <2>4. QED BY <2>1, <2>2, <2>3 DEF Callback
<1>4. queue' = queue /\ connected' = connected /\ phase' \in {phase, "failed"}
  BY DEF Callback
<1>5. TypeOK'
  BY <1>1, <1>2, <1>3, <1>4 DEF IInv, TypeOK
<1>6. UNCHANGED <<debounceVars, posting, offerVars, restartVars, signaling, gathering>>
  BY DEF Callback, loopVars, pcVars
<1>7. PendingServed' /\ RequestKept' /\ StatesAgree' /\ RestartKept' /\ NextRestartReady'
  BY <1>4, <1>6, RestKept, QueuedSame
<1>8. QED BY <1>5, <1>7 DEF IInv

-----------------------------------------------------------------------------
(* The handlers of the queue. *)

LEMMA HandleTakes ==
  ASSUME IInv, NEW s, Handle(s)
  PROVE  /\ phase = "open"
         /\ queue' \in Seq(Events)
         /\ \A q : q # s /\ Queued(q) => Queued(q)'
         /\ asked \in Nat
         /\ CallbackTypes'
         /\ connected' \in BOOLEAN
         /\ offered' \in 0..asked => DebounceTypes'
         /\ PendingServed'
<1>1. phase = "open" /\ queue # <<>> /\ queue' = Tail(queue) /\ Head(queue).signal = s
  BY DEF Handle
<1>2. queue' \in Seq(Events) /\ \A q : q # s /\ Queued(q) => Queued(q)'
  BY <1>1, TailQueue DEF IInv, TypeOK
<1>3. CallbackTypes' /\ connected' \in BOOLEAN
  BY CallbackSame DEF IInv, TypeOK, Handle
<1>4. asked \in Nat /\ (offered' \in 0..asked => DebounceTypes')
  BY DEF IInv, TypeOK, DebounceTypes, Handle, debounceVars
<1>5. PendingServed'
  BY DEF IInv, PendingServed, Handle, debounceVars
<1>6. QED BY <1>1, <1>2, <1>3, <1>4, <1>5

LEMMA SendTypes ==
  ASSUME IInv, Send(localOfferId + 1)
  PROVE  localOfferId' \in Nat /\ WireTypes'
<1>1. localOfferId + 1 \in Nat
  BY DEF IInv, TypeOK, LoopTypes
<1>2. Append(offers, localOfferId + 1) \in Seq(Nat)
  BY <1>1, AppendProperties DEF IInv, TypeOK, WireTypes
<1>3. localOfferId' \in Nat
  BY <1>1, Zenon DEF Send
<1>4. WireTypes'
  BY <1>2, Zenon DEF IInv, TypeOK, WireTypes, Send
<1>5. QED BY <1>3, <1>4

\* A handler that creates an offer: it contains every change, and a restart that
\* is still owed afterwards waits for the end of gathering.
LEMMA CreateOfferStep ==
  ASSUME IInv, NEW s, Handle(s), NEW r \in BOOLEAN, CreateOffer(r),
         phase' = phase, hasRemote' \in BOOLEAN, restartAfterGathering' \in BOOLEAN,
         \/ r = TRUE
         \/ s # "gathered" /\ restartAfterGathering' = restartAfterGathering
  PROVE  IInv'
<1> USE DEF CreateOffer
<1>1. localOfferId' \in Nat /\ WireTypes'
  BY SendTypes
<1>2. offered' = asked /\ asked' = asked /\ negotiationState' = "remote"
      /\ signaling' = "have-local-offer" /\ restartAtNextOffer' = FALSE
  BY DEF Handle, debounceVars
<1>3. negotiateCounter' \in Nat /\ signalStateCheckTimer' \in 0..negotiateCounter'
  BY DEF setupSignalStateCheckTimer, IInv, TypeOK, LoopTypes
<1>4. gathering' \in {"new", "gathering", "complete"}
  BY Zenon DEF IInv, TypeOK, LoopTypes
<1>5. restartOwed' \in BOOLEAN
  BY Zenon
<1>6. LoopTypes'
  BY <1>1, <1>2, <1>3, <1>4, <1>5, Zenon DEF LoopTypes
<1>7. offered' \in 0..asked
  BY <1>2, HandleTakes
<1>8. TypeOK'
  BY <1>1, <1>6, <1>7, HandleTakes DEF TypeOK, IInv
<1>9. PendingServed' /\ RequestKept'
  BY <1>2, <1>7, HandleTakes DEF RequestKept
<1>10. StatesAgree' /\ NextRestartReady'
  BY <1>2 DEF StatesAgree, NextRestartReady
<1>11. RestartKept'
  <2>1. SUFFICES ASSUME restartOwed', phase' = "open"
                 PROVE  restartAfterGathering'
                        /\ (gathering' = "gathering" \/ Queued("gathered")')
    BY Zenon DEF RestartKept
  <2>2. restartOwed /\ ~r /\ ~restartAtNextOffer
    BY <2>1, Zenon
  <2>3. restartAfterGathering /\ (gathering = "gathering" \/ Queued("gathered"))
    BY <2>1, <2>2, Zenon DEF IInv, RestartKept
  <2>4. gathering = "gathering" => gathering' = "gathering"
    BY Zenon
  <2>5. Queued("gathered") => Queued("gathered")'
    BY <2>2, HandleTakes
  <2>6. QED BY <2>2, <2>3, <2>4, <2>5, Zenon
<1>12. QED BY <1>8, <1>9, <1>10, <1>11 DEF IInv

\* A handler that postpones an ICE restart.
LEMMA PostponeStep ==
  ASSUME IInv, NEW s, s # "send", Handle(s), phase' = phase,
         \/ DeferRestart
         \/ ResendOffer /\ restartAfterGathering' \in BOOLEAN
  PROVE  IInv'
<1> USE DEF DeferRestart, ResendOffer
<1>1. localOfferId' \in Nat /\ WireTypes'
  BY SendTypes, WireSame DEF IInv, TypeOK, LoopTypes, offerVars
<1>2. /\ negotiationState' \in {negotiationState, "retry"}
      /\ negotiationState' # negotiationState => negotiationState # "none"
      /\ UNCHANGED <<offered, watchVars, pcVars>>
  BY DEF offerVars
<1>3. restartAfterGathering' \in BOOLEAN /\ restartAtNextOffer' \in BOOLEAN
      /\ restartOwed' \in BOOLEAN
  BY Zenon DEF IInv, TypeOK, LoopTypes
<1>4. LoopTypes'
  BY <1>1, <1>2, <1>3 DEF IInv, TypeOK, LoopTypes, watchVars, pcVars
<1>5. offered' \in 0..asked
  BY <1>2 DEF IInv, TypeOK, DebounceTypes
<1>6. TypeOK'
  BY <1>1, <1>4, <1>5, HandleTakes DEF TypeOK, IInv
<1>7. PendingServed' /\ RequestKept'
  <2>1. UNCHANGED <<timer, fired, posting, asked, offered>>
    BY <1>2 DEF Handle, debounceVars
  <2>2. Queued("send") => Queued("send")'
    BY HandleTakes
  <2>3. QED BY <1>2, <2>1, <2>2, HandleTakes DEF IInv, RequestKept
<1>8. StatesAgree'
  BY <1>2 DEF IInv, StatesAgree, pcVars
<1>9. RestartKept' /\ NextRestartReady'
  BY DEF IInv, RestartKept, NextRestartReady, pcVars, offerVars
<1>10. QED BY <1>6, <1>7, <1>8, <1>9 DEF IInv

LEMMA HandleSendOfferStep == IInv /\ HandleSendOffer => IInv'
<1> SUFFICES ASSUME IInv, HandleSendOffer PROVE IInv'
  OBVIOUS
<1>1. hasRemote' \in BOOLEAN /\ restartAfterGathering' \in BOOLEAN
  BY Zenon DEF HandleSendOffer, IInv, TypeOK, LoopTypes
<1>2. Handle("send") /\ CreateOffer(FALSE) /\ phase' = phase
      /\ restartAfterGathering' = restartAfterGathering
  BY Zenon DEF HandleSendOffer
<1>3. FALSE \in BOOLEAN /\ "send" # "gathered"
  OBVIOUS
<1>4. QED BY <1>1, <1>2, <1>3, CreateOfferStep, Zenon

LEMMA HandleSendOfferLaterStep == IInv /\ HandleSendOfferLater => IInv'
<1> SUFFICES ASSUME IInv, HandleSendOfferLater PROVE IInv'
  OBVIOUS
<1> USE DEF HandleSendOfferLater
<1>1. LoopTypes' /\ WireTypes'
  BY WireSame DEF IInv, TypeOK, LoopTypes, restartVars, watchVars, pcVars
<1>2. offered' \in 0..asked
  BY DEF IInv, TypeOK, DebounceTypes
<1>3. TypeOK'
  BY <1>1, <1>2, HandleTakes DEF TypeOK, IInv
<1>4. PendingServed' /\ RequestKept'
  BY HandleTakes DEF RequestKept
<1>5. StatesAgree' /\ NextRestartReady'
  BY DEF IInv, StatesAgree, NextRestartReady, pcVars, restartVars
<1>6. RestartKept'
  BY HandleTakes DEF IInv, RestartKept, pcVars, restartVars
<1>7. QED BY <1>3, <1>4, <1>5, <1>6 DEF IInv

LEMMA HandleAnswerStep == IInv /\ HandleAnswer => IInv'
<1> SUFFICES ASSUME IInv, HandleAnswer PROVE IInv'
  OBVIOUS
<1>1. Handle("answer") /\ hasRemote' = TRUE /\ phase' = phase
  BY Zenon DEF HandleAnswer
<1>2. CASE negotiationState = "retry"
  <2>1. CreateOffer(FALSE) /\ restartAfterGathering' = restartAfterGathering
    BY <1>2, Zenon DEF HandleAnswer
  <2>2. hasRemote' \in BOOLEAN /\ restartAfterGathering' \in BOOLEAN
    BY <1>1, <2>1, Zenon DEF IInv, TypeOK, LoopTypes
  <2>3. FALSE \in BOOLEAN /\ "answer" # "gathered"
    OBVIOUS
  <2>4. QED BY <1>1, <2>1, <2>2, <2>3, CreateOfferStep, Zenon
<1>3. CASE negotiationState # "retry"
  <2>1. /\ signaling' = "stable" /\ negotiationState' = "none" /\ signalStateCheckTimer' = 0
        /\ UNCHANGED <<localOfferId, offered, restartVars, negotiateCounter, gathering,
                       wireVars>>
    BY <1>3 DEF HandleAnswer
  <2>2. hasRemote' \in BOOLEAN
    BY <1>1, Zenon
  <2>3. LoopTypes' /\ WireTypes'
    BY <2>1, <2>2, WireSame DEF IInv, TypeOK, LoopTypes, restartVars
  <2>4. offered' \in 0..asked
    BY <2>1 DEF IInv, TypeOK, DebounceTypes
  <2>5. TypeOK'
    BY <1>1, <2>3, <2>4, HandleTakes DEF TypeOK, IInv
  <2>6. PendingServed' /\ RequestKept'
    <3>1. UNCHANGED <<timer, fired, posting, asked, offered>>
      BY <1>1, <2>1 DEF Handle, debounceVars
    <3>2. Queued("send") => Queued("send")'
      BY <1>1, HandleTakes
    <3>3. QED BY <1>1, <1>3, <3>1, <3>2, HandleTakes DEF IInv, RequestKept
  <2>7. StatesAgree' /\ NextRestartReady'
    BY <2>1 DEF IInv, StatesAgree, NextRestartReady, restartVars
  <2>8. RestartKept'
    <3>1. Queued("gathered") => Queued("gathered")'
      BY <1>1, HandleTakes
    <3>2. QED BY <1>1, <1>3, <2>1, <3>1 DEF IInv, RestartKept, restartVars
  <2>9. QED BY <2>5, <2>6, <2>7, <2>8 DEF IInv
<1>4. QED BY <1>2, <1>3

LEMMA HandleAnswerRefusedStep == IInv /\ HandleAnswerRefused => IInv'
<1> SUFFICES ASSUME IInv, HandleAnswerRefused PROVE IInv'
  OBVIOUS
<1> USE DEF HandleAnswerRefused
<1>1. LoopTypes' /\ WireTypes'
  BY WireSame DEF IInv, TypeOK, LoopTypes, offerVars, restartVars, pcVars
<1>2. offered' \in 0..asked
  BY DEF IInv, TypeOK, DebounceTypes, offerVars
<1>3. TypeOK'
  BY <1>1, <1>2, HandleTakes DEF TypeOK, IInv
<1>4. PendingServed' /\ RequestKept' /\ StatesAgree' /\ RestartKept'
  BY HandleTakes DEF RequestKept, StatesAgree, RestartKept
<1>5. NextRestartReady'
  BY DEF IInv, NextRestartReady, restartVars, pcVars
<1>6. QED BY <1>3, <1>4, <1>5 DEF IInv

\* A handler that finds nothing to do.
LEMMA NothingStep ==
  ASSUME IInv, NEW s, Handle(s), UNCHANGED <<phase, loopVars, wireVars>>,
         s # "send", s # "gathered" \/ ~restartAfterGathering
  PROVE  IInv'
<1>1. LoopTypes' /\ WireTypes'
  BY LoopSame, WireSame DEF IInv, TypeOK
<1>2. offered' \in 0..asked
  BY DEF IInv, TypeOK, DebounceTypes, loopVars, offerVars
<1>3. TypeOK'
  BY <1>1, <1>2, HandleTakes DEF TypeOK, IInv
<1>4. PendingServed' /\ RequestKept'
  <2>1. UNCHANGED <<timer, fired, posting, asked, offered, negotiationState>>
    BY DEF Handle, debounceVars, loopVars, offerVars
  <2>2. Queued("send") => Queued("send")'
    BY HandleTakes
  <2>3. QED BY <2>1, <2>2, HandleTakes DEF IInv, RequestKept
<1>5. StatesAgree' /\ NextRestartReady'
  BY DEF IInv, StatesAgree, NextRestartReady, loopVars, offerVars, pcVars, restartVars
<1>6. RestartKept'
  BY HandleTakes DEF IInv, RestartKept, loopVars, offerVars, pcVars, restartVars
<1>7. QED BY <1>3, <1>4, <1>5, <1>6 DEF IInv

\* doICERestart, whatever it decides.
LEMMA RestartStep ==
  ASSUME IInv, NEW s, s # "send", Handle(s), phase' = phase,
         restartAfterGathering' \in BOOLEAN,
         DeferRestart \/ RestartNow \/ ResendOffer
  PROVE  IInv'
<1>1. CASE DeferRestart \/ ResendOffer
  BY <1>1, PostponeStep, Zenon
<1>2. CASE RestartNow
  <2>1. CreateOffer(TRUE) /\ hasRemote' \in BOOLEAN
    BY <1>2, Zenon DEF RestartNow, IInv, TypeOK, LoopTypes
  <2>2. TRUE \in BOOLEAN
    OBVIOUS
  <2>3. QED BY <2>1, <2>2, CreateOfferStep, Zenon
<1>3. QED BY <1>1, <1>2

LEMMA HandleICERestartStep == IInv /\ HandleICERestart => IInv'
<1> SUFFICES ASSUME IInv, HandleICERestart PROVE IInv'
  OBVIOUS
<1>1. Handle("restart") /\ phase' = phase
  BY Zenon DEF HandleICERestart
<1>2. "restart" # "send" /\ "restart" # "gathered"
  OBVIOUS
<1>3. CASE UNCHANGED <<loopVars, wireVars>>
  BY <1>1, <1>2, <1>3, NothingStep
<1>4. CASE DeferRestart
  <2>1. restartAfterGathering' \in BOOLEAN
    BY <1>4, Zenon DEF DeferRestart
  <2>2. QED BY <1>1, <1>2, <1>4, <2>1, RestartStep, Zenon
<1>5. CASE (RestartNow \/ ResendOffer) /\ UNCHANGED restartAfterGathering
  <2>1. restartAfterGathering' \in BOOLEAN
    BY <1>5, Zenon DEF IInv, TypeOK, LoopTypes
  <2>2. QED BY <1>1, <1>2, <1>5, <2>1, RestartStep, Zenon
<1>6. QED BY <1>3, <1>4, <1>5, Zenon DEF HandleICERestart

LEMMA HandleICEGatheringCompleteStep == IInv /\ HandleICEGatheringComplete => IInv'
<1> SUFFICES ASSUME IInv, HandleICEGatheringComplete PROVE IInv'
  OBVIOUS
<1>1. Handle("gathered") /\ phase' = phase
  BY Zenon DEF HandleICEGatheringComplete
<1>2. "gathered" # "send"
  OBVIOUS
<1>3. CASE ~restartAfterGathering /\ UNCHANGED <<loopVars, wireVars>>
  BY <1>1, <1>2, <1>3, NothingStep
<1>4. CASE DeferRestart
  <2>1. restartAfterGathering' \in BOOLEAN
    BY <1>4, Zenon DEF DeferRestart
  <2>2. QED BY <1>1, <1>2, <1>4, <2>1, RestartStep, Zenon
<1>5. CASE (RestartNow \/ ResendOffer) /\ restartAfterGathering' = FALSE
  <2>1. restartAfterGathering' \in BOOLEAN
    BY <1>5, Zenon
  <2>2. QED BY <1>1, <1>2, <1>5, <2>1, RestartStep, Zenon
<1>6. QED BY <1>3, <1>4, <1>5, Zenon DEF HandleICEGatheringComplete

LEMMA StutterStep == IInv /\ UNCHANGED vars => IInv'
<1> SUFFICES ASSUME IInv, UNCHANGED vars PROVE IInv'
  OBVIOUS
<1> USE DEF vars
<1>1. DebounceTypes' /\ CallbackTypes' /\ WireTypes' /\ LoopTypes'
  BY DebounceSame, CallbackSame, WireSame, LoopSame DEF IInv, TypeOK, loopVars, offerVars
<1>2. TypeOK'
  BY <1>1 DEF IInv, TypeOK
<1>3. PendingServed' /\ RequestKept' /\ StatesAgree' /\ RestartKept' /\ NextRestartReady'
  BY RestKept, QueuedSame DEF loopVars, pcVars
<1>4. QED BY <1>2, <1>3 DEF IInv

LEMMA NextIInv == IInv /\ [Next]_vars => IInv'
<1> SUFFICES ASSUME IInv, [Next]_vars PROVE IInv'
  OBVIOUS
<1>1. CASE NegotiateForced \/ NegotiateDebounced \/ Debounced
  BY <1>1, NegotiateForcedStep, NegotiateDebouncedStep, DebounceExpiresStep,
     DebouncedLockStep, PostSendStep DEF Debounced
<1>2. CASE EventsQueue \/ HandlerFails
  BY <1>2, HandleSendOfferStep, HandleSendOfferLaterStep, HandleAnswerStep,
     HandleAnswerRefusedStep, HandleICERestartStep, HandleICEGatheringCompleteStep,
     HandlerFailsStep DEF EventsQueue
<1>3. CASE Callback \/ Close
  BY <1>3, CallbackStep, CloseStep
<1>4. CASE GatheringCompletes \/ Connects \/ ClientAnswers \/ AnswerArrives
  BY <1>4, GatheringCompletesStep, ConnectsStep, ClientAnswersStep, AnswerArrivesStep
<1>5. CASE SignalDrops \/ Resume
  BY <1>5, SignalDropsStep, ResumeStep
<1>6. CASE UNCHANGED vars
  BY <1>6, StutterStep
<1>7. QED BY <1>1, <1>2, <1>3, <1>4, <1>5, <1>6 DEF Next

-----------------------------------------------------------------------------

\* The inductive invariant holds throughout.
THEOREM Invariance == Spec => []IInv
<1>1. QED BY InitIInv, NextIInv, PTL DEF Spec

\* Every variable keeps its type (transport.go, PCTransport).
THEOREM TypeCorrect == Spec => []TypeOK
<1>1. IInv => TypeOK
  BY DEF IInv
<1>2. QED BY <1>1, Invariance, PTL

\* However many changes there are: one that no offer contains is not forgotten
\* (transport.go:1838-1881, 2440-2447, 2785-2790).
THEOREM RequestNeverLost == Spec => []RequestKept
<1>1. IInv => RequestKept
  BY DEF IInv
<1>2. QED BY <1>1, Invariance, PTL

\* However often clients resume: an accepted ICE restart is not forgotten
\* (transport.go:2200-2208, 2810-2815, 2833-2835).
THEOREM RestartNeverLost == Spec => []RestartKept
<1>1. IInv => RestartKept
  BY DEF IInv
<1>2. QED BY <1>1, Invariance, PTL

\* The negotiation state says whether the peer connection has an offer pending
\* (transport.go:2440-2505, 2762-2795, 2855-2864).
THEOREM StatesAlwaysAgree == Spec => []StatesAgree
<1>1. IInv => StatesAgree
  BY DEF IInv
<1>2. QED BY <1>1, Invariance, PTL

\* A postponed ICE restart is never asked of a peer connection that gathers
\* (transport.go:2803-2815, 2461-2465).
THEOREM RestartWhenGathered == Spec => NoRestartWhileGathering
<1> DEFINE Restarted ==
      restartAtNextOffer /\ offered' = asked /\ localOfferId' # localOfferId
        /\ negotiationState' = "remote" => gathering = "complete"
<1>1. IInv /\ [Next]_vars => [Restarted]_vars
  BY DEF IInv, NextRestartReady
<1>2. QED BY <1>1, Invariance, PTL DEF Spec, NoRestartWhileGathering

-----------------------------------------------------------------------------
(* One offer in flight, before the first signal connection is lost.        *)

None(s, q) == \A i \in 1..Len(q) : q[i].signal # s

OneAnswer(q, id) ==
    \E k \in 1..Len(q) : /\ q[k] = Answer(id)
                         /\ \A i \in 1..Len(q) : i # k => q[i].signal # "answer"

\* Where the newest offer is: nowhere, with the client, on its way back, or
\* answered in the queue.
Flight ==
    \/ /\ negotiationState = "none"
       /\ offers = <<>> /\ answers = <<>> /\ None("answer", queue)
    \/ /\ negotiationState # "none"
       /\ offers = <<localOfferId>> /\ answers = <<>> /\ None("answer", queue)
    \/ /\ negotiationState # "none"
       /\ offers = <<>> /\ answers = <<localOfferId>> /\ None("answer", queue)
    \/ /\ negotiationState # "none"
       /\ offers = <<>> /\ answers = <<>> /\ OneAnswer(queue, localOfferId)

\* Nobody has asked for a restart yet, which is what sends a second offer.
FirstConnection ==
    phase = "open" /\ drops = 0 =>
        up /\ ~restartAfterGathering /\ None("restart", queue) /\ Flight

\* An event more in the queue.
LEMMA OneMore ==
  ASSUME NEW q \in Seq(Events), NEW e \in Events
  PROVE  /\ \A s : None(s, q) /\ e.signal # s => None(s, Append(q, e))
         /\ \A i : None("answer", q) /\ e = Answer(i) => OneAnswer(Append(q, e), i)
         /\ \A i : OneAnswer(q, i) /\ e.signal # "answer" => OneAnswer(Append(q, e), i)
<1> DEFINE p == Append(q, e)
<1>1. /\ Len(p) = Len(q) + 1 /\ Len(q) \in Nat
      /\ \A j \in 1..Len(q) : p[j] = q[j]
      /\ p[Len(q) + 1] = e
  BY AppendProperties, LenProperties
<1> HIDE DEF p
<1>2. \A j \in 1..Len(p) : j \in 1..Len(q) \/ j = Len(q) + 1
  BY <1>1
<1>3. Len(q) + 1 \in 1..Len(p) /\ 1..Len(q) \subseteq 1..Len(p) /\ Len(q) + 1 \notin 1..Len(q)
  BY <1>1
<1>4. ASSUME NEW s, None(s, q), e.signal # s PROVE None(s, p)
  BY <1>1, <1>2, <1>4 DEF None
<1>5. ASSUME NEW i, None("answer", q), e = Answer(i) PROVE OneAnswer(p, i)
  BY <1>1, <1>2, <1>3, <1>5 DEF None, OneAnswer
<1>6. ASSUME NEW i, OneAnswer(q, i), e.signal # "answer" PROVE OneAnswer(p, i)
  <2>1. PICK k \in 1..Len(q) : /\ q[k] = Answer(i)
                               /\ \A j \in 1..Len(q) : j # k => q[j].signal # "answer"
    BY <1>6 DEF OneAnswer
  <2>2. k \in 1..Len(p) /\ p[k] = Answer(i)
    BY <1>1, <1>3, <2>1
  <2>3. \A j \in 1..Len(p) : j # k => p[j].signal # "answer"
    BY <1>1, <1>2, <1>6, <2>1
  <2>4. QED BY <2>2, <2>3 DEF OneAnswer
<1>7. QED BY <1>4, <1>5, <1>6 DEF p

\* The first event taken.
LEMMA OneLess ==
  ASSUME NEW q \in Seq(Events), q # <<>>
  PROVE  /\ \A s : None(s, q) => None(s, Tail(q)) /\ Head(q).signal # s
         /\ \A i : OneAnswer(q, i) /\ Head(q).signal # "answer" => OneAnswer(Tail(q), i)
         /\ \A i : OneAnswer(q, i) /\ Head(q).signal = "answer" => None("answer", Tail(q))
<1> DEFINE p == Tail(q)
<1>1. /\ Len(p) = Len(q) - 1 /\ Len(q) \in Nat /\ Len(q) # 0
      /\ \A j \in 1..Len(p) : p[j] = q[j + 1]
      /\ Head(q) = q[1]
  BY HeadTailProperties, LenProperties, EmptySeq
<1> HIDE DEF p
<1>2. 1 \in 1..Len(q) /\ \A j \in 1..Len(p) : j + 1 \in 1..Len(q) /\ j + 1 # 1
  BY <1>1
<1>3. ASSUME NEW s, None(s, q) PROVE None(s, p) /\ Head(q).signal # s
  BY <1>1, <1>2, <1>3 DEF None
<1>4. ASSUME NEW i, NEW k \in 1..Len(q), q[k] = Answer(i),
             \A j \in 1..Len(q) : j # k => q[j].signal # "answer"
      PROVE  /\ Head(q).signal # "answer" => OneAnswer(p, i)
             /\ Head(q).signal = "answer" => None("answer", p)
  <2>1. Answer(i).signal = "answer"
    BY DEF Answer
  <2>2. ASSUME Head(q).signal # "answer" PROVE OneAnswer(p, i)
    <3>1. k # 1
      BY <1>1, <1>4, <2>1, <2>2
    <3>2. k - 1 \in 1..Len(p) /\ p[k - 1] = Answer(i)
      BY <1>1, <1>4, <3>1
    <3>3. \A j \in 1..Len(p) : j # k - 1 => p[j].signal # "answer"
      BY <1>1, <1>2, <1>4
    <3>4. QED BY <3>2, <3>3 DEF OneAnswer
  <2>3. ASSUME Head(q).signal = "answer" PROVE None("answer", p)
    <3>1. k = 1
      BY <1>1, <1>2, <1>4, <2>3
    <3>2. QED BY <1>1, <1>2, <1>4, <3>1 DEF None
  <2>4. QED BY <2>2, <2>3
<1>5. QED BY <1>3, <1>4 DEF OneAnswer, p

\* An open transport of the first connection was one before the step.
LEMMA StillFirst ==
  ASSUME IInv, FirstConnection, phase = "open", drops = 0
  PROVE  /\ up /\ ~restartAfterGathering /\ None("restart", queue) /\ Flight
         /\ queue \in Seq(Events) /\ localOfferId \in Nat
BY DEF IInv, FirstConnection, TypeOK, LoopTypes

\* Steps that send nothing and leave the queue alone.
LEMMA SameFlight ==
  ASSUME FirstConnection, UNCHANGED <<queue, negotiationState, localOfferId, wireVars>>,
         phase' = "open" => phase = "open",
         restartAfterGathering' = restartAfterGathering
  PROVE  FirstConnection'
BY DEF FirstConnection, Flight, wireVars

\* A new offer goes out, when none is on its way.
LEMMA OfferSent ==
  ASSUME NEW r, CreateOffer(r), up, offers = <<>>, answers = <<>>, None("answer", queue')
  PROVE  Flight'
<1>1. /\ negotiationState' = "remote" /\ localOfferId' = localOfferId + 1
      /\ offers' = <<localOfferId'>> /\ answers' = <<>>
  BY DEF CreateOffer, Send
<1>2. QED BY <1>1 DEF Flight

\* What the handlers do to the flight.
LEMMA HandlersKeepFlight == IInv /\ FirstConnection /\ EventsQueue => FirstConnection'
<1> SUFFICES ASSUME IInv, FirstConnection, EventsQueue, phase' = "open", drops' = 0
             PROVE  /\ up' /\ ~restartAfterGathering' /\ None("restart", queue') /\ Flight'
  BY DEF FirstConnection
<1>1. PICK s \in Signal : Handle(s)
  BY DEF EventsQueue, HandleSendOffer, HandleSendOfferLater, HandleAnswer, HandleAnswerRefused,
         HandleICERestart, HandleICEGatheringComplete, Signal
<1>2. /\ phase = "open" /\ queue # <<>> /\ Head(queue).signal = s /\ queue' = Tail(queue)
  BY <1>1 DEF Handle
<1>3. up' = up /\ drops' = drops
  BY DEF EventsQueue, HandleSendOffer, HandleSendOfferLater, HandleAnswer, HandleAnswerRefused,
         HandleICERestart, HandleICEGatheringComplete, CreateOffer, Send, DeferRestart,
         RestartNow, ResendOffer, wireVars
<1>4. /\ up /\ ~restartAfterGathering /\ None("restart", queue) /\ Flight
      /\ queue \in Seq(Events) /\ localOfferId \in Nat
  BY <1>2, <1>3, StillFirst
<1>5. /\ None("restart", queue') /\ Head(queue).signal # "restart"
      /\ None("answer", queue) => None("answer", queue') /\ Head(queue).signal # "answer"
      /\ \A i : OneAnswer(queue, i) /\ Head(queue).signal # "answer" => OneAnswer(queue', i)
      /\ \A i : OneAnswer(queue, i) /\ Head(queue).signal = "answer" => None("answer", queue')
  BY <1>2, <1>4, OneLess
<1>6. ASSUME Head(queue).signal # "answer", UNCHANGED <<localOfferId, wireVars>>,
             negotiationState' = "none" <=> negotiationState = "none"
      PROVE  Flight'
  BY <1>4, <1>5, <1>6 DEF Flight, wireVars
<1>7. CASE HandleSendOffer
  <2>1. negotiationState = "none" /\ CreateOffer(FALSE) /\ UNCHANGED restartAfterGathering
    BY <1>7 DEF HandleSendOffer
  <2>2. offers = <<>> /\ answers = <<>> /\ None("answer", queue')
    BY <1>4, <1>5, <2>1 DEF Flight
  <2>3. QED BY <1>3, <1>4, <1>5, <2>1, <2>2, OfferSent
<1>8. CASE HandleSendOfferLater
  <2>1. /\ Head(queue).signal # "answer" /\ UNCHANGED <<localOfferId, wireVars, restartAfterGathering>>
        /\ negotiationState # "none" /\ negotiationState' = "retry"
    BY <1>8 DEF HandleSendOfferLater, Handle, restartVars
  <2>2. QED BY <1>3, <1>4, <1>5, <1>6, <2>1
<1>9. CASE HandleAnswer
  <2>1. Head(queue).signal = "answer"
    BY <1>9 DEF HandleAnswer, Handle
  <2>2. offers = <<>> /\ answers = <<>> /\ None("answer", queue')
    BY <1>4, <1>5, <2>1 DEF Flight
  <2>3. CASE negotiationState = "retry"
    <3>1. CreateOffer(FALSE) /\ UNCHANGED restartAfterGathering
      BY <1>9, <2>3 DEF HandleAnswer
    <3>2. QED BY <1>3, <1>4, <1>5, <2>2, <3>1, OfferSent
  <2>4. CASE negotiationState # "retry"
    <3>1. negotiationState' = "none" /\ UNCHANGED <<restartAfterGathering, wireVars>>
      BY <1>9, <2>4 DEF HandleAnswer, restartVars
    <3>2. QED BY <1>3, <1>4, <1>5, <2>2, <3>1 DEF Flight, wireVars
  <2>5. QED BY <2>3, <2>4
<1>10. CASE HandleAnswerRefused
  BY <1>10 DEF HandleAnswerRefused
<1>11. CASE HandleICERestart
  BY <1>5, <1>11 DEF HandleICERestart, Handle
<1>12. CASE HandleICEGatheringComplete
  <2>1. /\ Head(queue).signal # "answer"
        /\ UNCHANGED <<localOfferId, wireVars, restartAfterGathering, negotiationState>>
    BY <1>4, <1>12 DEF HandleICEGatheringComplete, Handle, loopVars, offerVars, restartVars
  <2>2. QED BY <1>3, <1>4, <1>5, <1>6, <2>1
<1>13. QED BY <1>7, <1>8, <1>9, <1>10, <1>11, <1>12 DEF EventsQueue

\* What comes into the queue, and what is on its way.
LEMMA WireKeepsFlight ==
  ASSUME IInv, FirstConnection,
         PostSend \/ GatheringCompletes \/ AnswerArrives \/ ClientAnswers
  PROVE  FirstConnection'
<1> SUFFICES ASSUME phase' = "open", drops' = 0
             PROVE  /\ up' /\ ~restartAfterGathering' /\ None("restart", queue') /\ Flight'
  BY DEF FirstConnection
<1>1. /\ phase = "open" /\ up' = up /\ drops' = drops
      /\ UNCHANGED <<negotiationState, localOfferId, restartAfterGathering>>
  BY DEF PostSend, GatheringCompletes, AnswerArrives, ClientAnswers, loopVars, offerVars,
         restartVars, wireVars
<1>2. /\ up /\ ~restartAfterGathering /\ None("restart", queue) /\ Flight
      /\ queue \in Seq(Events) /\ localOfferId \in Nat
  BY <1>1, StillFirst
<1>3. ASSUME NEW e \in Events, queue' = Append(queue, e), e.signal \notin {"answer", "restart"},
             UNCHANGED <<offers, answers>>
      PROVE  None("restart", queue') /\ Flight'
  <2>1. /\ None("restart", queue')
        /\ None("answer", queue) => None("answer", queue')
        /\ \A i : OneAnswer(queue, i) => OneAnswer(queue', i)
    BY <1>2, <1>3, OneMore
  <2>2. QED BY <1>1, <1>2, <1>3, <2>1 DEF Flight
<1>4. CASE PostSend
  <2>1. Event("send") \in Events /\ Event("send").signal = "send"
    BY EventTypes DEF Event
  <2>2. queue' = Append(queue, Event("send")) /\ UNCHANGED <<offers, answers>>
    BY <1>1, <1>4 DEF PostSend, wireVars
  <2>3. QED BY <1>1, <1>2, <1>3, <2>1, <2>2
<1>5. CASE GatheringCompletes
  <2>1. Event("gathered") \in Events /\ Event("gathered").signal = "gathered"
    BY EventTypes DEF Event
  <2>2. queue' = Append(queue, Event("gathered")) /\ UNCHANGED <<offers, answers>>
    BY <1>5 DEF GatheringCompletes, wireVars
  <2>3. QED BY <1>1, <1>2, <1>3, <2>1, <2>2
<1>6. CASE AnswerArrives
  <2>1. /\ answers = <<localOfferId>> /\ offers = <<>> /\ negotiationState # "none"
        /\ None("answer", queue)
    BY <1>2, <1>6 DEF AnswerArrives, Flight
  <2>2. Head(answers) = localOfferId /\ Tail(answers) = <<>>
    BY <2>1
  <2>3. queue' = Append(queue, Answer(localOfferId)) /\ answers' = <<>> /\ offers' = offers
    BY <1>6, <2>2 DEF AnswerArrives
  <2>4. Answer(localOfferId) \in Events /\ Answer(localOfferId).signal = "answer"
    BY <1>2, EventTypes DEF Answer
  <2>5. None("restart", queue') /\ OneAnswer(queue', localOfferId)
    BY <1>2, <2>1, <2>3, <2>4, OneMore
  <2>6. QED BY <1>1, <1>2, <2>1, <2>3, <2>5 DEF Flight
<1>7. CASE ClientAnswers
  <2>1. /\ offers = <<localOfferId>> /\ answers = <<>> /\ negotiationState # "none"
        /\ None("answer", queue)
    BY <1>2, <1>7 DEF ClientAnswers, Flight
  <2>2. offers' = <<>> /\ answers' = <<localOfferId>> /\ queue' = queue
    BY <1>7, <2>1 DEF ClientAnswers
  <2>3. QED BY <1>1, <1>2, <2>1, <2>2 DEF Flight
<1>8. QED BY <1>4, <1>5, <1>6, <1>7

LEMMA FlightNext == IInv /\ FirstConnection /\ [Next]_vars => FirstConnection'
<1> SUFFICES ASSUME IInv, FirstConnection, [Next]_vars PROVE FirstConnection'
  OBVIOUS
<1>1. CASE NegotiateForced \/ NegotiateDebounced \/ DebounceExpires \/ DebouncedLock
  BY <1>1, SameFlight DEF NegotiateForced, NegotiateDebounced, DebounceExpires, DebouncedLock,
                          loopVars, offerVars, restartVars
<1>2. CASE Callback \/ HandlerFails \/ Connects
  BY <1>2, SameFlight DEF Callback, CheckTimerFires, CheckTimerClears, CheckTimerDecides,
                          HandlerFails, Connects, loopVars, offerVars, restartVars
<1>3. CASE PostSend \/ GatheringCompletes \/ AnswerArrives \/ ClientAnswers
  BY <1>3, WireKeepsFlight
<1>4. CASE EventsQueue
  BY <1>4, HandlersKeepFlight
<1>5. CASE SignalDrops
  <2>1. drops' # 0
    BY <1>5 DEF SignalDrops, IInv, TypeOK, WireTypes
  <2>2. QED BY <2>1 DEF FirstConnection
<1>6. CASE Resume
  BY <1>6 DEF Resume, FirstConnection
<1>7. CASE Close
  BY <1>7 DEF Close, FirstConnection
<1>8. CASE UNCHANGED vars
  BY <1>8, SameFlight DEF vars, loopVars, offerVars, restartVars
<1>9. QED BY <1>1, <1>2, <1>3, <1>4, <1>5, <1>6, <1>7, <1>8 DEF Next, Debounced

\* The places an offer can be in hold one offer together.
LEMMA FlightCounts == IInv /\ FirstConnection => OneInFlight
<1> DEFINE received == {i \in 1..Len(queue) : queue[i].signal = "answer"}
<1> SUFFICES ASSUME IInv, FirstConnection, phase = "open", drops = 0
             PROVE  /\ Len(offers) + Len(answers) + Cardinality(received)
                         = (IF negotiationState = "none" THEN 0 ELSE 1)
                    /\ \A i \in received : queue[i].id = localOfferId
                    /\ Carried(offers) \cup Carried(answers) \subseteq {localOfferId}
  BY DEF OneInFlight
<1>1. Flight
  BY StillFirst
<1>2. Carried(<<>>) = {} /\ \A i : Carried(<<i>>) = {i}
  BY DEF Carried
<1>3. Len(<<>>) = 0 /\ \A i : Len(<<i>>) = 1
  OBVIOUS
<1>4. None("answer", queue) => received = {}
  BY DEF None
<1>5. OneAnswer(queue, localOfferId) =>
        \E k : received = {k} /\ queue[k].id = localOfferId
  <2> SUFFICES ASSUME OneAnswer(queue, localOfferId)
               PROVE  \E k : received = {k} /\ queue[k].id = localOfferId
    OBVIOUS
  <2>1. PICK k \in 1..Len(queue) :
           /\ queue[k] = Answer(localOfferId)
           /\ \A i \in 1..Len(queue) : i # k => queue[i].signal # "answer"
    BY DEF OneAnswer
  <2>2. queue[k].signal = "answer" /\ queue[k].id = localOfferId
    BY <2>1 DEF Answer
  <2>3. QED BY <2>1, <2>2
<1>6. Cardinality({}) = 0 /\ \A k : Cardinality({k}) = 1
  BY FS_EmptySet, FS_Singleton
<1> HIDE DEF received
<1>7. CASE negotiationState = "none" /\ offers = <<>> /\ answers = <<>> /\ received = {}
  BY <1>2, <1>3, <1>6, <1>7
<1>8. CASE negotiationState # "none" /\ offers = <<localOfferId>> /\ answers = <<>> /\ received = {}
  BY <1>2, <1>3, <1>6, <1>8
<1>9. CASE negotiationState # "none" /\ offers = <<>> /\ answers = <<localOfferId>> /\ received = {}
  BY <1>2, <1>3, <1>6, <1>9
<1>10. CASE negotiationState # "none" /\ offers = <<>> /\ answers = <<>>
              /\ OneAnswer(queue, localOfferId)
  <2>1. PICK k : received = {k} /\ queue[k].id = localOfferId
    BY <1>5, <1>10
  <2>2. Cardinality(received) = 1 /\ \A i \in received : queue[i].id = localOfferId
    BY <1>6, <2>1
  <2>3. QED BY <1>2, <1>3, <1>10, <2>2
<1>11. QED BY <1>1, <1>4, <1>7, <1>8, <1>9, <1>10 DEF Flight

\* Before the first client has to resume, there is one offer at most that has
\* no answer, and what is on its way is that offer or its answer
\* (transport.go:2440-2447).
THEOREM OneOfferAtATime == Spec => []OneInFlight
<1>1. Init => FirstConnection
  BY DEF Init, FirstConnection, Flight, None
<1>2. IInv /\ FirstConnection /\ [Next]_vars => FirstConnection'
  BY FlightNext
<1>3. IInv /\ FirstConnection => OneInFlight
  BY FlightCounts
<1>4. QED BY <1>1, <1>2, <1>3, Invariance, PTL DEF Spec

=============================================================================
