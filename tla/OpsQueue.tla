------------------------------ MODULE OpsQueue ------------------------------
(***************************************************************************)
(* The serial operation queue of the media server                          *)
(* (apps/livekit/pkg/utils/opsqueue.go).  Any number of goroutines call    *)
(* Enqueue, Start and Stop; one goroutine, process(), takes the operations *)
(* out and runs them one at a time.                                        *)
(*                                                                         *)
(* process() sleeps on the one-slot channel `wake'.  Enqueue signals it    *)
(* only when the queue goes from empty to one element, with a non-blocking *)
(* send that is dropped when the slot is full; Stop closes the channel.    *)
(* The model keeps every critical section of oq.lock as one action and     *)
(* lets the callers interleave with process() between its critical         *)
(* sections, while it is about to sleep and while an operation runs.       *)
(*                                                                         *)
(* An operation is the number of its acceptance: the k-th accepted Enqueue *)
(* enqueues k.  `accepted' and `executed' are history variables.           *)
(***************************************************************************)
EXTENDS Naturals, Sequences

CONSTANTS
    FlushOnStop,    \* OpsQueueParams.FlushOnStop
    MaxOps          \* bound on the number of accepted operations

ASSUME FlushAssumption == FlushOnStop \in BOOLEAN
ASSUME MaxOpsAssumption == MaxOps \in Nat

VARIABLES
    ops,        \* the deque of waiting operations
    wake,       \* number of tokens in the one-slot channel wake
    isStarted,
    isStopped,  \* also: the channel wake is closed (both are set under lock)
    pc,         \* where process() is
    accepted,   \* number of operations Enqueue has accepted
    executed    \* the operations process() has taken out, in order

vars == <<ops, wake, isStarted, isStopped, pc, accepted, executed>>

\* "none": not spawned; "recv": at the receive on wake; "loop": about to lock;
\* "run": inside op.run(); "done": returned, doneChan closed.
Points == {"none", "recv", "loop", "run", "done"}

Init ==
    /\ ops = <<>>
    /\ wake = 0
    /\ isStarted = FALSE
    /\ isStopped = FALSE
    /\ pc = "none"
    /\ accepted = 0
    /\ executed = <<>>

-----------------------------------------------------------------------------
(* The callers. *)

\* The first Start spawns process(); the others return early.
Start ==
    /\ ~isStarted
    /\ isStarted' = TRUE
    /\ pc' = "recv"
    /\ UNCHANGED <<ops, wake, isStopped, accepted, executed>>

\* The first Stop closes wake; a token already in the slot stays there.
Stop ==
    /\ ~isStopped
    /\ isStopped' = TRUE
    /\ UNCHANGED <<ops, wake, isStarted, pc, accepted, executed>>

\* Mutant: the send on wake does not stop at the one slot of the channel.
EnqueueTokens ==
    /\ accepted < MaxOps
    /\ ~isStopped
    /\ accepted' = accepted + 1
    /\ ops' = Append(ops, accepted')
    /\ wake' = IF Len(ops') = 1 THEN wake + 1 ELSE wake
    /\ UNCHANGED <<isStarted, isStopped, pc, executed>>

\* After Stop an operation is ignored, which changes nothing.
Enqueue ==
    /\ accepted < MaxOps
    /\ ~isStopped
    /\ accepted' = accepted + 1
    /\ ops' = Append(ops, accepted')
    /\ wake' = IF Len(ops') = 1 THEN 1 ELSE wake
    /\ UNCHANGED <<isStarted, isStopped, pc, executed>>

-----------------------------------------------------------------------------
(* The goroutine process(). *)

\* Mutant: Stop does not close wake.
WakeOnToken ==
    /\ pc = "recv"
    /\ wake = 1
    /\ wake' = 0
    /\ pc' = "loop"
    /\ UNCHANGED <<ops, isStarted, isStopped, accepted, executed>>

\* <-oq.wake: a closed channel gives its buffered token first, then returns
\* at once for ever.
Wake ==
    /\ pc = "recv"
    /\ wake = 1 \/ isStopped
    /\ wake' = 0
    /\ pc' = "loop"
    /\ UNCHANGED <<ops, isStarted, isStopped, accepted, executed>>

\* Mutant: FlushOnStop is ignored.
MustReturnAtOnce == isStopped

MustReturn == isStopped /\ (~FlushOnStop \/ ops = <<>>)

\* Return: the deferred close(oq.doneChan).
Return ==
    /\ pc = "loop"
    /\ MustReturn
    /\ pc' = "done"
    /\ UNCHANGED <<ops, wake, isStarted, isStopped, accepted, executed>>

\* Mutant: one operation per wake-up, the queue is not looked at again.
DrainedUnchecked ==
    /\ pc = "loop"
    /\ ~MustReturn
    /\ pc' = "recv"
    /\ UNCHANGED <<ops, wake, isStarted, isStopped, accepted, executed>>

\* The queue is empty: back to the receive.
Drained ==
    /\ pc = "loop"
    /\ ~MustReturn
    /\ ops = <<>>
    /\ pc' = "recv"
    /\ UNCHANGED <<ops, wake, isStarted, isStopped, accepted, executed>>

\* Mutant: the newest operation is taken first.
PopBack ==
    /\ pc = "loop"
    /\ ~MustReturn
    /\ ops # <<>>
    /\ ops' = SubSeq(ops, 1, Len(ops) - 1)
    /\ executed' = Append(executed, ops[Len(ops)])
    /\ pc' = "run"
    /\ UNCHANGED <<wake, isStarted, isStopped, accepted>>

PopFront ==
    /\ pc = "loop"
    /\ ~MustReturn
    /\ ops # <<>>
    /\ ops' = Tail(ops)
    /\ executed' = Append(executed, Head(ops))
    /\ pc' = "run"
    /\ UNCHANGED <<wake, isStarted, isStopped, accepted>>

\* op.run() returns; other callers, and the operation itself, may have
\* enqueued meanwhile.
RunReturns ==
    /\ pc = "run"
    /\ pc' = "loop"
    /\ UNCHANGED <<ops, wake, isStarted, isStopped, accepted, executed>>

Process == Wake \/ Return \/ Drained \/ PopFront \/ RunReturns

Next == Start \/ Stop \/ Enqueue \/ Process

Spec == Init /\ [][Next]_vars

\* The Go scheduler runs a runnable goroutine, and every operation returns.
FairSpec == Spec /\ WF_vars(Process)

-----------------------------------------------------------------------------
\* The channel wake never holds more than its one slot, and the counters stay
\* within their bound (opsqueue.go:82-90, 118-134).
TypeOK ==
    /\ ops \in Seq(1..MaxOps)
    /\ wake \in {0, 1}
    /\ isStarted \in BOOLEAN
    /\ isStopped \in BOOLEAN
    /\ pc \in Points
    /\ accepted \in 0..MaxOps
    /\ executed \in Seq(1..MaxOps)

\* An operation is never stranded: when process() is about to sleep and
\* operations wait, a wake-up is in the slot or the channel is closed, even
\* though Enqueue signals only for the first element and drops the signal when
\* the slot is full (opsqueue.go:127-133).
NoLostWakeup ==
    (pc = "recv" /\ ops # <<>>) => (wake = 1 \/ isStopped)

\* Operations run in the order in which they were accepted, each at most once,
\* and none is forgotten while it has not run: what ran followed by what waits
\* is exactly 1, 2, ..., accepted.
FifoOrder ==
    /\ Len(executed) + Len(ops) = accepted
    /\ \A i \in 1..Len(executed) : executed[i] = i
    /\ \A i \in 1..Len(ops) : ops[i] = Len(executed) + i

\* With FlushOnStop nothing accepted is thrown away: when doneChan closes every
\* accepted operation has run.
FlushedWhenDone ==
    (FlushOnStop /\ pc = "done") => Len(executed) = accepted

\* Once doneChan is closed no operation runs any more, and after Stop none is
\* accepted: a caller that waited for Stop() has seen the last effect.
QuietAfterDone ==
    [][pc = "done" => UNCHANGED <<ops, executed, pc, accepted>>]_vars

\* Every accepted operation of a started queue eventually runs, unless Stop
\* comes first and the queue does not flush.
EveryOpRuns ==
    \A i \in 1..MaxOps :
        (isStarted /\ accepted >= i)
            ~> (Len(executed) >= i \/ (isStopped /\ ~FlushOnStop))

\* Stop on a started queue eventually closes doneChan, so that a caller that
\* waits on the returned channel is released.
StopCompletes == (isStarted /\ isStopped) ~> (pc = "done")

=============================================================================
