--------------------------- MODULE OpsQueue_proofs ---------------------------
(***************************************************************************)
(* For every bound on the operations and both values of FlushOnStop: types *)
(* are kept, no wake-up is lost, operations run in order and exactly once, *)
(* a flushing queue is empty when it is done, and it is quiet afterwards.  *)
(***************************************************************************)
EXTENDS OpsQueue, SequenceTheorems, TLAPS

USE MaxOpsAssumption

\* What links the flags and the wake-up to the place of process(): it exists
\* once started, a wake-up waits for it when operations were enqueued before
\* that, and it only returns after Stop, with an empty queue when it flushes.
ControlInv ==
    /\ isStarted <=> pc # "none"
    /\ (pc = "none" /\ ops # <<>>) => (wake = 1 \/ isStopped)
    /\ pc = "done" => isStopped
    /\ (FlushOnStop /\ pc = "done") => ops = <<>>

\* The inductive invariant.
IInv == TypeOK /\ NoLostWakeup /\ FifoOrder /\ ControlInv

LEMMA InitIInv == Init => IInv
<1> SUFFICES ASSUME Init PROVE IInv
  OBVIOUS
<1>1. <<>> \in Seq(1..MaxOps) /\ Len(<<>>) = 0
  BY EmptySeq
<1>2. accepted \in 0..MaxOps /\ wake \in {0, 1}
  BY DEF Init
<1>3. TypeOK
  BY <1>1, <1>2 DEF Init, TypeOK, Points
<1>4. NoLostWakeup /\ ControlInv
  BY DEF Init, NoLostWakeup, ControlInv
<1>5. accepted = 0 /\ ops = <<>> /\ executed = <<>>
  BY DEF Init
<1>6. FifoOrder
  BY <1>1, <1>5 DEF FifoOrder
<1>7. QED BY <1>3, <1>4, <1>6 DEF IInv

\* The numbers an Enqueue and a PopFront work on.
LEMMA QueueTypes ==
  ASSUME IInv
  PROVE  /\ ops \in Seq(1..MaxOps) /\ Len(ops) \in Nat
         /\ executed \in Seq(1..MaxOps) /\ Len(executed) \in Nat
         /\ accepted \in 0..MaxOps
BY LenProperties DEF IInv, TypeOK

LEMMA EnqueueIInv == IInv /\ Enqueue => IInv'
<1> SUFFICES ASSUME IInv, Enqueue PROVE IInv'
  OBVIOUS
<1>1. /\ ops \in Seq(1..MaxOps) /\ Len(ops) \in Nat
      /\ executed \in Seq(1..MaxOps) /\ Len(executed) \in Nat
      /\ accepted \in 0..MaxOps
  BY QueueTypes
<1>2. /\ accepted < MaxOps
      /\ accepted' = accepted + 1
      /\ ops' = Append(ops, accepted')
      /\ executed' = executed
  BY DEF Enqueue
<1>3. accepted' \in 1..MaxOps
  BY <1>1, <1>2
<1>4. /\ ops' \in Seq(1..MaxOps)
      /\ ops' # <<>>
      /\ Len(ops') = Len(ops) + 1
      /\ \A i \in 1..Len(ops) : ops'[i] = ops[i]
      /\ ops'[Len(ops) + 1] = accepted'
  <2>1. /\ Append(ops, accepted') \in Seq(1..MaxOps)
        /\ Append(ops, accepted') # <<>>
        /\ Len(Append(ops, accepted')) = Len(ops) + 1
        /\ \A i \in 1..Len(ops) : Append(ops, accepted')[i] = ops[i]
        /\ Append(ops, accepted')[Len(ops) + 1] = accepted'
    BY <1>1, <1>3, AppendProperties
  <2>2. QED BY <1>2, <2>1, Zenon
<1>5. ops = <<>> => wake' = 1
  BY <1>4, EmptySeq DEF Enqueue
<1>6. wake' = 1 \/ wake' = wake
  BY DEF Enqueue
<1>7. TypeOK'
  <2>1. accepted' \in 0..MaxOps
    BY <1>3
  <2>2. wake' \in {0, 1}
    BY <1>6 DEF IInv, TypeOK
  <2>3. QED BY <1>4, <2>1, <2>2 DEF Enqueue, IInv, TypeOK
<1>8. NoLostWakeup' /\ ControlInv'
  \* The queue was empty and the token is put now, or it was not and the
  \* token was there before.
  <2>1. CASE ops = <<>>
    BY <1>5, <2>1 DEF Enqueue, IInv, NoLostWakeup, ControlInv
  <2>2. CASE ops # <<>>
    BY <1>6, <2>2 DEF Enqueue, IInv, NoLostWakeup, ControlInv
  <2>3. QED BY <2>1, <2>2
<1>9. FifoOrder'
  <2>1. /\ Len(executed) + Len(ops) = accepted
        /\ \A i \in 1..Len(executed) : executed[i] = i
        /\ \A i \in 1..Len(ops) : ops[i] = Len(executed) + i
    BY DEF IInv, FifoOrder
  <2>2. Len(executed') + Len(ops') = accepted'
    BY <1>1, <1>2, <1>4, <2>1
  <2>3. ASSUME NEW i \in 1..Len(ops')
        PROVE  ops'[i] = Len(executed') + i
    <3>1. CASE i = Len(ops) + 1
      <4>1. ops'[i] = accepted'
        BY <1>4, <3>1
      <4>2. accepted' = accepted + 1 /\ executed' = executed
        BY <1>2
      <4>3. Len(executed) + Len(ops) = accepted
        BY <2>1
      <4>4. QED BY <1>1, <3>1, <4>1, <4>2, <4>3
    <3>2. CASE i \in 1..Len(ops)
      <4>1. ops'[i] = ops[i] /\ ops[i] = Len(executed) + i
        <5>1. ops'[i] = ops[i]
          BY <1>4, <3>2
        <5>2. ops[i] = Len(executed) + i
          BY <2>1, <3>2
        <5>3. QED BY <5>1, <5>2
      <4>2. executed' = executed
        BY <1>2
      <4>3. QED BY <4>1, <4>2
    <3>3. QED BY <1>1, <1>4, <3>1, <3>2
  <2>4. QED BY <1>2, <2>1, <2>2, <2>3 DEF FifoOrder
<1>10. QED BY <1>7, <1>8, <1>9 DEF IInv

LEMMA PopFrontIInv == IInv /\ PopFront => IInv'
<1> SUFFICES ASSUME IInv, PopFront PROVE IInv'
  OBVIOUS
<1>1. /\ ops \in Seq(1..MaxOps) /\ Len(ops) \in Nat
      /\ executed \in Seq(1..MaxOps) /\ Len(executed) \in Nat
      /\ accepted \in 0..MaxOps
  BY QueueTypes
<1>2. /\ ops # <<>>
      /\ ops' = Tail(ops)
      /\ executed' = Append(executed, Head(ops))
      /\ accepted' = accepted
      /\ pc' = "run"
  BY DEF PopFront
<1>3. /\ Len(executed) + Len(ops) = accepted
      /\ \A i \in 1..Len(executed) : executed[i] = i
      /\ \A i \in 1..Len(ops) : ops[i] = Len(executed) + i
  BY DEF IInv, FifoOrder
<1>4. Len(ops) # 0
  BY <1>1, <1>2, EmptySeq
<1>5. /\ ops' \in Seq(1..MaxOps)
      /\ Len(ops') = Len(ops) - 1
      /\ \A i \in 1..Len(ops') : ops'[i] = ops[i + 1]
      /\ Head(ops) \in 1..MaxOps
  BY <1>1, <1>2, HeadTailProperties
<1>6. Head(ops) = Len(executed) + 1
  BY <1>1, <1>3, <1>4
<1>7. /\ executed' \in Seq(1..MaxOps)
      /\ Len(executed') = Len(executed) + 1
      /\ \A i \in 1..Len(executed) : executed'[i] = executed[i]
      /\ executed'[Len(executed) + 1] = Len(executed) + 1
  BY <1>1, <1>2, <1>5, <1>6, AppendProperties
<1>8. TypeOK'
  BY <1>5, <1>7 DEF PopFront, IInv, TypeOK, Points
<1>9. NoLostWakeup' /\ ControlInv'
  BY DEF PopFront, IInv, NoLostWakeup, ControlInv
<1>10. FifoOrder'
  <2>1. Len(executed') + Len(ops') = accepted'
    <3>1. /\ Len(executed) + Len(ops) = accepted
          /\ Len(ops') = Len(ops) - 1
          /\ Len(executed') = Len(executed) + 1
      BY <1>3, <1>5, <1>7
    <3>2. Len(executed) \in Nat /\ Len(ops) \in Nat /\ accepted' = accepted
      BY <1>1, <1>2
    <3>3. QED BY <3>1, <3>2
  <2>2. ASSUME NEW i \in 1..Len(executed')
        PROVE  executed'[i] = i
    <3>1. i = Len(executed) + 1 \/ i \in 1..Len(executed)
      BY <1>1, <1>7
    <3>2. QED BY <1>3, <1>7, <3>1
  <2>3. ASSUME NEW i \in 1..Len(ops')
        PROVE  ops'[i] = Len(executed') + i
    <3>1. /\ Len(ops') = Len(ops) - 1
          /\ Len(executed') = Len(executed) + 1
          /\ Len(ops) \in Nat /\ Len(executed) \in Nat
      BY <1>1, <1>5, <1>7
    <3>2. i \in Nat /\ i + 1 \in 1..Len(ops)
      BY <3>1
    <3>3. ops'[i] = ops[i + 1]
      BY <1>5
    <3>4. ops[i + 1] = Len(executed) + (i + 1)
      BY <1>3, <3>2
    <3>5. QED BY <3>1, <3>2, <3>3, <3>4
  <2>4. QED BY <2>1, <2>2, <2>3 DEF FifoOrder
<1>11. QED BY <1>8, <1>9, <1>10 DEF IInv

LEMMA NextIInv == IInv /\ [Next]_vars => IInv'
<1> SUFFICES ASSUME IInv, [Next]_vars PROVE IInv'
  OBVIOUS
<1>1. CASE Enqueue BY <1>1, EnqueueIInv
<1>2. CASE PopFront BY <1>2, PopFrontIInv
<1> USE DEF IInv, TypeOK, Points, NoLostWakeup, FifoOrder, ControlInv
<1>3. CASE Start BY <1>3 DEF Start
<1>4. CASE Stop BY <1>4 DEF Stop
<1>5. CASE Wake BY <1>5 DEF Wake
<1>6. CASE Return BY <1>6 DEF Return, MustReturn
<1>7. CASE Drained BY <1>7 DEF Drained, MustReturn
<1>8. CASE RunReturns BY <1>8 DEF RunReturns
<1>9. CASE UNCHANGED vars BY <1>9 DEF vars
<1>10. QED
  BY <1>1, <1>2, <1>3, <1>4, <1>5, <1>6, <1>7, <1>8, <1>9 DEF Next, Process

\* The inductive invariant holds in every reachable state.
THEOREM Invariance == Spec => []IInv
BY InitIInv, NextIInv, PTL DEF Spec

\* Every variable keeps its type (the whole of opsqueue.go:71-158).
THEOREM TypeCorrect == Spec => []TypeOK
BY Invariance, PTL DEF IInv

\* No sleeping process() with waiting operations and no wake-up pending:
\* signalling only the first element of the queue is enough.
THEOREM WakeupSafety == Spec => []NoLostWakeup
BY Invariance, PTL DEF IInv

\* Operations run in order of acceptance, none twice, none skipped.
THEOREM Fifo == Spec => []FifoOrder
BY Invariance, PTL DEF IInv

\* A flushing queue has run everything it accepted when doneChan closes.
THEOREM Flushed == Spec => []FlushedWhenDone
<1>1. IInv => FlushedWhenDone
  BY DEF IInv, TypeOK, FifoOrder, ControlInv, FlushedWhenDone
<1>2. QED BY <1>1, Invariance, PTL

\* After doneChan is closed the queue does nothing and accepts nothing.
THEOREM Quiet == Spec => QuietAfterDone
<1>1. IInv /\ [Next]_vars => [pc = "done" => UNCHANGED <<ops, executed, pc, accepted>>]_vars
  BY DEF IInv, ControlInv, TypeOK, Next, Process, Start, Stop, Enqueue, Wake, Return,
         Drained, PopFront, RunReturns, vars
<1>2. QED BY <1>1, Invariance, PTL DEF Spec, QuietAfterDone

=============================================================================
