------------------------- MODULE SignalRelay_proofs -------------------------
(***************************************************************************)
(* For every number of messages, every retry deadline, every capacity and  *)
(* both values of CloseOnFailure: the relay hands over what was accepted   *)
(* in order, without gaps or repetitions, a close loses nothing, no        *)
(* message waits without a writer, and the relay implements                *)
(* OrderedDelivery.                                                        *)
(***************************************************************************)
EXTENDS SignalRelay, SequenceTheorems, TLAPS

USE RelayAssumption

-----------------------------------------------------------------------------
(* Runs of consecutive numbers. *)

LEMMA FromEmpty == ASSUME NEW k PROVE From(<<>>, k) /\ Len(<<>>) = 0
<1>1. Len(<<>>) = 0
  BY EmptySeq
<1>2. QED BY <1>1 DEF From

LEMMA FromAppend ==
  ASSUME NEW k \in Nat, NEW s \in Seq(Message), From(s, k),
         NEW e \in Message, e = k + Len(s) + 1
  PROVE  /\ Append(s, e) \in Seq(Message)
         /\ Append(s, e) # <<>>
         /\ Len(Append(s, e)) = Len(s) + 1
         /\ From(Append(s, e), k)
<1> DEFINE t == Append(s, e)
<1>1. /\ t \in Seq(Message) /\ t # <<>>
      /\ Len(t) = Len(s) + 1
      /\ \A i \in 1..Len(s) : t[i] = s[i]
      /\ t[Len(s) + 1] = e
  BY AppendProperties
<1>2. Len(s) \in Nat
  BY LenProperties
<1> HIDE DEF t
<1>3. ASSUME NEW i \in 1..Len(t) PROVE t[i] = k + i
  <2>1. CASE i \in 1..Len(s)
    BY <1>1, <2>1 DEF From
  <2>2. CASE i = Len(s) + 1
    BY <1>1, <1>2, <2>2
  <2>3. QED BY <1>1, <1>2, <2>1, <2>2
<1>4. From(t, k)
  BY <1>3 DEF From
<1>5. QED BY <1>1, <1>4 DEF t

LEMMA FromTail ==
  ASSUME NEW k \in Nat, NEW s \in Seq(Message), s # <<>>, From(s, k)
  PROVE  /\ Head(s) \in Message /\ Head(s) = k + 1
         /\ Tail(s) \in Seq(Message)
         /\ Len(s) \in Nat \ {0}
         /\ Len(Tail(s)) = Len(s) - 1
         /\ From(Tail(s), k + 1)
<1> DEFINE t == Tail(s)
<1>1. /\ Head(s) \in Message
      /\ t \in Seq(Message)
      /\ Len(t) = Len(s) - 1
      /\ \A i \in 1..Len(t) : t[i] = s[i + 1]
  BY HeadTailProperties
<1>2. Len(s) \in Nat \ {0}
  BY EmptySeq
<1>3. Head(s) = k + 1
  BY <1>2 DEF From
<1> HIDE DEF t
<1>4. ASSUME NEW i \in 1..Len(t) PROVE t[i] = k + 1 + i
  <2>1. i + 1 \in 1..Len(s)
    BY <1>1, <1>2
  <2>2. s[i + 1] = k + (i + 1)
    BY <2>1 DEF From
  <2>3. QED BY <1>1, <2>2
<1>5. From(t, k + 1)
  BY <1>4 DEF From
<1>6. QED BY <1>1, <1>2, <1>3, <1>5 DEF t

LEMMA FromSub ==
  ASSUME NEW k \in Nat, NEW s \in Seq(Message), From(s, k), NEW n \in 0..Len(s)
  PROVE  /\ SubSeq(s, n + 1, Len(s)) \in Seq(Message)
         /\ Len(SubSeq(s, n + 1, Len(s))) = Len(s) - n
         /\ From(SubSeq(s, n + 1, Len(s)), k + n)
<1> DEFINE t == SubSeq(s, n + 1, Len(s))
<1>1. Len(s) \in Nat /\ n \in Nat /\ n <= Len(s)
  BY LenProperties
<1>2. n + 1 \in Int /\ Len(s) \in Int /\ \A i \in n + 1 .. Len(s) : s[i] \in Message
  BY <1>1, ElementOfSeq
<1>3. /\ t \in Seq(Message)
      /\ Len(t) = IF n + 1 <= Len(s) THEN Len(s) - (n + 1) + 1 ELSE 0
      /\ \A i \in 1 .. Len(s) - (n + 1) + 1 : t[i] = s[n + 1 + i - 1]
  BY <1>2, SubSeqProperties
<1> HIDE DEF t
<1>4. Len(t) = Len(s) - n
  BY <1>1, <1>3
<1>5. ASSUME NEW i \in 1..Len(t) PROVE t[i] = k + n + i
  <2>1. i \in 1 .. Len(s) - (n + 1) + 1 /\ n + i \in 1..Len(s) /\ n + 1 + i - 1 = n + i
    BY <1>1, <1>4
  <2>2. t[i] = s[n + i]
    BY <1>3, <2>1
  <2>3. s[n + i] = k + (n + i)
    BY <2>1 DEF From
  <2>4. QED BY <1>1, <2>2, <2>3
<1>6. From(t, k + n)
  BY <1>5 DEF From
<1>7. QED BY <1>3, <1>4, <1>6 DEF t

\* What moves from one sequence to another leaves the sum of the lengths.
LEMMA Exchange ==
  ASSUME NEW a \in Nat, NEW b \in Nat, NEW c \in Nat
  PROVE  (a + b) + (c - b) = a + c
OBVIOUS

-----------------------------------------------------------------------------
(* Types. *)

\* A packet that Read takes up leaves a run of messages.
LEMMA UnseenType ==
  ASSUME TypeOK, NEW p \in Packet, p.seq <= rseq
  PROVE  Unseen(p) \in Seq(Message) /\ Len(Unseen(p)) \in Nat
<1>1. /\ p.seq \in Nat /\ rseq \in Nat
      /\ p.msgs \in Seq(Message) /\ Len(p.msgs) \in Nat
  BY LenProperties DEF TypeOK, Packet
<1>2. CASE rseq - p.seq >= Len(p.msgs)
  <2>1. Unseen(p) = <<>>
    BY <1>2 DEF Unseen
  <2>2. QED BY <2>1, EmptySeq
<1>3. CASE ~(rseq - p.seq >= Len(p.msgs))
  <2>1. Unseen(p) = SubSeq(p.msgs, rseq - p.seq + 1, Len(p.msgs))
    BY <1>3 DEF Unseen
  <2>2. /\ rseq - p.seq + 1 \in Int /\ Len(p.msgs) \in Int
        /\ \A i \in (rseq - p.seq + 1) .. Len(p.msgs) : i \in 1..Len(p.msgs)
    BY <1>1
  <2>3. \A i \in (rseq - p.seq + 1) .. Len(p.msgs) : p.msgs[i] \in Message
    BY <1>1, <2>2, ElementOfSeq
  <2>4. SubSeq(p.msgs, rseq - p.seq + 1, Len(p.msgs)) \in Seq(Message)
    BY <2>2, <2>3, SubSeqProperties
  <2>5. QED BY <2>1, <2>4, LenProperties
<1>4. QED BY <1>2, <1>3

LEMMA FinishType ==
  ASSUME TypeOK, NEW failed \in BOOLEAN, Finish(failed)
  PROVE  /\ sinkOpen' \in BOOLEAN
         /\ pc' = "none" /\ pkt' = pkt /\ tries' = tries /\ net' = net
BY DEF Finish

LEMMA LoopType ==
  ASSUME TypeOK, NEW s \in Nat, NEW q \in Seq(Message), NEW failed \in BOOLEAN,
         NEW n \in 0..MaxTries, Loop(s, q, failed, n)
  PROVE  /\ sinkOpen' \in BOOLEAN
         /\ pc' \in {"none", "lock", "send"}
         /\ pkt' \in Packet
         /\ tries' \in 0..MaxTries
         /\ net' \subseteq Packet /\ net \subseteq net'
<1>1. CASE (~draining /\ q = <<>>) \/ ~sinkOpen
  <2>1. Finish(failed)
    BY <1>1 DEF Loop
  <2>2. QED BY <2>1, FinishType DEF TypeOK
<1>2. CASE ~((~draining /\ q = <<>>) \/ ~sinkOpen)
  <2>1. /\ pkt' = [seq |-> s, close |-> draining, msgs |-> q]
        /\ net' = net \cup {pkt'}
        /\ tries' = n /\ pc' = "send" /\ sinkOpen' = sinkOpen
    BY <1>2 DEF Loop
  <2>2. pkt' \in Packet
    BY <2>1 DEF TypeOK, Packet
  <2>3. QED BY <2>1, <2>2 DEF TypeOK
<1>3. QED BY <1>1, <1>2

LEMMA InitType == Init => TypeOK
<1> SUFFICES ASSUME Init PROVE TypeOK
  OBVIOUS
<1>1. /\ <<>> \in Seq(Message) /\ <<>> \in Seq(Packet) /\ Len(<<>>) = 0
  BY EmptySeq
<1>2. pkt \in Packet
  BY <1>1 DEF Init, NoPacket, Packet
<1>3. /\ 0 \in 0..MaxMsgs /\ 0 \in 0..MaxTries /\ 0 <= ChanSize /\ 0 <= StreamBufferSize
  OBVIOUS
<1>4. QED BY <1>1, <1>2, <1>3 DEF Init, TypeOK

LEMMA TypeStep == TypeOK /\ [Next]_vars => TypeOK'
<1> SUFFICES ASSUME TypeOK, [Next]_vars PROVE TypeOK'
  OBVIOUS
<1>0. /\ seq \in Nat /\ rseq \in Nat /\ accepted \in 0..MaxMsgs /\ tries \in 0..MaxTries
      /\ queue \in Seq(Message) /\ Len(queue) \in Nat
      /\ pkt.msgs \in Seq(Message) /\ Len(pkt.msgs) \in Nat
      /\ inbox \in Seq(Packet) /\ chan \in Seq(Message) /\ res \in Seq(Message)
      /\ received \in Seq(Message) /\ net \subseteq Packet
  <2>1. pkt.msgs \in Seq(Message)
    BY DEF TypeOK, Packet
  <2>2. QED BY <2>1, LenProperties DEF TypeOK
<1>1. CASE WriteMessage
  <2>1. accepted' \in 0..MaxMsgs /\ accepted' \in Message
    BY <1>0, <1>1 DEF WriteMessage, Message
  <2>2. queue' \in Seq(Message)
    BY <1>0, <1>1, <2>1, AppendProperties DEF WriteMessage
  <2>3. pc' \in {"none", "lock", "send"} /\ pkt' = pkt /\ tries' \in 0..MaxTries
    BY <1>0, <1>1 DEF WriteMessage, StartWriter, writerVars, TypeOK
  <2>4. QED BY <1>1, <2>1, <2>2, <2>3
            DEF TypeOK, WriteMessage, streamVars, readerVars, chanVars
<1>2. CASE Close
  <2>1. pc' \in {"none", "lock", "send"} /\ pkt' = pkt /\ tries' \in 0..MaxTries
    BY <1>0, <1>2 DEF Close, StartWriter, writerVars, TypeOK
  <2>2. QED BY <1>2, <2>1 DEF TypeOK, Close, streamVars, readerVars, chanVars
<1>3. CASE Begin
  <2>1. Loop(seq, queue, FALSE, 0)
    BY <1>3 DEF Begin
  <2>2. 0 \in 0..MaxTries
    OBVIOUS
  <2>3. /\ sinkOpen' \in BOOLEAN /\ pc' \in {"none", "lock", "send"}
        /\ pkt' \in Packet /\ tries' \in 0..MaxTries
        /\ net' \subseteq Packet /\ net \subseteq net'
    BY <1>0, <2>1, <2>2, LoopType
  <2>4. QED BY <1>3, <2>3 DEF TypeOK, Begin, readerVars, chanVars
<1>4. CASE SendReturns
  <2>1. seq' \in Nat
    BY <1>0, <1>4 DEF SendReturns
  <2>2. queue' \in Seq(Message)
    <3>1. /\ Len(pkt.msgs) + 1 \in Int /\ Len(queue) \in Int
          /\ \A i \in Len(pkt.msgs) + 1 .. Len(queue) : i \in 1..Len(queue)
      BY <1>0
    <3>2. \A i \in Len(pkt.msgs) + 1 .. Len(queue) : queue[i] \in Message
      BY <1>0, <3>1, ElementOfSeq
    <3>3. SubSeq(queue, Len(pkt.msgs) + 1, Len(queue)) \in Seq(Message)
      BY <3>1, <3>2, SubSeqProperties
    <3>4. QED BY <1>4, <3>3 DEF SendReturns
  <2>3. 0 \in 0..MaxTries
    OBVIOUS
  <2>4. /\ sinkOpen' \in BOOLEAN /\ pc' \in {"none", "lock", "send"}
        /\ pkt' \in Packet /\ tries' \in 0..MaxTries
        /\ net' \subseteq Packet /\ net \subseteq net'
    <3>1. CASE pkt.close
      <4>1. Finish(FALSE)
        BY <1>4, <3>1 DEF SendReturns
      <4>2. QED BY <4>1, FinishType DEF TypeOK
    <3>2. CASE ~pkt.close
      <4>1. Loop(seq', queue', FALSE, 0)
        BY <1>4, <3>2 DEF SendReturns
      <4>2. QED BY <2>1, <2>2, <2>3, <4>1, LoopType
    <3>3. QED BY <3>1, <3>2
  <2>5. QED BY <1>4, <2>1, <2>2, <2>4 DEF TypeOK, SendReturns, readerVars, chanVars
<1>5. CASE SendFails
  <2>1. Loop(seq, queue, TRUE, tries + 1) /\ tries < MaxTries
    BY <1>5 DEF SendFails
  <2>a. tries + 1 \in 0..MaxTries
    BY <1>0, <2>1
  <2>2. /\ sinkOpen' \in BOOLEAN /\ pc' \in {"none", "lock", "send"}
        /\ pkt' \in Packet /\ tries' \in 0..MaxTries
        /\ net' \subseteq Packet /\ net \subseteq net'
    BY <1>0, <2>1, <2>a, LoopType
  <2>3. QED BY <1>5, <2>2 DEF TypeOK, SendFails, readerVars, chanVars
<1>6. CASE GiveUp
  <2>1. Finish(TRUE) /\ seq' = seq + Len(queue)
    BY <1>6 DEF GiveUp
  <2>a. seq' \in Nat
    BY <1>0, <2>1
  <2>2. queue' \in Seq(Message)
    BY <1>6, EmptySeq DEF GiveUp
  <2>3. sinkOpen' \in BOOLEAN /\ pc' = "none" /\ pkt' = pkt /\ tries' = tries /\ net' = net
    BY <2>1, FinishType
  <2>4. QED BY <1>6, <2>a, <2>2, <2>3 DEF TypeOK, GiveUp, readerVars, chanVars
<1>7. CASE \E p \in net : Deliver(p)
  <2>1. PICK p \in net : Deliver(p)
    BY <1>7
  <2>2. p \in Packet
    BY <1>0
  <2>3. inbox' \in Seq(Packet) /\ Len(inbox') = Len(inbox) + 1
    BY <1>0, <2>1, <2>2, AppendProperties DEF Deliver
  <2>4. Len(inbox') <= StreamBufferSize
    <3>1. Len(inbox) \in Nat
      BY <1>0, LenProperties
    <3>2. QED BY <2>1, <2>3, <3>1 DEF Deliver
  <2>5. QED BY <2>1, <2>3, <2>4 DEF TypeOK, Deliver, sinkVars, writerVars, readerVars, chanVars
<1>8. CASE SinkSeesClose
  BY <1>8 DEF TypeOK, SinkSeesClose, writerVars, streamVars, readerVars, chanVars
<1>9. CASE ReaderSeesClose
  BY <1>9 DEF TypeOK, ReaderSeesClose, sinkVars, writerVars, readerVars, chanVars
<1>10. CASE Read
  <2>1. /\ Head(inbox) \in Packet /\ inbox' \in Seq(Packet) /\ Len(inbox') = Len(inbox) - 1
        /\ Len(inbox) \in Nat
    BY <1>0, <1>10, HeadTailProperties, LenProperties DEF Read
  <2>2. Len(inbox') <= StreamBufferSize
    BY <2>1 DEF TypeOK
  <2>3. res' = Unseen(Head(inbox)) /\ rseq' = rseq + Len(res') /\ Head(inbox).seq <= rseq
    BY <1>10 DEF Read
  <2>4. res' \in Seq(Message) /\ rseq' \in Nat
    BY <1>0, <2>1, <2>3, UnseenType
  <2>5. rclose' \in BOOLEAN
    BY <1>10, <2>1 DEF Read, Packet
  <2>6. QED BY <1>10, <2>1, <2>2, <2>4, <2>5 DEF TypeOK, Read, sinkVars, writerVars, chanVars
<1>11. CASE ReadGap
  <2>1. /\ inbox' \in Seq(Packet) /\ Len(inbox') = Len(inbox) - 1
        /\ Len(inbox) \in Nat
    BY <1>0, <1>11, HeadTailProperties, LenProperties DEF ReadGap
  <2>2. Len(inbox') <= StreamBufferSize
    BY <2>1 DEF TypeOK
  <2>3. QED BY <1>11, <2>1, <2>2 DEF TypeOK, ReadGap, End, sinkVars, writerVars
<1>12. CASE Copy
  <2>1. Head(res) \in Message /\ res' \in Seq(Message)
    BY <1>0, <1>12, HeadTailProperties DEF Copy
  <2>2. chan' \in Seq(Message) /\ Len(chan') = Len(chan) + 1 /\ Len(chan) \in Nat
    BY <1>0, <1>12, <2>1, AppendProperties, LenProperties DEF Copy
  <2>3. Len(chan') <= ChanSize
    BY <1>12, <2>2 DEF Copy
  <2>4. QED BY <1>12, <2>1, <2>2, <2>3 DEF TypeOK, Copy, sinkVars, writerVars, streamVars
<1>13. CASE CopyFails
  BY <1>13 DEF TypeOK, CopyFails, End, sinkVars, writerVars, streamVars
<1>14. CASE Copied
  BY <1>14 DEF TypeOK, Copied, sinkVars, writerVars, streamVars, chanVars
<1>15. CASE CopiedLast
  BY <1>15 DEF TypeOK, CopiedLast, End, sinkVars, writerVars
<1>16. CASE StreamEnds
  BY <1>16 DEF TypeOK, StreamEnds, End, sinkVars, writerVars, streamVars
<1>17. CASE Take
  <2>1. Head(chan) \in Message /\ chan' \in Seq(Message)
        /\ Len(chan') = Len(chan) - 1 /\ Len(chan) \in Nat
    BY <1>0, <1>17, HeadTailProperties, LenProperties DEF Take
  <2>2. received' \in Seq(Message)
    BY <1>0, <1>17, <2>1, AppendProperties DEF Take
  <2>3. Len(chan') <= ChanSize
    BY <2>1 DEF TypeOK
  <2>4. QED BY <1>17, <2>1, <2>2, <2>3 DEF TypeOK, Take, sinkVars, writerVars, streamVars, readerVars
<1>18. CASE SessionCloses
  BY <1>18 DEF TypeOK, SessionCloses, sinkVars, writerVars, streamVars, readerVars
<1>19. CASE UNCHANGED vars
  BY <1>19 DEF TypeOK, vars, sinkVars, writerVars, streamVars, readerVars, chanVars
<1>20. QED
  BY <1>1, <1>2, <1>3, <1>4, <1>5, <1>6, <1>7, <1>8, <1>9, <1>10, <1>11, <1>12, <1>13,
     <1>14, <1>15, <1>16, <1>17, <1>18, <1>19 DEF Next, Writer, Reader

-----------------------------------------------------------------------------
(* The sink. *)

LEMMA SinkStep == TypeOK /\ SinkInv /\ StreamInv /\ [Next]_vars => SinkInv'
<1> SUFFICES ASSUME TypeOK, SinkInv, StreamInv, [Next]_vars PROVE SinkInv'
  OBVIOUS
<1>0. /\ seq \in Nat /\ accepted \in 0..MaxMsgs /\ queue \in Seq(Message) /\ Len(queue) \in Nat
      /\ seq + Len(queue) = accepted /\ From(queue, seq)
  BY LenProperties DEF TypeOK, SinkInv
<1>f. ASSUME UNCHANGED <<accepted, seq, queue>> PROVE SinkInv'
  BY <1>f, <1>0 DEF SinkInv, From
<1>1. CASE WriteMessage
  <2>1. /\ accepted' = accepted + 1 /\ queue' = Append(queue, accepted') /\ seq' = seq
        /\ accepted < MaxMsgs
    BY <1>1 DEF WriteMessage
  <2>2. accepted' \in Message /\ accepted' = seq + Len(queue) + 1
    BY <1>0, <2>1 DEF Message
  <2>3. Len(queue') = Len(queue) + 1 /\ From(queue', seq)
    BY <1>0, <2>1, <2>2, FromAppend
  <2>4. seq' + Len(queue') = accepted'
    BY <1>0, <2>1, <2>3
  <2>5. From(queue', seq')
    BY <2>1, <2>3
  <2>6. QED BY <2>4, <2>5 DEF SinkInv, From
<1>2. CASE SendReturns
  <2>1. /\ seq' = seq + Len(pkt.msgs)
        /\ queue' = SubSeq(queue, Len(pkt.msgs) + 1, Len(queue))
        /\ accepted' = accepted /\ pc = "send"
    BY <1>2 DEF SendReturns
  <2>2. Len(pkt.msgs) \in Nat
    BY LenProperties DEF TypeOK, Packet
  <2>3. Len(pkt.msgs) \in 0..Len(queue)
    BY <1>0, <2>1, <2>2 DEF StreamInv
  <2>4. /\ Len(queue') = Len(queue) - Len(pkt.msgs)
        /\ From(queue', seq + Len(pkt.msgs))
    BY <1>0, <2>1, <2>3, FromSub
  <2>5. seq' + Len(queue') = accepted'
    <3>1. seq' = seq + Len(pkt.msgs) /\ accepted' = accepted
      BY <2>1
    <3>2. Len(queue') = Len(queue) - Len(pkt.msgs)
      BY <2>4
    <3>3. seq \in Nat /\ Len(queue) \in Nat /\ accepted = seq + Len(queue)
      BY <1>0
    <3>4. (seq + Len(pkt.msgs)) + (Len(queue) - Len(pkt.msgs)) = seq + Len(queue)
      BY <2>2, <3>3, Exchange, Zenon
    <3>5. QED BY <3>1, <3>2, <3>3, <3>4, Zenon
  <2>6. From(queue', seq')
    BY <2>1, <2>4
  <2>7. QED BY <2>5, <2>6 DEF SinkInv, From
<1>3. CASE GiveUp
  <2>1. seq' = seq + Len(queue) /\ queue' = <<>> /\ accepted' = accepted
    BY <1>3 DEF GiveUp
  <2>2. Len(queue') = 0 /\ From(queue', seq')
    BY <2>1, FromEmpty
  <2>3. seq' + Len(queue') = accepted'
    BY <1>0, <2>1, <2>2
  <2>4. QED BY <2>2, <2>3 DEF SinkInv, From
<1>4. CASE \/ Close \/ Begin \/ SendFails \/ \E p \in net : Deliver(p)
           \/ SinkSeesClose \/ ReaderSeesClose
  BY <1>4, <1>f DEF Close, Begin, SendFails, Deliver, SinkSeesClose, ReaderSeesClose, sinkVars
<1>5. CASE Reader \/ Take \/ SessionCloses \/ UNCHANGED vars
  BY <1>5, <1>f DEF Reader, Read, ReadGap, Copy, CopyFails, Copied, CopiedLast, StreamEnds,
                    Take, SessionCloses, vars, sinkVars
<1>6. QED BY <1>1, <1>2, <1>3, <1>4, <1>5 DEF Next, Writer

-----------------------------------------------------------------------------
(* The stream. *)

\* A sound packet stays sound: nothing is accepted once the sink drains.
LEMMA SoundKept ==
  ASSUME TypeOK, NEW p \in Packet, Sound(p),
         \/ accepted' = accepted /\ draining' \in {draining, TRUE}
         \/ accepted' = accepted + 1 /\ draining' = draining /\ ~draining
  PROVE  /\ p.seq + Len(p.msgs) <= accepted'
         /\ From(p.msgs, p.seq)
         /\ p.close => draining' /\ p.seq + Len(p.msgs) = accepted'
<1>1. p.seq \in Nat /\ Len(p.msgs) \in Nat /\ accepted \in Nat
  BY LenProperties DEF TypeOK, Packet
<1>2. /\ p.seq + Len(p.msgs) <= accepted
      /\ From(p.msgs, p.seq)
      /\ p.close => draining /\ p.seq + Len(p.msgs) = accepted
  BY DEF Sound
<1>3. CASE accepted' = accepted /\ draining' \in {draining, TRUE}
  <2>1. p.close => draining'
    BY <1>2, <1>3, Zenon
  <2>2. QED BY <1>2, <1>3, <2>1, Zenon
<1>4. CASE accepted' = accepted + 1 /\ draining' = draining /\ ~draining
  <2>1. ~p.close
    BY <1>2, <1>4, Zenon
  <2>2. accepted' = accepted + 1 /\ p.seq + Len(p.msgs) <= accepted
    BY <1>2, <1>4, Zenon
  <2>3. p.seq + Len(p.msgs) <= accepted'
    BY <1>1, <2>2
  <2>4. QED BY <1>2, <2>1, <2>3, Zenon
<1>5. QED BY <1>3, <1>4

\* What the head of the loop leaves of the stream's invariant.
LEMMA LoopStream ==
  ASSUME TypeOK, StreamInv, UNCHANGED <<accepted, draining, inbox>>,
         NEW failed, NEW n,
         seq' \in Nat, queue' \in Seq(Message),
         seq' + Len(queue') = accepted, From(queue', seq'),
         Loop(seq', queue', failed, n)
  PROVE  StreamInv'
<1>1. CASE (~draining /\ queue' = <<>>) \/ ~sinkOpen
  <2>1. pc' = "none" /\ net' = net
    BY <1>1 DEF Loop, Finish
  <2>2. QED BY <2>1 DEF StreamInv, Sound, From
<1>2. CASE ~((~draining /\ queue' = <<>>) \/ ~sinkOpen)
  <2>1. /\ pkt' = [seq |-> seq', close |-> draining, msgs |-> queue']
        /\ net' = net \cup {pkt'}
    BY <1>2 DEF Loop
  <2>2. /\ pkt'.seq = seq' /\ pkt'.close = draining /\ pkt'.msgs = queue'
    BY <2>1
  <2>3. accepted \in Nat /\ accepted' = accepted /\ draining' = draining
    BY DEF TypeOK
  <2>4. /\ pkt'.seq + Len(pkt'.msgs) = accepted'
        /\ From(pkt'.msgs, pkt'.seq)
    BY <2>2, <2>3
  <2>5. Sound(pkt)'
    BY <2>2, <2>3, <2>4 DEF Sound, From
  <2>6. \A p \in net : Sound(p)'
    BY <2>3 DEF StreamInv, Sound, From
  <2>7. (\A p \in net : Sound(p))'
    BY <2>1, <2>5, <2>6
  <2>8. (\A i \in 1..Len(inbox) : inbox[i] \in net)'
    BY <2>1 DEF StreamInv
  <2>9. pkt' \in net' /\ pkt'.seq = seq' /\ Len(pkt'.msgs) <= Len(queue')
    <3>1. Len(queue') \in Nat
      BY LenProperties
    <3>2. QED BY <2>1, <2>2, <3>1
  <2>10. QED BY <2>7, <2>8, <2>9 DEF StreamInv
<1>3. QED BY <1>1, <1>2

LEMMA StreamStep == TypeOK /\ TypeOK' /\ SinkInv /\ SinkInv' /\ StreamInv /\ [Next]_vars => StreamInv'
<1> SUFFICES ASSUME TypeOK, TypeOK', SinkInv, SinkInv', StreamInv, [Next]_vars PROVE StreamInv'
  OBVIOUS
<1>0. /\ accepted \in 0..MaxMsgs /\ seq' \in Nat
      /\ queue' \in Seq(Message) /\ seq' + Len(queue') = accepted' /\ From(queue', seq')
      /\ queue \in Seq(Message) /\ inbox \in Seq(Packet) /\ net \subseteq Packet
  BY DEF TypeOK, SinkInv, From
<1>f. ASSUME UNCHANGED <<accepted, seq, queue, draining, net, inbox, pc, pkt>> PROVE StreamInv'
  BY <1>f DEF StreamInv, Sound, From
<1>1. CASE WriteMessage
  <2>1. /\ accepted' = accepted + 1 /\ draining' = draining /\ ~draining
        /\ queue' = Append(queue, accepted') /\ UNCHANGED <<seq, net, inbox, pkt>>
        /\ pc' = "send" => pc = "send"
        /\ accepted' \in Message
    <3>1. accepted' = accepted + 1 /\ accepted < MaxMsgs
      BY <1>1 DEF WriteMessage
    <3>2. accepted' \in Message
      BY <1>0, <3>1 DEF Message
    <3>3. QED BY <1>1, <3>2 DEF WriteMessage, StartWriter, writerVars, streamVars
  <2>2. \A p \in net : Sound(p)'
    <3>1. \A p \in net : p \in Packet /\ Sound(p)
      BY <1>0 DEF StreamInv
    <3>2. QED BY <2>1, <3>1, SoundKept DEF Sound, From
  <2>3. Len(queue') = Len(queue) + 1
    BY <1>0, <2>1, AppendProperties
  <2>4. pc = "send" => Len(pkt.msgs) <= Len(queue')
    <3>1. Len(pkt.msgs) \in Nat /\ Len(queue) \in Nat
      BY LenProperties DEF TypeOK, Packet
    <3>2. QED BY <2>3, <3>1 DEF StreamInv
  <2>5. (\A p \in net : Sound(p))'
    BY <2>1, <2>2
  <2>6. QED BY <2>1, <2>4, <2>5 DEF StreamInv
<1>2. CASE Close
  <2>1. /\ accepted' = accepted /\ draining' = TRUE
        /\ UNCHANGED <<seq, queue, net, inbox, pkt>>
        /\ pc' = "send" => pc = "send"
    BY <1>2 DEF Close, StartWriter, writerVars, streamVars
  <2>2. \A p \in net : Sound(p)'
    <3>1. \A p \in net : p \in Packet /\ Sound(p)
      BY <1>0 DEF StreamInv
    <3>2. draining' \in {draining, TRUE}
      BY <2>1
    <3>3. QED BY <2>1, <3>1, <3>2, SoundKept DEF Sound, From
  <2>3. (\A p \in net : Sound(p))'
    BY <2>1, <2>2
  <2>4. QED BY <2>1, <2>3 DEF StreamInv
<1>3. CASE Begin
  <2>1. /\ Loop(seq, queue, FALSE, 0) /\ UNCHANGED <<accepted, draining, inbox>>
        /\ seq' = seq /\ queue' = queue
    BY <1>3 DEF Begin
  <2>2. Loop(seq', queue', FALSE, 0) /\ seq' + Len(queue') = accepted
    BY <1>0, <2>1
  <2>3. QED BY <1>0, <2>1, <2>2, LoopStream
<1>4. CASE SendReturns
  <2>1. /\ UNCHANGED <<accepted, draining, inbox>>
        /\ IF pkt.close THEN Finish(FALSE) ELSE Loop(seq', queue', FALSE, 0)
    BY <1>4 DEF SendReturns
  <2>2. CASE pkt.close
    BY <2>1, <2>2 DEF Finish, StreamInv, Sound, From
  <2>3. CASE ~pkt.close
    BY <1>0, <2>1, <2>3, LoopStream
  <2>4. QED BY <2>2, <2>3
<1>5. CASE SendFails
  <2>1. /\ Loop(seq, queue, TRUE, tries + 1) /\ UNCHANGED <<accepted, draining, inbox>>
        /\ seq' = seq /\ queue' = queue
    BY <1>5 DEF SendFails
  <2>2. Loop(seq', queue', TRUE, tries + 1) /\ seq' + Len(queue') = accepted
    BY <1>0, <2>1
  <2>3. QED BY <1>0, <2>1, <2>2, LoopStream
<1>6. CASE GiveUp
  <2>1. pc' = "none" /\ UNCHANGED <<accepted, draining, inbox, net>>
    BY <1>6 DEF GiveUp, Finish
  <2>2. QED BY <2>1 DEF StreamInv, Sound, From
<1>7. CASE \E p \in net : Deliver(p)
  <2>1. PICK p \in net : Deliver(p)
    BY <1>7
  <2>2. /\ inbox' = Append(inbox, p) /\ p \in Packet
        /\ UNCHANGED <<accepted, seq, queue, draining, net, pc, pkt>>
    BY <1>0, <2>1 DEF Deliver, sinkVars, writerVars
  <2>3. /\ Len(inbox') = Len(inbox) + 1 /\ Len(inbox) \in Nat
        /\ \A i \in 1..Len(inbox) : inbox'[i] = inbox[i]
        /\ inbox'[Len(inbox) + 1] = p
    BY <1>0, <2>2, AppendProperties, LenProperties
  <2>4. ASSUME NEW i \in 1..Len(inbox') PROVE inbox'[i] \in net'
    <3>1. CASE i \in 1..Len(inbox)
      BY <2>2, <2>3, <3>1 DEF StreamInv
    <3>2. CASE i = Len(inbox) + 1
      BY <2>2, <2>3, <3>2
    <3>3. QED BY <2>3, <2>4, <3>1, <3>2
  <2>5. QED BY <2>2, <2>4 DEF StreamInv, Sound, From
<1>8. CASE Read \/ ReadGap
  <2>1. /\ inbox' = Tail(inbox) /\ inbox # <<>>
        /\ UNCHANGED <<accepted, seq, queue, draining, net, pc, pkt>>
    BY <1>8 DEF Read, ReadGap, sinkVars, writerVars
  <2>2. /\ Len(inbox') = Len(inbox) - 1 /\ Len(inbox) \in Nat
        /\ \A i \in 1..Len(inbox') : inbox'[i] = inbox[i + 1]
    BY <1>0, <2>1, HeadTailProperties, LenProperties
  <2>3. ASSUME NEW i \in 1..Len(inbox') PROVE inbox'[i] \in net'
    <3>1. i + 1 \in 1..Len(inbox)
      BY <2>2
    <3>2. QED BY <2>1, <2>2, <3>1 DEF StreamInv
  <2>4. QED BY <2>1, <2>3 DEF StreamInv, Sound, From
<1>9. CASE SinkSeesClose \/ ReaderSeesClose \/ Copy \/ CopyFails \/ Copied
  BY <1>9, <1>f DEF SinkSeesClose, ReaderSeesClose, Copy, CopyFails, Copied,
                    sinkVars, writerVars, streamVars
<1>10. CASE CopiedLast \/ StreamEnds \/ Take \/ SessionCloses \/ UNCHANGED vars
  BY <1>10, <1>f DEF CopiedLast, StreamEnds, Take, SessionCloses, vars,
                     sinkVars, writerVars, streamVars
<1>11. QED
  BY <1>1, <1>2, <1>3, <1>4, <1>5, <1>6, <1>7, <1>8, <1>9, <1>10 DEF Next, Writer, Reader

-----------------------------------------------------------------------------
(* The writer. *)

\* A loop that is left leaves nothing in an open sink.
LEMMA LoopStranded ==
  ASSUME NEW s, NEW q, NEW failed, NEW n, Loop(s, q, failed, n),
         q # <<>>, sinkOpen'
  PROVE  pc' # "none"
BY DEF Loop, Finish

LEMMA StrandedStep == TypeOK /\ StreamInv /\ NoStranded /\ [Next]_vars => NoStranded'
<1> SUFFICES ASSUME TypeOK, StreamInv, NoStranded, [Next]_vars, queue' # <<>>, sinkOpen'
             PROVE  pc' # "none"
  BY DEF NoStranded
<1>1. CASE WriteMessage \/ Close
  BY <1>1 DEF WriteMessage, Close, StartWriter, writerVars
<1>2. CASE Begin \/ SendFails
  BY <1>2, LoopStranded DEF Begin, SendFails
<1>3. CASE SendReturns
  <2>1. CASE pkt.close
    <3>1. draining /\ Finish(FALSE)
      BY <1>3, <2>1 DEF SendReturns, StreamInv, Sound
    <3>2. QED BY <3>1 DEF Finish
  <2>2. CASE ~pkt.close
    BY <1>3, <2>2, LoopStranded DEF SendReturns
  <2>3. QED BY <2>1, <2>2
<1>4. CASE GiveUp
  BY <1>4 DEF GiveUp
<1>5. CASE SinkSeesClose
  BY <1>5 DEF SinkSeesClose
<1>6. CASE (\E p \in net : Deliver(p)) \/ ReaderSeesClose \/ Reader \/ Take \/ SessionCloses
           \/ UNCHANGED vars
  <2>1. UNCHANGED <<queue, sinkOpen, pc>>
    BY <1>6 DEF Deliver, ReaderSeesClose, Reader, Read, ReadGap, Copy, CopyFails, Copied,
                CopiedLast, StreamEnds, Take, SessionCloses, vars, sinkVars, writerVars
  <2>2. QED BY <2>1 DEF NoStranded
<1>7. QED BY <1>1, <1>2, <1>3, <1>4, <1>5, <1>6 DEF Next, Writer

-----------------------------------------------------------------------------
(* The reader. *)

\* What Read leaves of a sound packet is the next messages to hand over, and
\* all that is left if the packet asks for the end.
LEMMA UnseenRun ==
  ASSUME TypeOK, NEW p \in Packet, Sound(p), p.seq <= rseq, rseq <= accepted
  PROVE  /\ From(Unseen(p), rseq)
         /\ rseq + Len(Unseen(p)) <= accepted
         /\ p.close => draining /\ rseq + Len(Unseen(p)) = accepted
<1>1. /\ p.seq \in Nat /\ rseq \in Nat /\ accepted \in Nat
      /\ p.msgs \in Seq(Message) /\ Len(p.msgs) \in Nat
  BY LenProperties DEF TypeOK, Packet
<1>2. /\ p.seq + Len(p.msgs) <= accepted
      /\ From(p.msgs, p.seq)
      /\ p.close => draining /\ p.seq + Len(p.msgs) = accepted
  BY DEF Sound
<1>3. CASE rseq - p.seq >= Len(p.msgs)
  <2>1. From(Unseen(p), rseq) /\ Len(Unseen(p)) = 0
    BY <1>3, FromEmpty DEF Unseen
  <2>2. p.close => rseq + Len(Unseen(p)) = accepted
    <3>1. \A a, b, c, d \in Nat : a <= d /\ b + c = d /\ a - b >= c => a + 0 = d
      OBVIOUS
    <3>2. QED BY <1>1, <1>2, <1>3, <2>1, <3>1
  <2>3. QED BY <1>1, <1>2, <2>1, <2>2
<1>4. CASE ~(rseq - p.seq >= Len(p.msgs))
  <2> DEFINE n == rseq - p.seq
  <2>1. n \in 0..Len(p.msgs) /\ p.seq + n = rseq /\ n \in Nat
    BY <1>1, <1>4
  <2>2. Unseen(p) = SubSeq(p.msgs, n + 1, Len(p.msgs))
    BY <1>4 DEF Unseen
  <2> HIDE DEF n
  <2>3. Len(Unseen(p)) = Len(p.msgs) - n /\ From(Unseen(p), rseq)
    BY <1>1, <1>2, <2>1, <2>2, FromSub
  <2>4. rseq + Len(Unseen(p)) = p.seq + Len(p.msgs)
    <3>1. (p.seq + n) + (Len(p.msgs) - n) = p.seq + Len(p.msgs)
      <4>1. p.seq \in Nat /\ n \in Nat /\ Len(p.msgs) \in Nat
        BY <1>1, <2>1
      <4>2. QED BY <4>1, Exchange
    <3>2. QED BY <2>1, <2>3, <3>1, Zenon
  <2>5. QED BY <1>2, <2>3, <2>4
<1>5. QED BY <1>3, <1>4

LEMMA ReaderStep ==
  TypeOK /\ TypeOK' /\ StreamInv /\ ReaderInv /\ [Next]_vars => ReaderInv'
<1> SUFFICES ASSUME TypeOK, TypeOK', StreamInv, ReaderInv, [Next]_vars PROVE ReaderInv'
  OBVIOUS
<1>0. /\ accepted \in Nat /\ rseq \in Nat
      /\ received \in Seq(Message) /\ chan \in Seq(Message) /\ res \in Seq(Message)
      /\ Len(received) \in Nat /\ Len(chan) \in Nat /\ Len(res) \in Nat
      /\ Len(received) + Len(chan) \in Nat
  BY LenProperties DEF TypeOK
<1>i. /\ Len(received) + Len(chan) + Len(res) = rseq
      /\ rseq <= accepted
      /\ From(received, 0)
      /\ From(chan, Len(received))
      /\ From(res, Len(received) + Len(chan))
      /\ rpc \in {"wait", "closed"} => res = <<>>
      /\ (rpc = "closed" \/ (rpc = "copy" /\ rclose)) => draining /\ rseq = accepted
  BY DEF ReaderInv
<1>f. ASSUME UNCHANGED <<accepted, rseq, received, chan, res, rpc, rclose>>,
             draining => draining'
      PROVE  ReaderInv'
  BY <1>f, <1>i, Zenon DEF ReaderInv, From
<1>1. CASE WriteMessage
  <2>1. /\ accepted' = accepted + 1 /\ ~draining
        /\ UNCHANGED <<rseq, received, chan, res, rpc, rclose>>
    BY <1>1 DEF WriteMessage, readerVars, chanVars
  <2>2. rseq <= accepted'
    BY <1>0, <1>i, <2>1
  <2>3. ~(rpc = "closed" \/ (rpc = "copy" /\ rclose))
    BY <1>i, <2>1, Zenon
  <2>4. QED BY <1>i, <2>1, <2>2, <2>3, Zenon DEF ReaderInv, From
<1>2. CASE Close
  BY <1>2, <1>f DEF Close, readerVars, chanVars
<1>3. CASE Writer \/ (\E p \in net : Deliver(p)) \/ SinkSeesClose \/ ReaderSeesClose
           \/ SessionCloses \/ UNCHANGED vars
  <2>1. Writer => UNCHANGED <<accepted, draining, rseq, received, chan, res, rpc, rclose>>
    BY DEF Writer, Begin, SendReturns, SendFails, GiveUp, readerVars, chanVars
  <2>2. (\E p \in net : Deliver(p)) \/ SinkSeesClose \/ ReaderSeesClose
          => UNCHANGED <<accepted, draining, rseq, received, chan, res, rpc, rclose>>
    BY DEF Deliver, SinkSeesClose, ReaderSeesClose, sinkVars, readerVars, chanVars
  <2>3. SessionCloses \/ UNCHANGED vars
          => UNCHANGED <<accepted, draining, rseq, received, chan, res, rpc, rclose>>
    BY DEF SessionCloses, vars, sinkVars, readerVars, chanVars
  <2>4. QED BY <1>3, <1>f, <2>1, <2>2, <2>3
<1>4. CASE Read
  <2> DEFINE p == Head(inbox)
  <2>1. /\ p.seq <= rseq /\ res' = Unseen(p) /\ rseq' = rseq + Len(res') /\ rclose' = p.close
        /\ rpc = "wait" /\ rpc' = "copy" /\ inbox # <<>>
        /\ UNCHANGED <<accepted, draining, received, chan>>
    BY <1>4 DEF Read, sinkVars, chanVars
  <2>2. p \in Packet /\ p \in net
    <3>1. inbox \in Seq(Packet) /\ Len(inbox) \in Nat \ {0}
      BY <2>1, EmptySeq, LenProperties DEF TypeOK
    <3>2. p = inbox[1] /\ 1 \in 1..Len(inbox)
      BY <3>1
    <3>3. QED BY <3>2 DEF StreamInv, TypeOK
  <2>3. Sound(p)
    BY <2>2 DEF StreamInv
  <2> HIDE DEF p
  <2>4. /\ From(res', rseq) /\ rseq' <= accepted
        /\ rclose' => draining /\ rseq' = accepted
    BY <1>i, <2>1, <2>2, <2>3, UnseenRun
  <2>5. Len(received) + Len(chan) = rseq
    BY <1>0, <1>i, <2>1, EmptySeq
  <2>6. Len(received) + Len(chan) + Len(res') = rseq'
    BY <2>1, <2>5
  <2>7. QED BY <1>i, <2>1, <2>4, <2>5, <2>6 DEF ReaderInv, From
<1>5. CASE ReadGap \/ CopyFails \/ StreamEnds
  <2>1. rpc' = "failed" /\ UNCHANGED <<accepted, draining, rseq, received, chan, res>>
    BY <1>5 DEF ReadGap, CopyFails, StreamEnds, End, sinkVars
  <2>2. QED BY <1>i, <2>1 DEF ReaderInv, From
<1>6. CASE Copy
  <2>1. /\ chan' = Append(chan, Head(res)) /\ res' = Tail(res) /\ res # <<>> /\ rpc = "copy"
        /\ UNCHANGED <<accepted, draining, rseq, received, rpc, rclose>>
    BY <1>6 DEF Copy, sinkVars
  <2>2. /\ Head(res) \in Message /\ Head(res) = Len(received) + Len(chan) + 1
        /\ Len(res') = Len(res) - 1
        /\ From(res', Len(received) + Len(chan) + 1)
    BY <1>0, <1>i, <2>1, FromTail
  <2>3. Len(chan') = Len(chan) + 1 /\ From(chan', Len(received))
    BY <1>0, <1>i, <2>1, <2>2, FromAppend
  <2>4. Len(received) + Len(chan') = Len(received) + Len(chan) + 1
    BY <1>0, <2>3
  <2>5. Len(received) + Len(chan') + Len(res') = rseq
    <3>1. Len(received) + Len(chan) \in Nat /\ Len(res) \in Nat
      BY <1>0
    <3>2. (Len(received) + Len(chan) + 1) + (Len(res) - 1) = Len(received) + Len(chan) + Len(res)
      BY <3>1, Exchange
    <3>3. QED BY <1>i, <2>2, <2>4, <3>2, Zenon
  <2>6. From(res', Len(received) + Len(chan'))
    BY <2>2, <2>4, Zenon
  <2>7. QED BY <1>i, <2>1, <2>3, <2>5, <2>6 DEF ReaderInv, From
<1>7. CASE Copied
  BY <1>7, <1>i DEF Copied, ReaderInv, From, sinkVars, chanVars
<1>8. CASE CopiedLast
  BY <1>8, <1>i DEF CopiedLast, End, ReaderInv, From, sinkVars
<1>9. CASE Take
  <2>1. /\ received' = Append(received, Head(chan)) /\ chan' = Tail(chan) /\ chan # <<>>
        /\ UNCHANGED <<accepted, draining, rseq, res, rpc, rclose>>
    BY <1>9 DEF Take, sinkVars, readerVars
  <2>2. /\ Head(chan) \in Message /\ Head(chan) = Len(received) + 1
        /\ Len(chan') = Len(chan) - 1
        /\ From(chan', Len(received) + 1)
    BY <1>0, <1>i, <2>1, FromTail
  <2>3. Len(received') = Len(received) + 1 /\ From(received', 0)
    BY <1>0, <1>i, <2>1, <2>2, FromAppend
  <2>4. Len(received') + Len(chan') = Len(received) + Len(chan)
    <3>1. Len(received) \in Nat /\ Len(chan) \in Nat
      BY <1>0
    <3>2. (Len(received) + 1) + (Len(chan) - 1) = Len(received) + Len(chan)
      BY <3>1, Exchange
    <3>3. QED BY <2>2, <2>3, <3>2, Zenon
  <2>5. From(chan', Len(received'))
    BY <2>2, <2>3, Zenon
  <2>6. From(res', Len(received') + Len(chan'))
    BY <1>i, <2>1, <2>4, Zenon
  <2>7. Len(received') + Len(chan') + Len(res') = rseq'
    BY <1>i, <2>1, <2>4, Zenon
  <2>8. QED BY <1>i, <2>1, <2>3, <2>5, <2>6, <2>7 DEF ReaderInv, From
<1>10. QED
  BY <1>1, <1>2, <1>3, <1>4, <1>5, <1>6, <1>7, <1>8, <1>9 DEF Next, Reader

-----------------------------------------------------------------------------
(* The invariant. *)

LEMMA InitIInv == Init => IInv
<1> SUFFICES ASSUME Init PROVE IInv
  OBVIOUS
<1>1. \A k : From(<<>>, k) /\ Len(<<>>) = 0
  BY FromEmpty
<1>2. SinkInv
  BY <1>1 DEF Init, SinkInv
<1>3. StreamInv
  BY <1>1 DEF Init, StreamInv
<1>4. ReaderInv
  BY <1>1 DEF Init, ReaderInv
<1>5. NoStranded
  BY DEF Init, NoStranded
<1>6. QED BY <1>2, <1>3, <1>4, <1>5, InitType DEF IInv

LEMMA NextIInv == IInv /\ [Next]_vars => IInv'
BY TypeStep, SinkStep, StreamStep, ReaderStep, StrandedStep DEF IInv

\* The inductive invariant holds in every state: the sequence number is the
\* position of the queue, every packet ever sent is a run of what was
\* accepted, and rseq is the position of the reader (signal.go:233-252,
\* 310-363).
THEOREM Invariance == Spec => []IInv
<1>1. QED BY InitIInv, NextIInv, PTL DEF Spec

\* Every variable has its type, and neither the channel nor the receive
\* buffer exceeds its capacity (messagechannel.go:56-71).
THEOREM TypeCorrect == Spec => []TypeOK
<1>1. IInv => TypeOK
  BY DEF IInv
<1>2. QED BY <1>1, Invariance, PTL

\* No message waits in the queue of an open stream without a writer
\* (signal.go:355-362, 375-379).
THEOREM NeverStranded == Spec => []NoStranded
<1>1. IInv => NoStranded
  BY DEF IInv
<1>2. QED BY <1>1, Invariance, PTL

-----------------------------------------------------------------------------
(* What the session is handed. *)

LEMMA HandedOver ==
  ASSUME TypeOK, ReaderInv
  PROVE  /\ handedOver \in Seq(Message)
         /\ Len(handedOver) \in Nat
         /\ Len(handedOver) = Len(received) + Len(chan)
         /\ Len(handedOver) + Len(res) = rseq
         /\ From(handedOver, 0)
<1>1. /\ received \in Seq(Message) /\ chan \in Seq(Message)
      /\ Len(received) \in Nat /\ Len(chan) \in Nat
  BY LenProperties DEF TypeOK
<1>2. /\ handedOver \in Seq(Message)
      /\ Len(handedOver) = Len(received) + Len(chan)
      /\ \A i \in 1..Len(received) + Len(chan) :
            handedOver[i] = IF i <= Len(received) THEN received[i]
                                                 ELSE chan[i - Len(received)]
  BY <1>1, ConcatProperties DEF handedOver
<1>3. From(received, 0) /\ From(chan, Len(received)) /\ Len(received) + Len(chan) + Len(res) = rseq
  BY DEF ReaderInv
<1>4. ASSUME NEW i \in 1..Len(handedOver) PROVE handedOver[i] = 0 + i
  <2>0. i \in 1..Len(received) + Len(chan) /\ i \in Nat
    BY <1>1, <1>2
  <2>1. CASE i <= Len(received)
    <3>1. handedOver[i] = received[i]
      BY <1>2, <2>0, <2>1
    <3>2. i \in 1..Len(received)
      BY <1>1, <2>0, <2>1
    <3>3. QED BY <1>3, <3>1, <3>2 DEF From
  <2>2. CASE ~(i <= Len(received))
    <3>1. handedOver[i] = chan[i - Len(received)]
      BY <1>2, <2>0, <2>2
    <3>2. i - Len(received) \in 1..Len(chan) /\ Len(received) + (i - Len(received)) = 0 + i
      BY <1>1, <2>0, <2>2
    <3>3. chan[i - Len(received)] = Len(received) + (i - Len(received))
      BY <1>3, <3>2 DEF From
    <3>4. QED BY <3>1, <3>2, <3>3
  <2>3. QED BY <2>1, <2>2
<1>5. From(handedOver, 0)
  BY <1>4 DEF From
<1>6. Len(handedOver) \in Nat
  BY <1>1, <1>2
<1>7. QED BY <1>2, <1>3, <1>5, <1>6

LEMMA InvInOrder == IInv => InOrder
<1> SUFFICES ASSUME IInv PROVE InOrder
  OBVIOUS
<1>1. Len(handedOver) \in Nat /\ Len(handedOver) + Len(res) = rseq /\ From(handedOver, 0)
  BY HandedOver DEF IInv
<1>2. Len(res) \in Nat /\ accepted \in Nat /\ rseq <= accepted
  BY LenProperties DEF IInv, TypeOK, ReaderInv
<1>3. QED BY <1>1, <1>2 DEF InOrder

\* The session gets the first messages that were accepted, in order, each
\* once, whatever the stream loses, repeats or reorders
\* (signal.go:233-252, 310-363).
THEOREM Ordered == Spec => []InOrder
<1>1. QED BY InvInOrder, Invariance, PTL

LEMMA InvCloseDelivers == IInv => CloseDeliversAll
<1> SUFFICES ASSUME IInv, rpc = "closed" PROVE Len(handedOver) = accepted
  BY DEF CloseDeliversAll
<1>1. Len(handedOver) \in Nat /\ Len(handedOver) + Len(res) = rseq
  BY HandedOver DEF IInv
<1>2. res = <<>> /\ rseq = accepted
  BY DEF IInv, ReaderInv
<1>3. Len(res) = 0
  BY <1>2, EmptySeq
<1>4. QED BY <1>1, <1>2, <1>3

\* A connection that ends by a close has delivered everything
\* (signal.go:203-222, 291-303).
THEOREM CloseComplete == Spec => []CloseDeliversAll
<1>1. QED BY InvCloseDelivers, Invariance, PTL

-----------------------------------------------------------------------------
(* The relay implements OrderedDelivery. *)

\* Two runs from the same number that are equally long are equal.
LEMMA RunsEqual ==
  ASSUME NEW k, NEW s \in Seq(Message), NEW t \in Seq(Message),
         Len(s) = Len(t), From(s, k), From(t, k)
  PROVE  s = t
<1>1. \A i \in 1..Len(s) : s[i] = t[i]
  BY DEF From
<1>2. QED BY <1>1, SeqEqual

\* What the lemmas above say of a state, they say of the next one.
handedOverRun ==
    /\ handedOver \in Seq(Message)
    /\ Len(handedOver) \in Nat
    /\ Len(handedOver) = Len(received) + Len(chan)
    /\ Len(handedOver) + Len(res) = rseq
    /\ From(handedOver, 0)

LEMMA RunNow == IInv => handedOverRun
BY HandedOver DEF IInv, handedOverRun

LEMMA RunNext == IInv' => handedOverRun'
BY RunNow, PTL

LEMMA CloseDeliversNext == IInv' => CloseDeliversAll'
BY InvCloseDelivers, PTL

LEMMA RefineInit == Init => Promise!Init
<1> SUFFICES ASSUME Init PROVE Promise!Init
  OBVIOUS
<1>1. handedOver = <<>>
  BY EmptySeq, ConcatEmptySeq DEF Init, handedOver
<1>2. ended = "no"
  BY DEF Init, ended
<1>3. QED BY <1>1, <1>2 DEF Init, Promise!Init

promised == <<accepted, draining, handedOver, ended>>

LEMMA RefineNext == IInv /\ IInv' /\ [Next]_vars => Promise!Next \/ UNCHANGED promised
<1> SUFFICES ASSUME IInv, IInv', [Next]_vars PROVE Promise!Next \/ UNCHANGED promised
  OBVIOUS
<1>h. ASSUME UNCHANGED <<chan, received>> PROVE handedOver' = handedOver
  BY <1>h DEF handedOver
<1>e. ASSUME UNCHANGED rpc PROVE ended' = ended
  BY <1>e DEF ended
<1>b. ASSUME rpc \in {"wait", "copy"}, rpc' = "failed",
             UNCHANGED <<accepted, draining, chan, received>>
      PROVE  Promise!Break
  <2>1. ended = "no" /\ ended' = "broken"
    BY <1>b DEF ended
  <2>2. QED BY <1>b, <1>h, <2>1 DEF Promise!Break
<1>1. CASE WriteMessage
  <2>1. /\ accepted < MaxMsgs /\ ~draining /\ accepted' = accepted + 1
        /\ UNCHANGED <<draining, chan, received, rpc>>
    BY <1>1 DEF WriteMessage, readerVars, chanVars
  <2>2. Promise!Send
    BY <2>1, <1>h, <1>e DEF Promise!Send
  <2>3. QED BY <2>2 DEF Promise!Next
<1>2. CASE Close
  <2>1. draining' = TRUE /\ UNCHANGED <<accepted, chan, received, rpc>>
    BY <1>2 DEF Close, readerVars, chanVars
  <2>2. Promise!Close
    BY <2>1, <1>h, <1>e DEF Promise!Close
  <2>3. QED BY <2>2 DEF Promise!Next
<1>3. CASE Writer \/ (\E p \in net : Deliver(p)) \/ SinkSeesClose \/ ReaderSeesClose
           \/ SessionCloses \/ UNCHANGED vars
  <2>1. Writer => UNCHANGED <<accepted, draining, chan, received, rpc>>
    BY DEF Writer, Begin, SendReturns, SendFails, GiveUp, readerVars, chanVars
  <2>2. (\E p \in net : Deliver(p)) \/ SinkSeesClose \/ ReaderSeesClose
          => UNCHANGED <<accepted, draining, chan, received, rpc>>
    BY DEF Deliver, SinkSeesClose, ReaderSeesClose, sinkVars, readerVars, chanVars
  <2>3. SessionCloses \/ UNCHANGED vars => UNCHANGED <<accepted, draining, chan, received, rpc>>
    BY DEF SessionCloses, vars, sinkVars, readerVars, chanVars
  <2>4. QED BY <1>3, <1>h, <1>e, <2>1, <2>2, <2>3 DEF promised
<1>4. CASE Read \/ Copied
  <2>1. /\ rpc \in {"wait", "copy"} /\ rpc' \in {"wait", "copy"}
        /\ UNCHANGED <<accepted, draining, chan, received>>
    BY <1>4 DEF Read, Copied, sinkVars, chanVars
  <2>2. ended' = ended
    BY <2>1 DEF ended
  <2>3. QED BY <1>h, <2>1, <2>2 DEF promised
<1>5. CASE ReadGap \/ CopyFails \/ StreamEnds
  <2>1. /\ rpc \in {"wait", "copy"} /\ rpc' = "failed"
        /\ UNCHANGED <<accepted, draining, chan, received>>
    BY <1>5 DEF ReadGap, CopyFails, StreamEnds, End, sinkVars
  <2>2. QED BY <1>b, <2>1 DEF Promise!Next
<1>6. CASE Copy
  <2>1. /\ chan' = Append(chan, Head(res)) /\ res # <<>> /\ rpc = "copy"
        /\ UNCHANGED <<accepted, draining, rseq, received, rpc>>
    BY <1>6 DEF Copy, sinkVars
  <2>2. /\ handedOver \in Seq(Message) /\ Len(handedOver) \in Nat
        /\ Len(handedOver) = Len(received) + Len(chan)
        /\ Len(handedOver) + Len(res) = rseq
        /\ From(handedOver, 0)
    BY HandedOver DEF IInv
  <2>3. /\ handedOver' \in Seq(Message)
        /\ Len(handedOver') = Len(received') + Len(chan')
        /\ From(handedOver', 0)
    BY RunNext DEF handedOverRun, From
  <2>4. Len(chan') = Len(chan) + 1
    <3>1. Head(res) \in Message
      BY <2>1, HeadTailProperties DEF IInv, TypeOK
    <3>2. QED BY <2>1, <3>1, AppendProperties DEF IInv, TypeOK
  <2>5. Len(handedOver') = Len(handedOver) + 1
    <3>1. Len(received) \in Nat /\ Len(chan) \in Nat
      BY LenProperties DEF IInv, TypeOK
    <3>2. QED BY <2>1, <2>2, <2>3, <2>4, <3>1
  <2>6. Len(handedOver) < accepted /\ Len(handedOver) + 1 \in Message
    <3>1. Len(res) \in Nat \ {0} /\ accepted \in 0..MaxMsgs /\ rseq <= accepted
      BY <2>1, EmptySeq, LenProperties DEF IInv, TypeOK, ReaderInv
    <3>2. QED BY <2>2, <3>1 DEF Message
  <2>7. /\ Append(handedOver, Len(handedOver) + 1) \in Seq(Message)
        /\ Len(Append(handedOver, Len(handedOver) + 1)) = Len(handedOver) + 1
        /\ From(Append(handedOver, Len(handedOver) + 1), 0)
    <3>1. Len(handedOver) + 1 = 0 + Len(handedOver) + 1 /\ 0 \in Nat
      BY <2>2
    <3>2. QED BY <2>2, <2>6, <3>1, FromAppend
  <2>8. handedOver' = Append(handedOver, Len(handedOver) + 1)
    BY <2>3, <2>5, <2>7, RunsEqual
  <2>9. ended = "no" /\ ended' = ended
    BY <2>1 DEF ended
  <2>10. Promise!Receive
    BY <2>1, <2>6, <2>8, <2>9, Zenon DEF Promise!Receive
  <2>11. QED BY <2>10 DEF Promise!Next
<1>7. CASE CopiedLast
  <2>1. /\ rpc = "copy" /\ rclose /\ rpc' = "closed"
        /\ UNCHANGED <<accepted, draining, chan, received>>
    BY <1>7 DEF CopiedLast, End, sinkVars
  <2>2. draining
    BY <2>1, Zenon DEF IInv, ReaderInv
  <2>3. Len(handedOver') = accepted'
    BY <2>1, CloseDeliversNext DEF CloseDeliversAll
  <2>4. ended = "no" /\ ended' = "complete"
    BY <2>1 DEF ended
  <2>5. Promise!Complete
    BY <1>h, <2>1, <2>2, <2>3, <2>4 DEF Promise!Complete
  <2>6. QED BY <2>5 DEF Promise!Next
<1>8. CASE Take
  <2>1. UNCHANGED <<accepted, draining, rpc, rseq, res>>
    BY <1>8 DEF Take, sinkVars, readerVars
  <2>2. /\ handedOver \in Seq(Message) /\ Len(handedOver) \in Nat
        /\ Len(handedOver) + Len(res) = rseq /\ From(handedOver, 0)
    BY HandedOver DEF IInv
  <2>3. /\ handedOver' \in Seq(Message) /\ Len(handedOver') \in Nat
        /\ Len(handedOver') + Len(res') = rseq' /\ From(handedOver', 0)
    BY RunNext DEF handedOverRun, From
  <2>4. Len(res) \in Nat
    BY LenProperties DEF IInv, TypeOK
  <2>5. Len(handedOver') = Len(handedOver)
    BY <2>1, <2>2, <2>3, <2>4
  <2>6. handedOver' = handedOver
    BY <2>2, <2>3, <2>5, RunsEqual
  <2>7. QED BY <1>e, <2>1, <2>6 DEF promised
<1>9. QED
  BY <1>1, <1>2, <1>3, <1>4, <1>5, <1>6, <1>7, <1>8 DEF Next, Reader

\* Every behaviour of the two sinks, the stream and the copying reader is one
\* of OrderedDelivery (signal.go:203-252, 282-381).
THEOREM Refinement == Spec => RefinesPromise
<1>1. IInv /\ IInv' /\ [Next]_vars => [Promise!Next]_<<accepted, draining, handedOver, ended>>
  BY RefineNext DEF promised
<1>2. QED BY RefineInit, Invariance, <1>1, PTL DEF Spec, RefinesPromise, Promise!Spec


=============================================================================
