---------------------------- MODULE SignalRelay ----------------------------
(***************************************************************************)
(* One direction of a signal connection between two nodes of the media     *)
(* server (apps/livekit/pkg/routing/signal.go, messagechannel.go): the     *)
(* signalMessageSink with its write() goroutine, the psrpc stream, and     *)
(* CopySignalStreamToMessageChannel, which feeds the MessageChannel the    *)
(* session reads from.                                                     *)
(*                                                                         *)
(* write() sends everything queued in one packet and sends it again, with  *)
(* what was queued meanwhile, until the stream acknowledges it or the      *)
(* retry deadline has passed.  The reader drops what it has already seen   *)
(* and fails on a gap.                                                     *)
(*                                                                         *)
(* The stream is not part of this repository.  It may lose, delay,         *)
(* duplicate and reorder packets; a Send may fail although its packet      *)
(* arrived; one end may learn that the other has closed, or not.           *)
(*                                                                         *)
(* The i-th accepted message is the number i.                              *)
(***************************************************************************)
EXTENDS Naturals, Sequences, FiniteSets

CONSTANTS
    MaxMsgs,            \* bound on the number of accepted messages
    MaxTries,           \* bound on the sends before the deadline has passed
    ChanSize,           \* capacity of the MessageChannel
    StreamBufferSize    \* capacity of the stream's receive buffer

ASSUME RelayAssumption ==
    /\ MaxMsgs \in Nat
    /\ MaxTries \in Nat
    /\ ChanSize \in Nat
    /\ StreamBufferSize \in Nat

VARIABLES
    \* signalMessageSink
    closeOnFailure, \* SignalSinkParams.CloseOnFailure, which never changes
    accepted,   \* number of messages WriteMessage has accepted (history)
    seq, queue, draining,
    sinkOpen,   \* Stream.Err() = nil at the sink
    \* write(); the flag writing is pc # "none"
    pc,         \* "none", "lock": about to lock for the first time, "send"
    pkt,        \* the packet being sent
    tries,      \* sends since the last acknowledged one
    \* the stream
    net,        \* every packet ever handed to the stream
    acks,       \* the packets whose arrival can be acknowledged
    inbox,      \* stream.Channel() at the reader
    readerOpen, \* the reader's end of the stream is open
    \* CopySignalStreamToMessageChannel
    rpc,        \* "wait", "copy", or how it ended: "closed", "failed"
    rseq,       \* signalMessageReader.seq
    res,        \* the messages of the current packet still to be copied
    rclose,     \* GetClose() of the current packet
    \* the MessageChannel and the session behind it
    chan, chanClosed,
    received    \* what the session has taken out of the channel

sinkVars == <<closeOnFailure, accepted, seq, queue, draining, sinkOpen>>
writerVars == <<pc, pkt, tries>>
streamVars == <<net, acks, inbox, readerOpen>>
readerVars == <<rpc, rseq, res, rclose>>
chanVars == <<chan, chanClosed, received>>
vars == <<sinkVars, writerVars, streamVars, readerVars, chanVars>>

NoPacket == [seq |-> 0, close |-> FALSE, msgs |-> <<>>]

Init ==
    /\ closeOnFailure \in BOOLEAN
    /\ accepted = 0 /\ seq = 0 /\ queue = <<>> /\ draining = FALSE /\ sinkOpen = TRUE
    /\ pc = "none" /\ pkt = NoPacket /\ tries = 0
    /\ net = {} /\ acks = {} /\ inbox = <<>> /\ readerOpen = TRUE
    /\ rpc = "wait" /\ rseq = 0 /\ res = <<>> /\ rclose = FALSE
    /\ chan = <<>> /\ chanClosed = FALSE /\ received = <<>>

-----------------------------------------------------------------------------
(* The callers of the sink. *)

\* go s.write(), unless it runs.
StartWriter ==
    IF pc = "none"
    THEN pc' = "lock" /\ tries' = 0 /\ UNCHANGED pkt
    ELSE UNCHANGED writerVars

\* On a closed stream or after Close the message is refused.
WriteMessage ==
    /\ accepted < MaxMsgs
    /\ sinkOpen
    /\ ~draining
    /\ accepted' = accepted + 1
    /\ queue' = Append(queue, accepted')
    /\ StartWriter
    /\ UNCHANGED <<closeOnFailure, seq, draining, sinkOpen, streamVars, readerVars, chanVars>>

\* With BlockOnClose the caller then waits for ~sinkOpen.
Close ==
    /\ draining' = TRUE
    /\ StartWriter
    /\ UNCHANGED <<closeOnFailure, accepted, seq, queue, sinkOpen, streamVars, readerVars,
                   chanVars>>

-----------------------------------------------------------------------------
(* write().  It holds s.mu except during Stream.Send. *)

\* Mutant: a drained sink does not close its stream.
FinishOpen(failed) ==
    /\ pc' = "none"
    /\ sinkOpen' = (sinkOpen /\ ~(failed /\ closeOnFailure))
    /\ UNCHANGED <<pkt, tries, net>>

\* Mutant: a failed write does not close the stream.
FinishSilent(failed) ==
    /\ pc' = "none"
    /\ sinkOpen' = (sinkOpen /\ ~draining)
    /\ UNCHANGED <<pkt, tries, net>>

\* The lines after the loop.
Finish(failed) ==
    /\ pc' = "none"
    /\ sinkOpen' = (sinkOpen /\ ~draining /\ ~(failed /\ closeOnFailure))
    /\ UNCHANGED <<pkt, tries, net>>

\* The head of the loop, with the sequence number and queue it finds: leave
\* the loop, or hand a packet to the stream.
Loop(s, q, failed, n) ==
    IF (~draining /\ q = <<>>) \/ ~sinkOpen
    THEN Finish(failed)
    ELSE /\ pkt' = [seq |-> s, close |-> draining, msgs |-> q]
         /\ net' = net \cup {pkt'}
         /\ tries' = n
         /\ pc' = "send"
         /\ UNCHANGED sinkOpen

Begin ==
    /\ pc = "lock"
    /\ Loop(seq, queue, FALSE, 0)
    /\ UNCHANGED <<closeOnFailure, accepted, seq, queue, draining, acks, inbox, readerOpen,
                   readerVars, chanVars>>

\* Mutant: the loop ends after one packet.
SendReturnsOnce ==
    /\ pc = "send"
    /\ pkt \in acks
    /\ seq' = seq + Len(pkt.msgs)
    /\ queue' = SubSeq(queue, Len(pkt.msgs) + 1, Len(queue))
    /\ Finish(FALSE)
    /\ UNCHANGED <<closeOnFailure, accepted, draining, acks, inbox, readerOpen, readerVars,
                   chanVars>>

\* Send returns nil: the n messages of the packet leave the queue.
SendReturns ==
    /\ pc = "send"
    /\ pkt \in acks
    /\ seq' = seq + Len(pkt.msgs)
    /\ queue' = SubSeq(queue, Len(pkt.msgs) + 1, Len(queue))
    /\ IF pkt.close THEN Finish(FALSE) ELSE Loop(seq', queue', FALSE, 0)
    /\ UNCHANGED <<closeOnFailure, accepted, draining, acks, inbox, readerOpen, readerVars,
                   chanVars>>

\* Send returns an error before the deadline: the loop goes round again.
SendFails ==
    /\ pc = "send"
    /\ tries < MaxTries
    /\ Loop(seq, queue, TRUE, tries + 1)
    /\ UNCHANGED <<closeOnFailure, accepted, seq, queue, draining, acks, inbox, readerOpen,
                   readerVars, chanVars>>

\* Send returns an error after the deadline: what is queued by now is thrown
\* away, the sequence number moves past it.
GiveUp ==
    /\ pc = "send"
    /\ seq' = seq + Len(queue)
    /\ queue' = <<>>
    /\ Finish(TRUE)
    /\ UNCHANGED <<closeOnFailure, accepted, draining, acks, inbox, readerOpen, readerVars,
                   chanVars>>

-----------------------------------------------------------------------------
(* The stream (external). *)

Deliver(p) ==
    /\ readerOpen
    /\ Len(inbox) < StreamBufferSize
    /\ inbox' = Append(inbox, p)
    /\ acks' = acks \cup {p}
    /\ UNCHANGED <<net, readerOpen, sinkVars, writerVars, readerVars, chanVars>>

SinkSeesClose ==
    /\ sinkOpen
    /\ ~readerOpen
    /\ sinkOpen' = FALSE
    /\ UNCHANGED <<closeOnFailure, accepted, seq, queue, draining, writerVars, streamVars,
                   readerVars, chanVars>>

ReaderSeesClose ==
    /\ ~sinkOpen
    /\ readerOpen
    /\ readerOpen' = FALSE
    /\ UNCHANGED <<net, acks, inbox, sinkVars, writerVars, readerVars, chanVars>>

-----------------------------------------------------------------------------
(* CopySignalStreamToMessageChannel; when it returns, its caller closes    *)
(* the MessageChannel.                                                     *)

End(how) ==
    /\ rpc' = how
    /\ chanClosed' = TRUE

\* Mutant: messages seen before are copied again.
UnseenAll(p) == p.msgs

\* What Read leaves of a packet that does not come too early.
Unseen(p) ==
    IF rseq - p.seq >= Len(p.msgs) THEN <<>>
    ELSE SubSeq(p.msgs, rseq - p.seq + 1, Len(p.msgs))

Read ==
    /\ rpc = "wait"
    /\ inbox # <<>>
    /\ Head(inbox).seq <= rseq
    /\ inbox' = Tail(inbox)
    /\ res' = Unseen(Head(inbox))
    /\ rseq' = rseq + Len(res')
    /\ rclose' = Head(inbox).close
    /\ rpc' = "copy"
    /\ UNCHANGED <<net, acks, readerOpen, sinkVars, writerVars, chanVars>>

\* ErrSignalMessageDropped.
ReadGap ==
    /\ rpc = "wait"
    /\ inbox # <<>>
    /\ rseq < Head(inbox).seq
    /\ inbox' = Tail(inbox)
    /\ End("failed")
    /\ UNCHANGED <<net, acks, readerOpen, rseq, res, rclose, chan, received,
                   sinkVars, writerVars>>

\* Mutant: the channel takes more than it has room for.
CopyUnbounded ==
    /\ rpc = "copy"
    /\ res # <<>>
    /\ ~chanClosed
    /\ chan' = Append(chan, Head(res))
    /\ res' = Tail(res)
    /\ UNCHANGED <<rpc, rseq, rclose, chanClosed, received, sinkVars, writerVars, streamVars>>

Copy ==
    /\ rpc = "copy"
    /\ res # <<>>
    /\ ~chanClosed
    /\ Len(chan) < ChanSize
    /\ chan' = Append(chan, Head(res))
    /\ res' = Tail(res)
    /\ UNCHANGED <<rpc, rseq, rclose, chanClosed, received, sinkVars, writerVars, streamVars>>

\* ErrChannelClosed or ErrChannelFull.
CopyFails ==
    /\ rpc = "copy"
    /\ res # <<>>
    /\ chanClosed \/ Len(chan) >= ChanSize
    /\ End("failed")
    /\ UNCHANGED <<rseq, res, rclose, chan, received, sinkVars, writerVars, streamVars>>

\* Everything is copied: on to the next packet.
Copied ==
    /\ rpc = "copy"
    /\ res = <<>>
    /\ ~rclose
    /\ rpc' = "wait"
    /\ UNCHANGED <<rseq, res, rclose, sinkVars, writerVars, streamVars, chanVars>>

\* Mutant: a packet that asks for the end is not copied to its end.
CopiedLastEarly ==
    /\ rpc = "copy"
    /\ rclose
    /\ End("closed")
    /\ readerOpen' = FALSE
    /\ UNCHANGED <<net, acks, inbox, rseq, res, rclose, chan, received,
                   sinkVars, writerVars>>

\* Everything is copied and the packet asks for the end: stream.Close(nil).
CopiedLast ==
    /\ rpc = "copy"
    /\ res = <<>>
    /\ rclose
    /\ End("closed")
    /\ readerOpen' = FALSE
    /\ UNCHANGED <<net, acks, inbox, rseq, res, rclose, chan, received,
                   sinkVars, writerVars>>

\* The closed stream has run dry.
StreamEnds ==
    /\ rpc = "wait"
    /\ inbox = <<>>
    /\ ~readerOpen
    /\ End("failed")
    /\ UNCHANGED <<rseq, res, rclose, chan, received, sinkVars, writerVars, streamVars>>

-----------------------------------------------------------------------------
(* The session that reads the MessageChannel. *)

Take ==
    /\ chan # <<>>
    /\ received' = Append(received, Head(chan))
    /\ chan' = Tail(chan)
    /\ UNCHANGED <<chanClosed, sinkVars, writerVars, streamVars, readerVars>>

SessionCloses ==
    /\ ~chanClosed
    /\ chanClosed' = TRUE
    /\ UNCHANGED <<chan, received, sinkVars, writerVars, streamVars, readerVars>>

-----------------------------------------------------------------------------

Writer == Begin \/ SendReturns \/ SendFails \/ GiveUp
Reader == Read \/ ReadGap \/ Copy \/ CopyFails \/ Copied \/ CopiedLast \/ StreamEnds

Next ==
    \/ WriteMessage \/ Close
    \/ Writer
    \/ (\E p \in net : Deliver(p)) \/ SinkSeesClose \/ ReaderSeesClose
    \/ Reader
    \/ Take \/ SessionCloses

Spec == Init /\ [][Next]_vars

\* The Go scheduler runs both goroutines, and a Send returns: at the latest
\* its timeout makes it.  Nothing is assumed of the network or the callers.
FairSpec == Spec /\ WF_vars(Writer) /\ WF_vars(Reader)

-----------------------------------------------------------------------------
Message == 1..MaxMsgs
Packet == [seq : Nat, close : BOOLEAN, msgs : Seq(Message)]

\* The channel and the receive buffer never hold more than their capacity.
TypeOK ==
    /\ closeOnFailure \in BOOLEAN
    /\ accepted \in 0..MaxMsgs
    /\ seq \in Nat
    /\ queue \in Seq(Message)
    /\ draining \in BOOLEAN /\ sinkOpen \in BOOLEAN
    /\ pc \in {"none", "lock", "send"}
    /\ pkt \in Packet
    /\ tries \in 0..MaxTries
    /\ net \subseteq Packet /\ acks \subseteq net
    /\ inbox \in Seq(Packet) /\ Len(inbox) <= StreamBufferSize
    /\ readerOpen \in BOOLEAN
    /\ rpc \in {"wait", "copy", "closed", "failed"}
    /\ rseq \in Nat
    /\ res \in Seq(Message)
    /\ rclose \in BOOLEAN
    /\ chan \in Seq(Message) /\ Len(chan) <= ChanSize
    /\ chanClosed \in BOOLEAN
    /\ received \in Seq(Message)

handedOver == received \o chan

\* The elements of s are k + 1, k + 2, ...
From(s, k) == \A i \in 1..Len(s) : s[i] = k + i

\* Through retries, lost acknowledgements, late and repeated packets, packets
\* given up and a full channel, the session gets exactly the first messages
\* that were accepted: nothing twice, nothing out of order, no gap
\* (signal.go:233-252, 310-363).
InOrder == Len(handedOver) <= accepted /\ From(handedOver, 0)

\* When the reader ends on a close, nothing that was ever accepted is missing:
\* the close waits for the queue to drain (signal.go:291-303).
CloseDeliversAll == rpc = "closed" => Len(handedOver) = accepted

\* A message never waits in the queue of an open stream without a writer
\* (signal.go:375-379 against :355-362).
NoStranded == (queue # <<>> /\ sinkOpen) => pc # "none"

-----------------------------------------------------------------------------
(* The invariant that explains InOrder and CloseDeliversAll. *)

\* What is not yet known to have been sent is the end of what was accepted.
SinkInv ==
    /\ seq + Len(queue) = accepted
    /\ From(queue, seq)

\* A packet holds the messages its sequence number announces, and one that
\* asks for the end holds the last ones.
Sound(p) ==
    /\ p.seq + Len(p.msgs) <= accepted
    /\ From(p.msgs, p.seq)
    /\ p.close => draining /\ p.seq + Len(p.msgs) = accepted

StreamInv ==
    /\ \A p \in net : Sound(p)
    /\ \A i \in 1..Len(inbox) : inbox[i] \in net
    /\ pc = "send" => /\ pkt \in net
                      /\ pkt.seq = seq
                      /\ Len(pkt.msgs) <= Len(queue)

\* rseq counts what was handed over and what is still being copied.
ReaderInv ==
    /\ Len(received) + Len(chan) + Len(res) = rseq
    /\ rseq <= accepted
    /\ From(received, 0)
    /\ From(chan, Len(received))
    /\ From(res, Len(received) + Len(chan))
    /\ rpc \in {"wait", "closed"} => res = <<>>
    /\ (rpc = "closed" \/ (rpc = "copy" /\ rclose)) => draining /\ rseq = accepted

\* Whatever the stream does with its packets, the four counters of the relay
\* (seq, the sequence numbers of the packets in flight, rseq, what the session
\* was handed) describe one and the same run of messages
\* (signal.go:233-252, 310-363).
IInv == TypeOK /\ SinkInv /\ StreamInv /\ ReaderInv /\ NoStranded

-----------------------------------------------------------------------------
\* Close() always gets its stream closed, whatever the network does, so that
\* a caller that blocks on it is released (signal.go:282-304).
CloseReturns == draining ~> ~sinkOpen

\* The i-th accepted message is in a packet that has arrived.
Arrived(i) == \E p \in acks : \E k \in 1..Len(p.msgs) : p.msgs[k] = i

\* With CloseOnFailure an accepted message arrives in the receive buffer of the
\* other end, or the sender can see that the stream is closed: through retries,
\* a deadline that passes and a queue that is thrown away, none disappears from
\* a stream that stays open (signal.go:328-372).  What the other end does
\* with a message that has arrived is not acknowledged to the sender.
ArrivesOrBroken ==
    \A i \in Message : (closeOnFailure /\ accepted >= i) ~> (Arrived(i) \/ ~sinkOpen)

ended == CASE rpc = "closed" -> "complete"
           [] rpc = "failed" -> "broken"
           [] OTHER -> "no"

Promise ==
    INSTANCE OrderedDelivery WITH
        sent <- accepted,
        closing <- draining,
        got <- handedOver,
        end <- ended

\* The relay is an ordered delivery with an honest end: each step of it is a
\* step of OrderedDelivery or none (signal.go:233-252, 282-381, 203-222).
RefinesPromise == Promise!Spec

=============================================================================
