----------------------------- MODULE RTPMunger -----------------------------
(***************************************************************************)
(* The sequence numbers of one down track: RTPMunger                       *)
(* (apps/livekit/pkg/sfu/rtpmunger.go) as Forwarder uses it                *)
(* (apps/livekit/pkg/sfu/forwarder.go), under the lock of the forwarder.   *)
(*                                                                         *)
(* Packets of several sources come in any order, more than once or never;  *)
(* some are dropped on the way, padding is put in between, and the source  *)
(* changes.  The subscriber must see one stream of numbers with holes only *)
(* where a packet is still missing.                                        *)
(*                                                                         *)
(* line is a history variable: it says who owns each number from first on, *)
(* and is kept without any offset.  A missing packet owns the number that  *)
(* the gap left for it.  out is what the last step wrote.                  *)
(*                                                                         *)
(* Timestamps, the retransmission gate, and the header of the codec are    *)
(* left out; the codec and the layer selector choose freely what to drop.  *)
(* The first packet of all has a payload: the forwarder starts with one    *)
(* that is in order, and the buffer drops those without (buffer.go:653).   *)
(***************************************************************************)
EXTENDS RangeMap

CONSTANTS
    Sources,        \* SSRCs the forwarder may follow
    MaxSN,          \* bound on incoming sequence numbers
    MaxLine,        \* bound on outgoing packets
    MaxEpochs,      \* bound on changes of source
    MaxPadding,     \* bound on the packets of one padding request
    DummySN         \* the number a stream without media starts from

ASSUME MungerAssumption ==
    /\ MaxSN \in Nat /\ MaxLine \in Nat /\ MaxEpochs \in Nat /\ MaxPadding \in Nat
    /\ DummySN \in Nat \ {0}

NoSource == "none"
ASSUME SourceAssumption == NoSource \notin Sources

VARIABLES
    started,    \* Forwarder.started
    source,     \* Forwarder.lastSSRC
    m,          \* the munger
    epoch,      \* number of changes of source
    first, line,
    out

vars == <<started, source, m, epoch, first, line, out>>

SNs == 1..MaxSN
Nothing == [number |-> 0, owner |-> <<0, 0>>]
Padding == <<0, 0>>
Lost == <<0, 1>>
Packet(e, sn) == <<e, sn>>

Init ==
    /\ started = FALSE
    /\ source = NoSource
    /\ m = [highest |-> 0, last |-> 0, second |-> 0, offset |-> 0, marker |-> FALSE,
            secondMarker |-> FALSE, ranges |-> ClearAndResetValue(0, 0)]
    /\ epoch = 0
    /\ first = 1
    /\ line = <<>>
    /\ out = Nothing

-----------------------------------------------------------------------------
(* RTPMunger. *)

updateSnOffset(r) == [r EXCEPT !.offset = GetValue(r.ranges, r.highest + 1)]

SetLastSnTs(r, sn) ==
    updateSnOffset([r EXCEPT !.highest = sn - 1, !.last = sn, !.second = sn - 1,
                             !.ranges = ClearAndResetValue(sn, 0)])

UpdateSnTsOffsets(r, sn) ==
    updateSnOffset([r EXCEPT !.highest = sn - 1,
                             !.ranges = ClearAndResetValue(sn, sn - r.last - 1)])

\* UpdateAndGetSnTs of a packet that is ahead of all others.
Advance(r, sn, marker) ==
    [r EXCEPT !.highest = sn, !.second = r.last, !.last = sn - r.offset,
              !.secondMarker = r.marker, !.marker = marker]

\* UpdateAndGetSnTs of the next packet, when it has no payload.
SkipEmpty(r, sn) ==
    updateSnOffset([r EXCEPT !.highest = sn, !.ranges = ExcludeRange(r.ranges, sn, sn + 1)])

\* Mutant: the number is not taken back.
PacketDroppedKeepLast(r) ==
    updateSnOffset([r EXCEPT !.ranges = ExcludeRange(r.ranges, r.highest, r.highest + 1),
                             !.marker = r.secondMarker])

\* PacketDropped of the highest packet; of any other it does nothing.
PacketDropped(r) ==
    updateSnOffset([r EXCEPT !.ranges = ExcludeRange(r.ranges, r.highest, r.highest + 1),
                             !.last = r.second, !.marker = r.secondMarker])

UpdateAndGetPaddingSnTs(r, num, forceMarker) ==
    updateSnOffset([r EXCEPT !.second = r.last + num - 1, !.last = r.last + num,
                             !.ranges = DecValue(r.ranges, r.highest, num),
                             !.secondMarker = r.marker, !.marker = r.marker \/ forceMarker])

-----------------------------------------------------------------------------
(* Forwarder. *)

\* Numbers for the missing packets up to sn, and for sn.
Extended(e, from, sn) == line \o [i \in 1..(sn - from + 1) |-> Packet(e, from + i - 1)]

Write(e, sn, r) == out' = [number |-> r.last, owner |-> Packet(e, sn)]

\* A packet of source e that has got the number r.last, the packets from `from` on being
\* new.  It is written; or dropped afterwards, for its layer, for congestion or
\* by an error of the codec; or, if no packet was missing before it, dropped and
\* its number taken back.
Forward(e, r, from, sn, contiguous) ==
    \/ /\ m' = r
       /\ line' = Extended(e, from, sn)
       /\ Write(e, sn, r) \/ out' = Nothing
    \/ /\ contiguous
       /\ m' = PacketDropped(r)
       /\ UNCHANGED line
       /\ out' = Nothing

\* processSourceSwitch before anything was sent.
Start(s, sn, marker) ==
    /\ ~started
    /\ started' = TRUE
    /\ source' = s
    /\ epoch' = epoch + 1
    /\ first' = sn
    /\ LET r == Advance(SetLastSnTs(m, sn), sn, marker) IN
       /\ m' = r
       /\ line' = <<Packet(epoch + 1, sn)>>
       /\ Write(epoch + 1, sn, r) \/ out' = Nothing

\* processSourceSwitch later.
Switch(s, sn, marker) ==
    /\ started /\ source # s
    /\ epoch < MaxEpochs
    /\ source' = s
    /\ epoch' = epoch + 1
    /\ LET r == UpdateSnTsOffsets(m, sn) IN
       \/ Forward(epoch + 1, Advance(r, sn, marker), sn, sn, TRUE)
       \/ m' = SkipEmpty(r, sn) /\ out' = Nothing /\ UNCHANGED line
    /\ UNCHANGED <<started, first>>

NextPacket(sn, marker) ==
    /\ source # NoSource
    /\ sn > m.highest
    /\ \/ Forward(epoch, Advance(m, sn, marker), m.highest + 1, sn, sn = m.highest + 1)
       \/ /\ sn = m.highest + 1
          /\ m' = SkipEmpty(m, sn) /\ out' = Nothing /\ UNCHANGED line
    /\ UNCHANGED <<started, source, epoch, first>>

\* UpdateAndGetSnTs of a packet behind the highest; the codec may refuse it.
LatePacket(sn) ==
    /\ source # NoSource
    /\ sn < m.highest
    /\ \/ /\ Known(m.ranges, sn)
          /\ sn - GetValue(m.ranges, sn) < m.last
          /\ out' = [number |-> sn - GetValue(m.ranges, sn), owner |-> Packet(epoch, sn)]
       \/ out' = Nothing
    /\ UNCHANGED <<started, source, m, epoch, first, line>>

\* GetSnTsForPadding and GetSnTsForBlankFrames, with maybeStart.  A packet of
\* padding comes at the end of a frame, unless the end is forced.
Pad(num, forceMarker) ==
    LET r == IF started THEN m ELSE SetLastSnTs(m, DummySN) IN
    /\ r.marker \/ forceMarker
    /\ m' = UpdateAndGetPaddingSnTs(r, num, forceMarker)
    /\ started' = TRUE
    /\ first' = IF started THEN first ELSE DummySN + 1
    /\ line' = line \o [i \in 1..num |-> Padding]
    /\ out' = [number |-> m'.last, owner |-> Padding]
    /\ UNCHANGED <<source, epoch>>

\* The track is muted, its layers end, or its codec changes.
Resync ==
    /\ source # NoSource
    /\ source' = NoSource
    /\ out' = Nothing
    /\ UNCHANGED <<started, m, epoch, first, line>>

\* Between sources: the VP9 selector finds the first packet of a key frame
\* relevant without selecting it.  After a gap its number is not taken back.
Skim(sn, marker) ==
    /\ started /\ source = NoSource
    /\ sn > m.highest
    /\ \/ /\ sn = m.highest + 1
          /\ m' = PacketDropped(Advance(m, sn, marker))
          /\ UNCHANGED line
       \/ /\ sn > m.highest + 1
          /\ LET r == Advance(m, sn, marker) IN
             /\ m' = r
             /\ line' = line \o [i \in 1..(r.last - m.last) |-> Lost]
    /\ out' = Nothing
    /\ UNCHANGED <<started, source, epoch, first>>

Next ==
    /\ Len(line) < MaxLine
    /\ \/ \E s \in Sources, sn \in SNs, marker \in BOOLEAN :
            Start(s, sn, marker) \/ Switch(s, sn, marker)
       \/ \E sn \in SNs, marker \in BOOLEAN : NextPacket(sn, marker) \/ Skim(sn, marker)
       \/ \E sn \in SNs : LatePacket(sn)
       \/ \E num \in 1..MaxPadding, force \in BOOLEAN : Pad(num, force)
       \/ Resync

Spec == Init /\ [][Next]_vars

-----------------------------------------------------------------------------

Owner(number) == line[number - first + 1]

LineEnds ==
    started =>
        /\ m.last = first + Len(line) - 1
        /\ source # NoSource => m.highest + 1 - m.offset = m.last + 1

LateFindsNumber ==
    source # NoSource =>
        \A i \in DOMAIN line :
            LET sn == line[i][2] IN
            line[i][1] = epoch /\ sn < m.highest /\ sn >= m.ranges[1].start =>
                /\ Known(m.ranges, sn)
                /\ sn - GetValue(m.ranges, sn) = first + i - 1

\* No number is used twice: the last one is the end of the line, and the next
\* packet of the source gets the one after it, whatever was dropped, padded or
\* switched before.  A late packet gets the number it owns, unless it is older
\* than the ranges that are kept (rtpmunger.go:118-234, 318-321).
NumbersInLine == LineEnds /\ LateFindsNumber

\* Whatever is written goes out under the number it owns, and so never under
\* that of another packet, nor if it was dropped before (rtpmunger.go:167-255).
WrittenAsOwned ==
    out # Nothing => out.number \in first..m.last /\ Owner(out.number) = out.owner

=============================================================================
