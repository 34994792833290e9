-------------------------- MODULE RTPMunger_proofs --------------------------
(***************************************************************************)
(* However many packets, sources, drops and paddings there are, and however *)
(* few ranges are kept: the numbers of a down track form one line, the next *)
(* packet gets the next number, and what is written goes out under the     *)
(* number that it owns.                                                    *)
(***************************************************************************)
EXTENDS RTPMunger, RangeMap_proofs

Mungers == [highest : Int, last : Int, second : Int, offset : Int,
            marker : BOOLEAN, secondMarker : BOOLEAN, ranges : Seq(Spans)]

\* The offset is the one of the open range, which holds the next packet.
Sound(r) ==
    /\ r \in Mungers
    /\ Good(r.ranges)
    /\ Open(r.ranges).start <= r.highest + 1
    /\ r.offset = Open(r.ranges).value

-----------------------------------------------------------------------------
(* The methods of the munger. *)

LEMMA OffsetUpdated ==
    ASSUME NEW r \in Mungers, Good(r.ranges), Open(r.ranges).start <= r.highest + 1
    PROVE  /\ Sound(updateSnOffset(r))
           /\ updateSnOffset(r).highest = r.highest
           /\ updateSnOffset(r).last = r.last
           /\ updateSnOffset(r).ranges = r.ranges
           /\ updateSnOffset(r).offset = Open(r.ranges).value
<1>1. r.highest + 1 \in Int
    BY DEF Mungers
<1>2. GetValue(r.ranges, r.highest + 1) = Open(r.ranges).value /\ Open(r.ranges) \in Spans
    BY <1>1, OpenValue
<1>3. Open(r.ranges).value \in Int
    BY <1>2 DEF Spans
<1>4. updateSnOffset(r) = [r EXCEPT !.offset = Open(r.ranges).value]
    BY <1>2 DEF updateSnOffset
<1> DEFINE q == [r EXCEPT !.offset = Open(r.ranges).value]
<1>5. q \in Mungers
    BY <1>3 DEF Mungers
<1>6. q.highest = r.highest /\ q.last = r.last /\ q.ranges = r.ranges /\ q.offset = Open(r.ranges).value
    BY DEF Mungers
<1> QED BY <1>4, <1>5, <1>6 DEF Sound

LEMMA Advanced ==
    ASSUME NEW r, Sound(r), NEW sn \in Int, NEW marker \in BOOLEAN, sn > r.highest
    PROVE  /\ Sound(Advance(r, sn, marker))
           /\ Advance(r, sn, marker).highest = sn
           /\ Advance(r, sn, marker).last = sn - r.offset
           /\ Advance(r, sn, marker).second = r.last
           /\ Advance(r, sn, marker).ranges = r.ranges
           /\ Advance(r, sn, marker).offset = r.offset
<1> DEFINE q == Advance(r, sn, marker)
<1>1. r \in Mungers /\ r.highest \in Int /\ r.offset \in Int
    BY DEF Sound, Mungers
<1>2. q \in Mungers
    <2>1. sn - r.offset \in Int /\ r.last \in Int /\ r.marker \in BOOLEAN
        BY <1>1 DEF Mungers
    <2> QED BY <1>1, <2>1 DEF Advance, Mungers
<1>3. q.highest = sn /\ q.last = sn - r.offset /\ q.second = r.last /\ q.ranges = r.ranges /\ q.offset = r.offset
    BY <1>1 DEF Advance, Mungers
<1>4. Open(r.ranges).start <= sn + 1
    BY <1>1, OpenValue DEF Sound, Spans
<1> QED BY <1>2, <1>3, <1>4 DEF Sound

LEMMA LastSet ==
    ASSUME NEW r, Sound(r), NEW sn \in Int
    PROVE  /\ Sound(SetLastSnTs(r, sn))
           /\ SetLastSnTs(r, sn).highest = sn - 1
           /\ SetLastSnTs(r, sn).last = sn
           /\ SetLastSnTs(r, sn).offset = 0
           /\ \A key, v \in Int : key < sn => ~Has(SetLastSnTs(r, sn).ranges, key, v)
<1> DEFINE fresh == ClearAndResetValue(sn, 0)
           q == [r EXCEPT !.highest = sn - 1, !.last = sn, !.second = sn - 1, !.ranges = fresh]
<1>1. /\ Good(fresh) /\ Open(fresh).start = sn /\ Open(fresh).value = 0
      /\ \A key, v \in Int : key < sn => ~Has(fresh, key, v)
    <2>1. 0 \in Int
        OBVIOUS
    <2> QED BY <2>1, FreshMap
<1>2. fresh \in Seq(Spans) /\ r \in Mungers
    BY <1>1 DEF Good, Sound
<1> HIDE DEF fresh
<1>3. q \in Mungers
    <2>1. sn - 1 \in Int
        OBVIOUS
    <2> QED BY <1>2, <2>1 DEF Mungers
<1>4. q.highest = sn - 1 /\ q.last = sn /\ q.ranges = fresh
    BY <1>2 DEF Mungers
<1>5. SetLastSnTs(r, sn) = updateSnOffset(q)
    BY DEF SetLastSnTs, fresh
<1> HIDE DEF q
<1> QED BY <1>1, <1>3, <1>4, <1>5, OffsetUpdated

LEMMA OffsetsUpdated ==
    ASSUME NEW r, Sound(r), NEW sn \in Int
    PROVE  /\ Sound(UpdateSnTsOffsets(r, sn))
           /\ UpdateSnTsOffsets(r, sn).highest = sn - 1
           /\ UpdateSnTsOffsets(r, sn).last = r.last
           /\ UpdateSnTsOffsets(r, sn).offset = sn - r.last - 1
           /\ \A key, v \in Int : key < sn => ~Has(UpdateSnTsOffsets(r, sn).ranges, key, v)
<1> DEFINE gap == sn - r.last - 1
           fresh == ClearAndResetValue(sn, gap)
           q == [r EXCEPT !.highest = sn - 1, !.ranges = fresh]
<1>1. r \in Mungers /\ gap \in Int
    BY DEF Sound, Mungers
<1> HIDE DEF gap
<1>2. /\ Good(fresh) /\ Open(fresh).start = sn /\ Open(fresh).value = gap
      /\ \A key, v \in Int : key < sn => ~Has(fresh, key, v)
    BY <1>1, FreshMap
<1>3. fresh \in Seq(Spans)
    BY <1>2 DEF Good
<1> HIDE DEF fresh
<1>4. q \in Mungers
    <2>1. sn - 1 \in Int
        OBVIOUS
    <2> QED BY <1>1, <1>3, <2>1 DEF Mungers
<1>5. q.highest = sn - 1 /\ q.last = r.last /\ q.ranges = fresh
    BY <1>1 DEF Mungers
<1>6. UpdateSnTsOffsets(r, sn) = updateSnOffset(q)
    BY DEF UpdateSnTsOffsets, fresh, gap
<1> HIDE DEF q
<1> QED BY <1>2, <1>4, <1>5, <1>6, OffsetUpdated DEF gap

\* The next packet, dropped or empty, leaves the number to the one after it.
LEMMA Skipped ==
    ASSUME NEW r, Sound(r), NEW sn \in Int, sn = r.highest + 1, NEW marker \in BOOLEAN,
           NEW q, q = SkipEmpty(r, sn) \/ q = PacketDropped(Advance(r, sn, marker))
    PROVE  /\ Sound(q)
           /\ q.highest = sn
           /\ q.last = r.last
           /\ q.offset = r.offset + 1
           /\ Agrees(r.ranges, q.ranges, r.highest)
           /\ \A v \in Int : ~Has(q.ranges, sn, v)
<1> DEFINE without == ExcludeRange(r.ranges, sn, sn + 1)
<1>1. /\ r \in Mungers /\ r.highest \in Int /\ r.highest = sn - 1
      /\ Good(r.ranges) /\ Open(r.ranges).start <= sn /\ r.offset = Open(r.ranges).value
    BY DEF Sound, Mungers
<1>2. /\ Good(without) /\ Open(without).start = sn + 1
      /\ Open(without).value = Open(r.ranges).value + 1
      /\ Agrees(r.ranges, without, sn - 1)
      /\ \A v \in Int : ~Has(without, sn, v)
    BY <1>1, ExcludeOne
<1>3. without \in Seq(Spans)
    BY <1>2 DEF Good
<1>4. CASE q = SkipEmpty(r, sn)
    <2> DEFINE p == [r EXCEPT !.highest = sn, !.ranges = without]
    <2>1. q = updateSnOffset(p)
        BY <1>4 DEF SkipEmpty
    <2> HIDE DEF without
    <2>2. p \in Mungers
        BY <1>1, <1>3 DEF Mungers
    <2>3. p.highest = sn /\ p.last = r.last /\ p.ranges = without
        BY <1>1 DEF Mungers
    <2> HIDE DEF p
    <2> QED BY <1>1, <1>2, <2>1, <2>2, <2>3, OffsetUpdated
<1>5. CASE q = PacketDropped(Advance(r, sn, marker))
    <2> DEFINE a == Advance(r, sn, marker)
               p == [a EXCEPT !.ranges = without, !.last = a.second, !.marker = a.secondMarker]
    <2>1. /\ a \in Mungers /\ a.highest = sn /\ a.second = r.last /\ a.ranges = r.ranges
        <3>1. sn > r.highest
            BY <1>1
        <3> QED BY <3>1, Advanced DEF Sound
    <2>2. q = updateSnOffset(p)
        BY <1>5, <2>1 DEF PacketDropped
    <2> HIDE DEF without, a
    <2>3. p \in Mungers
        BY <1>3, <2>1 DEF Mungers
    <2>4. p.highest = sn /\ p.last = r.last /\ p.ranges = without
        BY <2>1 DEF Mungers
    <2> HIDE DEF p
    <2> QED BY <1>1, <1>2, <2>2, <2>3, <2>4, OffsetUpdated
<1> QED BY <1>4, <1>5

LEMMA Padded ==
    ASSUME NEW r, Sound(r), NEW num \in Int, NEW force \in BOOLEAN
    PROVE  /\ Sound(UpdateAndGetPaddingSnTs(r, num, force))
           /\ UpdateAndGetPaddingSnTs(r, num, force).highest = r.highest
           /\ UpdateAndGetPaddingSnTs(r, num, force).last = r.last + num
           /\ UpdateAndGetPaddingSnTs(r, num, force).offset = r.offset - num
           /\ Agrees(r.ranges, UpdateAndGetPaddingSnTs(r, num, force).ranges, r.highest)
<1> DEFINE after == DecValue(r.ranges, r.highest, num)
           p == [r EXCEPT !.second = r.last + num - 1, !.last = r.last + num, !.ranges = after,
                          !.secondMarker = r.marker, !.marker = r.marker \/ force]
<1>1. /\ r \in Mungers /\ r.highest \in Int /\ r.last \in Int /\ r.marker \in BOOLEAN
      /\ Good(r.ranges) /\ Open(r.ranges).start <= r.highest + 1 /\ r.offset = Open(r.ranges).value
    BY DEF Sound, Mungers
<1>2. /\ Good(after) /\ Open(after).start = r.highest + 1
      /\ Open(after).value = Open(r.ranges).value - num
      /\ Agrees(r.ranges, after, r.highest)
    BY <1>1, DecAfter
<1>3. after \in Seq(Spans)
    BY <1>2 DEF Good
<1>4. UpdateAndGetPaddingSnTs(r, num, force) = updateSnOffset(p)
    BY DEF UpdateAndGetPaddingSnTs
<1> HIDE DEF after
<1>5. p \in Mungers
    <2>1. (r.marker \/ force) \in BOOLEAN /\ r.last + num \in Int /\ r.last + num - 1 \in Int
        BY <1>1
    <2> QED BY <1>1, <1>3, <2>1 DEF Mungers
<1>6. p.highest = r.highest /\ p.last = r.last + num /\ p.ranges = after
    BY <1>1 DEF Mungers
<1> HIDE DEF p
<1> QED BY <1>1, <1>2, <1>4, <1>5, <1>6, OffsetUpdated

-----------------------------------------------------------------------------
(* The line and the munger. *)

Owners == Nat \X Int

\* The line ends with the last number.
Ends(r, ln, f) == r.last = f + Len(ln) - 1

\* The packets of source e on the line are not ahead, and each that is not too
\* old has the offset that leads to its number.
Kept(r, ln, f, e) ==
    \A i \in 1..Len(ln) : ln[i][1] = e =>
        /\ ln[i][2] <= r.highest
        /\ ln[i][2] >= r.ranges[1].start => Has(r.ranges, ln[i][2], ln[i][2] - (f + i - 1))

\* A number that an offset leads to is the one of that packet.
Owned(r, ln, f, e) ==
    \A key, v \in Int : key <= r.highest /\ Has(r.ranges, key, v) =>
        /\ key - v - f + 1 \in 1..Len(ln)
        /\ ln[key - v - f + 1] = <<e, key>>

\* The packet after the highest gets the number after the line.
Continues(r, ln, f) == r.highest - r.offset = f + Len(ln) - 1

\* The numbers of source e.
Numbered(r, ln, f, e) ==
    /\ Continues(r, ln, f)
    /\ Kept(r, ln, f, e)
    /\ Owned(r, ln, f, e)

LEMMA OwnerTypes ==
    ASSUME NEW ln \in Seq(Owners)
    PROVE  Len(ln) \in Nat /\ \A i \in 1..Len(ln) : ln[i][1] \in Nat /\ ln[i][2] \in Int
<1>1. Len(ln) \in Nat /\ \A i \in 1..Len(ln) : ln[i] \in Owners
    BY LenProperties, ElementOfSeq
<1>2. \A x \in Owners : x[1] \in Nat /\ x[2] \in Int
    BY DEF Owners
<1> QED BY <1>1, <1>2

\* Keys up to the place of a change of the map keep their numbers.
LEMMA SameNumbers ==
    ASSUME NEW r, NEW q, Sound(r), Sound(q), NEW ln \in Seq(Owners), NEW f \in Int, NEW e \in Nat,
           Kept(r, ln, f, e), Owned(r, ln, f, e),
           Agrees(r.ranges, q.ranges, r.highest),
           q.highest >= r.highest,
           \A key, v \in Int : r.highest < key /\ key <= q.highest => ~Has(q.ranges, key, v)
    PROVE  Kept(q, ln, f, e) /\ Owned(q, ln, f, e)
<1>1. Len(ln) \in Nat /\ \A i \in 1..Len(ln) : ln[i][1] \in Nat /\ ln[i][2] \in Int
    BY OwnerTypes
<1>2. r.highest \in Int /\ q.highest \in Int
    BY DEF Sound, Mungers
<1>3. ASSUME NEW i \in 1..Len(ln), ln[i][1] = e
      PROVE  /\ ln[i][2] <= q.highest
             /\ ln[i][2] >= q.ranges[1].start => Has(q.ranges, ln[i][2], ln[i][2] - (f + i - 1))
    <2>1. ln[i][2] \in Int /\ ln[i][2] - (f + i - 1) \in Int /\ ln[i][2] <= r.highest
        BY <1>1, <1>3 DEF Kept
    <2>2. ASSUME ln[i][2] >= q.ranges[1].start
          PROVE  Has(q.ranges, ln[i][2], ln[i][2] - (f + i - 1))
        <3>1. ln[i][2] >= r.ranges[1].start
            BY <2>1, <2>2 DEF Agrees
        <3>2. Has(r.ranges, ln[i][2], ln[i][2] - (f + i - 1))
            BY <1>3, <3>1 DEF Kept
        <3> QED BY <2>1, <2>2, <3>2 DEF Agrees
    <2> QED BY <1>2, <2>1, <2>2
<1>4. ASSUME NEW key \in Int, NEW v \in Int, key <= q.highest, Has(q.ranges, key, v)
      PROVE  key <= r.highest /\ Has(r.ranges, key, v)
    <2>1. key <= r.highest
        BY <1>2, <1>4
    <2> QED BY <1>4, <2>1 DEF Agrees
<1>5. Kept(q, ln, f, e)
    BY <1>3 DEF Kept
<1>6. Owned(q, ln, f, e)
    BY <1>4 DEF Owned
<1> QED BY <1>5, <1>6

\* The line grew by the packets of source e after the highest.
Grown(ln, longer, old, new, e, highest) ==
    /\ Len(ln) = old /\ Len(longer) = new
    /\ \A i \in 1..old : longer[i] = ln[i]
    /\ \A i \in (old + 1)..new : longer[i] = <<e, highest + i - old>>

\* Packets that are new get the numbers from the last one on.
LEMMA ForwardNumbers ==
    ASSUME NEW r, Sound(r), NEW h \in Int, NEW o \in Int, r.highest = h, r.offset = o,
           NEW sn \in Int, NEW marker \in BOOLEAN, sn > h,
           NEW f \in Int, NEW e \in Nat,
           NEW ln \in Seq(Owners), Numbered(r, ln, f, e),
           NEW longer \in Seq(Owners),
           NEW old \in Nat, NEW new \in Nat, new = old + sn - h,
           Grown(ln, longer, old, new, e, h)
    PROVE  /\ Numbered(Advance(r, sn, marker), longer, f, e)
           /\ Ends(Advance(r, sn, marker), longer, f)
<1> DEFINE q == Advance(r, sn, marker)
<1>1. /\ Sound(q) /\ q.highest = sn /\ q.last = sn - o
      /\ q.ranges = r.ranges /\ q.offset = o
    BY Advanced
<1> HIDE DEF q
<1>2. PICK s \in Int : s = Open(r.ranges).start
    <2>1. Good(r.ranges)
        BY DEF Sound
    <2>2. Open(r.ranges).start \in Int
        BY <2>1, Elements DEF Good, Open
    <2> QED BY <2>2
<1>3. Good(r.ranges) /\ s <= h + 1 /\ o = Open(r.ranges).value
    BY <1>2 DEF Sound
<1>4. h - o = f + old - 1
    BY DEF Numbered, Continues, Grown
<1>5. Ends(q, longer, f) /\ Continues(q, longer, f)
    <2>1. sn - o = f + new - 1
        BY <1>4
    <2> QED BY <1>1, <2>1 DEF Ends, Continues, Grown
<1>6. ASSUME NEW i \in 1..new, longer[i][1] = e
      PROVE  /\ longer[i][2] <= q.highest
             /\ longer[i][2] >= q.ranges[1].start =>
                    Has(q.ranges, longer[i][2], longer[i][2] - (f + i - 1))
    <2>1. CASE i <= old
        <3>1. i \in 1..Len(ln) /\ longer[i] = ln[i]
            BY <2>1 DEF Grown
        <3>2. PICK key \in Int : key = ln[i][2]
            BY <3>1, OwnerTypes
        <3>3. /\ key <= h
              /\ key >= r.ranges[1].start => Has(r.ranges, key, key - (f + i - 1))
            BY <1>6, <3>1, <3>2 DEF Numbered, Kept
        <3>4. key <= sn
            BY <3>3
        <3> QED BY <1>1, <3>1, <3>2, <3>3, <3>4
    <2>2. CASE i > old
        <3> DEFINE key == h + i - old
        <3>1. longer[i] = <<e, key>>
            BY <2>2 DEF Grown
        <3>2. key \in Int /\ key <= sn /\ key >= h + 1
            BY <2>2
        <3>3. key - (f + i - 1) = o
            BY <1>4
        <3>4. longer[i][2] = key
            BY <3>1
        <3> HIDE DEF key
        <3>5. Has(r.ranges, key, o)
            <4>1. key >= s
                BY <1>3, <3>2
            <4> QED BY <1>2, <1>3, <3>2, <4>1, OpenValue
        <3> QED BY <1>1, <3>2, <3>3, <3>4, <3>5
    <2> QED BY <2>1, <2>2
<1>7. ASSUME NEW key \in Int, NEW v \in Int, key <= q.highest, Has(q.ranges, key, v)
      PROVE  /\ key - v - f + 1 \in 1..new
             /\ longer[key - v - f + 1] = <<e, key>>
    <2>1. CASE key <= h
        <3>1. key - v - f + 1 \in 1..old /\ ln[key - v - f + 1] = <<e, key>>
            BY <1>1, <1>7, <2>1 DEF Numbered, Owned, Grown
        <3>2. old <= new
            OBVIOUS
        <3> QED BY <3>1, <3>2 DEF Grown
    <2>2. CASE key > h
        <3>1. key >= s
            BY <1>3, <2>2
        <3>2. v = o
            BY <1>1, <1>2, <1>3, <1>7, <3>1, OpenValue
        <3>3. key <= sn
            BY <1>1, <1>7
        <3>4. PICK i \in Int : i = key - v - f + 1
            OBVIOUS
        <3>5. i \in (old + 1)..new /\ i \in 1..new /\ h + i - old = key
            BY <1>4, <2>2, <3>2, <3>3, <3>4
        <3>6. longer[i] = <<e, key>>
            BY <3>5 DEF Grown
        <3> QED BY <3>4, <3>5, <3>6
    <2>3. key <= h \/ key > h
        OBVIOUS
    <2> QED BY <2>1, <2>2, <2>3, Zenon
<1>8. Kept(q, longer, f, e)
    BY <1>6 DEF Kept, Grown
<1>9. Owned(q, longer, f, e)
    BY <1>7 DEF Owned, Grown
<1> QED BY <1>5, <1>8, <1>9 DEF Numbered, q

\* A packet that is skipped leaves the line and the next number as they are.
LEMMA SkipNumbers ==
    ASSUME NEW r, Sound(r), NEW sn \in Int, sn = r.highest + 1, NEW marker \in BOOLEAN,
           NEW f \in Int, NEW e \in Nat, NEW ln \in Seq(Owners), Numbered(r, ln, f, e),
           NEW q, q = SkipEmpty(r, sn) \/ q = PacketDropped(Advance(r, sn, marker))
    PROVE  Sound(q) /\ Numbered(q, ln, f, e) /\ q.last = r.last
<1>1. /\ Sound(q) /\ q.highest = sn /\ q.last = r.last /\ q.offset = r.offset + 1
      /\ Agrees(r.ranges, q.ranges, r.highest)
      /\ \A v \in Int : ~Has(q.ranges, sn, v)
    BY Skipped
<1>2. r.highest \in Int /\ r.offset \in Int
    BY DEF Sound, Mungers
<1>3. Continues(q, ln, f)
    <2>1. q.highest - q.offset = r.highest - r.offset
        BY <1>1, <1>2
    <2> QED BY <2>1 DEF Numbered, Continues
<1>4. \A key, v \in Int : r.highest < key /\ key <= q.highest => ~Has(q.ranges, key, v)
    <2>1. \A key \in Int : r.highest < key /\ key <= q.highest => key = sn
        BY <1>1, <1>2
    <2> QED BY <1>1, <2>1
<1>5. q.highest >= r.highest
    BY <1>1, <1>2
<1>6. Kept(q, ln, f, e) /\ Owned(q, ln, f, e)
    BY <1>1, <1>4, <1>5, SameNumbers DEF Numbered
<1> QED BY <1>1, <1>3, <1>6 DEF Numbered

\* Numbers of nobody at the end of the line belong to no source.
LEMMA LongerLine ==
    ASSUME NEW r, Sound(r), NEW f \in Int, NEW e \in Nat, e # 0,
           NEW ln \in Seq(Owners), Kept(r, ln, f, e), Owned(r, ln, f, e),
           NEW longer \in Seq(Owners), Len(longer) >= Len(ln),
           \A i \in 1..Len(ln) : longer[i] = ln[i],
           \A i \in (Len(ln) + 1)..Len(longer) : longer[i][1] = 0
    PROVE  Kept(r, longer, f, e) /\ Owned(r, longer, f, e)
<1>1. Len(ln) \in Nat /\ Len(longer) \in Nat
    BY OwnerTypes
<1>2. ASSUME NEW i \in 1..Len(longer), longer[i][1] = e
      PROVE  i \in 1..Len(ln) /\ longer[i] = ln[i]
    BY <1>1, <1>2
<1>3. Kept(r, longer, f, e)
    BY <1>2 DEF Kept
<1>4. ASSUME NEW key \in Int, NEW v \in Int, key <= r.highest, Has(r.ranges, key, v)
      PROVE  /\ key - v - f + 1 \in 1..Len(longer)
             /\ longer[key - v - f + 1] = <<e, key>>
    <2>1. key - v - f + 1 \in 1..Len(ln) /\ ln[key - v - f + 1] = <<e, key>>
        BY <1>4 DEF Owned
    <2> QED BY <1>1, <2>1
<1> QED BY <1>3, <1>4 DEF Owned

\* A source that is new has nothing on the line.
LEMMA FreshNumbers ==
    ASSUME NEW r, Sound(r), NEW f \in Int, NEW e \in Nat, NEW ln \in Seq(Owners),
           Continues(r, ln, f),
           \A i \in 1..Len(ln) : ln[i][1] # e,
           \A key, v \in Int : key <= r.highest => ~Has(r.ranges, key, v)
    PROVE  Numbered(r, ln, f, e)
BY DEF Numbered, Kept, Owned

\* A function from 1..n is a sequence.
LEMMA TailIsLine ==
    ASSUME NEW n \in Nat, NEW tail \in [1..n -> Owners]
    PROVE  tail \in Seq(Owners) /\ Len(tail) = n
<1>1. tail \in Seq(Owners)
    BY SeqDef
<1>2. DOMAIN tail = 1..n /\ DOMAIN tail = 1..Len(tail) /\ Len(tail) \in Nat
    BY <1>1, LenProperties
<1> QED BY <1>2

LEMMA Growth ==
    ASSUME NEW ln \in Seq(Owners), NEW n \in Nat, NEW tail \in [1..n -> Owners]
    PROVE  /\ ln \o tail \in Seq(Owners)
           /\ Len(ln) \in Nat
           /\ Len(ln \o tail) = Len(ln) + n
           /\ \A i \in 1..Len(ln) : (ln \o tail)[i] = ln[i]
           /\ \A i \in (Len(ln) + 1)..(Len(ln) + n) : (ln \o tail)[i] = tail[i - Len(ln)]
<1>1. tail \in Seq(Owners) /\ Len(tail) = n
    BY TailIsLine
<1>2. PICK k \in Nat : k = Len(ln)
    BY LenProperties
<1>3. /\ ln \o tail \in Seq(Owners)
      /\ Len(ln \o tail) = k + n
      /\ \A i \in 1..(k + n) : (ln \o tail)[i] = IF i <= k THEN ln[i] ELSE tail[i - k]
    BY <1>1, <1>2, ConcatProperties
<1> DEFINE longer == ln \o tail
<1> HIDE DEF longer
<1>4. \A i \in 1..k : longer[i] = ln[i]
    <2>1. TAKE i \in 1..k
    <2>2. i \in 1..(k + n) /\ i <= k
        OBVIOUS
    <2> QED BY <1>3, <2>2 DEF longer
<1>5. \A i \in (k + 1)..(k + n) : longer[i] = tail[i - k]
    <2>1. TAKE i \in (k + 1)..(k + n)
    <2>2. i \in 1..(k + n) /\ ~(i <= k)
        OBVIOUS
    <2> QED BY <1>3, <2>2 DEF longer
<1> QED BY <1>2, <1>3, <1>4, <1>5 DEF longer

\* The packets that Forward puts on the line.
LEMMA PacketsGrow ==
    ASSUME NEW ln \in Seq(Owners), NEW e \in Nat, NEW h \in Int, NEW sn \in Int, sn > h
    PROVE  \E old, new \in Nat :
               /\ new = old + sn - h
               /\ ln \o [i \in 1..(sn - (h + 1) + 1) |-> Packet(e, h + 1 + i - 1)] \in Seq(Owners)
               /\ Grown(ln, ln \o [i \in 1..(sn - (h + 1) + 1) |-> Packet(e, h + 1 + i - 1)],
                        old, new, e, h)
<1> DEFINE tail == [i \in 1..(sn - (h + 1) + 1) |-> Packet(e, h + 1 + i - 1)]
<1>1. PICK n \in Nat : n = sn - h /\ n = sn - (h + 1) + 1
    OBVIOUS
<1>2. tail \in [1..n -> Owners] /\ \A i \in 1..n : tail[i] = <<e, h + i>>
    <2>1. \A i \in 1..n : h + 1 + i - 1 = h + i /\ <<e, h + i>> \in Owners
        BY DEF Owners
    <2> QED BY <1>1, <2>1 DEF Packet
<1> DEFINE longer == ln \o tail
<1> HIDE DEF tail
<1>3. /\ longer \in Seq(Owners)
      /\ Len(ln) \in Nat
      /\ Len(longer) = Len(ln) + n
      /\ \A i \in 1..Len(ln) : longer[i] = ln[i]
      /\ \A i \in (Len(ln) + 1)..(Len(ln) + n) : longer[i] = tail[i - Len(ln)]
    BY <1>2, Growth
<1> HIDE DEF longer
<1>4. PICK old \in Nat : old = Len(ln)
    BY <1>3
<1>5. PICK new \in Nat : new = old + n
    OBVIOUS
<1>6. \A i \in (old + 1)..new : longer[i] = <<e, h + i - old>>
    <2>1. TAKE i \in (old + 1)..new
    <2>2. i - old \in 1..n /\ h + (i - old) = h + i - old
        BY <1>5
    <2>3. longer[i] = tail[i - old]
        BY <1>3, <1>4, <1>5
    <2> QED BY <1>2, <2>2, <2>3
<1>7. Grown(ln, longer, old, new, e, h)
    BY <1>3, <1>4, <1>5, <1>6 DEF Grown
<1>8. new = old + sn - h
    BY <1>1, <1>5
<1> QED BY <1>3, <1>7, <1>8 DEF longer, tail

-----------------------------------------------------------------------------
(* The invariant. *)

Types ==
    /\ started \in BOOLEAN
    /\ Sound(m)
    /\ epoch \in Nat
    /\ first \in Int
    /\ line \in Seq(Owners)

\* No packet on the line is of a source that is still to come.
UpTo(ln, e) == \A i \in 1..Len(ln) : ln[i][1] <= e

IInv ==
    /\ Types
    /\ UpTo(line, epoch)
    /\ ~started => line = <<>> /\ source = NoSource
    /\ started => Ends(m, line, first)
    /\ started => m.highest - m.offset = m.last \/ m.highest - m.offset = m.last - 1
    /\ source # NoSource => epoch # 0 /\ Numbered(m, line, first, epoch)
    /\ WrittenAsOwned

\* What the last number of the line is owned by may be written.
LEMMA WrittenLast ==
    ASSUME NEW ln \in Seq(Owners), NEW f \in Int, NEW last \in Int, last = f + Len(ln) - 1, Len(ln) # 0
    PROVE  last \in f..last /\ last - f + 1 = Len(ln)
<1>1. PICK k \in Nat : k = Len(ln)
    BY OwnerTypes
<1>2. k # 0 /\ last = f + k - 1
    BY <1>1
<1>3. last \in f..last /\ last - f + 1 = k
    BY <1>2
<1> QED BY <1>1, <1>3

\* A packet after the highest is put on the line.
LEMMA Extending ==
    ASSUME line \in Seq(Owners), NEW f \in Int, first' = f, NEW e \in Nat,
           NEW r, Sound(r), NEW sn \in Int, sn > r.highest, NEW marker \in BOOLEAN,
           Numbered(r, line, f, e), UpTo(line, e),
           m' = Advance(r, sn, marker),
           line' = Extended(e, r.highest + 1, sn),
           Write(e, sn, m') \/ out' = Nothing
    PROVE  /\ Sound(m') /\ line' \in Seq(Owners)
           /\ Numbered(m', line', f, e) /\ Ends(m', line', f)
           /\ UpTo(line', e)
           /\ WrittenAsOwned'
<1>1. PICK h \in Int, o \in Int : h = r.highest /\ o = r.offset
    BY DEF Sound, Mungers
<1>2. sn > h
    BY <1>1
<1>3. PICK old \in Nat, new \in Nat :
          /\ new = old + sn - h
          /\ line' \in Seq(Owners)
          /\ Grown(line, line', old, new, e, h)
    BY <1>1, <1>2, PacketsGrow DEF Extended
<1>4. Numbered(m', line', f, e) /\ Ends(m', line', f)
    BY <1>1, <1>2, <1>3, ForwardNumbers
<1>5. Sound(m')
    BY <1>1, <1>2, Advanced
<1>6. UpTo(line', e)
    <2>1. ASSUME NEW i \in 1..new PROVE line'[i][1] <= e
        <3>1. CASE i <= old
            BY <3>1, <1>3 DEF Grown, UpTo
        <3>2. CASE i > old
            <4>1. i \in (old + 1)..new
                BY <3>2
            <4> QED BY <1>3, <4>1 DEF Grown
        <3> QED BY <3>1, <3>2
    <2> QED BY <1>3, <2>1 DEF Grown, UpTo
<1>7. WrittenAsOwned'
    <2>1. CASE out' = Nothing
        BY <2>1 DEF WrittenAsOwned, Nothing
    <2>2. CASE Write(e, sn, m')
        <3>1. out'.number = m'.last /\ out'.owner = <<e, sn>>
            BY <2>2 DEF Write, Packet
        <3>2. new \in (old + 1)..new /\ h + new - old = sn /\ new # 0
            BY <1>2, <1>3
        <3>3. line'[new] = <<e, sn>> /\ Len(line') = new
            BY <1>3, <3>2 DEF Grown
        <3>4. PICK last \in Int : last = m'.last
            BY <1>5 DEF Sound, Mungers
        <3>5. last = f + Len(line') - 1 /\ Len(line') # 0
            BY <1>4, <3>2, <3>3, <3>4 DEF Ends
        <3>6. last \in f..last /\ last - f + 1 = new
            BY <1>3, <3>3, <3>5, WrittenLast
        <3>7. Owner(out.number)' = out'.owner
            BY <3>1, <3>3, <3>4, <3>6 DEF Owner
        <3> QED BY <3>1, <3>4, <3>6, <3>7 DEF WrittenAsOwned
    <2> QED BY <2>1, <2>2
<1> QED BY <1>3, <1>4, <1>5, <1>6, <1>7

\* A packet of source e after the highest: it is put on the line or skipped.
LEMMA Forwarding ==
    ASSUME line \in Seq(Owners), first \in Int, first' = first, NEW e \in Nat,
           NEW r, Sound(r), NEW sn \in Int, sn > r.highest, NEW marker \in BOOLEAN,
           Numbered(r, line, first, e), Ends(r, line, first), UpTo(line, e),
           \/ \E contiguous \in BOOLEAN :
                /\ contiguous => sn = r.highest + 1
                /\ Forward(e, Advance(r, sn, marker), r.highest + 1, sn, contiguous)
           \/ sn = r.highest + 1 /\ m' = SkipEmpty(r, sn) /\ out' = Nothing /\ UNCHANGED line
    PROVE  /\ Sound(m') /\ line' \in Seq(Owners)
           /\ Numbered(m', line', first', e) /\ Ends(m', line', first')
           /\ UpTo(line', e)
           /\ WrittenAsOwned'
<1>1. CASE /\ m' = Advance(r, sn, marker)
           /\ line' = Extended(e, r.highest + 1, sn)
           /\ Write(e, sn, m') \/ out' = Nothing
    BY <1>1, Extending
<1>2. CASE /\ sn = r.highest + 1
           /\ m' = PacketDropped(Advance(r, sn, marker)) \/ m' = SkipEmpty(r, sn)
           /\ line' = line
           /\ out' = Nothing
    <2>1. Sound(m') /\ Numbered(m', line, first, e) /\ m'.last = r.last
        BY <1>2, SkipNumbers
    <2>2. Ends(m', line, first)
        BY <2>1 DEF Ends
    <2>3. WrittenAsOwned'
        BY <1>2 DEF WrittenAsOwned, Nothing
    <2> QED BY <1>2, <2>1, <2>2, <2>3
<1> QED BY <1>1, <1>2 DEF Forward

LEMMA StartKeeps ==
    ASSUME IInv, NEW s \in Sources, NEW sn \in SNs, NEW marker \in BOOLEAN, Start(s, sn, marker)
    PROVE  IInv'
<1>1. sn \in Int /\ s # NoSource
    BY SourceAssumption DEF SNs
<1>2. /\ line = <<>> /\ line \in Seq(Owners) /\ epoch + 1 \in Nat /\ epoch + 1 # 0 /\ Sound(m)
      /\ UpTo(line, epoch + 1)
    BY DEF IInv, Types, Start, UpTo
<1> DEFINE r == SetLastSnTs(m, sn)
           e == epoch + 1
<1>3. /\ Sound(r) /\ r.highest = sn - 1 /\ r.offset = 0
      /\ \A key, v \in Int : key < sn => ~Has(r.ranges, key, v)
    BY <1>1, <1>2, LastSet
<1> HIDE DEF r
<1>4. Numbered(r, line, sn, e)
    <2>1. Len(line) = 0
        BY <1>2
    <2>2. Continues(r, line, sn)
        BY <1>1, <1>3, <2>1 DEF Continues
    <2>3. \A key, v \in Int : key <= r.highest => ~Has(r.ranges, key, v)
        BY <1>1, <1>3
    <2>4. \A i \in 1..Len(line) : line[i][1] # e
        BY <2>1
    <2> HIDE DEF e
    <2>5. e \in Nat
        BY <1>2 DEF e
    <2> QED BY <1>1, <1>2, <1>3, <2>2, <2>3, <2>4, <2>5, FreshNumbers
<1>5. /\ m' = Advance(r, sn, marker)
      /\ Write(e, sn, m') \/ out' = Nothing
      /\ line' = <<Packet(e, sn)>>
      /\ first' = sn /\ started' = TRUE /\ source' = s /\ epoch' = e
    BY DEF Start, r
<1>6. line' = Extended(e, r.highest + 1, sn)
    <2>1. r.highest + 1 = sn
        BY <1>1, <1>3
    <2>2. [i \in 1..(sn - sn + 1) |-> Packet(e, sn + i - 1)] = <<Packet(e, sn)>>
        <3>1. sn - sn + 1 = 1 /\ \A i \in 1..1 : sn + i - 1 = sn
            BY <1>1
        <3> QED BY <3>1
    <2>3. <<Packet(e, sn)>> \in Seq(Owners)
        BY <1>1, <1>2 DEF Packet, Owners
    <2>4. <<>> \o <<Packet(e, sn)>> = <<Packet(e, sn)>>
        BY <2>3, ConcatEmptySeq
    <2> QED BY <1>2, <1>5, <2>1, <2>2, <2>4 DEF Extended
<1>7. sn > r.highest
    BY <1>1, <1>3
<1>8. /\ Sound(m') /\ line' \in Seq(Owners)
      /\ Numbered(m', line', sn, e) /\ Ends(m', line', sn)
      /\ UpTo(line', e)
      /\ WrittenAsOwned'
    BY <1>1, <1>2, <1>3, <1>4, <1>5, <1>6, <1>7, Extending
<1>9. m'.highest - m'.offset = m'.last
    BY <1>8 DEF Continues, Numbered, Ends
<1> QED BY <1>1, <1>2, <1>5, <1>8, <1>9 DEF IInv, Types

LEMMA SwitchKeeps ==
    ASSUME IInv, NEW s \in Sources, NEW sn \in SNs, NEW marker \in BOOLEAN, Switch(s, sn, marker)
    PROVE  IInv'
<1>1. sn \in Int /\ s # NoSource
    BY SourceAssumption DEF SNs
<1>2. /\ line \in Seq(Owners) /\ epoch \in Nat /\ epoch + 1 \in Nat /\ epoch + 1 # 0 /\ Sound(m)
      /\ started = TRUE /\ first \in Int
      /\ UpTo(line, epoch) /\ Ends(m, line, first)
    BY DEF IInv, Types, Switch
<1> DEFINE r == UpdateSnTsOffsets(m, sn)
           e == epoch + 1
<1>3. /\ Sound(r) /\ r.highest = sn - 1 /\ r.last = m.last /\ r.offset = sn - m.last - 1
      /\ \A key, v \in Int : key < sn => ~Has(r.ranges, key, v)
    BY <1>1, <1>2, OffsetsUpdated
<1> HIDE DEF r
<1>4. UpTo(line, e) /\ \A i \in 1..Len(line) : line[i][1] # e
    BY <1>2, OwnerTypes DEF UpTo
<1>5. Ends(r, line, first)
    BY <1>2, <1>3 DEF Ends
<1>6. Numbered(r, line, first, e)
    <2>1. PICK last \in Int : last = m.last
        BY <1>2 DEF Sound, Mungers
    <2>2. r.highest - r.offset = last
        BY <1>1, <1>3, <2>1
    <2>3. Continues(r, line, first)
        BY <1>2, <2>1, <2>2 DEF Ends, Continues
    <2>4. \A key, v \in Int : key <= r.highest => ~Has(r.ranges, key, v)
        BY <1>1, <1>3
    <2> QED BY <1>2, <1>3, <1>4, <2>3, <2>4, FreshNumbers
<1>7. sn > r.highest /\ sn = r.highest + 1
    BY <1>1, <1>3
<1>8. /\ \/ Forward(e, Advance(r, sn, marker), r.highest + 1, sn, TRUE)
         \/ m' = SkipEmpty(r, sn) /\ out' = Nothing /\ UNCHANGED line
      /\ started' = TRUE /\ source' = s /\ epoch' = e /\ first' = first
    BY <1>2, <1>7 DEF Switch, r
<1>9. /\ Sound(m') /\ line' \in Seq(Owners)
      /\ Numbered(m', line', first', e) /\ Ends(m', line', first')
      /\ UpTo(line', e)
      /\ WrittenAsOwned'
    BY <1>1, <1>2, <1>3, <1>4, <1>5, <1>6, <1>7, <1>8, Forwarding
<1>10. m'.highest - m'.offset = m'.last
    BY <1>9 DEF Continues, Numbered, Ends
<1> QED BY <1>1, <1>2, <1>8, <1>9, <1>10 DEF IInv, Types

LEMMA NextPacketKeeps ==
    ASSUME IInv, NEW sn \in SNs, NEW marker \in BOOLEAN, NextPacket(sn, marker)
    PROVE  IInv'
<1>1. sn \in Int
    BY DEF SNs
<1>2. /\ line \in Seq(Owners) /\ epoch \in Nat /\ epoch # 0 /\ Sound(m)
      /\ started = TRUE /\ first \in Int
      /\ UpTo(line, epoch) /\ Ends(m, line, first) /\ Numbered(m, line, first, epoch)
    BY DEF IInv, Types, NextPacket
<1>3. /\ started' = TRUE /\ source' = source /\ epoch' = epoch /\ first' = first /\ source # NoSource
      /\ sn > m.highest
    BY <1>2 DEF NextPacket
<1>4. \/ \E contiguous \in BOOLEAN :
            /\ contiguous => sn = m.highest + 1
            /\ Forward(epoch, Advance(m, sn, marker), m.highest + 1, sn, contiguous)
      \/ sn = m.highest + 1 /\ m' = SkipEmpty(m, sn) /\ out' = Nothing /\ UNCHANGED line
    BY DEF NextPacket
<1>5. /\ Sound(m') /\ line' \in Seq(Owners)
      /\ Numbered(m', line', first', epoch) /\ Ends(m', line', first')
      /\ UpTo(line', epoch)
      /\ WrittenAsOwned'
    BY <1>1, <1>2, <1>3, <1>4, Forwarding
<1>6. m'.highest - m'.offset = m'.last
    BY <1>5 DEF Continues, Numbered, Ends
<1> QED BY <1>2, <1>3, <1>5, <1>6 DEF IInv, Types

LEMMA LatePacketKeeps ==
    ASSUME IInv, NEW sn \in SNs, LatePacket(sn)
    PROVE  IInv'
<1>1. /\ UNCHANGED <<started, source, m, epoch, first, line>>
      /\ source # NoSource
    BY DEF LatePacket
<1>2. /\ line \in Seq(Owners) /\ Sound(m) /\ started = TRUE /\ first \in Int
      /\ Ends(m, line, first) /\ Numbered(m, line, first, epoch)
    BY <1>1 DEF IInv, Types
<1>3. WrittenAsOwned'
    <2>1. CASE out' = Nothing
        BY <2>1 DEF WrittenAsOwned, Nothing
    <2>2. CASE /\ Known(m.ranges, sn)
               /\ out' = [number |-> sn - GetValue(m.ranges, sn), owner |-> Packet(epoch, sn)]
        <3>1. sn \in Int /\ sn <= m.highest
            <4>1. sn \in Int /\ sn < m.highest
                BY DEF LatePacket, SNs
            <4>2. PICK h \in Int : h = m.highest
                BY <1>2 DEF Sound, Mungers
            <4> QED BY <4>1, <4>2
        <3>2. PICK v \in Int : v = GetValue(m.ranges, sn) /\ Has(m.ranges, sn, v)
            <4>1. Good(m.ranges)
                BY <1>2 DEF Sound
            <4>2. PICK i \in 1..Len(m.ranges) : Covers(m.ranges, i, sn)
                BY <2>2, <4>1, LenProperties DEF Known, Good
            <4>3. m.ranges[i].value \in Int
                BY <4>1, Elements DEF Good
            <4>4. Has(m.ranges, sn, m.ranges[i].value)
                BY <4>2 DEF Has
            <4> QED BY <3>1, <4>1, <4>3, <4>4, HasValue
        <3>3. sn - v - first + 1 \in 1..Len(line) /\ line[sn - v - first + 1] = <<epoch, sn>>
            BY <1>2, <3>1, <3>2 DEF Numbered, Owned
        <3>4. out'.number = sn - v /\ out'.owner = <<epoch, sn>>
            BY <2>2, <3>2 DEF Packet
        <3>5. sn - v \in first..m.last
            <4>1. PICK k \in Nat : k = Len(line)
                BY <1>2, OwnerTypes
            <4>2. m.last = first + k - 1
                BY <1>2, <4>1 DEF Ends
            <4>3. sn - v - first + 1 \in 1..k
                BY <3>3, <4>1
            <4> QED BY <1>2, <3>1, <4>2, <4>3
        <3> QED BY <1>1, <3>3, <3>4, <3>5 DEF WrittenAsOwned, Owner
    <2> QED BY <2>1, <2>2 DEF LatePacket
<1> QED BY <1>1, <1>3 DEF IInv, Types

LEMMA ResyncKeeps ==
    ASSUME IInv, Resync
    PROVE  IInv'
<1>1. /\ UNCHANGED <<started, m, epoch, first, line>>
      /\ source # NoSource /\ source' = NoSource /\ out' = Nothing
    BY DEF Resync
<1>2. WrittenAsOwned'
    BY <1>1 DEF WrittenAsOwned, Nothing
<1> QED BY <1>1, <1>2 DEF IInv, Types

\* Numbers of nobody are put on the line.
LEMMA NobodyGrows ==
    ASSUME NEW ln \in Seq(Owners), NEW n \in Nat, NEW nobody \in Owners, nobody[1] = 0,
           NEW tail, tail = [i \in 1..n |-> nobody], NEW e \in Nat, UpTo(ln, e)
    PROVE  /\ ln \o tail \in Seq(Owners)
           /\ Len(ln \o tail) = Len(ln) + n
           /\ \A i \in 1..Len(ln) : (ln \o tail)[i] = ln[i]
           /\ \A i \in (Len(ln) + 1)..(Len(ln) + n) : (ln \o tail)[i] = nobody
           /\ UpTo(ln \o tail, e)
<1> DEFINE longer == ln \o tail
<1>1. tail \in [1..n -> Owners] /\ \A i \in 1..n : tail[i] = nobody
    OBVIOUS
<1>2. /\ longer \in Seq(Owners)
      /\ Len(ln) \in Nat
      /\ Len(longer) = Len(ln) + n
      /\ \A i \in 1..Len(ln) : longer[i] = ln[i]
      /\ \A i \in (Len(ln) + 1)..(Len(ln) + n) : longer[i] = tail[i - Len(ln)]
    BY <1>1, Growth
<1> HIDE DEF longer
<1>3. \A i \in (Len(ln) + 1)..(Len(ln) + n) : longer[i] = nobody
    <2>1. PICK k \in Nat : k = Len(ln)
        BY <1>2
    <2>2. \A i \in (k + 1)..(k + n) : i - k \in 1..n
        OBVIOUS
    <2> QED BY <1>1, <1>2, <2>1, <2>2
<1>4. UpTo(longer, e)
    <2>1. PICK k \in Nat : k = Len(ln)
        BY <1>2
    <2>2. \A i \in 1..(k + n) : i \in 1..k \/ i \in (k + 1)..(k + n)
        OBVIOUS
    <2>3. 0 <= e
        OBVIOUS
    <2> QED BY <1>2, <1>3, <2>1, <2>2, <2>3 DEF UpTo
<1> QED BY <1>2, <1>3, <1>4 DEF longer

LEMMA PadKeeps ==
    ASSUME IInv, NEW num \in Nat, num # 0, NEW force \in BOOLEAN, Pad(num, force)
    PROVE  IInv'
<1> DEFINE r == IF started THEN m ELSE SetLastSnTs(m, DummySN)
           tail == [i \in 1..num |-> Padding]
<1>1. DummySN \in Int
    BY MungerAssumption
<1>2. /\ line \in Seq(Owners) /\ epoch \in Nat /\ Sound(m) /\ first \in Int /\ UpTo(line, epoch)
      /\ started \in BOOLEAN
    BY DEF IInv, Types
<1>3. PICK k \in Nat : k = Len(line)
    BY <1>2, OwnerTypes
<1>4. /\ m' = UpdateAndGetPaddingSnTs(r, num, force)
      /\ line' = line \o tail
      /\ out'.number = m'.last /\ out'.owner = Padding
      /\ started' = TRUE /\ source' = source /\ epoch' = epoch
      /\ first' = IF started THEN first ELSE DummySN + 1
    BY DEF Pad
<1> HIDE DEF r
\* The stream as it is before the padding.
<1>5. PICK h \in Int, o \in Int, last \in Int, f \in Int :
          /\ Sound(r) /\ h = r.highest /\ o = r.offset /\ last = r.last
          /\ f = first'
          /\ last = f + k - 1
          /\ h - o = last \/ h - o = last - 1
    <2>1. CASE started
        <3>1. r = m /\ first' = first
            BY <1>4, <2>1 DEF r
        <3>2. PICK h \in Int, o \in Int, last \in Int : h = m.highest /\ o = m.offset /\ last = m.last
            BY <1>2 DEF Sound, Mungers
        <3>3. last = first + k - 1 /\ (h - o = last \/ h - o = last - 1)
            BY <1>3, <2>1, <3>2 DEF IInv, Ends
        <3> QED BY <1>2, <3>1, <3>2, <3>3
    <2>2. CASE ~started
        <3>1. r = SetLastSnTs(m, DummySN) /\ first' = DummySN + 1
            BY <1>4, <2>2 DEF r
        <3>2. Sound(r) /\ r.highest = DummySN - 1 /\ r.last = DummySN /\ r.offset = 0
            BY <1>1, <1>2, <3>1, LastSet
        <3>3. k = 0
            <4>1. line = <<>>
                BY <2>2 DEF IInv
            <4> QED BY <1>3, <4>1
        <3>4. /\ DummySN - 1 \in Int /\ 0 \in Int /\ DummySN + 1 \in Int
              /\ DummySN = DummySN + 1 + k - 1 /\ DummySN - 1 - 0 = DummySN - 1
            BY <1>1, <3>3
        <3> QED BY <1>1, <3>1, <3>2, <3>4
    <2> QED BY <2>1, <2>2
<1>6. /\ Sound(m') /\ m'.highest = h /\ m'.last = last + num /\ m'.offset = o - num
      /\ Agrees(r.ranges, m'.ranges, h)
    <2>1. num \in Int /\ Sound(r)
        BY <1>5
    <2>2. /\ Sound(m') /\ m'.highest = r.highest /\ m'.last = r.last + num
          /\ m'.offset = r.offset - num /\ Agrees(r.ranges, m'.ranges, r.highest)
        BY <1>4, <2>1, Padded, Zenon
    <2> QED BY <1>5, <2>2
<1>7. Padding \in Owners /\ Padding[1] = 0
    BY DEF Padding, Owners
<1>8. /\ line' \in Seq(Owners)
      /\ Len(line') = k + num
      /\ \A i \in 1..k : line'[i] = line[i]
      /\ \A i \in (k + 1)..(k + num) : line'[i] = Padding
      /\ UpTo(line', epoch)
    <2>1. /\ line \o tail \in Seq(Owners)
          /\ Len(line \o tail) = Len(line) + num
          /\ \A i \in 1..Len(line) : (line \o tail)[i] = line[i]
          /\ \A i \in (Len(line) + 1)..(Len(line) + num) : (line \o tail)[i] = Padding
          /\ UpTo(line \o tail, epoch)
        <3>1. tail = [i \in 1..num |-> Padding]
            OBVIOUS
        <3> HIDE DEF tail
        <3> QED BY <1>2, <1>7, <3>1, NobodyGrows
    <2> HIDE DEF tail
    <2> QED BY <1>3, <1>4, <2>1
<1> HIDE DEF tail
<1>9. last = f + k - 1 /\ (h - o = last \/ h - o = last - 1)
    BY <1>5
<1>10. last + num = f + (k + num) - 1
    BY <1>9
<1>11. Ends(m', line', first')
    BY <1>5, <1>6, <1>8, <1>10 DEF Ends
<1>12. h - (o - num) = last + num \/ h - (o - num) = last + num - 1
    BY <1>9
<1>13. m'.highest - m'.offset = m'.last \/ m'.highest - m'.offset = m'.last - 1
    BY <1>6, <1>12
<1>14. ASSUME source # NoSource
       PROVE  epoch # 0 /\ Numbered(m', line', first', epoch)
    <2>1. epoch # 0 /\ Numbered(m, line, first, epoch) /\ started = TRUE /\ r = m /\ first' = first
        BY <1>4, <1>14 DEF IInv, Types, r
    <2>2. Kept(m', line, first, epoch) /\ Owned(m', line, first, epoch)
        <3>1. \A key, v \in Int : h < key /\ key <= h => ~Has(m'.ranges, key, v)
            OBVIOUS
        <3>2. h >= h
            OBVIOUS
        <3> QED BY <1>2, <1>5, <1>6, <2>1, <3>1, <3>2, SameNumbers DEF Numbered
    <2>3. Kept(m', line', first, epoch) /\ Owned(m', line', first, epoch)
        <3>1. k + num >= k
            OBVIOUS
        <3>2. Len(line') >= Len(line)
            BY <1>3, <1>8, <3>1
        <3>3. /\ \A i \in 1..Len(line) : line'[i] = line[i]
              /\ \A i \in (Len(line) + 1)..Len(line') : line'[i][1] = 0
            BY <1>3, <1>7, <1>8
        <3>4. Sound(m') /\ line' \in Seq(Owners)
            BY <1>6, <1>8
        <3> QED BY <1>2, <2>1, <2>2, <3>2, <3>3, <3>4, LongerLine
    <2>4. Continues(m', line', first)
        <3>1. h - o = f + k - 1
            BY <1>3, <1>5, <2>1 DEF Numbered, Continues
        <3>2. h - (o - num) = f + (k + num) - 1
            BY <3>1
        <3> QED BY <1>5, <1>6, <1>8, <2>1, <3>2 DEF Continues
    <2> QED BY <2>1, <2>3, <2>4 DEF Numbered
<1>15. WrittenAsOwned'
    <2>1. k + num # 0 /\ k + num \in (k + 1)..(k + num) /\ last + num \in Int
        OBVIOUS
    <2>2. last + num \in f..(last + num) /\ last + num - f + 1 = k + num
        BY <1>10
    <2>3. Owner(out.number)' = Padding
        <3>1. line'[k + num] = Padding
            BY <1>8, <2>1
        <3>2. out'.number - first' + 1 = k + num
            BY <1>4, <1>5, <1>6, <2>2
        <3> QED BY <3>1, <3>2 DEF Owner
    <2>4. out'.number \in first'..m'.last
        BY <1>4, <1>5, <1>6, <2>2
    <2> QED BY <1>4, <2>3, <2>4 DEF WrittenAsOwned
<1> QED BY <1>2, <1>4, <1>5, <1>6, <1>8, <1>11, <1>13, <1>14, <1>15 DEF IInv, Types

LEMMA SkimKeeps ==
    ASSUME IInv, NEW sn \in SNs, NEW marker \in BOOLEAN, Skim(sn, marker)
    PROVE  IInv'
<1>1. sn \in Int
    BY DEF SNs
<1>2. /\ line \in Seq(Owners) /\ epoch \in Nat /\ Sound(m) /\ first \in Int /\ UpTo(line, epoch)
      /\ started = TRUE /\ source = NoSource /\ Ends(m, line, first)
      /\ out' = Nothing /\ UNCHANGED <<started, source, epoch, first>>
    BY DEF IInv, Types, Skim
<1>3. PICK h \in Int, o \in Int, last \in Int : h = m.highest /\ o = m.offset /\ last = m.last
    BY <1>2 DEF Sound, Mungers
<1>4. sn > h /\ (h - o = last \/ h - o = last - 1)
    BY <1>2, <1>3 DEF IInv, Skim
<1>5. WrittenAsOwned'
    BY <1>2 DEF WrittenAsOwned, Nothing
<1>6. CASE sn = m.highest + 1 /\ m' = PacketDropped(Advance(m, sn, marker)) /\ line' = line
    <2>1. Sound(m') /\ m'.highest = sn /\ m'.last = last /\ m'.offset = o + 1
        BY <1>1, <1>2, <1>3, <1>6, Skipped
    <2>2. sn - (o + 1) = last \/ sn - (o + 1) = last - 1
        BY <1>1, <1>3, <1>4, <1>6
    <2>3. Ends(m', line', first')
        BY <1>2, <1>3, <1>6, <2>1 DEF Ends
    <2> QED BY <1>2, <1>5, <1>6, <2>1, <2>2, <2>3 DEF IInv, Types
<1>7. CASE /\ sn > m.highest + 1
           /\ m' = Advance(m, sn, marker)
           /\ line' = line \o [i \in 1..(m'.last - m.last) |-> Lost]
    <2>1. Sound(m') /\ m'.highest = sn /\ m'.last = sn - o /\ m'.offset = o
        BY <1>1, <1>2, <1>3, <1>4, <1>7, Advanced
    <2>2. PICK n \in Nat : n = sn - o - last
        BY <1>1, <1>3, <1>4, <1>7
    <2>3. m'.last - m.last = n
        BY <1>3, <2>1, <2>2
    <2>4. Lost \in Owners /\ Lost[1] = 0
        BY DEF Lost, Owners
    <2>5. PICK k \in Nat : k = Len(line)
        BY <1>2, OwnerTypes
    <2>6. line' \in Seq(Owners) /\ Len(line') = k + n /\ UpTo(line', epoch)
        <3> DEFINE tail == [i \in 1..n |-> Lost]
        <3>1. line' = line \o tail
            BY <1>7, <2>3
        <3>2. tail = [i \in 1..n |-> Lost]
            OBVIOUS
        <3> HIDE DEF tail
        <3>3. /\ line \o tail \in Seq(Owners)
              /\ Len(line \o tail) = Len(line) + n
              /\ UpTo(line \o tail, epoch)
            BY <1>2, <2>4, <3>2, NobodyGrows
        <3> QED BY <2>5, <3>1, <3>3
    <2>7. Ends(m', line', first')
        <3>1. last = first + k - 1
            BY <1>2, <1>3, <2>5 DEF Ends
        <3>2. sn - o = first + (k + n) - 1
            BY <1>1, <1>2, <2>2, <3>1
        <3> QED BY <1>2, <2>1, <2>6, <3>2 DEF Ends
    <2> QED BY <1>2, <1>5, <2>1, <2>6, <2>7 DEF IInv, Types
<1> QED BY <1>6, <1>7 DEF Skim

-----------------------------------------------------------------------------

LEMMA InitHolds == Init => IInv
<1> SUFFICES ASSUME Init PROVE IInv
    OBVIOUS
<1>1. /\ Good(ClearAndResetValue(0, 0)) /\ Open(ClearAndResetValue(0, 0)).start = 0
      /\ Open(ClearAndResetValue(0, 0)).value = 0
    BY FreshMap
<1>2. m \in Mungers
    BY <1>1 DEF Init, Mungers, Good
<1>3. Sound(m)
    BY <1>1, <1>2 DEF Init, Sound
<1>4. line \in Seq(Owners) /\ Len(line) = 0
    BY DEF Init
<1>5. WrittenAsOwned
    BY DEF Init, WrittenAsOwned
<1>6. UpTo(line, epoch)
    BY <1>4 DEF UpTo
<1>7. Types
    <2>1. started \in BOOLEAN
        BY DEF Init
    <2>2. epoch \in Nat /\ first \in Int
        BY DEF Init
    <2> QED BY <1>3, <1>4, <2>1, <2>2 DEF Types
<1>8. ~started /\ line = <<>> /\ source = NoSource
    BY DEF Init
<1> QED BY <1>5, <1>6, <1>7, <1>8 DEF IInv

LEMMA NextKeeps == IInv /\ [Next]_vars => IInv'
<1> SUFFICES ASSUME IInv, [Next]_vars PROVE IInv'
    OBVIOUS
<1>1. CASE UNCHANGED vars
    BY <1>1 DEF vars, IInv, Types, WrittenAsOwned, Owner
<1>2. ASSUME NEW s \in Sources, NEW sn \in SNs, NEW marker \in BOOLEAN,
             Start(s, sn, marker) \/ Switch(s, sn, marker)
      PROVE  IInv'
    BY <1>2, StartKeeps, SwitchKeeps
<1>3. ASSUME NEW sn \in SNs, NEW marker \in BOOLEAN, NextPacket(sn, marker) \/ Skim(sn, marker)
      PROVE  IInv'
    BY <1>3, NextPacketKeeps, SkimKeeps
<1>4. ASSUME NEW sn \in SNs, LatePacket(sn) PROVE IInv'
    BY <1>4, LatePacketKeeps
<1>5. ASSUME NEW num \in 1..MaxPadding, NEW force \in BOOLEAN, Pad(num, force) PROVE IInv'
    <2>1. num \in Nat /\ num # 0
        BY MungerAssumption
    <2> QED BY <1>5, <2>1, PadKeeps
<1>6. CASE Resync
    BY <1>6, ResyncKeeps
<1> QED BY <1>1, <1>2, <1>3, <1>4, <1>5, <1>6 DEF Next

\* What the invariant says of the numbers that are handed out.
LEMMA InvariantNumbers == IInv => NumbersInLine
<1> SUFFICES ASSUME IInv PROVE NumbersInLine
    OBVIOUS
<1>1. line \in Seq(Owners) /\ Sound(m) /\ first \in Int
    BY DEF IInv, Types
<1>2. PICK h \in Int, o \in Int, last \in Int, k \in Nat :
          h = m.highest /\ o = m.offset /\ last = m.last /\ k = Len(line)
    BY <1>1, OwnerTypes DEF Sound, Mungers
<1>3. LineEnds
    <2>1. started => m.last = first + Len(line) - 1
        BY DEF IInv, Ends
    <2>2. ASSUME source # NoSource, started PROVE m.highest + 1 - m.offset = m.last + 1
        <3>1. last = first + k - 1 /\ h - o = first + k - 1
            BY <1>2, <2>2 DEF IInv, Numbered, Continues, Ends
        <3>2. h + 1 - o = last + 1
            BY <1>1, <3>1
        <3> QED BY <1>2, <3>2
    <2> QED BY <2>1, <2>2 DEF LineEnds
<1>4. ASSUME source # NoSource, NEW i \in DOMAIN line,
             line[i][1] = epoch, line[i][2] >= m.ranges[1].start
      PROVE  Known(m.ranges, line[i][2]) /\ line[i][2] - GetValue(m.ranges, line[i][2]) = first + i - 1
    <2>1. i \in 1..k /\ i \in 1..Len(line)
        BY <1>1, <1>2, LenProperties
    <2>2. PICK sn \in Int : sn = line[i][2]
        BY <1>1, <2>1, OwnerTypes
    <2>3. PICK v \in Int : v = sn - (first + i - 1)
        BY <1>1, <2>1, <2>2
    <2>4. Has(m.ranges, sn, v)
        BY <1>4, <2>1, <2>2, <2>3 DEF IInv, Numbered, Kept
    <2>5. Known(m.ranges, sn) /\ GetValue(m.ranges, sn) = v
        BY <1>1, <2>4, HasValue DEF Sound
    <2>6. sn - v = first + i - 1
        BY <1>1, <2>1, <2>3
    <2> QED BY <2>2, <2>5, <2>6
<1>5. LateFindsNumber
    BY <1>4 DEF LateFindsNumber
<1> QED BY <1>3, <1>5 DEF NumbersInLine

\* The invariant holds, for every number of sources, packets and ranges kept.
THEOREM Invariance == Spec => []IInv
<1> QED BY InitHolds, NextKeeps, PTL DEF Spec

\* NumbersInLine: no number is used twice, the next packet gets the next
\* number, and a late one finds its own (rtpmunger.go:118-234, 318-321).
THEOREM LineTheorem == Spec => []NumbersInLine
<1> QED BY Invariance, InvariantNumbers, PTL

\* WrittenAsOwned: a packet goes out under the number it owns
\* (rtpmunger.go:167-255).
THEOREM WrittenTheorem == Spec => []WrittenAsOwned
<1>1. IInv => WrittenAsOwned
    BY DEF IInv
<1> QED BY Invariance, <1>1, PTL

=============================================================================
