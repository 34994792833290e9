-------------------------- MODULE RangeMap_proofs --------------------------
(***************************************************************************)
(* What the operations of RangeMap do to a map, for every number of ranges *)
(* it keeps: the ranges stay apart and in order, the open one is the last, *)
(* and up to the place of the change every key keeps its value, unless its *)
(* range is forgotten.                                                     *)
(***************************************************************************)
EXTENDS RangeMap, SequenceTheorems, TLAPS

Spans == [start : Int, end : Int, value : Int]

\* The closed ranges are not empty, and each is before the next.
Good(r) ==
    /\ r \in Seq(Spans)
    /\ Len(r) \in Nat \ {0}
    /\ \A i, j \in 1..Len(r) : i < j => r[i].start <= r[i].end /\ r[i].end < r[j].start

\* Key has the value val in the map.
Has(r, key, val) == \E i \in 1..Len(r) : Covers(r, i, key) /\ r[i].value = val

\* Up to key top, q has the values that r has, apart from keys that are too old for q.
Agrees(r, q, top) ==
    \A key, val \in Int : key <= top =>
        /\ Has(q, key, val) => Has(r, key, val)
        /\ key >= q[1].start => key >= r[1].start
        /\ key >= q[1].start /\ Has(r, key, val) => Has(q, key, val)

LEMMA Elements ==
    ASSUME NEW r \in Seq(Spans)
    PROVE  /\ Len(r) \in Nat
           /\ \A i \in 1..Len(r) :
                r[i] \in Spans /\ r[i].start \in Int /\ r[i].end \in Int /\ r[i].value \in Int
<1>1. Len(r) \in Nat /\ \A i \in 1..Len(r) : r[i] \in Spans
    BY LenProperties, ElementOfSeq
<1>2. \A x \in Spans : x.start \in Int /\ x.end \in Int /\ x.value \in Int
    BY DEF Spans
<1> QED BY <1>1, <1>2

\* The lookup finds the value.
LEMMA HasValue ==
    ASSUME NEW r, Good(r), NEW key \in Int, NEW val, Has(r, key, val)
    PROVE  Known(r, key) /\ GetValue(r, key) = val
<1>1. PICK i \in 1..Len(r) : Covers(r, i, key) /\ r[i].value = val
    BY DEF Has
<1>2. DOMAIN r = 1..Len(r) /\ \A j \in 1..Len(r) : r[j] \in Spans
    BY LenProperties, ElementOfSeq DEF Good
<1>3. ASSUME NEW j \in 1..Len(r), Covers(r, j, key) PROVE j = i
    <2>1. key \in Int /\ r[i] \in Spans /\ r[j] \in Spans /\ Len(r) \in Nat
        BY <1>2 DEF Good
    <2>2. key >= r[i].start /\ (i # Len(r) => key <= r[i].end)
        BY <1>1 DEF Covers
    <2>3. key >= r[j].start /\ (j # Len(r) => key <= r[j].end)
        BY <1>3 DEF Covers
    <2>4. /\ i < j => r[i].end < r[j].start
          /\ j < i => r[j].end < r[i].start
        BY DEF Good
    <2> QED BY <2>1, <2>2, <2>3, <2>4 DEF Spans
<1>4. i = CHOOSE j \in DOMAIN r : Covers(r, j, key)
    BY <1>1, <1>2, <1>3
<1> QED BY <1>1, <1>2, <1>4 DEF Known, GetValue

\* From its start on the open range has all keys.
LEMMA OpenValue ==
    ASSUME NEW r, Good(r), NEW key \in Int, key >= Open(r).start
    PROVE  /\ Open(r) \in Spans
           /\ Has(r, key, Open(r).value)
           /\ \A val \in Int : Has(r, key, val) => val = Open(r).value
           /\ GetValue(r, key) = Open(r).value
<1>1. Len(r) \in 1..Len(r) /\ \A j \in 1..Len(r) : r[j] \in Spans
    BY ElementOfSeq DEF Good
<1>2. Has(r, key, Open(r).value)
    BY <1>1 DEF Has, Covers, Open
<1>3. GetValue(r, key) = Open(r).value
    BY <1>2, HasValue
<1>4. ASSUME NEW val \in Int, Has(r, key, val) PROVE val = Open(r).value
    BY <1>3, <1>4, HasValue
<1> QED BY <1>1, <1>2, <1>3, <1>4 DEF Open

\* No key before the first range is in the map.
LEMMA TooOld ==
    ASSUME NEW r, Good(r), NEW key \in Int, NEW val, Has(r, key, val)
    PROVE  key >= r[1].start
<1>1. PICK i \in 1..Len(r) : Covers(r, i, key) /\ r[i].value = val
    BY DEF Has
<1>2. 1 \in 1..Len(r) /\ \A j \in 1..Len(r) : r[j] \in Spans
    BY ElementOfSeq DEF Good
<1>3. CASE i = 1
    BY <1>1, <1>3 DEF Covers
<1>4. CASE i > 1
    BY <1>1, <1>2, <1>4 DEF Covers, Good, Spans
<1> QED BY <1>3, <1>4

LEMMA FreshMap ==
    ASSUME NEW start \in Int, NEW val \in Int
    PROVE  /\ Good(ClearAndResetValue(start, val))
           /\ Open(ClearAndResetValue(start, val)).start = start
           /\ Open(ClearAndResetValue(start, val)).value = val
           /\ \A key, v \in Int : key < start => ~Has(ClearAndResetValue(start, val), key, v)
<1> DEFINE q == ClearAndResetValue(start, val)
<1>1. q \in Seq(Spans) /\ Len(q) = 1 /\ q[1] = [start |-> start, end |-> 0, value |-> val]
    BY DEF ClearAndResetValue, Spans
<1>2. Good(q)
    BY <1>1 DEF Good
<1>3. \A key, v \in Int : key < start => ~Has(q, key, v)
    BY <1>1, <1>2, TooOld
<1> QED BY <1>1, <1>2, <1>3 DEF Open

-----------------------------------------------------------------------------
(* Closing the open range. *)

\* The map with the new range, before ranges are forgotten.
Longer(r, end, start, val) ==
    Append([r EXCEPT ![Len(r)].end = end], [start |-> start, end |-> 0, value |-> val])

\* q is all, which has n + 1 ranges, without its first d.
Without(q, all, n, d) ==
    /\ q \in Seq(Spans)
    /\ Len(q) = n + 1 - d
    /\ \A i \in 1..Len(q) : q[i] = all[i + d]

\* Divide by its elements.
LEMMA DivideElements ==
    ASSUME NEW r, Good(r), NEW end \in Int, NEW start \in Int, NEW val \in Int
    PROVE  \E d \in 0..(Len(r) - 1) :
               Without(Divide(r, end, start, val), Longer(r, end, start, val), Len(r), d)
<1> DEFINE closed == [r EXCEPT ![Len(r)].end = end]
           new == [start |-> start, end |-> 0, value |-> val]
           all == Append(closed, new)
           q == Divide(r, end, start, val)
<1>1. Len(r) \in 1..Len(r) /\ r[Len(r)] \in Spans /\ r \in Seq(Spans) /\ Len(r) \in Nat
    BY ElementOfSeq DEF Good
<1>2. [r[Len(r)] EXCEPT !.end = end] \in Spans
    BY <1>1 DEF Spans
<1>3. closed \in Seq(Spans) /\ Len(closed) = Len(r)
    <2>1. closed = [r EXCEPT ![Len(r)] = [r[Len(r)] EXCEPT !.end = end]]
        OBVIOUS
    <2> QED BY <1>1, <1>2, <2>1, ExceptSeq
<1>4. new \in Spans
    BY DEF Spans
<1>5. all \in Seq(Spans) /\ Len(all) = Len(r) + 1
    BY <1>3, <1>4, AppendProperties
<1>6. q = Prune(all)
    BY DEF Divide
<1> HIDE DEF closed, new, all, q
<1>7. CASE Len(all) > Size + 1
    <2> DEFINE d == Len(all) - Size - 1
    <2>1. Size \in Nat \ {0}
        BY RangeMapAssumption
    <2>2. q = SubSeq(all, Len(all) - Size, Len(all))
        BY <1>6, <1>7 DEF Prune
    <2>3. d \in 0..(Len(r) - 1)
        BY <1>1, <1>5, <1>7, <2>1
    <2>4. Len(all) - Size \in Int /\ Len(all) \in Int
        BY <1>1, <1>5, <2>1
    <2>5. \A i \in (Len(all) - Size)..Len(all) : all[i] \in Spans
        BY <1>1, <1>5, <1>7, <2>1, ElementOfSeq
    <2>6. /\ q \in Seq(Spans)
          /\ Len(q) = Len(all) - (Len(all) - Size) + 1
          /\ \A i \in 1..(Len(all) - (Len(all) - Size) + 1) : q[i] = all[Len(all) - Size + i - 1]
        BY <2>1, <2>2, <2>4, <2>5, SubSeqProperties
    <2>7. Len(q) = Len(r) + 1 - d
        BY <1>1, <1>5, <2>1, <2>6
    <2>8. \A i \in 1..Len(q) : q[i] = all[i + d]
        <3>1. TAKE i \in 1..Len(q)
        <3>2. i \in 1..(Len(all) - (Len(all) - Size) + 1) /\ Len(all) - Size + i - 1 = i + d
            BY <1>1, <1>5, <2>1, <2>6
        <3> QED BY <2>6, <3>2
    <2>9. Without(q, all, Len(r), d)
        BY <2>6, <2>7, <2>8 DEF Without
    <2> QED BY <2>3, <2>9 DEF all, closed, new, q, Longer
<1>8. CASE ~(Len(all) > Size + 1)
    <2>1. q = all
        BY <1>6, <1>8 DEF Prune
    <2>2. \A i \in 1..Len(q) : q[i] = all[i + 0]
        BY <1>5, <1>1, <2>1
    <2>3. 0 \in 0..(Len(r) - 1) /\ Len(q) = Len(r) + 1 - 0
        BY <1>1, <1>5, <2>1
    <2>4. Without(q, all, Len(r), 0)
        BY <1>5, <2>1, <2>2, <2>3 DEF Without
    <2> QED BY <2>3, <2>4 DEF all, closed, new, q, Longer
<1> QED BY <1>7, <1>8

LEMMA DivideKeeps ==
    ASSUME NEW r, Good(r), NEW end \in Int, NEW start \in Int, NEW val \in Int,
           Open(r).start <= end, end < start
    PROVE  LET q == Divide(r, end, start, val) IN
           /\ Good(q)
           /\ Open(q) = [start |-> start, end |-> 0, value |-> val]
           /\ Agrees(r, q, end)
           /\ \A key, v \in Int : end < key /\ key < start => ~Has(q, key, v)
<1> DEFINE q == Divide(r, end, start, val)
           new == [start |-> start, end |-> 0, value |-> val]
           all == Longer(r, end, start, val)
<1>0. PICK d \in 0..(Len(r) - 1) :
          Without(Divide(r, end, start, val), Longer(r, end, start, val), Len(r), d)
    BY DivideElements
<1>1. /\ d \in 0..(Len(r) - 1)
      /\ q \in Seq(Spans)
      /\ Len(q) = Len(r) + 1 - d
      /\ \A i \in 1..Len(q) : q[i] = all[i + d]
    BY <1>0 DEF Without
<1> HIDE DEF q, all
<1>2. /\ Len(r) \in Nat \ {0} /\ r \in Seq(Spans)
      /\ \A i \in 1..Len(r) :
            r[i] \in Spans /\ r[i].start \in Int /\ r[i].end \in Int /\ r[i].value \in Int
    BY Elements DEF Good
<1>3. /\ new \in Spans /\ new.start = start
      /\ \A i \in 1..Len(q) : q[i].start \in Int /\ q[i].end \in Int
    <2>1. new \in Spans /\ new.start = start
        BY DEF Spans
    <2> QED BY <1>1, <2>1, Elements
<1>4. /\ Len(q) \in Nat /\ Len(q) > 1
      /\ q[Len(q)] = new
      /\ \A i \in 1..(Len(q) - 1) :
          /\ i + d \in 1..Len(r)
          /\ q[i] = IF i + d = Len(r) THEN [r[Len(r)] EXCEPT !.end = end] ELSE r[i + d]
    <2> DEFINE closed == [r EXCEPT ![Len(r)].end = end]
    <2>1. closed = [r EXCEPT ![Len(r)] = [r[Len(r)] EXCEPT !.end = end]]
        OBVIOUS
    <2>2. [r[Len(r)] EXCEPT !.end = end] \in Spans
        <3>1. r[Len(r)] \in Spans
            BY <1>2
        <3> QED BY <3>1 DEF Spans
    <2>3. /\ closed \in Seq(Spans)
          /\ Len(closed) = Len(r)
          /\ \A j \in 1..Len(r) : closed[j] = IF j = Len(r) THEN [r[Len(r)] EXCEPT !.end = end] ELSE r[j]
        BY <1>2, <2>1, <2>2, ExceptSeq
    <2> HIDE DEF closed, new
    <2>4. /\ Len(all) = Len(r) + 1
          /\ \A j \in 1..Len(r) : all[j] = closed[j]
          /\ all[Len(r) + 1] = new
        <3>1. all = Append(closed, new)
            BY DEF all, closed, new, Longer
        <3> QED BY <1>2, <1>3, <2>3, <3>1, AppendProperties
    <2>5. Len(q) \in Nat /\ Len(q) > 1 /\ q[Len(q)] = new
        BY <1>1, <1>2, <2>4
    <2>6. ASSUME NEW i \in 1..(Len(q) - 1)
          PROVE  i + d \in 1..Len(r) /\ q[i] = all[i + d]
        BY <1>1, <1>2, <2>5
    <2> QED BY <2>3, <2>4, <2>5, <2>6
<1>5. \A i \in 1..(Len(q) - 1) :
          /\ i + d \in 1..Len(r)
          /\ q[i].start = r[i + d].start /\ q[i].value = r[i + d].value
          /\ q[i].end = IF i + d = Len(r) THEN end ELSE r[i + d].end
    BY <1>2, <1>4 DEF Spans
<1>6. Good(q)
    <2>1. ASSUME NEW i \in 1..Len(q), NEW j \in 1..Len(q), i < j
          PROVE  q[i].start <= q[i].end /\ q[i].end < q[j].start
        <3>1. i \in 1..(Len(q) - 1) /\ i + d \in 1..Len(r)
            BY <1>4, <1>5, <2>1
        <3>2. q[i].start <= q[i].end
            <4>1. CASE i + d = Len(r)
                BY <1>5, <3>1, <4>1 DEF Open
            <4>2. CASE i + d # Len(r)
                BY <1>2, <1>5, <3>1, <4>2 DEF Good
            <4> QED BY <4>1, <4>2
        <3>3. CASE j = Len(q)
            <4>1. r[i + d].end <= end \/ i + d = Len(r)
                <5>1. ASSUME i + d # Len(r) PROVE r[i + d].end < r[Len(r)].start
                    BY <1>2, <3>1, <5>1 DEF Good
                <5>2. r[i + d].end \in Int /\ r[Len(r)].start \in Int /\ r[Len(r)].start <= end
                    BY <1>2, <3>1 DEF Open
                <5> QED BY <5>1, <5>2
            <4> QED BY <1>2, <1>3, <1>4, <1>5, <3>1, <3>2, <3>3, <4>1
        <3>4. CASE j # Len(q)
            <4>1. j \in 1..(Len(q) - 1) /\ j + d \in 1..Len(r) /\ i + d < j + d /\ i + d # Len(r)
                <5>1. j \in 1..(Len(q) - 1)
                    BY <1>4, <3>4
                <5>2. j + d \in 1..Len(r)
                    BY <1>5, <5>1
                <5> QED BY <1>1, <1>2, <2>1, <3>1, <5>1, <5>2
            <4>2. r[i + d].end < r[j + d].start
                BY <3>1, <4>1 DEF Good
            <4> QED BY <1>5, <3>1, <3>2, <4>1, <4>2
        <3> QED BY <3>3, <3>4
    <2> QED BY <1>1, <1>4, <2>1 DEF Good
<1>7. \A key, v \in Int : key < start /\ Has(q, key, v) => Has(r, key, v) /\ key <= end
    <2>1. TAKE key, v \in Int
    <2>2. HAVE key < start /\ Has(q, key, v)
    <2>3. PICK i \in 1..Len(q) : Covers(q, i, key) /\ q[i].value = v
        BY <2>2 DEF Has
    <2>4. i # Len(q)
        BY <1>3, <1>4, <2>2, <2>3 DEF Covers
    <2>5. i \in 1..(Len(q) - 1) /\ key >= q[i].start /\ key <= q[i].end
        BY <1>4, <2>3, <2>4 DEF Covers
    <2>6. i + d \in 1..Len(r) /\ r[i + d].value = v /\ Covers(r, i + d, key)
        BY <1>5, <2>3, <2>5 DEF Covers
    <2>7. key <= end
        <3>1. CASE i + d = Len(r)
            BY <1>5, <2>5, <3>1
        <3>2. CASE i + d # Len(r)
            <4>1. r[i + d].end < r[Len(r)].start
                BY <1>2, <2>6, <3>2 DEF Good
            <4> QED BY <1>2, <1>5, <2>5, <2>6, <3>2, <4>1 DEF Open
        <3> QED BY <3>1, <3>2
    <2> QED BY <2>6, <2>7 DEF Has
<1>8. ASSUME NEW key \in Int, NEW v \in Int, key <= end, key >= q[1].start
      PROVE  key >= r[1].start /\ (Has(r, key, v) => Has(q, key, v))
    <2>1. 1 \in 1..(Len(q) - 1) /\ 1 + d \in 1..Len(r) /\ q[1].start = r[1 + d].start
        <3>1. Len(q) \in Nat /\ Len(q) > 1
            BY <1>4
        <3>2. 1 \in 1..(Len(q) - 1)
            BY <3>1
        <3> QED BY <1>5, <3>2
    <2>2. r[1 + d].start >= r[1].start
        <3>1. CASE d = 0
            BY <1>2, <3>1 DEF Spans
        <3>2. CASE d # 0
            <4>1. 1 \in 1..Len(r) /\ 1 < 1 + d
                BY <1>2, <3>2
            <4>2. r[1].start <= r[1].end /\ r[1].end < r[1 + d].start
                BY <2>1, <4>1 DEF Good
            <4> QED BY <1>2, <2>1, <4>1, <4>2
        <3> QED BY <3>1, <3>2
    <2>3. key >= r[1].start
        BY <1>2, <1>8, <2>1, <2>2
    <2>4. ASSUME Has(r, key, v) PROVE Has(q, key, v)
        <3>1. PICK k \in 1..Len(r) : Covers(r, k, key) /\ r[k].value = v
            BY <2>4 DEF Has
        <3>2. k >= 1 + d
            <4>1. ASSUME k < 1 + d PROVE FALSE
                <5>1. r[k].end < r[1 + d].start
                    BY <2>1, <4>1 DEF Good
                <5>2. k # Len(r)
                    BY <1>2, <2>1, <4>1
                <5> QED BY <1>2, <1>8, <2>1, <3>1, <5>1, <5>2 DEF Covers
            <4> QED BY <4>1
        <3>3. k - d \in 1..(Len(q) - 1) /\ (k - d) + d = k
            BY <1>1, <1>2, <3>2
        <3>4. /\ q[k - d].start = r[k].start /\ q[k - d].value = v
              /\ q[k - d].end = IF k = Len(r) THEN end ELSE r[k].end
            BY <1>5, <3>1, <3>3
        <3>5. Covers(q, k - d, key)
            BY <1>8, <3>1, <3>4 DEF Covers
        <3>6. k - d \in 1..Len(q)
            BY <1>4, <3>3
        <3> QED BY <3>4, <3>5, <3>6 DEF Has
    <2> QED BY <2>3, <2>4
<1>9. Agrees(r, q, end)
    BY <1>7, <1>8 DEF Agrees
<1>10. \A key, v \in Int : end < key /\ key < start => ~Has(q, key, v)
    BY <1>7
<1> QED BY <1>4, <1>6, <1>9, <1>10 DEF Open, q, new

-----------------------------------------------------------------------------
(* The operations of the munger. *)

\* The open range moves ahead, or changes its value.
LEMMA MovedOpen ==
    ASSUME NEW r, Good(r), NEW q \in Seq(Spans), Len(q) = Len(r),
           \A i \in 1..(Len(r) - 1) : q[i] = r[i],
           Open(q).start >= Open(r).start
    PROVE  /\ Good(q)
           /\ \A top \in Int : top < Open(r).start => Agrees(r, q, top)
           /\ \A key, v \in Int :
                Open(r).start <= key /\ key < Open(q).start => ~Has(q, key, v)
<1>1. /\ Len(r) \in Nat \ {0} /\ r \in Seq(Spans)
      /\ \A i \in 1..Len(r) : r[i].start \in Int /\ r[i].end \in Int /\ r[i].value \in Int
      /\ \A i \in 1..Len(r) : q[i].start \in Int /\ q[i].end \in Int /\ q[i].value \in Int
    BY Elements DEF Good
<1>2. Len(r) \in 1..Len(r) /\ Open(r) = r[Len(r)] /\ Open(q) = q[Len(r)]
    BY <1>1 DEF Open
<1>3. Good(q)
    <2>1. ASSUME NEW i \in 1..Len(q), NEW j \in 1..Len(q), i < j
          PROVE  q[i].start <= q[i].end /\ q[i].end < q[j].start
        <3>1. q[i] = r[i] /\ r[i].start <= r[i].end /\ r[i].end < r[j].start
            BY <1>1, <2>1 DEF Good
        <3>2. CASE j = Len(r)
            BY <1>1, <1>2, <3>1, <3>2
        <3>3. CASE j # Len(r)
            <4>1. q[j] = r[j]
                BY <1>1, <3>3
            <4> QED BY <3>1, <4>1
        <3> QED BY <3>2, <3>3
    <2> QED BY <1>1, <2>1 DEF Good
<1>4. ASSUME NEW key \in Int, NEW v \in Int, key < Open(r).start
      PROVE  /\ Has(q, key, v) => Has(r, key, v)
             /\ key >= q[1].start => key >= r[1].start
             /\ Has(r, key, v) => Has(q, key, v)
    <2>1. ASSUME NEW i \in 1..Len(r), Covers(q, i, key) \/ Covers(r, i, key)
          PROVE  i \in 1..(Len(r) - 1) /\ q[i] = r[i]
        <3>1. i # Len(r)
            BY <1>1, <1>2, <1>4, <2>1 DEF Covers
        <3> QED BY <1>1, <3>1
    <2>2. \A i \in 1..Len(r) : q[i] = r[i] => (Covers(q, i, key) <=> Covers(r, i, key))
        BY DEF Covers
    <2>3. Has(q, key, v) <=> Has(r, key, v)
        BY <2>1, <2>2 DEF Has
    <2>4. key >= q[1].start => key >= r[1].start
        <3>1. CASE Len(r) = 1
            BY <1>1, <1>2, <1>4, <3>1
        <3>2. CASE Len(r) # 1
            <4>1. 1 \in 1..(Len(r) - 1)
                BY <1>1, <3>2
            <4> QED BY <4>1
        <3> QED BY <3>1, <3>2
    <2> QED BY <2>3, <2>4
<1>5. ASSUME NEW key \in Int, NEW v \in Int, Open(r).start <= key, key < Open(q).start
      PROVE  ~Has(q, key, v)
    <2>1. SUFFICES ASSUME NEW i \in 1..Len(q), Covers(q, i, key) PROVE FALSE
        BY DEF Has
    <2>2. i # Len(r)
        BY <1>1, <1>2, <1>5, <2>1 DEF Covers
    <2>3. i \in 1..(Len(r) - 1) /\ i \in 1..Len(r) /\ i < Len(r)
        BY <1>1, <2>2
    <2>4. r[i].end < r[Len(r)].start
        BY <1>2, <2>3 DEF Good
    <2>5. q[i].end = r[i].end
        BY <2>3
    <2> QED BY <1>1, <1>2, <1>5, <2>1, <2>2, <2>3, <2>4, <2>5 DEF Covers
<1>6. ASSUME NEW top \in Int, top < Open(r).start PROVE Agrees(r, q, top)
    <2>1. \A key \in Int : key <= top => key < Open(r).start
        BY <1>1, <1>2, <1>6
    <2> QED BY <1>4, <2>1 DEF Agrees
<1> QED BY <1>3, <1>5, <1>6

\* A key that is dropped: it is in no range, those before it keep their values,
\* and those after it have one more.
LEMMA ExcludeOne ==
    ASSUME NEW r, Good(r), NEW key \in Int, Open(r).start <= key
    PROVE  /\ Good(ExcludeRange(r, key, key + 1))
           /\ Open(ExcludeRange(r, key, key + 1)).start = key + 1
           /\ Open(ExcludeRange(r, key, key + 1)).value = Open(r).value + 1
           /\ Agrees(r, ExcludeRange(r, key, key + 1), key - 1)
           /\ \A v \in Int : ~Has(ExcludeRange(r, key, key + 1), key, v)
<1> DEFINE q == ExcludeRange(r, key, key + 1)
           val == Open(r).value + (key + 1) - key
<1>1. /\ Len(r) \in Nat \ {0} /\ r \in Seq(Spans) /\ Len(r) \in 1..Len(r)
      /\ r[Len(r)] \in Spans
      /\ Open(r) = r[Len(r)] /\ Open(r).start \in Int /\ Open(r).value \in Int
    BY Elements DEF Good, Open
<1>2. val \in Int /\ val = Open(r).value + 1
    BY <1>1
<1>3. CASE Open(r).start = key
    <2> DEFINE moved == [start |-> key + 1, end |-> 0, value |-> val]
    <2>1. q = [r EXCEPT ![Len(r)] = moved]
        BY <1>1, <1>3 DEF ExcludeRange
    <2> HIDE DEF q, val
    <2>2. moved \in Spans /\ moved.start = key + 1 /\ moved.value = val
        BY <1>2 DEF Spans
    <2> HIDE DEF moved
    <2>3. /\ q \in Seq(Spans) /\ Len(q) = Len(r)
          /\ \A i \in 1..(Len(r) - 1) : q[i] = r[i]
          /\ q[Len(r)] = moved
        BY <1>1, <2>1, <2>2, ExceptSeq
    <2>4. Open(q).start = key + 1 /\ Open(q).value = val
        BY <2>2, <2>3 DEF Open
    <2>5. /\ Good(q)
          /\ \A top \in Int : top < Open(r).start => Agrees(r, q, top)
          /\ \A k, v \in Int : Open(r).start <= k /\ k < Open(q).start => ~Has(q, k, v)
        BY <1>1, <1>3, <2>3, <2>4, MovedOpen
    <2> QED BY <1>2, <1>3, <2>4, <2>5 DEF q
<1>4. CASE Open(r).start < key
    <2>1. q = Divide(r, key - 1, key + 1, val)
        BY <1>1, <1>4 DEF ExcludeRange
    <2> HIDE DEF q, val
    <2>2. /\ Good(q)
          /\ Open(q) = [start |-> key + 1, end |-> 0, value |-> val]
          /\ Agrees(r, q, key - 1)
          /\ \A k, v \in Int : key - 1 < k /\ k < key + 1 => ~Has(q, k, v)
        <3> DEFINE before == key - 1
                   after == key + 1
        <3>1. /\ before \in Int /\ after \in Int /\ Open(r).start <= before /\ before < after
              /\ q = Divide(r, before, after, val)
            BY <1>1, <1>4, <2>1
        <3> HIDE DEF before, after
        <3>2. /\ Good(q)
              /\ Open(q) = [start |-> after, end |-> 0, value |-> val]
              /\ Agrees(r, q, before)
            BY <1>2, <3>1, DivideKeeps
        <3>3. \A k, v \in Int : before < k /\ k < after => ~Has(q, k, v)
            BY <1>2, <3>1, DivideKeeps
        <3> QED BY <3>2, <3>3 DEF before, after
    <2> QED BY <1>2, <2>2 DEF q
<1> QED BY <1>1, <1>3, <1>4

\* Padding after key end: the keys up to it keep their values, those after it
\* have so many less.
LEMMA DecAfter ==
    ASSUME NEW r, Good(r), NEW end \in Int, NEW dec \in Int, Open(r).start <= end + 1
    PROVE  /\ Good(DecValue(r, end, dec))
           /\ Open(DecValue(r, end, dec)).start = end + 1
           /\ Open(DecValue(r, end, dec)).value = Open(r).value - dec
           /\ Agrees(r, DecValue(r, end, dec), end)
<1> DEFINE q == DecValue(r, end, dec)
           val == Open(r).value - dec
<1>1. /\ Len(r) \in Nat \ {0} /\ r \in Seq(Spans) /\ Len(r) \in 1..Len(r)
      /\ r[Len(r)] \in Spans
      /\ Open(r) = r[Len(r)] /\ Open(r).start \in Int /\ Open(r).value \in Int
    BY Elements DEF Good, Open
<1>2. val \in Int
    BY <1>1
<1>3. CASE Open(r).start > end
    <2> DEFINE moved == [r[Len(r)] EXCEPT !.value = val]
    <2>1. q = [r EXCEPT ![Len(r)] = moved]
        <3>1. q = [r EXCEPT ![Len(r)].value = r[Len(r)].value - dec]
            BY <1>1, <1>3 DEF DecValue
        <3> QED BY <1>1, <3>1
    <2>2. moved \in Spans /\ moved.start = Open(r).start /\ moved.value = val
        BY <1>1, <1>2 DEF Spans
    <2> HIDE DEF q, moved, val
    <2>3. /\ q \in Seq(Spans) /\ Len(q) = Len(r)
          /\ \A i \in 1..(Len(r) - 1) : q[i] = r[i]
          /\ q[Len(r)] = moved
        BY <1>1, <2>1, <2>2, ExceptSeq
    <2>4. Open(q).start = Open(r).start /\ Open(q).value = val
        BY <2>2, <2>3 DEF Open
    <2>5. /\ Good(q)
          /\ \A top \in Int : top < Open(r).start => Agrees(r, q, top)
        BY <1>1, <2>3, <2>4, MovedOpen
    <2>6. Open(r).start = end + 1
        BY <1>1, <1>3
    <2> QED BY <1>3, <2>4, <2>5, <2>6 DEF q, val
<1>4. CASE Open(r).start <= end
    <2>1. q = Divide(r, end, end + 1, val)
        BY <1>1, <1>4 DEF DecValue
    <2> HIDE DEF q, val
    <2>2. /\ Good(q)
          /\ Open(q) = [start |-> end + 1, end |-> 0, value |-> val]
          /\ Agrees(r, q, end)
        BY <1>2, <1>4, <2>1, DivideKeeps
    <2> QED BY <2>2 DEF q, val
<1> QED BY <1>1, <1>3, <1>4

=============================================================================
