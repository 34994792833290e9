------------------------------ MODULE RangeMap ------------------------------
(***************************************************************************)
(* RangeMap of apps/livekit/pkg/sfu/utils/rangemap.go: a value for every   *)
(* key of some consecutive ranges, the last of which is open.  A map is a  *)
(* sequence of records; the keys between two ranges are excluded.          *)
(*                                                                         *)
(* Keys and values are extended to 64 bits in the code and never come near *)
(* that limit, so they are integers here.  A value may be negative, which  *)
(* the code keeps as its complement.                                       *)
(***************************************************************************)
EXTENDS Integers, Sequences

CONSTANT Size       \* closed ranges a map keeps; older ones are forgotten

ASSUME RangeMapAssumption == Size \in Nat \ {0}

ClearAndResetValue(start, val) == <<[start |-> start, end |-> 0, value |-> val]>>

Open(r) == r[Len(r)]

Prune(r) == IF Len(r) > Size + 1 THEN SubSeq(r, Len(r) - Size, Len(r)) ELSE r

\* Close the open range at key end, and open another one at key start.
Divide(r, end, start, val) ==
    Prune(Append([r EXCEPT ![Len(r)].end = end], [start |-> start, end |-> 0, value |-> val]))

DecValue(r, end, dec) ==
    IF Open(r).start > end
    THEN [r EXCEPT ![Len(r)].value = @ - dec]
    ELSE Divide(r, end, end + 1, Open(r).value - dec)

\* An error leaves the map as it is.
ExcludeRange(r, start, end) ==
    LET moved == Open(r).value + end - start IN
    CASE Open(r).start > start -> r
      [] Open(r).start = start -> [r EXCEPT ![Len(r)] = [start |-> end, end |-> 0, value |-> moved]]
      [] Open(r).start < start -> Divide(r, start - 1, end, moved)

\* Mutant: an excluded key counts as the range before it.
CoversExcluded(r, i, key) ==
    /\ key >= r[i].start
    /\ i # Len(r) => key < r[i + 1].start

Covers(r, i, key) ==
    /\ key >= r[i].start
    /\ i # Len(r) => key <= r[i].end

\* GetValue returns no error: the key is neither too old nor excluded.
Known(r, key) == \E i \in DOMAIN r : Covers(r, i, key)

GetValue(r, key) == r[CHOOSE i \in DOMAIN r : Covers(r, i, key)].value

=============================================================================
