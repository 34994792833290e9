------------------------ MODULE Subscriptions_proofs ------------------------
(***************************************************************************)
(* Proofs about Subscriptions.                                             *)
(*                                                                         *)
(* For any number of callers: no down track is left behind by its media    *)
(* track, and the down tracks keep the subscription limit.  Callers that   *)
(* subscribe to the same track at once overwrite each other's entry in the *)
(* map, so the other properties need a single caller: what has a down      *)
(* track is in the map, the count agrees, and is bounded.                  *)
(***************************************************************************)
EXTENDS Subscriptions, FiniteSetTheorems, SequenceTheorems, TLAPS

-----------------------------------------------------------------------------
(* The invariant, for any number of callers. *)

\* TypeOK but for the bounds of the count, which follow from the rest.
Typed ==
    /\ subscriptions \in [Tracks -> Subs \cup {None}]
    /\ sub \in [Subs -> Subscription]
    /\ count \in Int
    /\ subscribedTo \subseteq Tracks
    /\ closed \in {"no", "asked", "done"}
    /\ call \in [Callers -> Call]
    /\ w \in WorkerState
    /\ permitted \in BOOLEAN
    /\ state \in [Media -> {"unborn", "open", "closing", "cleared", "closed"}]
    /\ listed \in [Tracks -> Seq(Media)]
    /\ watched \subseteq Tracks
    /\ passed \subseteq Media
    /\ removal \in [Tracks -> {"none", "notified", "gone"}]
    /\ entry \in [Media -> Downs \cup {None}]
    /\ unsub \in [Media -> 0..MaxPending]
    /\ down \in [Downs -> DownTrack]

\* What the worker holds at each point.
Worked ==
    /\ w.pc \in {"idle", "done"} => w.sub = None
    /\ w.pc \notin {"idle", "done"} => w.sub \in Subs /\ sub[w.sub].track \in Tracks
    /\ w.pc \in {"add", "look", "make", "recheck", "hook", "set", "count", "mark"} =>
          w.media \in Media
    /\ w.pc \in {"idle", "picked", "missing", "add", "look", "make", "done"} => w.down = None
    /\ w.pc \in {"hook", "set", "count"} => w.down \in Downs
    /\ w.pc = "make" => entry[w.media] = None
    /\ w.pc \in {"add", "look", "make", "recheck", "hook", "set"} => sub[w.sub].down = None

\* What the callers hold: an object of their own that nobody knows yet.
Called ==
    \A c \in Callers :
        /\ call[c].pc # "insert" => call[c].sub = None
        /\ call[c].pc # "idle" => call[c].track \in Tracks
        /\ call[c].pc = "insert" =>
              LET s == call[c].sub
              IN  /\ s \in Subs
                  /\ sub[s].track = call[c].track
                  /\ sub[s].down = None
                  /\ ~Mapped(s) /\ w.sub # s /\ s \notin Owners(Downs)
                  /\ \A b \in Callers : call[b].sub = s => b = c

\* A subscription is in the map under its own track id.
Filed == \A t \in Tracks : subscriptions[t] # None => sub[subscriptions[t]].track = t

Live(d) == down[d].phase \in {"up", "closing", "handle"}

\* A media track lists the down track that has not closed, and no other.
Entered ==
    /\ \A d \in Downs : down[d].phase \in {"up", "closing"} =>
          down[d].media \in Media /\ entry[down[d].media] = d
    /\ \A m \in Media : entry[m] # None =>
          down[entry[m]].phase \in {"up", "closing"} /\ down[entry[m]].media = m

\* A down track has an owner while its hook may still be or is being called.
Owned ==
    /\ \A d \in Downs :
          /\ down[d].phase \in {"handle", "uncount", "unmark"} => down[d].owner # None
          /\ down[d].phase \in {"none", "detach", "gone"} => down[d].owner = None
          /\ down[d].owner # None => sub[down[d].owner].track \in Tracks
    /\ w.pc \in {"recheck", "hook"} /\ w.down # None =>
          down[w.down].owner = None /\ down[w.down].media = w.media

\* A down track that forwards is owned, unless the worker is about to give it
\* an owner.
Hooked ==
    \A d \in Downs : down[d].phase = "up" =>
        down[d].owner # None \/ (w.down = d /\ w.pc \in {"recheck", "hook"})

\* The down track that the worker is about to hand over is on its way to its
\* owner or has been closed.
Given ==
    w.pc \in {"recheck", "hook", "set"} /\ w.down # None =>
        \/ Live(w.down) /\ (w.pc = "set" => down[w.down].owner = w.sub)
        \/ down[w.down].phase \in {"detach", "gone"}

\* An owner knows its down track, unless the worker is about to tell it.
Told ==
    \A d \in Downs : Live(d) /\ down[d].owner # None =>
        \/ sub[down[d].owner].down = d
        \/ w.pc = "set" /\ w.down = d /\ w.sub = down[d].owner

\* A down track has one subscription at most, which owns it or was told of it
\* after its hook was called.
Held1 ==
    \A s \in Subs : Referenced(s) /\ sub[s].down # None =>
        LET d == sub[s].down
        IN  /\ (Live(d) /\ down[d].owner = s) \/ down[d].phase \in {"detach", "gone"}
            /\ w.pc \in {"recheck", "hook", "set"} => w.down # d
            /\ \A r \in Subs : Referenced(r) /\ sub[r].down = d => r = s

\* The down tracks that the count counts.
Counting(d) ==
    \/ down[d].phase = "uncount"
    \/ Live(d) /\ down[d].owner # None /\ sub[down[d].owner].down = d

Countings == {d \in Downs : Counting(d)}

CountCovers ==
    count >= Cardinality(Countings) - (IF w.pc = "count" THEN 1 ELSE 0)

\* From the look at the limit to the counting the count stays below the limit.
Within ==
    Limit > 0 =>
        /\ count <= Limit
        /\ w.pc \in {"add", "look", "make", "recheck", "hook", "set", "count"} => count < Limit

IInv ==
    /\ Typed /\ Worked /\ Called /\ Filed
    /\ Entered /\ Owned /\ Hooked /\ Given /\ Told /\ Held1
    /\ CountCovers /\ Within /\ NoneLeftBehind

-----------------------------------------------------------------------------
USE SubscriptionsAssumption DEF managerVars, roomVars

\* The identifiers are no null values.
LEMMA Apart == None \notin Subs /\ None \notin Downs /\ None \notin Media
BY DEF Subs, Downs

\* The least of some natural numbers is one of them.
LEMMA MinNat ==
    ASSUME NEW S, S \subseteq Nat, S # {}
    PROVE  Min(S) \in S /\ \A y \in S : Min(S) <= y
<1> DEFINE R == OpToRel(<, Nat)
<1>1. IsWellFoundedOn(R, Nat)
  BY NatLessThanWellFounded
<1>2. R = {ss \in Nat \X Nat : ss[1] < ss[2]}
  BY DEF OpToRel
<1> HIDE DEF R
<1>3. PICK x \in S : \A y \in S : ~ (<<y, x>> \in R)
  BY <1>1, WFMin
<1>4. ASSUME NEW y \in S PROVE x <= y
  <2>1. <<y, x>> \in Nat \X Nat /\ ~ (<<y, x>> \in R)
    BY <1>3
  <2>2. ~ (<<y, x>>[1] < <<y, x>>[2])
    BY <1>2, <2>1
  <2> QED BY <2>2, x \in Nat, y \in Nat
<1> QED
  BY <1>4 DEF Min

\* A new subscription or down track takes the place of one nobody refers to.
LEMMA FreeSub == FreeSubs # {} => Min(FreeSubs) \in FreeSubs
<1>1. FreeSubs \subseteq Nat
  BY DEF FreeSubs, Subs
<1> QED BY <1>1, MinNat

LEMMA FreeDown == FreeDowns # {} => Min(FreeDowns) \in FreeDowns
<1>1. FreeDowns \subseteq Nat
  BY DEF FreeDowns, Downs
<1> QED BY <1>1, MinNat

\* A list that loses an element is a list.
LEMMA RemoveFirstType ==
    ASSUME NEW S, NEW seq \in Seq(S), NEW e
    PROVE  RemoveFirst(seq, e) \in Seq(S)
<1> DEFINE I == {i \in 1..Len(seq) : seq[i] = e}
           n == SelectInSeq(seq, LAMBDA v : v = e)
<1>1. CASE I # {}
  <2>1. n = Min(I)
    BY <1>1 DEF SelectInSeq
  <2>2. Min(I) \in I
    <3>1. I \subseteq Nat
      BY LenProperties
    <3> QED BY <1>1, <3>1, MinNat
  <2>3. n \in 1..Len(seq)
    BY <2>1, <2>2
  <2> HIDE DEF n
  <2>4. SubSeq(seq, 1, n - 1) \in Seq(S) /\ SubSeq(seq, n + 1, Len(seq)) \in Seq(S)
    BY <2>3, LenProperties, SubSeqProperties
  <2>5. RemoveFirst(seq, e) = SubSeq(seq, 1, n - 1) \o SubSeq(seq, n + 1, Len(seq))
    BY <1>1 DEF RemoveFirst, RemoveAt, n
  <2> QED BY <2>4, <2>5, ConcatProperties
<1>2. CASE I = {}
  BY <1>2 DEF RemoveFirst
<1> QED BY <1>1, <1>2

\* Changed fields leave records what they are.
LEMMA SubRecords ==
    /\ \A r \in Subscription, b \in BOOLEAN : [r EXCEPT !.desired = b] \in Subscription
    /\ \A r \in Subscription, d \in Downs \cup {None} : [r EXCEPT !.down = d] \in Subscription
    /\ Blank \in Subscription
    /\ \A t \in Tracks : [Blank EXCEPT !.track = t] \in Subscription
BY DEF Subscription, Blank

LEMMA DownRecords ==
    /\ \A r \in DownTrack, p \in Phases : [r EXCEPT !.phase = p] \in DownTrack
    /\ \A r \in DownTrack, o \in Subs \cup {None} : [r EXCEPT !.owner = o] \in DownTrack
    /\ NoDown \in DownTrack
    /\ \A m \in Media : [phase |-> "up", media |-> m, owner |-> None] \in DownTrack
BY DEF DownTrack, NoDown, Phases

LEMMA WorkerRecords ==
    /\ \A r \in WorkerState, p \in WorkerPoints : [r EXCEPT !.pc = p] \in WorkerState
    /\ \A r \in WorkerState, p \in WorkerPoints, m \in Media :
          [r EXCEPT !.pc = p, !.media = m] \in WorkerState
    /\ \A r \in WorkerState, p \in WorkerPoints, d \in Downs :
          [r EXCEPT !.pc = p, !.down = d] \in WorkerState
    /\ Idle \in WorkerState
    /\ \A p \in WorkerPoints, s \in Subs : [Idle EXCEPT !.pc = p, !.sub = s] \in WorkerState
    /\ \A p \in WorkerPoints : [Idle EXCEPT !.pc = p] \in WorkerState
BY DEF WorkerState, WorkerPoints, Idle

LEMMA CallRecords ==
    /\ [pc |-> "idle", track |-> None, sub |-> None] \in Call
    /\ \A t \in Tracks, s \in Subs : [pc |-> "insert", track |-> t, sub |-> s] \in Call
    /\ \A r \in Call : [r EXCEPT !.pc = "desire", !.sub = None] \in Call
BY DEF Call

\* The same of the tables of subscriptions and down tracks.
LEMMA SubDesire ==
    ASSUME Typed, NEW s, NEW b \in BOOLEAN
    PROVE  [sub EXCEPT ![s].desired = b] \in [Subs -> Subscription]
BY SubRecords DEF Typed

LEMMA SubDown ==
    ASSUME Typed, NEW s, NEW d \in Downs \cup {None}
    PROVE  [sub EXCEPT ![s].down = d] \in [Subs -> Subscription]
BY SubRecords DEF Typed

LEMMA SubBlank ==
    ASSUME Typed, NEW s
    PROVE  [sub EXCEPT ![s] = Blank] \in [Subs -> Subscription]
BY SubRecords DEF Typed

LEMMA DownPhase ==
    ASSUME Typed, NEW d, NEW p \in Phases
    PROVE  [down EXCEPT ![d].phase = p] \in [Downs -> DownTrack]
BY DownRecords DEF Typed

LEMMA DownOwner ==
    ASSUME Typed, NEW d, NEW o \in Subs \cup {None}
    PROVE  [down EXCEPT ![d].owner = o] \in [Downs -> DownTrack]
BY DownRecords DEF Typed

LEMMA DownBoth ==
    ASSUME Typed, NEW d, NEW p \in Phases, NEW o \in Subs \cup {None}
    PROVE  [down EXCEPT ![d].phase = p, ![d].owner = o] \in [Downs -> DownTrack]
<1>1. [down EXCEPT ![d].phase = p] \in [Downs -> DownTrack]
  BY DownPhase
<1> QED BY <1>1, DownRecords

LEMMA DownsClosing == ASSUME Typed, NEW d PROVE Closing(d) \in [Downs -> DownTrack]
BY DownPhase DEF Typed, Closing, Phases

LEMMA DownsGone == ASSUME Typed, NEW d PROVE Gone(d) \in [Downs -> DownTrack]
<1>1. [down EXCEPT ![d].phase = "gone", ![d].owner = None] \in [Downs -> DownTrack]
  BY DownBoth DEF Phases
<1>2. [down EXCEPT ![d] = NoDown] \in [Downs -> DownTrack]
  BY DownRecords DEF Typed
<1> QED BY <1>1, <1>2 DEF Gone

LEMMA SubsLeft == ASSUME Typed, NEW d PROVE Left(d) \in [Subs -> Subscription]
BY SubBlank DEF Typed, Left

LEMMA CountingsFinite == IsFiniteSet(Countings) /\ Cardinality(Countings) \in Nat
<1>1. IsFiniteSet(Downs)
  BY FS_Interval DEF Downs
<1> QED BY <1>1, FS_Subset, FS_CardinalityType DEF Countings

\* A step that neither counts nor makes something count.
LEMMA CountSame ==
    ASSUME IInv, Typed', Countings' \subseteq Countings, count' = count,
           w'.pc = "count" <=> w.pc = "count"
    PROVE  CountCovers'
<1>1. /\ Cardinality(Countings) \in Nat /\ Cardinality(Countings') \in Nat
      /\ Cardinality(Countings') <= Cardinality(Countings)
  BY CountingsFinite, FS_Subset, FS_CardinalityType
<1> QED BY <1>1 DEF IInv, Typed, CountCovers


\* What most steps have in common: they say what is desired, close down tracks,
\* let a caller or the worker go, or change the room.
SubsKept == \A s \in Subs : sub'[s].track = sub[s].track /\ sub'[s].down = sub[s].down

DownsKept ==
    \A d \in Downs :
        /\ down'[d].owner = down[d].owner /\ down'[d].media = down[d].media
        /\ \/ down'[d].phase = down[d].phase
           \/ down[d].phase = "up" /\ down'[d].phase = "closing"

CallsKept ==
    \A c \in Callers :
        \/ call'[c] = call[c]
        \/ call[c].pc # "insert" /\ call'[c].pc = "idle" /\ call'[c].sub = None

WorkerKept ==
    \/ w' = w
    \/ /\ w'.pc \in {"idle", "done"} /\ w'.sub = None /\ w'.down = None
       /\ w.pc \notin {"hook", "set", "count"}
       /\ w.pc = "recheck" /\ w.down # None => down'[w.down].phase # "up"

Minor ==
    /\ SubsKept /\ DownsKept /\ CallsKept /\ WorkerKept
    /\ UNCHANGED <<subscriptions, count, entry>>

\* No media track closes, or it is seen to be closed.
Seen ==
    \/ NoneLeftBehind'
    \/ state' = state /\ passed' = passed /\ (w' = w \/ w.pc # "recheck")

MinorStep == Typed' /\ Minor /\ Seen

\* What a step leaves alone, it keeps.
LEMMA Keeping ==
    /\ sub' = sub => SubsKept
    /\ down' = down => DownsKept
    /\ call' = call => CallsKept
    /\ w' = w => WorkerKept
BY DEF SubsKept, DownsKept, CallsKept, WorkerKept

LEMMA Desiring ==
    ASSUME Typed, NEW D, NEW b,
           sub' = [s \in Subs |-> IF s \in D THEN [sub[s] EXCEPT !.desired = b] ELSE sub[s]]
    PROVE  SubsKept
BY DEF Typed, Subscription, SubsKept

LEMMA ClosingKeeps ==
    ASSUME Typed, NEW d, down' = Closing(d)
    PROVE  DownsKept
BY DEF Typed, DownTrack, Closing, DownsKept

\* Such a step preserves the invariant.
LEMMA MinorKeeps ==
    ASSUME IInv, MinorStep
    PROVE  IInv'
<1> USE Apart
<1>1. /\ Typed /\ Worked /\ Called /\ Filed /\ Entered /\ Owned
      /\ Hooked /\ Given /\ Told /\ Held1 /\ Within /\ NoneLeftBehind
  BY DEF IInv
<1>2. Typed' /\ Minor /\ Seen
  BY DEF MinorStep
<1>3. \A s \in Subs : Mapped(s)' <=> Mapped(s)
  BY <1>2 DEF Minor, Mapped
<1>4. \A s \in Subs : s \in Owners(Downs)' <=> s \in Owners(Downs)
  BY <1>2 DEF Minor, DownsKept, Owners
<1>5. \A s \in Subs : Referenced(s)' => Referenced(s)
  BY <1>1, <1>2, <1>3, <1>4 DEF Minor, CallsKept, WorkerKept, Referenced
<1>6. Worked'
  BY <1>1, <1>2 DEF Minor, SubsKept, WorkerKept, Worked, Typed
<1>7. Called'
  BY <1>1, <1>2, <1>3, <1>4 DEF Minor, SubsKept, CallsKept, WorkerKept, Called
<1>8. Filed'
  <2>1. \A t \in Tracks : subscriptions[t] # None => subscriptions[t] \in Subs
    BY <1>1 DEF Typed
  <2> QED BY <1>1, <1>2, <2>1 DEF Minor, SubsKept, Filed
<1>9. Entered'
  <2>1. \A m \in Media : entry[m] # None => entry[m] \in Downs
    BY <1>1 DEF Typed
  <2> QED BY <1>1, <1>2, <2>1 DEF Minor, DownsKept, Entered
<1>10. \A d \in Downs : down[d].owner # None => down[d].owner \in Subs
  BY <1>1 DEF Typed, DownTrack
<1>11. Owned'
  <2>1. w.down # None => w.down \in Downs
    BY <1>1 DEF Typed, WorkerState
  <2> QED BY <1>1, <1>2, <1>10, <2>1 DEF Minor, SubsKept, DownsKept, WorkerKept, Owned
<1>12. Hooked'
  BY <1>1, <1>2 DEF Minor, DownsKept, WorkerKept, Hooked, Worked
<1>13. Given'
  BY <1>1, <1>2 DEF Minor, DownsKept, WorkerKept, Given, Live, Typed, WorkerState
<1>14. Told'
  BY <1>1, <1>2, <1>10 DEF Minor, SubsKept, DownsKept, WorkerKept, Told, Live
<1>15. Held1'
  <2>1. \A s \in Subs : sub[s].down # None => sub[s].down \in Downs
    BY <1>1 DEF Typed, Subscription
  <2> QED BY <1>1, <1>2, <1>5, <2>1 DEF Minor, SubsKept, DownsKept, WorkerKept, Held1, Live
<1>16. NoneLeftBehind'
  BY <1>1, <1>2 DEF Minor, DownsKept, Seen, NoneLeftBehind, Up
<1>17. Within'
  BY <1>1, <1>2 DEF Minor, WorkerKept, Within
<1>18. CountCovers'
  <2>1. Countings' \subseteq Countings
    BY <1>2, <1>10 DEF Minor, SubsKept, DownsKept, Countings, Counting, Live
  <2> QED BY <1>2, <2>1, CountSame DEF Minor, WorkerKept
<1> QED
  BY <1>2, <1>6, <1>7, <1>8, <1>9, <1>11, <1>12, <1>13, <1>14, <1>15, <1>16, <1>17, <1>18 DEF IInv

\* Steps of the worker that concern nobody else.
Moves ==
    /\ UNCHANGED <<subscriptions, sub, count, call, state, entry, down>>
    /\ w'.sub \in {w.sub, None} \/ Mapped(w'.sub)
    /\ w.pc \notin {"set", "count"} /\ w'.pc \notin {"set", "count"}
    /\ w'.pc \in {"recheck", "hook"} /\ w'.down # None =>
          w.pc \in {"recheck", "hook"} /\ w'.down = w.down /\ w'.media = w.media
    /\ w.pc \in {"recheck", "hook"} /\ w.down # None =>
          w'.pc \in {"recheck", "hook"} /\ w'.down = w.down

MoveStep == Typed' /\ Moves /\ Worked' /\ Within' /\ NoneLeftBehind'

\* Such a step preserves the invariant.
LEMMA MovesKeeps ==
    ASSUME IInv, MoveStep
    PROVE  IInv'
<1> USE Apart
<1>1. Typed /\ Called /\ Filed /\ Entered /\ Owned /\ Hooked /\ Given /\ Told /\ Held1
  BY DEF IInv
<1>2. Typed' /\ Moves /\ Worked' /\ Within' /\ NoneLeftBehind'
  BY DEF MoveStep
<1>3. \A s \in Subs : Mapped(s)' <=> Mapped(s)
  BY <1>2 DEF Moves, Mapped
<1>4. \A s \in Subs : s \in Owners(Downs)' <=> s \in Owners(Downs)
  BY <1>2 DEF Moves, Owners
<1>5. \A s \in Subs : Referenced(s)' => Referenced(s)
  BY <1>2, <1>3, <1>4 DEF Moves, Referenced
<1>6. Called'
  BY <1>1, <1>2, <1>3, <1>4 DEF Moves, Called
<1>7. Filed' /\ Entered'
  BY <1>1, <1>2 DEF Moves, Filed, Entered
<1>8. Owned'
  BY <1>1, <1>2 DEF Moves, Owned
<1>9. Hooked'
  BY <1>1, <1>2 DEF Moves, Hooked
<1>10. Given'
  BY <1>1, <1>2 DEF Moves, Given, Live
<1>11. Told'
  BY <1>1, <1>2 DEF Moves, Told, Live
<1>12. Held1'
  BY <1>1, <1>2, <1>5 DEF Moves, Held1, Live
<1>13. CountCovers'
  <2>1. Countings' \subseteq Countings
    BY <1>2 DEF Moves, Countings, Counting, Live
  <2> QED BY <1>2, <2>1, CountSame DEF Moves
<1> QED
  BY <1>2, <1>6, <1>7, <1>8, <1>9, <1>10, <1>11, <1>12, <1>13 DEF IInv

\* What the three ways out of the goroutine of a down track have in common:
\* it loses its owner, and the owner may be forgotten with it.
Leaving(d) ==
    /\ \/ down[d].phase = "handle" /\ sub[down[d].owner].down = None
       \/ down[d].phase \in {"unmark", "detach"}
    /\ down'[d].owner = None /\ down'[d].phase \in {"none", "gone", "detach"}
    /\ Kept(d) => down'[d].phase \in {"gone", "detach"}
    /\ down'[d].phase # "none" => down'[d].media = down[d].media
    /\ \A x \in Downs \ {d} : down'[x] = down[x]
    /\ sub' = Left(d) \/ sub' = sub
    /\ UNCHANGED <<subscriptions, count, closed, call, w, roomVars, entry, unsub>>

LeaveStep(d) == Typed' /\ Leaving(d)

\* Such a step preserves the invariant.
LEMMA LeavesKeeps ==
    ASSUME NEW d \in Downs, IInv, LeaveStep(d)
    PROVE  IInv'
<1> USE Apart
<1> DEFINE s == down[d].owner
<1>1. /\ Typed /\ Worked /\ Called /\ Filed /\ Entered /\ Owned
      /\ Hooked /\ Given /\ Told /\ Held1 /\ Within /\ NoneLeftBehind
  BY DEF IInv
<1>2. Typed' /\ Leaving(d)
  BY DEF LeaveStep
<1>3. ~(w.pc \in {"hook", "recheck"} /\ w.down = d /\ down[d].phase # "detach")
  BY <1>1, <1>2 DEF Leaving, Owned
<1>4. \A x \in Subs : x # s => sub'[x] = sub[x]
  BY <1>1, <1>2 DEF Leaving, Left, Typed
<1>5. \/ sub' = sub
      \/ /\ s \in Subs /\ sub'[s] = Blank
         /\ ~Mapped(s) /\ w.sub # s /\ \A x \in Downs \ {d} : down[x].owner # s
  BY <1>1, <1>2 DEF Leaving, Left, Typed, DownTrack, Owners
<1>6. \A x \in Subs : Referenced(x)' => Referenced(x) /\ sub'[x] = sub[x]
  BY <1>1, <1>2, <1>4, <1>5 DEF Leaving, Referenced, Mapped, Owners, Called
<1> HIDE DEF s
<1>7. Worked'
  BY <1>1, <1>2, <1>4, <1>5 DEF Leaving, Worked, Typed, WorkerState
<1>8. Filed'
  BY <1>1, <1>2, <1>4, <1>5 DEF Leaving, Filed, Mapped, Typed
<1>9. Called'
  BY <1>1, <1>2, <1>4, <1>5 DEF Leaving, Called, Mapped, Owners, s
<1>10. \A x \in Downs \ {d} : down[x].owner # None =>
          down[x].owner \in Subs /\ sub'[down[x].owner] = sub[down[x].owner]
  BY <1>1, <1>2, <1>4, <1>5 DEF Leaving, Typed, DownTrack
<1>11. Entered'
  <2>1. \A m \in Media : entry[m] # None => entry[m] \in Downs \ {d}
    <3>1. entry \in [Media -> Downs \cup {None}] /\ down[d].phase \notin {"up", "closing"}
      BY <1>1, <1>2 DEF Leaving, Typed
    <3> QED BY <1>1, <1>2, <3>1 DEF Leaving, Entered
  <2> QED BY <1>1, <1>2, <2>1 DEF Leaving, Entered
<1>12. Owned'
  <2>1. \A x \in Downs : down'[x].owner # None => x # d
    BY <1>2 DEF Leaving
  <2>2. w.pc \in {"recheck", "hook"} /\ w.down # None =>
            down'[w.down].owner = None /\ down'[w.down].media = w.media
    BY <1>1, <1>2, <1>3 DEF Leaving, Owned, Typed, WorkerState, Kept
  <2> QED BY <1>1, <1>2, <1>10, <2>1, <2>2 DEF Leaving, Owned
<1>13. Hooked'
  BY <1>1, <1>2 DEF Leaving, Hooked
<1>14. Given'
  BY <1>1, <1>2 DEF Leaving, Given, Live, Kept, Typed, WorkerState
<1>15. Told'
  BY <1>1, <1>2, <1>10 DEF Leaving, Told, Live
<1>16. Held1'
  <2>1. ASSUME NEW x \in Subs, Referenced(x), sub[x].down # None
        PROVE  sub[x].down \in Downs
    BY <1>1, <1>2, <2>1 DEF Leaving, Typed, Subscription
  <2>2. ASSUME NEW x \in Subs, Referenced(x), sub[x].down = d
        PROVE  down[d].phase = "detach" /\ Kept(d)
    BY <1>1, <1>2, <2>2 DEF Leaving, Held1, Live, Kept, s
  <2> QED BY <1>1, <1>2, <1>6, <2>1, <2>2 DEF Leaving, Held1, Live
<1>17. Within' /\ NoneLeftBehind'
  BY <1>1, <1>2 DEF Leaving, Within, NoneLeftBehind, Up
<1>18. CountCovers'
  <2>1. Countings' \subseteq Countings
    BY <1>2, <1>10 DEF Leaving, Countings, Counting, Live
  <2> QED BY <1>2, <2>1, CountSame DEF Leaving
<1> QED
  BY <1>2, <1>7, <1>8, <1>9, <1>11, <1>12, <1>13, <1>14, <1>15, <1>16, <1>17, <1>18 DEF IInv

-----------------------------------------------------------------------------
(* The steps that only say what is desired, close or rest. *)

LEMMA SubscribeMinor ==
    ASSUME IInv, NEW c \in Callers, NEW t \in Tracks, Subscribe(c, t)
    PROVE  MinorStep
<1> USE Apart
<1>1. Typed /\ Worked /\ Called /\ Entered /\ NoneLeftBehind
  BY DEF IInv
<1>2. Typed'
  <2>1. sub' \in [Subs -> Subscription]
    BY <1>1, SubDesire DEF Typed, Subscribe
  <2> QED BY <1>1, <2>1 DEF Typed, Subscribe
<1>3. SubsKept
  BY <1>1, Desiring DEF Typed, Subscription, SubsKept, Subscribe
<1>4. Minor
  BY <1>1, <1>3, Keeping DEF Minor, Subscribe
<1>5. Seen
  BY DEF Seen, Subscribe
<1> QED BY <1>2, <1>4, <1>5 DEF MinorStep

LEMMA DesireMinor ==
    ASSUME IInv, NEW c \in Callers, Desire(c)
    PROVE  MinorStep
<1> USE Apart
<1>1. Typed /\ Worked /\ Called /\ Entered /\ NoneLeftBehind
  BY DEF IInv
<1>2. Typed'
  <2>1. sub' \in [Subs -> Subscription]
    BY <1>1, SubRecords DEF Typed, Desire
  <2>2. call' \in [Callers -> Call]
    BY <1>1, CallRecords DEF Typed, Desire
  <2> QED BY <1>1, <2>1, <2>2 DEF Typed, Desire
<1>3. SubsKept
  BY <1>1, Desiring DEF Typed, Subscription, SubsKept, Desire
<1>4. CallsKept
  BY <1>1 DEF Typed, CallsKept, Desire
<1>5. Minor
  BY <1>1, <1>3, <1>4, Keeping DEF Minor, Desire
<1>6. Seen
  BY DEF Seen, Desire
<1> QED BY <1>2, <1>5, <1>6 DEF MinorStep

LEMMA UnsubscribeMinor ==
    ASSUME IInv, NEW c \in Callers, NEW t \in Tracks, Unsubscribe(c, t)
    PROVE  MinorStep
<1> USE Apart
<1>1. Typed /\ Worked /\ Called /\ Entered /\ NoneLeftBehind
  BY DEF IInv
<1>2. Typed'
  <2>1. sub' \in [Subs -> Subscription]
    BY <1>1, SubDesire DEF Typed, Unsubscribe
  <2> QED BY <1>1, <2>1 DEF Typed, Unsubscribe
<1>3. SubsKept
  BY <1>1, Desiring DEF Typed, Subscription, SubsKept, Unsubscribe
<1>4. Minor
  BY <1>1, <1>3, Keeping DEF Minor, Unsubscribe
<1>5. Seen
  BY DEF Seen, Unsubscribe
<1> QED BY <1>2, <1>4, <1>5 DEF MinorStep

LEMMA ClearAllMinor ==
    ASSUME IInv, NEW c \in Callers, ClearAll(c)
    PROVE  MinorStep
<1> USE Apart
<1>1. Typed /\ Worked /\ Called /\ Entered /\ NoneLeftBehind
  BY DEF IInv
<1>2. Typed'
  <2>1. sub' \in [Subs -> Subscription]
    BY <1>1, SubRecords DEF Typed, ClearAll
  <2> QED BY <1>1, <2>1 DEF Typed, ClearAll
<1>3. SubsKept
  BY <1>1, Desiring DEF Typed, Subscription, SubsKept, ClearAll
<1>4. Minor
  BY <1>1, <1>3, Keeping DEF Minor, ClearAll
<1>5. Seen
  BY DEF Seen, ClearAll
<1> QED BY <1>2, <1>4, <1>5 DEF MinorStep

LEMMA StopMinor ==
    ASSUME IInv, Stop
    PROVE  MinorStep
<1> USE Apart
<1>1. Typed /\ Worked /\ Called /\ Entered /\ NoneLeftBehind
  BY DEF IInv
<1>2. Typed'
  <2>1. w' \in WorkerState
    BY <1>1, WorkerRecords DEF Typed, WorkerPoints, Worked, Stop
  <2> QED BY <1>1, <2>1 DEF Typed, Stop
<1>3. WorkerKept
  BY <1>1 DEF WorkerKept, Worked, Idle, Stop
<1>4. Minor
  BY <1>1, <1>3, Keeping DEF Minor, Stop
<1>5. Seen
  BY DEF Seen, Stop
<1> QED BY <1>2, <1>4, <1>5 DEF MinorStep

LEMMA GiveWayMinor ==
    ASSUME IInv, GiveWay
    PROVE  MinorStep
<1> USE Apart
<1>1. Typed /\ Worked /\ Called /\ Entered /\ NoneLeftBehind
  BY DEF IInv
<1>2. Typed'
  <2>1. w' \in WorkerState
    BY <1>1, WorkerRecords DEF Typed, WorkerPoints, Worked, GiveWay
  <2> QED BY <1>1, <2>1 DEF Typed, GiveWay
<1>3. WorkerKept
  BY <1>1 DEF WorkerKept, Worked, Idle, GiveWay
<1>4. Minor
  BY <1>1, <1>3, Keeping DEF Minor, GiveWay
<1>5. Seen
  BY DEF Seen, GiveWay
<1> QED BY <1>2, <1>4, <1>5 DEF MinorStep

LEMMA RefusedMinor ==
    ASSUME IInv, Refused
    PROVE  MinorStep
<1> USE Apart
<1>1. /\ Typed /\ Worked /\ Called /\ Filed /\ Entered /\ Owned
      /\ Hooked /\ Given /\ Told /\ Held1 /\ Within /\ NoneLeftBehind
  BY DEF IInv
<1>2. w.sub \in Subs /\ sub[w.sub].track \in Tracks
  BY <1>1 DEF Worked, Refused
<1>3. Typed'
  <2>1. w' \in WorkerState
    BY WorkerRecords DEF Refused
  <2>2. watched' \subseteq Tracks
    BY <1>1, <1>2 DEF Typed, Refused
  <2> QED BY <1>1, <2>1, <2>2 DEF Typed, Refused
<1>4. WorkerKept
  BY DEF WorkerKept, Idle, Refused
<1>5. Minor /\ Seen
  BY <1>4, Keeping DEF Minor, Seen, Refused
<1> QED BY <1>3, <1>5 DEF MinorStep

LEMMA MissingMinor ==
    ASSUME IInv, Missing
    PROVE  MinorStep
<1> USE Apart
<1>1. /\ Typed /\ Worked /\ Called /\ Filed /\ Entered /\ Owned
      /\ Hooked /\ Given /\ Told /\ Held1 /\ Within /\ NoneLeftBehind
  BY DEF IInv
<1>2. Typed'
  <2>1. w' \in WorkerState
    BY WorkerRecords DEF Missing
  <2>2. sub' \in [Subs -> Subscription]
    <3>1. sub \in [Subs -> Subscription]
      BY <1>1 DEF Typed
    <3>2. [sub EXCEPT ![w.sub].desired = FALSE] \in [Subs -> Subscription]
      BY <1>1, SubDesire
    <3> QED BY <3>1, <3>2 DEF Missing
  <2> QED BY <1>1, <2>1, <2>2 DEF Typed, Missing
<1>3. SubsKept
  <2>1. CASE sub' = sub
    BY <2>1, Keeping
  <2>2. CASE sub' = [sub EXCEPT ![w.sub].desired = FALSE]
    BY <1>1, <2>2 DEF Typed, Subscription, SubsKept
  <2> QED BY <2>1, <2>2 DEF Missing
<1>4. WorkerKept
  BY DEF WorkerKept, Idle, Missing
<1>5. Minor /\ Seen
  BY <1>3, <1>4, Keeping DEF Minor, Seen, Missing
<1> QED BY <1>2, <1>5 DEF MinorStep

LEMMA MakeFailsMinor ==
    ASSUME IInv, MakeFails
    PROVE  MinorStep
<1> USE Apart
<1>1. Typed /\ Worked /\ Called /\ Entered /\ NoneLeftBehind
  BY DEF IInv
<1>2. Typed'
  <2>1. w' \in WorkerState
    BY <1>1, WorkerRecords DEF Typed, WorkerPoints, Worked, MakeFails
  <2> QED BY <1>1, <2>1 DEF Typed, MakeFails
<1>3. WorkerKept
  BY <1>1 DEF WorkerKept, Worked, Idle, MakeFails
<1>4. Minor
  BY <1>1, <1>3, Keeping DEF Minor, MakeFails
<1>5. Seen
  BY DEF Seen, MakeFails
<1> QED BY <1>2, <1>4, <1>5 DEF MinorStep

LEMMA MarkMinor ==
    ASSUME IInv, Mark
    PROVE  MinorStep
<1> USE Apart
<1>1. /\ Typed /\ Worked /\ Called /\ Filed /\ Entered /\ Owned
      /\ Hooked /\ Given /\ Told /\ Held1 /\ Within /\ NoneLeftBehind
  BY DEF IInv
<1>2. Typed'
  <2>1. w' \in WorkerState
    BY WorkerRecords DEF Mark
  <2>2. subscribedTo' \subseteq Tracks
    BY <1>1 DEF Typed, Worked, Mark
  <2> QED BY <1>1, <2>1, <2>2 DEF Typed, Mark
<1>3. WorkerKept
  BY DEF WorkerKept, Idle, Mark
<1>4. Minor /\ Seen
  BY <1>3, Keeping DEF Minor, Seen, Mark
<1> QED BY <1>2, <1>4 DEF MinorStep

LEMMA AskRemovalMinor ==
    ASSUME IInv, AskRemoval
    PROVE  MinorStep
<1> USE Apart
<1>1. Typed /\ Worked /\ Called /\ Entered /\ NoneLeftBehind
  BY DEF IInv
<1>2. Typed'
  <2>1. w' \in WorkerState
    BY <1>1, WorkerRecords DEF Typed, WorkerPoints, Worked, AskRemoval
  <2>2. unsub' \in [Media -> 0..MaxPending]
    <3>1. unsub \in [Media -> 0..MaxPending] /\ MaxPending \in Nat
      BY <1>1 DEF Typed
    <3> DEFINE m == down[sub[w.sub].down].media
    <3>2. unsub' = unsub \/ (unsub[m] < MaxPending /\ unsub' = [unsub EXCEPT ![m] = @ + 1])
      BY DEF AskRemoval
    <3> HIDE DEF m
    <3>3. CASE m \in Media
      BY <3>1, <3>2, <3>3
    <3>4. CASE m \notin Media
      BY <3>1, <3>2, <3>4
    <3> QED BY <3>3, <3>4
  <2> QED BY <1>1, <2>1, <2>2 DEF Typed, AskRemoval
<1>3. WorkerKept
  BY <1>1 DEF WorkerKept, Worked, Idle, AskRemoval
<1>4. Minor
  BY <1>1, <1>3, Keeping DEF Minor, AskRemoval
<1>5. Seen
  BY DEF Seen, AskRemoval
<1> QED BY <1>2, <1>4, <1>5 DEF MinorStep

LEMMA RemoveSubscriberMinor ==
    ASSUME IInv, NEW m \in Media, RemoveSubscriber(m)
    PROVE  MinorStep
<1> USE Apart
<1>1. Typed /\ Worked /\ Called /\ Entered /\ NoneLeftBehind
  BY DEF IInv
<1>2. Typed'
  <2>1. unsub' \in [Media -> 0..MaxPending]
    BY <1>1 DEF Typed, RemoveSubscriber
  <2>2. down' \in [Downs -> DownTrack]
    BY <1>1, DownsClosing DEF Typed, Closing, Phases, RemoveSubscriber
  <2> QED BY <1>1, <2>1, <2>2 DEF Typed, RemoveSubscriber
<1>3. DownsKept
  BY <1>1, ClosingKeeps DEF Typed, DownTrack, DownsKept, RemoveSubscriber
<1>4. Minor
  BY <1>1, <1>3, Keeping DEF Minor, RemoveSubscriber
<1>5. Seen
  BY DEF Seen, RemoveSubscriber
<1> QED BY <1>2, <1>4, <1>5 DEF MinorStep

LEMMA CloseMinor ==
    ASSUME IInv, Close
    PROVE  MinorStep
<1> USE Apart
<1>1. Typed /\ Worked /\ Called /\ Entered /\ NoneLeftBehind
  BY DEF IInv
<1>2. Typed'
  <2> QED BY <1>1 DEF Typed, Close
<1>3. Minor
  BY <1>1, Keeping DEF Minor, Close
<1>4. Seen
  BY DEF Seen, Close
<1> QED BY <1>2, <1>3, <1>4 DEF MinorStep

LEMMA CloseDownsMinor ==
    ASSUME IInv, CloseDowns
    PROVE  MinorStep
<1> USE Apart
<1>1. Typed /\ Worked /\ Called /\ Entered /\ NoneLeftBehind
  BY DEF IInv
<1>2. Typed'
  <2>1. sub' \in [Subs -> Subscription]
    BY <1>1, SubRecords DEF Typed, CloseDowns
  <2>2. down' \in [Downs -> DownTrack]
    BY <1>1, DownRecords DEF Typed, Closing, Phases, CloseDowns
  <2> QED BY <1>1, <2>1, <2>2 DEF Typed, CloseDowns
<1>3. SubsKept
  BY <1>1, Desiring DEF Typed, Subscription, SubsKept, CloseDowns
<1>4. DownsKept
  BY <1>1, ClosingKeeps DEF Typed, DownTrack, DownsKept, CloseDowns
<1>5. Minor
  BY <1>1, <1>3, <1>4, Keeping DEF Minor, CloseDowns
<1>6. Seen
  BY DEF Seen, CloseDowns
<1> QED BY <1>2, <1>5, <1>6 DEF MinorStep

LEMMA PublishMinor ==
    ASSUME IInv, NEW m \in Media, Publish(m)
    PROVE  MinorStep
<1> USE Apart
<1>1. Typed /\ Worked /\ Called /\ Entered /\ NoneLeftBehind
  BY DEF IInv
<1>2. Typed'
  <2>1. state' \in [Media -> {"unborn", "open", "closing", "cleared", "closed"}]
    BY <1>1 DEF Typed, Publish
  <2>2. listed' \in [Tracks -> Seq(Media)]
    BY <1>1, RemoveFirstType DEF Typed, Publish
  <2> QED BY <1>1, <2>1, <2>2 DEF Typed, Publish
<1>3. Minor
  BY <1>1, Keeping DEF Minor, Publish
<1>4. NoneLeftBehind'
  BY <1>1 DEF NoneLeftBehind, Up, Typed, Entered, Closing, DownsKept, Publish
<1>5. Seen
  BY <1>4 DEF Seen
<1> QED BY <1>2, <1>3, <1>5 DEF MinorStep

LEMMA SetClosingMinor ==
    ASSUME IInv, NEW m \in Media, SetClosing(m)
    PROVE  MinorStep
<1> USE Apart
<1>1. Typed /\ Worked /\ Called /\ Entered /\ NoneLeftBehind
  BY DEF IInv
<1>2. Typed'
  <2> QED BY <1>1 DEF Typed, SetClosing
<1>3. Minor
  BY <1>1, Keeping DEF Minor, SetClosing
<1>4. NoneLeftBehind'
  BY <1>1 DEF NoneLeftBehind, Up, Typed, Entered, Closing, DownsKept, SetClosing
<1>5. Seen
  BY <1>4 DEF Seen
<1> QED BY <1>2, <1>3, <1>5 DEF MinorStep

LEMMA ClearReceiversMinor ==
    ASSUME IInv, NEW m \in Media, ClearReceivers(m)
    PROVE  MinorStep
<1> USE Apart
<1>1. Typed /\ Worked /\ Called /\ Entered /\ NoneLeftBehind
  BY DEF IInv
<1>2. Typed'
  <2>1. down' \in [Downs -> DownTrack]
    BY <1>1, DownsClosing DEF Typed, Closing, Phases, ClearReceivers
  <2> QED BY <1>1, <2>1 DEF Typed, ClearReceivers
<1>3. DownsKept
  BY <1>1, ClosingKeeps DEF Typed, DownTrack, DownsKept, ClearReceivers
<1>4. Minor
  BY <1>1, <1>3, Keeping DEF Minor, ClearReceivers
<1>5. NoneLeftBehind'
  <2>1. CASE down' = Closing(entry[m])
    BY <1>1, <1>3, <2>1 DEF NoneLeftBehind, Up, Typed, Entered, Closing, DownsKept, ClearReceivers
  <2>2. CASE passed' = passed \cup {m} /\ UNCHANGED down
    BY <1>1, <2>2 DEF NoneLeftBehind, Up, Typed, ClearReceivers
  <2> QED BY <2>1, <2>2 DEF ClearReceivers
<1>6. Seen
  BY <1>5 DEF Seen
<1> QED BY <1>2, <1>4, <1>6 DEF MinorStep

LEMMA CloseMediaMinor ==
    ASSUME IInv, NEW m \in Media, CloseMedia(m)
    PROVE  MinorStep
<1> USE Apart
<1>1. /\ Typed /\ Worked /\ Called /\ Filed /\ Entered /\ Owned
      /\ Hooked /\ Given /\ Told /\ Held1 /\ Within /\ NoneLeftBehind
  BY DEF IInv
<1>2. Typed'
  <2>1. listed' \in [Tracks -> Seq(Media)]
    BY <1>1, RemoveFirstType DEF Typed, CloseMedia
  <2>2. state' \in [Media -> {"unborn", "open", "closing", "cleared", "closed"}]
    BY <1>1 DEF Typed, CloseMedia
  <2>3. removal' \in [Tracks -> {"none", "notified", "gone"}]
    BY <1>1 DEF Typed, CloseMedia
  <2>4. watched' \subseteq Tracks
    BY <1>1 DEF Typed, CloseMedia
  <2> QED BY <1>1, <2>1, <2>2, <2>3, <2>4 DEF Typed, CloseMedia
<1>3. NoneLeftBehind'
  BY <1>1 DEF NoneLeftBehind, Up, Typed, Entered, CloseMedia
<1>4. Minor /\ Seen
  BY <1>3, Keeping DEF Minor, Seen, CloseMedia
<1> QED BY <1>2, <1>4 DEF MinorStep

LEMMA LookAgainMinor ==
    ASSUME IInv, NEW t \in Tracks, LookAgain(t)
    PROVE  MinorStep
<1> USE Apart
<1>1. Typed /\ Worked /\ Called /\ Entered /\ NoneLeftBehind
  BY DEF IInv
<1>2. Typed'
  <2> QED BY <1>1 DEF Typed, LookAgain
<1>3. Minor
  BY <1>1, Keeping DEF Minor, LookAgain
<1>4. Seen
  BY DEF Seen, LookAgain
<1> QED BY <1>2, <1>3, <1>4 DEF MinorStep

LEMMA SourceRemovedMinor ==
    ASSUME IInv, NEW t \in Tracks, SourceRemoved(t)
    PROVE  MinorStep
<1> USE Apart
<1>1. Typed /\ Worked /\ Called /\ Entered /\ NoneLeftBehind
  BY DEF IInv
<1>2. Typed'
  <2>1. sub' \in [Subs -> Subscription]
    BY <1>1, SubRecords DEF Typed, SourceRemoved
  <2> QED BY <1>1, <2>1 DEF Typed, SourceRemoved
<1>3. SubsKept
  BY <1>1, Desiring DEF Typed, Subscription, SubsKept, SourceRemoved
<1>4. Minor
  BY <1>1, <1>3, Keeping DEF Minor, SourceRemoved
<1>5. Seen
  BY DEF Seen, SourceRemoved
<1> QED BY <1>2, <1>4, <1>5 DEF MinorStep

LEMMA PermitMinor ==
    ASSUME IInv, Permit
    PROVE  MinorStep
<1> USE Apart
<1>1. Typed /\ Worked /\ Called /\ Entered /\ NoneLeftBehind
  BY DEF IInv
<1>2. Typed'
  <2> QED BY <1>1 DEF Typed, Permit
<1>3. Minor
  BY <1>1, Keeping DEF Minor, Permit
<1>4. Seen
  BY DEF Seen, Permit
<1> QED BY <1>2, <1>3, <1>4 DEF MinorStep

LEMMA RevokeMinor ==
    ASSUME IInv, NEW m \in Media, Revoke(m)
    PROVE  MinorStep
<1> USE Apart
<1>1. Typed /\ Worked /\ Called /\ Entered /\ NoneLeftBehind
  BY DEF IInv
<1>2. Typed'
  <2>1. down' \in [Downs -> DownTrack]
    BY <1>1, DownsClosing DEF Typed, Closing, Phases, Revoke
  <2> QED BY <1>1, <2>1 DEF Typed, Revoke
<1>3. DownsKept
  BY <1>1, ClosingKeeps DEF Typed, DownTrack, DownsKept, Revoke
<1>4. Minor
  BY <1>1, <1>3, Keeping DEF Minor, Revoke
<1>5. Seen
  BY DEF Seen, Revoke
<1> QED BY <1>2, <1>4, <1>5 DEF MinorStep

-----------------------------------------------------------------------------
(* The steps of the worker between its ends. *)

LEMMA PickMoves ==
    ASSUME IInv, NEW t \in Tracks, Pick(t)
    PROVE  MoveStep
<1> USE Apart
<1>1. /\ Typed /\ Worked /\ Called /\ Filed /\ Entered /\ Owned
      /\ Hooked /\ Given /\ Told /\ Held1 /\ Within /\ NoneLeftBehind
  BY DEF IInv
<1> DEFINE s == subscriptions[t]
<1>2. /\ w.pc = "idle" /\ s \in Subs /\ sub[s].track = t
      /\ w' = [Idle EXCEPT !.pc = "picked", !.sub = s]
      /\ UNCHANGED <<managerVars, roomVars, entry, unsub, down>>
  BY <1>1 DEF Pick, Filed, Typed
<1>3. w'.pc = "picked" /\ w'.sub = s /\ w'.down = None
  BY <1>2 DEF Idle
<1>4. Typed'
  <2>1. w' \in WorkerState
    BY <1>2, WorkerRecords DEF WorkerPoints
  <2> QED BY <1>1, <1>2, <2>1 DEF Typed
<1>5. Mapped(s)
  BY DEF Mapped
<1> HIDE DEF s
<1>6. Worked' /\ Within' /\ NoneLeftBehind'
  BY <1>1, <1>2, <1>3 DEF Worked, Within, NoneLeftBehind, Up
<1>7. Moves
  BY <1>2, <1>3, <1>5 DEF Moves
<1> QED BY <1>4, <1>6, <1>7 DEF MoveStep

LEMMA ResolveMoves ==
    ASSUME IInv, Resolve
    PROVE  MoveStep
<1> USE Apart
<1>1. /\ Typed /\ Worked /\ Called /\ Filed /\ Entered /\ Owned
      /\ Hooked /\ Given /\ Told /\ Held1 /\ Within /\ NoneLeftBehind
  BY DEF IInv
<1> DEFINE m == Resolved(sub[w.sub].track)
<1>2. /\ w.pc = "picked" /\ NeedsSubscribe(w.sub) /\ HasCapacity /\ m # None
      /\ w' = [w EXCEPT !.pc = "add", !.media = m]
      /\ watched' = watched \cup {sub[w.sub].track}
      /\ UNCHANGED <<managerVars, permitted, passed, state, listed, removal, entry, unsub, down>>
  BY DEF Resolve
<1>3. w.sub \in Subs /\ sub[w.sub].track \in Tracks /\ w.down = None
  BY <1>1, <1>2 DEF Worked
<1>4. m \in Media
  <2>1. listed[sub[w.sub].track] \in Seq(Media)
    BY <1>1, <1>3 DEF Typed
  <2>2. listed[sub[w.sub].track] # <<>> => Head(listed[sub[w.sub].track]) \in Media
    BY <2>1
  <2> QED BY <1>2, <2>2 DEF Resolved
<1> HIDE DEF m
<1>5. w'.pc = "add" /\ w'.sub = w.sub /\ w'.media = m /\ w'.down = w.down
  BY <1>1, <1>2 DEF Typed, WorkerState
<1>6. Typed'
  <2>1. w' \in WorkerState
    BY <1>1, <1>2, <1>4, WorkerRecords DEF Typed, WorkerPoints
  <2>2. watched' \subseteq Tracks
    BY <1>1, <1>2, <1>3 DEF Typed
  <2> QED BY <1>1, <1>2, <2>1, <2>2 DEF Typed
<1>7. Worked' /\ NoneLeftBehind'
  BY <1>1, <1>2, <1>3, <1>4, <1>5 DEF Worked, NeedsSubscribe, NoneLeftBehind, Up
<1>8. Within'
  BY <1>1, <1>2, <1>5 DEF Within, HasCapacity
<1>9. Moves
  BY <1>2, <1>3, <1>5 DEF Moves
<1> QED BY <1>6, <1>7, <1>8, <1>9 DEF MoveStep

LEMMA NotFoundMoves ==
    ASSUME IInv, NotFound
    PROVE  MoveStep
<1> USE Apart
<1>1. /\ Typed /\ Worked /\ Called /\ Filed /\ Entered /\ Owned
      /\ Hooked /\ Given /\ Told /\ Held1 /\ Within /\ NoneLeftBehind
  BY DEF IInv
<1>2. /\ w.pc = "picked" /\ w' = [w EXCEPT !.pc = "missing"]
      /\ UNCHANGED <<managerVars, roomVars, entry, unsub, down>>
  BY DEF NotFound
<1>3. w'.pc = "missing" /\ w'.sub = w.sub /\ w'.down = w.down
  BY <1>1, <1>2 DEF Typed, WorkerState
<1>4. Typed'
  <2>1. w' \in WorkerState
    BY <1>1, <1>2, WorkerRecords DEF Typed, WorkerPoints
  <2> QED BY <1>1, <1>2, <2>1 DEF Typed
<1>5. Worked' /\ Within' /\ NoneLeftBehind'
  BY <1>1, <1>2, <1>3 DEF Worked, Within, NoneLeftBehind, Up
<1>6. Moves
  BY <1>2, <1>3 DEF Moves
<1> QED BY <1>4, <1>5, <1>6 DEF MoveStep

LEMMA AdmitMoves ==
    ASSUME IInv, Admit
    PROVE  MoveStep
<1> USE Apart
<1>1. /\ Typed /\ Worked /\ Called /\ Filed /\ Entered /\ Owned
      /\ Hooked /\ Given /\ Told /\ Held1 /\ Within /\ NoneLeftBehind
  BY DEF IInv
<1>2. /\ w.pc = "add" /\ w' \in {[w EXCEPT !.pc = "look"], Idle}
      /\ UNCHANGED <<managerVars, roomVars, entry, unsub, down>>
  BY DEF Admit
<1>3. \/ w'.pc = "look" /\ w'.sub = w.sub /\ w'.media = w.media /\ w'.down = w.down
      \/ w'.pc = "idle" /\ w'.sub = None /\ w'.down = None
  BY <1>1, <1>2 DEF Typed, WorkerState, Idle
<1>4. Typed'
  <2>1. w' \in WorkerState
    <3>1. w \in WorkerState /\ "look" \in WorkerPoints
      BY <1>1 DEF Typed, WorkerPoints
    <3>2. [w EXCEPT !.pc = "look"] \in WorkerState
      BY <3>1, WorkerRecords
    <3> QED BY <1>2, <3>2, WorkerRecords
  <2> QED BY <1>1, <1>2, <2>1 DEF Typed
<1>5. Worked' /\ Within' /\ NoneLeftBehind'
  BY <1>1, <1>2, <1>3 DEF Worked, Within, NoneLeftBehind, Up
<1>6. Moves
  BY <1>2, <1>3 DEF Moves
<1> QED BY <1>4, <1>5, <1>6 DEF MoveStep

LEMMA LookMoves ==
    ASSUME IInv, Look
    PROVE  MoveStep
<1> USE Apart
<1>1. /\ Typed /\ Worked /\ Called /\ Filed /\ Entered /\ Owned
      /\ Hooked /\ Given /\ Told /\ Held1 /\ Within /\ NoneLeftBehind
  BY DEF IInv
<1>2. /\ w.pc = "look"
      /\ \/ w' = [w EXCEPT !.pc = "make"] /\ entry[w.media] = None
         \/ w' = [w EXCEPT !.pc = "recheck"]
      /\ UNCHANGED <<managerVars, roomVars, entry, unsub, down>>
  BY DEF Look
<1>3. /\ \/ w'.pc = "make" /\ entry[w.media] = None
         \/ w'.pc = "recheck"
      /\ w'.sub = w.sub /\ w'.media = w.media /\ w'.down = w.down /\ w.down = None
  BY <1>1, <1>2 DEF Typed, WorkerState, Worked
<1>4. Typed'
  <2>1. w' \in WorkerState
    <3>1. w \in WorkerState /\ "make" \in WorkerPoints /\ "recheck" \in WorkerPoints
      BY <1>1 DEF Typed, WorkerPoints
    <3>2. /\ [w EXCEPT !.pc = "make"] \in WorkerState
          /\ [w EXCEPT !.pc = "recheck"] \in WorkerState
      BY <3>1, WorkerRecords
    <3> QED BY <1>2, <3>2
  <2> QED BY <1>1, <1>2, <2>1 DEF Typed
<1>5. Worked' /\ Within' /\ NoneLeftBehind'
  BY <1>1, <1>2, <1>3 DEF Worked, Within, NoneLeftBehind, Up
<1>6. Moves
  BY <1>2, <1>3 DEF Moves
<1> QED BY <1>4, <1>5, <1>6 DEF MoveStep

LEMMA RecheckSteps ==
    ASSUME IInv, Recheck
    PROVE  MinorStep \/ MoveStep
<1> USE Apart
<1>1. /\ Typed /\ Worked /\ Called /\ Filed /\ Entered /\ Owned
      /\ Hooked /\ Given /\ Told /\ Held1 /\ Within /\ NoneLeftBehind
  BY DEF IInv
<1>2. /\ w.pc = "recheck" /\ w.media \in Media
      /\ UNCHANGED <<managerVars, roomVars, entry, unsub>>
  BY <1>1 DEF Recheck, Worked
<1>3. CASE state[w.media] = "open"
  <2>1. /\ w' = [w EXCEPT !.pc = IF w.down = None THEN "mark" ELSE "hook"]
        /\ UNCHANGED down
    BY <1>3 DEF Recheck
  <2>2. /\ w'.pc = (IF w.down = None THEN "mark" ELSE "hook")
        /\ w'.sub = w.sub /\ w'.media = w.media /\ w'.down = w.down
    BY <1>1, <2>1 DEF Typed, WorkerState
  <2>3. Typed'
    <3>1. w' \in WorkerState
      BY <1>1, <2>1, WorkerRecords DEF Typed, WorkerPoints
    <3> QED BY <1>1, <1>2, <2>1, <3>1 DEF Typed
  <2>4. Worked'
    BY <1>1, <1>2, <2>2 DEF Worked, Typed, WorkerState
  <2>5. Within' /\ NoneLeftBehind'
    BY <1>1, <1>2, <1>3, <2>1, <2>2 DEF Within, NoneLeftBehind, Up
  <2>6. Moves
    BY <1>2, <2>1, <2>2 DEF Moves
  <2> QED BY <2>3, <2>4, <2>5, <2>6 DEF MoveStep
<1>4. CASE state[w.media] # "open"
  <2>1. w' = Idle /\ down' = Closing(entry[w.media])
    BY <1>4 DEF Recheck
  <2>2. Typed'
    <3>1. w' \in WorkerState /\ down' \in [Downs -> DownTrack]
      BY <1>1, <2>1, WorkerRecords, DownsClosing
    <3> QED BY <1>1, <1>2, <3>1 DEF Typed
  <2>3. DownsKept
    BY <1>1, <2>1, ClosingKeeps
  <2>4. \A d \in Downs : d = entry[w.media] => down'[d].phase # "up"
    BY <1>1, <2>1 DEF Closing, Typed, DownTrack
  <2>5. WorkerKept
    <3>1. w.down # None =>
            w.down \in Downs /\ (down[w.down].phase = "up" => w.down = entry[w.media])
      BY <1>1, <1>2 DEF Owned, Entered, Typed, WorkerState
    <3> QED BY <1>2, <2>1, <2>3, <2>4, <3>1 DEF WorkerKept, DownsKept, Idle
  <2>6. NoneLeftBehind'
    BY <1>1, <1>2, <2>3, <2>4 DEF NoneLeftBehind, Up, DownsKept, Entered
  <2>7. Minor /\ Seen
    BY <1>2, <2>3, <2>5, <2>6, Keeping DEF Minor, Seen
  <2> QED BY <2>2, <2>7 DEF MinorStep
<1> QED BY <1>3, <1>4

-----------------------------------------------------------------------------
(* The ways out of a down track's goroutine. *)

\* A subscription lets its down track go.
Release(d) == LetGo(d) /\ sub[down[d].owner].down # None

LEMMA LetGoSteps ==
    ASSUME IInv, NEW d \in Downs, LetGo(d)
    PROVE  LeaveStep(d) \/ Release(d)
<1> USE Apart
<1>1. /\ Typed /\ Worked /\ Called /\ Filed /\ Entered /\ Owned
      /\ Hooked /\ Given /\ Told /\ Held1 /\ Within /\ NoneLeftBehind
  BY DEF IInv
<1> DEFINE s == down[d].owner
<1>2. s \in Subs /\ sub[s].track \in Tracks /\ down[d].phase = "handle"
  BY <1>1 DEF LetGo, Owned, Typed, DownTrack
<1>3. SUFFICES ASSUME sub[s].down = None PROVE LeaveStep(d)
  BY DEF Release
<1>4. down' = Gone(d) /\ sub' = Left(d)
      /\ UNCHANGED <<subscriptions, count, subscribedTo, closed, call, w,
                     roomVars, entry, unsub>>
  BY <1>3 DEF LetGo
<1>5. Typed'
  BY <1>1, <1>4, DownsGone, SubsLeft DEF Typed
<1>6. /\ down'[d].owner = None /\ down'[d].phase \in {"none", "gone"}
      /\ Kept(d) => down'[d].phase = "gone"
      /\ down'[d].phase # "none" => down'[d].media = down[d].media
      /\ \A x \in Downs \ {d} : down'[x] = down[x]
  BY <1>1, <1>4 DEF Gone, NoDown, Typed, DownTrack
<1>7. Leaving(d)
  BY <1>2, <1>3, <1>4, <1>6 DEF Leaving
<1> QED BY <1>5, <1>7 DEF LeaveStep

LEMMA UnmarkLeaves ==
    ASSUME IInv, NEW d \in Downs, Unmark(d)
    PROVE  LeaveStep(d)
<1> USE Apart
<1>1. /\ Typed /\ Worked /\ Called /\ Filed /\ Entered /\ Owned
      /\ Hooked /\ Given /\ Told /\ Held1 /\ Within /\ NoneLeftBehind
  BY DEF IInv
<1>2. /\ down[d].phase = "unmark"
      /\ down' = [down EXCEPT ![d].phase = "detach", ![d].owner = None]
      /\ sub' = Left(d)
      /\ subscribedTo' = subscribedTo \ {sub[down[d].owner].track}
      /\ UNCHANGED <<subscriptions, count, closed, call, w, roomVars, entry, unsub>>
  BY DEF Unmark
<1>3. Typed'
  <2>1. down' \in [Downs -> DownTrack]
    BY <1>1, <1>2, DownBoth DEF Phases
  <2> QED BY <1>1, <1>2, <2>1, SubsLeft DEF Typed
<1>4. /\ down'[d].owner = None /\ down'[d].phase = "detach"
      /\ down'[d].media = down[d].media
      /\ \A x \in Downs \ {d} : down'[x] = down[x]
  BY <1>1, <1>2 DEF Typed, DownTrack
<1>5. Leaving(d)
  BY <1>2, <1>4 DEF Leaving
<1> QED BY <1>3, <1>5 DEF LeaveStep

LEMMA DetachLeaves ==
    ASSUME IInv, NEW d \in Downs, Detach(d)
    PROVE  LeaveStep(d)
<1> USE Apart
<1>1. /\ Typed /\ Worked /\ Called /\ Filed /\ Entered /\ Owned
      /\ Hooked /\ Given /\ Told /\ Held1 /\ Within /\ NoneLeftBehind
  BY DEF IInv
<1>2. down[d].phase = "detach" /\ down' = Gone(d)
      /\ UNCHANGED <<managerVars, w, roomVars, entry, unsub>>
  BY DEF Detach
<1>3. Typed'
  BY <1>1, <1>2, DownsGone DEF Typed
<1>4. /\ down'[d].owner = None /\ down'[d].phase \in {"none", "gone"}
      /\ Kept(d) => down'[d].phase = "gone"
      /\ down'[d].phase # "none" => down'[d].media = down[d].media
      /\ \A x \in Downs \ {d} : down'[x] = down[x]
  BY <1>1, <1>2 DEF Gone, NoDown, Typed, DownTrack
<1>5. Leaving(d)
  BY <1>2, <1>4 DEF Leaving
<1> QED BY <1>3, <1>5 DEF LeaveStep

-----------------------------------------------------------------------------
(* The steps that build a subscription up and take it down. *)

LEMMA SubscribeNewKeeps ==
    ASSUME IInv, NEW c \in Callers, NEW t \in Tracks, SubscribeNew(c, t)
    PROVE  IInv'
<1> USE Apart
<1>1. /\ Typed /\ Worked /\ Called /\ Filed /\ Entered /\ Owned
      /\ Hooked /\ Given /\ Told /\ Held1 /\ Within /\ NoneLeftBehind
  BY DEF IInv
<1> DEFINE s == Min(FreeSubs)
<1>2. s \in Subs /\ ~Referenced(s)
  BY FreeSub DEF SubscribeNew, FreeSubs
<1> HIDE DEF s
<1>3. /\ call[c].pc = "idle"
      /\ sub' = [sub EXCEPT ![s] = [Blank EXCEPT !.track = t]]
      /\ call' = [call EXCEPT ![c] = [pc |-> "insert", track |-> t, sub |-> s]]
      /\ UNCHANGED <<subscriptions, count, subscribedTo, closed, w,
                     roomVars, entry, unsub, down>>
  BY DEF SubscribeNew, s
<1>4. /\ sub'[s].down = None /\ sub'[s].track = t /\ sub'[s].desired = FALSE
      /\ \A r \in Subs \ {s} : sub'[r] = sub[r]
  BY <1>1, <1>2, <1>3 DEF Typed, Blank
<1>5. /\ call'[c].pc = "insert" /\ call'[c].track = t /\ call'[c].sub = s
      /\ \A b \in Callers \ {c} : call'[b] = call[b]
  BY <1>1, <1>3 DEF Typed
<1>6. Typed'
  <2>1. sub' \in [Subs -> Subscription]
    BY <1>1, <1>2, <1>3, SubRecords DEF Typed
  <2>2. call' \in [Callers -> Call]
    BY <1>1, <1>2, <1>3, CallRecords DEF Typed
  <2> QED BY <1>1, <1>3, <2>1, <2>2 DEF Typed
<1>7. \A x \in Subs : x # s => (Referenced(x)' <=> Referenced(x))
  BY <1>1, <1>2, <1>3, <1>5 DEF Called, Referenced, Mapped, Owners
<1>8. Worked' /\ Filed'
  BY <1>1, <1>2, <1>3, <1>4 DEF Worked, Filed, Referenced, Mapped, Typed, WorkerState
<1>9. Called'
  BY <1>1, <1>2, <1>3, <1>4, <1>5 DEF Called, Referenced, Mapped, Owners, Typed
<1>10. Entered' /\ Hooked' /\ Given'
  BY <1>1, <1>3 DEF Entered, Hooked, Given, Live
<1>11. Owned' /\ Told'
  BY <1>1, <1>2, <1>3, <1>4 DEF Owned, Told, Live, Referenced, Owners, Typed, DownTrack
<1>12. Held1'
  BY <1>1, <1>3, <1>4, <1>7 DEF Held1, Live
<1>13. Within' /\ NoneLeftBehind'
  BY <1>1, <1>3 DEF Within, NoneLeftBehind, Up
<1>14. CountCovers'
  <2>1. Countings' \subseteq Countings
    BY <1>2, <1>3, <1>4 DEF Countings, Counting, Live, Referenced, Owners
  <2> QED BY <1>3, <1>6, <2>1, CountSame
<1> QED BY <1>6, <1>8, <1>9, <1>10, <1>11, <1>12, <1>13, <1>14 DEF IInv

LEMMA InsertKeeps ==
    ASSUME IInv, NEW c \in Callers, Insert(c)
    PROVE  IInv'
<1> USE Apart
<1>1. /\ Typed /\ Worked /\ Called /\ Filed /\ Entered /\ Owned
      /\ Hooked /\ Given /\ Told /\ Held1 /\ Within /\ NoneLeftBehind
  BY DEF IInv
<1> DEFINE s == call[c].sub
           t == call[c].track
<1>2. /\ call[c].pc = "insert" /\ s \in Subs /\ t \in Tracks /\ sub[s].track = t
      /\ subscriptions' = [subscriptions EXCEPT ![t] = s]
      /\ call' = [call EXCEPT ![c].pc = "desire", ![c].sub = None]
      /\ UNCHANGED <<sub, count, subscribedTo, closed, w, roomVars, entry, unsub, down>>
  BY <1>1 DEF Insert, Called
<1>3. /\ \A u \in Tracks \ {t} : subscriptions'[u] = subscriptions[u]
      /\ subscriptions'[t] = s
  BY <1>1, <1>2 DEF Typed
<1>4. /\ call'[c].pc = "desire" /\ call'[c].sub = None /\ call'[c].track = t
      /\ \A b \in Callers \ {c} : call'[b] = call[b] /\ call[b].sub # s
  BY <1>1, <1>2 DEF Typed, Call, Called
<1>5. s = call[c].sub
  OBVIOUS
<1> HIDE DEF s, t
<1>6. Typed'
  <2>1. subscriptions' \in [Tracks -> Subs \cup {None}]
    BY <1>1, <1>2 DEF Typed
  <2>2. call' \in [Callers -> Call]
    <3>1. \A b \in Callers : call'[b] \in Call
      BY <1>1, <1>2, CallRecords DEF Typed
    <3> QED BY <1>1, <1>2, <3>1 DEF Typed
  <2> QED BY <1>1, <1>2, <2>1, <2>2 DEF Typed
<1>7. \A x \in Subs : Mapped(x)' => Mapped(x) \/ x = s
  BY <1>3 DEF Mapped
<1>8. \A x \in Subs : Referenced(x)' => Referenced(x)
  BY <1>2, <1>4, <1>5, <1>7 DEF Referenced, Owners
<1>9. Called'
  <2>1. \A x \in Subs : x \in Owners(Downs)' <=> x \in Owners(Downs)
    BY <1>2 DEF Owners
  <2>2. \A b \in Callers \ {c} : call[b].pc = "insert" => ~Mapped(call[b].sub)'
    BY <1>1, <1>4, <1>7 DEF Called
  <2>3. \A b \in Callers \ {c} : call'[b].pc = "insert" =>
            /\ sub[call[b].sub].track = call[b].track /\ sub[call[b].sub].down = None
            /\ call[b].sub \in Subs /\ w.sub # call[b].sub /\ call[b].sub \notin Owners(Downs)
            /\ \A e \in Callers : call'[e].sub = call[b].sub => e = b
    BY <1>1, <1>4 DEF Called
  <2>4. \A b \in Callers : /\ call'[b].pc # "insert" => call'[b].sub = None
                           /\ call'[b].pc # "idle" => call'[b].track \in Tracks
    BY <1>1, <1>2, <1>4 DEF Called
  <2>5. ASSUME NEW b \in Callers, call'[b].pc = "insert"
        PROVE  b \in Callers \ {c} /\ call'[b] = call[b]
    BY <1>4, <2>5
  <2>6. ASSUME NEW b \in Callers, call'[b].pc = "insert"
        PROVE  LET x == call[b].sub
               IN  /\ x \in Subs /\ sub[x].track = call[b].track /\ sub[x].down = None
                   /\ ~Mapped(x) /\ w.sub # x /\ x \notin Owners(Downs)
                   /\ \A e \in Callers : call[e].sub = x => e = b
    BY <1>1, <2>5, <2>6 DEF Called
  <2>7. ASSUME NEW b \in Callers, call'[b].pc = "insert"
        PROVE  (LET x == call[b].sub
                IN  /\ x \in Subs /\ sub[x].track = call[b].track /\ sub[x].down = None
                    /\ ~Mapped(x) /\ w.sub # x /\ x \notin Owners(Downs)
                    /\ \A e \in Callers : call[e].sub = x => e = b)'
    <3> DEFINE x == call[b].sub
    <3>1. x' = x
      BY <2>5, <2>7
    <3>2. /\ x \in Subs /\ sub[x].track = call[b].track /\ sub[x].down = None
          /\ ~Mapped(x) /\ w.sub # x /\ x \notin Owners(Downs)
          /\ \A e \in Callers : call[e].sub = x => e = b
      BY <2>6, <2>7
    <3>3. (x \in Subs /\ sub[x].track = call[b].track /\ sub[x].down = None /\ w.sub # x)'
      BY <1>2, <2>5, <2>7, <3>1, <3>2
    <3>4. (x \notin Owners(Downs))'
      BY <2>1, <3>1, <3>2
    <3>5. ~Mapped(x)'
      BY <2>2, <2>5, <2>7, <3>1
    <3>6. \A e \in Callers : call'[e].sub = x' => e = b
      BY <1>4, <3>1, <3>2
    <3> QED BY <3>3, <3>4, <3>5, <3>6
  <2> QED BY <2>4, <2>7 DEF Called
<1>10. Filed'
  BY <1>1, <1>2, <1>3 DEF Filed
<1>11. Worked' /\ Entered' /\ Owned' /\ Hooked'
  BY <1>1, <1>2 DEF Worked, Entered, Owned, Hooked
<1>12. Given' /\ Told'
  BY <1>1, <1>2 DEF Given, Told, Live
<1>13. Held1'
  BY <1>1, <1>2, <1>8 DEF Held1, Live
<1>14. Within' /\ NoneLeftBehind'
  BY <1>1, <1>2 DEF Within, NoneLeftBehind, Up
<1>15. CountCovers'
  <2>1. Countings' \subseteq Countings
    BY <1>2 DEF Countings, Counting, Live
  <2> QED BY <1>2, <1>6, <2>1, CountSame
<1> QED BY <1>6, <1>9, <1>10, <1>11, <1>12, <1>13, <1>14, <1>15 DEF IInv

LEMMA UpdateSettingsKeeps ==
    ASSUME IInv, NEW c \in Callers, NEW t \in Tracks, UpdateSettings(c, t)
    PROVE  IInv'
<1> USE Apart
<1>1. /\ Typed /\ Worked /\ Called /\ Filed /\ Entered /\ Owned
      /\ Hooked /\ Given /\ Told /\ Held1 /\ Within /\ NoneLeftBehind
  BY DEF IInv
<1> DEFINE s == Min(FreeSubs)
<1>2. s \in Subs /\ ~Referenced(s)
  BY FreeSub DEF UpdateSettings, FreeSubs
<1> HIDE DEF s
<1>3. /\ subscriptions[t] = None
      /\ sub' = [sub EXCEPT ![s] = [Blank EXCEPT !.track = t]]
      /\ subscriptions' = [subscriptions EXCEPT ![t] = s]
      /\ UNCHANGED <<count, subscribedTo, closed, call, w, roomVars, entry, unsub, down>>
  BY DEF UpdateSettings, s
<1>4. /\ sub'[s].down = None /\ sub'[s].track = t /\ sub'[s].desired = FALSE
      /\ \A r \in Subs \ {s} : sub'[r] = sub[r]
  BY <1>1, <1>2, <1>3 DEF Typed, Blank
<1>5. subscriptions'[t] = s /\ \A u \in Tracks \ {t} : subscriptions'[u] = subscriptions[u]
  BY <1>1, <1>3 DEF Typed
<1>6. Typed'
  <2>1. sub' \in [Subs -> Subscription]
    BY <1>1, <1>2, <1>3, SubRecords DEF Typed
  <2>2. subscriptions' \in [Tracks -> Subs \cup {None}]
    BY <1>1, <1>2, <1>3 DEF Typed
  <2> QED BY <1>1, <1>3, <2>1, <2>2 DEF Typed
<1>7. \A x \in Subs : x # s => (Mapped(x)' <=> Mapped(x)) /\ (Referenced(x)' <=> Referenced(x))
  BY <1>1, <1>2, <1>3, <1>5 DEF Called, Referenced, Mapped, Owners
<1>8. Worked' /\ Filed'
  BY <1>1, <1>2, <1>3, <1>4, <1>5 DEF Worked, Filed, Referenced, Mapped, Typed, WorkerState
<1>9. Called'
  BY <1>1, <1>2, <1>3, <1>4, <1>5, <1>7 DEF Called, Referenced, Mapped, Owners, Typed
<1>10. Entered' /\ Hooked' /\ Given'
  BY <1>1, <1>3 DEF Entered, Hooked, Given, Live
<1>11. Owned' /\ Told'
  BY <1>1, <1>2, <1>3, <1>4 DEF Owned, Told, Live, Referenced, Owners, Typed, DownTrack
<1>12. Held1'
  BY <1>1, <1>3, <1>4, <1>7 DEF Held1, Live
<1>13. Within' /\ NoneLeftBehind'
  BY <1>1, <1>3 DEF Within, NoneLeftBehind, Up
<1>14. CountCovers'
  <2>1. Countings' \subseteq Countings
    BY <1>2, <1>3, <1>4 DEF Countings, Counting, Live, Referenced, Owners
  <2> QED BY <1>3, <1>6, <2>1, CountSame
<1> QED BY <1>6, <1>8, <1>9, <1>10, <1>11, <1>12, <1>13, <1>14 DEF IInv

LEMMA MakeDownKeeps ==
    ASSUME IInv, MakeDown
    PROVE  IInv'
<1> USE Apart
<1>1. /\ Typed /\ Worked /\ Called /\ Filed /\ Entered /\ Owned
      /\ Hooked /\ Given /\ Told /\ Held1 /\ Within /\ NoneLeftBehind
  BY DEF IInv
<1> DEFINE d == Min(FreeDowns)
<1>2. d \in Downs /\ down[d].phase \in {"none", "gone"} /\ ~Kept(d)
  BY FreeDown DEF MakeDown, FreeDowns
<1> HIDE DEF d
<1>3. /\ w.pc = "make"
      /\ down' = [down EXCEPT ![d] = [phase |-> "up", media |-> w.media, owner |-> None]]
      /\ entry' = [entry EXCEPT ![w.media] = d]
      /\ w' = [w EXCEPT !.pc = "recheck", !.down = d]
      /\ UNCHANGED <<managerVars, roomVars, unsub>>
  BY DEF MakeDown, d
<1>4. /\ w.media \in Media /\ entry[w.media] = None
      /\ w.down = None /\ w.sub \in Subs /\ sub[w.sub].down = None
  BY <1>1, <1>3 DEF Worked
<1>5. w'.pc = "recheck" /\ w'.down = d /\ w'.sub = w.sub /\ w'.media = w.media
  BY <1>1, <1>3 DEF Typed, WorkerState
<1>6. /\ down'[d].phase = "up" /\ down'[d].media = w.media /\ down'[d].owner = None
      /\ \A x \in Downs \ {d} : down'[x] = down[x]
  BY <1>1, <1>2, <1>3 DEF Typed
<1>7. entry'[w.media] = d /\ \A m \in Media \ {w.media} : entry'[m] = entry[m]
  BY <1>1, <1>3, <1>4 DEF Typed
<1>8. down[d].owner = None /\ \A m \in Media : entry[m] # d
  BY <1>1, <1>2 DEF Owned, Entered
<1>9. Typed'
  <2>1. down' \in [Downs -> DownTrack]
    BY <1>1, <1>3, <1>4, DownRecords DEF Typed
  <2>2. w' \in WorkerState
    BY <1>1, <1>2, <1>3, WorkerRecords DEF Typed, WorkerPoints
  <2>3. entry' \in [Media -> Downs \cup {None}]
    BY <1>1, <1>2, <1>3 DEF Typed
  <2> QED BY <1>1, <1>3, <2>1, <2>2, <2>3 DEF Typed
<1>10. \A x \in Subs : Referenced(x)' <=> Referenced(x)
  BY <1>2, <1>3, <1>5, <1>6, <1>8 DEF Referenced, Mapped, Owners
<1>11. Worked' /\ Filed'
  BY <1>1, <1>2, <1>3, <1>4, <1>5 DEF Worked, Filed, Typed
<1>12. Called'
  BY <1>1, <1>3, <1>5, <1>6 DEF Called, Mapped, Owners
<1>13. Entered'
  <2>1. \A x \in Downs \ {d} : down[x].phase \in {"up", "closing"} =>
            down[x].media \in Media \ {w.media}
    BY <1>1, <1>4 DEF Entered
  <2>2. \A x \in Downs : down'[x].phase \in {"up", "closing"} =>
            down'[x].media \in Media /\ entry'[down'[x].media] = x
    BY <1>1, <1>2, <1>4, <1>6, <1>7, <2>1 DEF Entered
  <2>3. \A m \in Media : entry'[m] # None =>
            down'[entry'[m]].phase \in {"up", "closing"} /\ down'[entry'[m]].media = m
    <3>1. \A m \in Media \ {w.media} : entry[m] # None => entry[m] \in Downs \ {d}
      BY <1>1, <1>8 DEF Typed
    <3> QED BY <1>1, <1>2, <1>4, <1>6, <1>7, <3>1 DEF Entered
  <2> QED BY <2>2, <2>3 DEF Entered
<1>14. Owned' /\ Hooked'
  BY <1>1, <1>2, <1>3, <1>4, <1>5, <1>6 DEF Owned, Hooked
<1>15. Told' /\ Given'
  BY <1>1, <1>3, <1>5, <1>6 DEF Told, Given, Live
<1>16. Held1'
  BY <1>1, <1>2, <1>3, <1>5, <1>6, <1>10 DEF Held1, Live, Kept
<1>17. Within' /\ NoneLeftBehind'
  BY <1>1, <1>3, <1>5, <1>6 DEF Within, NoneLeftBehind, Up
<1>18. CountCovers'
  <2>1. Countings' \subseteq Countings
    BY <1>3, <1>6 DEF Countings, Counting, Live
  <2> QED BY <1>3, <1>5, <1>9, <2>1, CountSame
<1> QED BY <1>9, <1>11, <1>12, <1>13, <1>14, <1>15, <1>16, <1>17, <1>18 DEF IInv

LEMMA HookKeeps ==
    ASSUME IInv, Hook
    PROVE  IInv'
<1> USE Apart
<1>1. /\ Typed /\ Worked /\ Called /\ Filed /\ Entered /\ Owned
      /\ Hooked /\ Given /\ Told /\ Held1 /\ Within /\ NoneLeftBehind
  BY DEF IInv
<1> DEFINE s == w.sub
           d == w.down
<1>2. /\ w.pc = "hook" /\ s \in Subs /\ sub[s].track \in Tracks /\ sub[s].down = None
      /\ d \in Downs /\ down[d].owner = None
      /\ down[d].phase \in {"up", "closing", "detach", "gone"}
      /\ w' = [w EXCEPT !.pc = "set"]
      /\ down' = [down EXCEPT ![d].owner =
            IF down[d].phase \in {"up", "closing"} THEN s ELSE @]
      /\ UNCHANGED <<managerVars, roomVars, entry, unsub>>
  BY <1>1 DEF Hook, Worked, Owned, Given, Live
<1>3. w'.pc = "set" /\ w'.sub = s /\ w'.media = w.media /\ w'.down = d
  BY <1>1, <1>2 DEF Typed, WorkerState
<1>4. /\ down'[d].phase = down[d].phase /\ down'[d].media = down[d].media
      /\ down'[d].owner = (IF down[d].phase \in {"up", "closing"} THEN s ELSE None)
      /\ \A x \in Downs \ {d} : down'[x] = down[x]
  BY <1>1, <1>2 DEF Typed, DownTrack
<1>5. Typed'
  <2>1. w' \in WorkerState
    BY <1>1, <1>2, WorkerRecords DEF Typed, WorkerPoints
  <2>2. down' \in [Downs -> DownTrack]
    BY <1>1, <1>2, DownOwner DEF Typed
  <2> QED BY <1>1, <1>2, <2>1, <2>2 DEF Typed
<1>6. w.sub = s /\ w.down = d
  OBVIOUS
<1> HIDE DEF s, d
<1>7. \A x \in Subs : x \in Owners(Downs)' => x \in Owners(Downs) \/ x = s
  BY <1>4 DEF Owners
<1>8. \A x \in Subs : Mapped(x)' <=> Mapped(x)
  BY <1>2 DEF Mapped
<1>9. \A x \in Subs : Referenced(x)' => Referenced(x)
  BY <1>2, <1>3, <1>6, <1>7, <1>8 DEF Referenced
<1>10. Worked' /\ Filed'
  BY <1>1, <1>2, <1>3, <1>6 DEF Worked, Filed
<1>11. Called'
  BY <1>1, <1>2, <1>3, <1>6, <1>7, <1>8 DEF Called
<1>12. Entered' /\ Hooked'
  BY <1>1, <1>2, <1>3, <1>4, <1>6 DEF Entered, Hooked
<1>13. Owned'
  BY <1>1, <1>2, <1>3, <1>4, <1>6 DEF Owned
<1>14. Given' /\ Told'
  BY <1>1, <1>2, <1>3, <1>4, <1>6 DEF Given, Told, Live
<1>15. Held1'
  BY <1>1, <1>2, <1>3, <1>4, <1>6, <1>9 DEF Held1, Live
<1>16. Within' /\ NoneLeftBehind'
  BY <1>1, <1>2, <1>3, <1>4 DEF Within, NoneLeftBehind, Up
<1>17. CountCovers'
  <2>1. Countings' \subseteq Countings
    BY <1>2, <1>4 DEF Countings, Counting, Live
  <2> QED BY <1>2, <1>3, <1>5, <2>1, CountSame
<1> QED BY <1>5, <1>10, <1>11, <1>12, <1>13, <1>14, <1>15, <1>16, <1>17 DEF IInv

LEMMA SetDownKeeps ==
    ASSUME IInv, SetDown
    PROVE  IInv'
<1> USE Apart
<1>1. /\ Typed /\ Worked /\ Called /\ Filed /\ Entered /\ Owned
      /\ Hooked /\ Given /\ Told /\ Held1 /\ Within /\ NoneLeftBehind
  BY DEF IInv
<1> DEFINE s == w.sub
           d == w.down
<1>2. /\ w.pc = "set" /\ s \in Subs /\ sub[s].track \in Tracks /\ sub[s].down = None
      /\ d \in Downs
      /\ sub' = [sub EXCEPT ![s].down = d]
      /\ w' = [w EXCEPT !.pc = "count"]
      /\ UNCHANGED <<subscriptions, count, subscribedTo, closed, call,
                     roomVars, entry, unsub, down>>
  BY <1>1 DEF SetDown, Worked
<1>3. w'.pc = "count" /\ w'.sub = s /\ w'.media = w.media /\ w'.down = d
  BY <1>1, <1>2 DEF Typed, WorkerState
<1>4. /\ sub'[s].down = d /\ sub'[s].track = sub[s].track
      /\ \A r \in Subs \ {s} : sub'[r] = sub[r]
  BY <1>1, <1>2 DEF Typed, Subscription
<1>5. Typed'
  <2>1. w' \in WorkerState
    BY <1>1, <1>2, WorkerRecords DEF Typed, WorkerPoints
  <2>2. sub' \in [Subs -> Subscription]
    BY <1>1, <1>2, SubDown
  <2> QED BY <1>1, <1>2, <2>1, <2>2 DEF Typed
<1>6. w.sub = s /\ w.down = d
  OBVIOUS
<1> HIDE DEF s, d
<1>7. \A x \in Downs : down[x].owner # None => down[x].owner \in Subs
  BY <1>1 DEF Typed, DownTrack
<1>8. \A x \in Subs : (Mapped(x)' <=> Mapped(x)) /\ (Referenced(x)' <=> Referenced(x))
  BY <1>2, <1>3, <1>6 DEF Mapped, Referenced, Owners
<1>9. Worked' /\ Filed'
  BY <1>1, <1>2, <1>3, <1>4, <1>6 DEF Worked, Filed, Typed
<1>10. Called'
  BY <1>1, <1>2, <1>3, <1>4, <1>6 DEF Called, Mapped, Owners
<1>11. Entered' /\ Hooked' /\ Given'
  BY <1>1, <1>2, <1>3 DEF Entered, Hooked, Given
<1>12. Owned'
  BY <1>1, <1>2, <1>3, <1>4, <1>7 DEF Owned
<1>13. Told'
  BY <1>1, <1>2, <1>3, <1>4, <1>6, <1>7 DEF Told, Live
<1>14. Held1'
  <2>1. ASSUME NEW r \in Subs, Referenced(r), sub[r].down # None
        PROVE  sub[r].down \in Downs \ {d}
    BY <1>1, <1>2, <1>6, <2>1 DEF Held1, Typed, Subscription
  <2>2. (Live(d) /\ down[d].owner = s) \/ down[d].phase \in {"detach", "gone"}
    BY <1>1, <1>2, <1>6 DEF Given
  <2> QED BY <1>1, <1>2, <1>3, <1>4, <1>8, <2>1, <2>2 DEF Held1, Live
<1>15. Within' /\ NoneLeftBehind'
  BY <1>1, <1>2, <1>3 DEF Within, NoneLeftBehind, Up
<1>16. CountCovers'
  <2>1. Countings' \subseteq Countings \cup {d}
    BY <1>2, <1>4, <1>7 DEF Countings, Counting, Live
  <2>2. IsFiniteSet(Countings) /\ Cardinality(Countings) \in Nat
    BY CountingsFinite
  <2>3. Cardinality(Countings') <= Cardinality(Countings) + 1 /\ Cardinality(Countings') \in Nat
    <3>1. /\ IsFiniteSet(Countings \cup {d})
          /\ Cardinality(Countings \cup {d}) <= Cardinality(Countings) + 1
          /\ Cardinality(Countings \cup {d}) \in Nat
      <4>1. /\ IsFiniteSet(Countings \cup {d})
            /\ Cardinality(Countings \cup {d}) =
                  IF d \in Countings THEN Cardinality(Countings) ELSE Cardinality(Countings) + 1
        BY <2>2, FS_AddElement
      <4> QED BY <2>2, <4>1
    <3> QED BY <2>1, <2>2, <3>1, FS_Subset, FS_CardinalityType
  <2>4. count >= Cardinality(Countings) /\ count \in Int
    BY <1>2, <2>2 DEF IInv, CountCovers, Typed
  <2> QED BY <1>2, <1>3, <2>2, <2>3, <2>4 DEF CountCovers
<1> QED BY <1>5, <1>9, <1>10, <1>11, <1>12, <1>13, <1>14, <1>15, <1>16 DEF IInv

LEMMA CountedKeeps ==
    ASSUME IInv, Counted
    PROVE  IInv'
<1> USE Apart
<1>1. /\ Typed /\ Worked /\ Called /\ Filed /\ Entered /\ Owned
      /\ Hooked /\ Given /\ Told /\ Held1 /\ Within /\ NoneLeftBehind
  BY DEF IInv
<1>2. /\ w.pc = "count" /\ count' = count + 1
      /\ w' = [w EXCEPT !.pc = "mark"]
      /\ UNCHANGED <<subscriptions, sub, subscribedTo, closed, call,
                     roomVars, entry, unsub, down>>
  BY DEF Counted
<1>3. w'.pc = "mark" /\ w'.sub = w.sub /\ w'.media = w.media /\ w'.down = w.down
  BY <1>1, <1>2 DEF Typed, WorkerState
<1>4. Typed'
  <2>1. w' \in WorkerState
    BY <1>1, <1>2, WorkerRecords DEF Typed, WorkerPoints
  <2> QED BY <1>1, <1>2, <2>1 DEF Typed
<1>5. \A x \in Subs : (Mapped(x)' <=> Mapped(x)) /\ (Referenced(x)' <=> Referenced(x))
  BY <1>2, <1>3 DEF Mapped, Referenced, Owners
<1>6. Worked' /\ Filed'
  BY <1>1, <1>2, <1>3 DEF Worked, Filed
<1>7. Called'
  BY <1>1, <1>2, <1>3, <1>5 DEF Called, Owners
<1>8. Entered' /\ Owned' /\ Hooked'
  BY <1>1, <1>2, <1>3 DEF Entered, Owned, Hooked
<1>9. Given' /\ Told' /\ Held1'
  BY <1>1, <1>2, <1>3, <1>5 DEF Given, Told, Held1, Live
<1>10. Within' /\ NoneLeftBehind'
  BY <1>1, <1>2, <1>3 DEF Within, NoneLeftBehind, Up, Typed
<1>11. CountCovers'
  <2>1. Countings' = Countings
    BY <1>2 DEF Countings, Counting, Live
  <2>2. count >= Cardinality(Countings) - 1 /\ count \in Int /\ Cardinality(Countings) \in Nat
    BY <1>2, CountingsFinite DEF IInv, CountCovers, Typed
  <2> QED BY <1>2, <1>3, <2>1, <2>2 DEF CountCovers
<1> QED BY <1>4, <1>6, <1>7, <1>8, <1>9, <1>10, <1>11 DEF IInv

LEMMA CleanupKeeps ==
    ASSUME IInv, Cleanup
    PROVE  IInv'
<1> USE Apart
<1>1. /\ Typed /\ Worked /\ Called /\ Filed /\ Entered /\ Owned
      /\ Hooked /\ Given /\ Told /\ Held1 /\ Within /\ NoneLeftBehind
  BY DEF IInv
<1> DEFINE s == w.sub
<1>2. /\ w.pc = "picked" /\ s \in Subs /\ sub[s].track \in Tracks /\ sub[s].down = None
      /\ subscriptions' = [subscriptions EXCEPT ![sub[s].track] = None]
      /\ sub' = IF s \in Owners(Downs) THEN sub ELSE [sub EXCEPT ![s] = Blank]
      /\ w' = Idle
      /\ UNCHANGED <<count, subscribedTo, closed, call, roomVars, entry, unsub, down>>
  BY <1>1 DEF Cleanup, Worked, NeedsCleanup
<1>3. w'.pc = "idle" /\ w'.sub = None /\ w'.down = None
  BY <1>2 DEF Idle
<1>4. /\ subscriptions'[sub[s].track] = None
      /\ \A t \in Tracks : subscriptions'[t] # None => subscriptions'[t] = subscriptions[t]
  BY <1>1, <1>2 DEF Typed
<1>5. Typed'
  <2>1. w' \in WorkerState
    BY <1>2, WorkerRecords
  <2>2. sub' \in [Subs -> Subscription]
    BY <1>1, <1>2, SubBlank DEF Typed
  <2>3. subscriptions' \in [Tracks -> Subs \cup {None}]
    BY <1>1, <1>2 DEF Typed
  <2> QED BY <1>1, <1>2, <2>1, <2>2, <2>3 DEF Typed
<1>6. w.sub = s
  OBVIOUS
<1> HIDE DEF s
<1>7. /\ sub'[s].down = None
      /\ s \in Owners(Downs) => sub' = sub
      /\ \A r \in Subs \ {s} : sub'[r] = sub[r]
  BY <1>1, <1>2 DEF Typed, Blank
<1>8. \A x \in Downs : down[x].owner # None =>
          down[x].owner \in Subs /\ sub'[down[x].owner] = sub[down[x].owner]
  <2>1. \A x \in Downs : down[x].owner \in Owners(Downs)
    BY DEF Owners
  <2>2. \A x \in Downs : down[x].owner # None => down[x].owner \in Subs
    BY <1>1 DEF Typed, DownTrack
  <2> QED BY <1>7, <2>1, <2>2
<1>9. \A x \in Subs : Mapped(x)' => Mapped(x) /\ x # s
  BY <1>1, <1>4 DEF Mapped, Filed
<1>10. \A x \in Subs : Referenced(x)' => Referenced(x)
  BY <1>2, <1>3, <1>9 DEF Referenced, Owners
<1>11. Worked' /\ Entered' /\ Hooked' /\ Given'
  BY <1>1, <1>2, <1>3 DEF Worked, Entered, Hooked, Given
<1>12. Called'
  BY <1>1, <1>2, <1>3, <1>6, <1>7, <1>9 DEF Called, Owners
<1>13. Filed'
  <2>1. ASSUME NEW t \in Tracks, subscriptions'[t] # None
        PROVE  sub'[subscriptions'[t]].track = t
    <3>1. /\ subscriptions'[t] = subscriptions[t] /\ subscriptions[t] \in Subs
          /\ sub[subscriptions[t]].track = t
      BY <1>1, <1>4, <2>1 DEF Filed, Typed
    <3>2. subscriptions[t] # s
      BY <1>4, <2>1, <3>1
    <3> QED BY <1>7, <3>1, <3>2
  <2> QED BY <2>1 DEF Filed
<1>14. Owned'
  BY <1>1, <1>2, <1>3, <1>8 DEF Owned
<1>15. Told'
  BY <1>1, <1>2, <1>8 DEF Told, Live
<1>16. Held1'
  BY <1>1, <1>2, <1>3, <1>7, <1>10 DEF Held1, Live
<1>17. Within' /\ NoneLeftBehind'
  BY <1>1, <1>2, <1>3 DEF Within, NoneLeftBehind, Up
<1>18. CountCovers'
  <2>1. Countings' \subseteq Countings
    BY <1>2, <1>8 DEF Countings, Counting, Live
  <2> QED BY <1>2, <1>3, <1>5, <2>1, CountSame
<1> QED BY <1>5, <1>11, <1>12, <1>13, <1>14, <1>15, <1>16, <1>17, <1>18 DEF IInv

LEMMA DownClosedKeeps ==
    ASSUME IInv, NEW d \in Downs, DownClosed(d)
    PROVE  IInv'
<1> USE Apart
<1>1. /\ Typed /\ Worked /\ Called /\ Filed /\ Entered /\ Owned
      /\ Hooked /\ Given /\ Told /\ Held1 /\ Within /\ NoneLeftBehind
  BY DEF IInv
<1>2. /\ down[d].phase = "closing" /\ down[d].media \in Media /\ entry[down[d].media] = d
      /\ entry' = [entry EXCEPT ![down[d].media] = None]
      /\ down' = [down EXCEPT ![d].phase = IF down[d].owner = None THEN "detach" ELSE "handle"]
      /\ UNCHANGED <<managerVars, w, roomVars, unsub>>
  BY <1>1 DEF DownClosed, Entered
<1>3. /\ down'[d].phase = (IF down[d].owner = None THEN "detach" ELSE "handle")
      /\ \A x \in Downs \ {d} : down'[x] = down[x]
      /\ \A x \in Downs : down'[x].owner = down[x].owner /\ down'[x].media = down[x].media
  BY <1>1, <1>2 DEF Typed, DownTrack
<1>4. /\ entry'[down[d].media] = None
      /\ \A m \in Media \ {down[d].media} : entry'[m] = entry[m] /\ entry[m] # d
  BY <1>1, <1>2 DEF Typed, Entered
<1>5. Typed'
  <2>1. down' \in [Downs -> DownTrack]
    BY <1>1, <1>2, DownPhase DEF Phases
  <2>2. entry' \in [Media -> Downs \cup {None}]
    BY <1>1, <1>2 DEF Typed
  <2> QED BY <1>1, <1>2, <2>1, <2>2 DEF Typed
<1>6. \A x \in Subs : /\ Mapped(x)' <=> Mapped(x)
                      /\ x \in Owners(Downs)' <=> x \in Owners(Downs)
  BY <1>2, <1>3 DEF Mapped, Owners
<1>7. \A x \in Subs : Referenced(x)' <=> Referenced(x)
  BY <1>2, <1>6 DEF Referenced
<1>8. Worked' /\ Filed'
  BY <1>1, <1>2, <1>4 DEF Worked, Filed
<1>9. Called'
  BY <1>1, <1>2, <1>6 DEF Called
<1>10. Entered'
  <2>1. \A m \in Media : entry[m] # None => entry[m] \in Downs
    BY <1>1 DEF Typed
  <2> QED BY <1>1, <1>2, <1>3, <1>4, <2>1 DEF Entered
<1>11. Owned' /\ Hooked'
  BY <1>1, <1>2, <1>3 DEF Owned, Hooked, Typed, WorkerState
<1>12. Given' /\ Told'
  BY <1>1, <1>2, <1>3 DEF Given, Told, Live, Owned, Typed, WorkerState
<1>13. Held1'
  BY <1>1, <1>2, <1>3, <1>7 DEF Held1, Live, Typed, Subscription
<1>14. Within' /\ NoneLeftBehind'
  BY <1>1, <1>2, <1>3 DEF Within, NoneLeftBehind, Up
<1>15. CountCovers'
  <2>1. Countings' \subseteq Countings
    BY <1>2, <1>3 DEF Countings, Counting, Live
  <2> QED BY <1>2, <1>5, <2>1, CountSame
<1> QED BY <1>5, <1>8, <1>9, <1>10, <1>11, <1>12, <1>13, <1>14, <1>15 DEF IInv

LEMMA UncountKeeps ==
    ASSUME IInv, NEW d \in Downs, Uncount(d)
    PROVE  IInv'
<1> USE Apart
<1>1. /\ Typed /\ Worked /\ Called /\ Filed /\ Entered /\ Owned
      /\ Hooked /\ Given /\ Told /\ Held1 /\ Within /\ NoneLeftBehind
  BY DEF IInv
<1>2. /\ down[d].phase = "uncount" /\ count' = count - 1
      /\ down' = [down EXCEPT ![d].phase = "unmark"]
      /\ UNCHANGED <<subscriptions, sub, subscribedTo, closed, call, w,
                     roomVars, entry, unsub>>
  BY DEF Uncount
<1>3. /\ down'[d].phase = "unmark"
      /\ \A x \in Downs \ {d} : down'[x] = down[x]
      /\ \A x \in Downs : down'[x].owner = down[x].owner /\ down'[x].media = down[x].media
  BY <1>1, <1>2 DEF Typed, DownTrack
<1>4. Typed'
  <2>1. down' \in [Downs -> DownTrack]
    BY <1>1, <1>2, DownPhase DEF Phases
  <2> QED BY <1>1, <1>2, <2>1 DEF Typed
<1>5. \A x \in Subs : /\ Mapped(x)' <=> Mapped(x)
                      /\ x \in Owners(Downs)' <=> x \in Owners(Downs)
  BY <1>2, <1>3 DEF Mapped, Owners
<1>6. \A x \in Subs : Referenced(x)' <=> Referenced(x)
  BY <1>2, <1>5 DEF Referenced
<1>7. Worked' /\ Filed'
  BY <1>1, <1>2 DEF Worked, Filed
<1>8. Called'
  BY <1>1, <1>2, <1>5 DEF Called
<1>9. Entered' /\ Hooked'
  BY <1>1, <1>2, <1>3 DEF Entered, Hooked, Typed
<1>10. Owned'
  BY <1>1, <1>2, <1>3 DEF Owned, Typed, WorkerState
<1>11. Given' /\ Told'
  BY <1>1, <1>2, <1>3 DEF Given, Told, Live, Typed, WorkerState
<1>12. Held1'
  BY <1>1, <1>2, <1>3, <1>6 DEF Held1, Live, Typed, Subscription
<1>13. Within' /\ NoneLeftBehind'
  BY <1>1, <1>2, <1>3 DEF Within, NoneLeftBehind, Up, Typed
<1>14. CountCovers'
  <2>1. Countings' = Countings \ {d} /\ d \in Countings
    BY <1>2, <1>3 DEF Countings, Counting, Live
  <2>2. Cardinality(Countings') = Cardinality(Countings) - 1 /\ Cardinality(Countings) \in Nat
    BY <2>1, CountingsFinite, FS_RemoveElement
  <2>3. count \in Int /\ CountCovers
    BY DEF IInv, Typed
  <2> QED BY <1>2, <2>2, <2>3 DEF CountCovers
<1> QED BY <1>4, <1>7, <1>8, <1>9, <1>10, <1>11, <1>12, <1>13, <1>14 DEF IInv

LEMMA ReleaseKeeps ==
    ASSUME IInv, NEW d \in Downs, Release(d)
    PROVE  IInv'
<1> USE Apart
<1>1. /\ Typed /\ Worked /\ Called /\ Filed /\ Entered /\ Owned
      /\ Hooked /\ Given /\ Told /\ Held1 /\ Within /\ NoneLeftBehind
  BY DEF IInv
<1> DEFINE s == down[d].owner
<1>2. s \in Subs /\ sub[s].track \in Tracks /\ down[d].phase = "handle"
  BY <1>1 DEF Release, LetGo, Owned, Typed, DownTrack
<1>3. sub[s].down # None
  BY DEF Release
<1> HIDE DEF s
<1>4. /\ down' = [down EXCEPT ![d].phase = "uncount"]
      /\ sub' = [sub EXCEPT ![s].down = None]
      /\ UNCHANGED <<subscriptions, count, subscribedTo, closed, call, w,
                     roomVars, entry, unsub>>
  BY <1>3 DEF Release, LetGo, s
<1>5. /\ down'[d].phase = "uncount" /\ down'[d].media = down[d].media /\ down'[d].owner = s
      /\ \A x \in Downs \ {d} : down'[x] = down[x]
  BY <1>1, <1>4 DEF Typed, DownTrack, s
<1>6. /\ sub'[s].down = None /\ sub'[s].track = sub[s].track
      /\ \A r \in Subs \ {s} : sub'[r] = sub[r]
  BY <1>1, <1>2, <1>4 DEF Typed, Subscription
<1>7. /\ sub[s].down = d
      /\ ~(w.pc \in {"add", "look", "make", "recheck", "hook", "set"} /\ w.sub = s)
  BY <1>1, <1>2, <1>3 DEF Told, Worked, Live, s
<1>8. Referenced(s)
  BY <1>2 DEF Referenced, Owners, s
<1>9. Typed'
  <2>1. down' \in [Downs -> DownTrack]
    BY <1>1, <1>4, DownPhase DEF Phases
  <2>2. sub' \in [Subs -> Subscription]
    BY <1>1, <1>4, SubDown
  <2> QED BY <1>1, <1>4, <2>1, <2>2 DEF Typed
<1>10. \A x \in Downs : down'[x].owner = down[x].owner
  BY <1>5 DEF s
<1>11. \A x \in Subs : Referenced(x)' <=> Referenced(x)
  BY <1>4, <1>10 DEF Referenced, Mapped, Owners
<1>12. Worked' /\ Filed'
  BY <1>1, <1>2, <1>4, <1>6, <1>7 DEF Worked, Filed, Typed
<1>13. Called'
  BY <1>1, <1>2, <1>4, <1>6, <1>10 DEF Called, Mapped, Owners
<1>14. Entered' /\ Hooked'
  BY <1>1, <1>2, <1>4, <1>5, <1>10 DEF Entered, Hooked
<1>15. Owned'
  BY <1>1, <1>2, <1>4, <1>5, <1>6, <1>10 DEF Owned, Typed, DownTrack
<1>16. Given'
  <2>1. ~(w.pc \in {"recheck", "hook", "set"} /\ w.down = d)
    BY <1>1, <1>2, <1>7 DEF Given, Live, Owned, s
  <2>2. w.down # None => w.down \in Downs
    BY <1>1 DEF Typed, WorkerState
  <2> QED BY <1>1, <1>4, <1>5, <2>1, <2>2 DEF Given, Live
<1>17. Told'
  BY <1>1, <1>2, <1>4, <1>5, <1>6, <1>7 DEF Told, Live
<1>18. Held1'
  BY <1>1, <1>2, <1>4, <1>5, <1>6, <1>7, <1>8, <1>11 DEF Held1, Live
<1>19. Within' /\ NoneLeftBehind'
  BY <1>1, <1>2, <1>4, <1>5 DEF Within, NoneLeftBehind, Up
<1>20. CountCovers'
  <2>1. Countings' \subseteq Countings
    <3>1. Counting(d)
      BY <1>2, <1>7 DEF Counting, Live, s
    <3>2. ASSUME NEW x \in Downs \ {d}, Counting(x)' PROVE Counting(x)
      <4>1. down'[x] = down[x] /\ (down[x].owner # None => down[x].owner \in Subs)
        BY <1>1, <1>5 DEF Typed, DownTrack
      <4> QED BY <1>6, <3>2, <4>1 DEF Counting, Live
    <3> QED BY <3>1, <3>2 DEF Countings
  <2> QED BY <1>4, <1>9, <2>1, CountSame
<1> QED BY <1>9, <1>12, <1>13, <1>14, <1>15, <1>16, <1>17, <1>18, <1>19, <1>20 DEF IInv

-----------------------------------------------------------------------------
(* The invariant holds, and what follows from it. *)

OwnStep ==
    \/ \E c \in Callers, t \in Tracks : SubscribeNew(c, t) \/ UpdateSettings(c, t)
    \/ \E c \in Callers : Insert(c)
    \/ MakeDown \/ Hook \/ SetDown \/ Counted \/ Cleanup
    \/ \E d \in Downs : DownClosed(d) \/ Release(d) \/ Uncount(d)

\* Every step is a minor one, a move of the worker, the end of a down track, or
\* one of those with a proof of their own.
LEMMA Kinds ==
    ASSUME IInv, Next
    PROVE  MinorStep \/ MoveStep \/ (\E d \in Downs : LeaveStep(d)) \/ OwnStep
<1>1. ASSUME NEW c \in Callers, Caller(c)
      PROVE  MinorStep \/ OwnStep
  BY <1>1, SubscribeMinor, UnsubscribeMinor, DesireMinor, ClearAllMinor DEF Caller, OwnStep
<1>2. CASE Attempt \/ Stop
  BY <1>2, GiveWayMinor, RefusedMinor, MakeFailsMinor, NotFoundMoves, MissingMinor,
     AskRemovalMinor, StopMinor DEF Attempt, OwnStep
<1>3. CASE Addition \/ Resolve
  BY <1>3, AdmitMoves, LookMoves, RecheckSteps, MarkMinor, ResolveMoves DEF Addition, OwnStep
<1>4. ASSUME NEW t \in Tracks, Pick(t)
      PROVE  MoveStep
  BY <1>4, PickMoves
<1>5. CASE Goroutine
  BY <1>5, RemoveSubscriberMinor, LetGoSteps, UnmarkLeaves, DetachLeaves DEF Goroutine, OwnStep
<1>6. CASE Publisher
  BY <1>6, PublishMinor, SetClosingMinor, ClearReceiversMinor, CloseMediaMinor, RevokeMinor
     DEF Publisher
<1>7. ASSUME NEW t \in Tracks, LookAgain(t) \/ SourceRemoved(t)
      PROVE  MinorStep
  BY <1>7, LookAgainMinor, SourceRemovedMinor
<1>8. CASE Permit \/ Close \/ CloseDowns
  BY <1>8, PermitMinor, CloseMinor, CloseDownsMinor
<1> QED
  BY <1>1, <1>2, <1>3, <1>4, <1>5, <1>6, <1>7, <1>8 DEF Next, Worker

LEMMA InitIInv == ASSUME Init PROVE IInv
<1> USE Apart DEF Init, Blank, Idle, NoDown
<1>1. Typed
  BY DEF Typed, Subscription, DownTrack, Phases, Call, WorkerState, WorkerPoints
<1>2. Worked /\ Called /\ Filed /\ Entered /\ Owned
  BY DEF Worked, Called, Filed, Entered, Owned
<1>3. Hooked /\ Given /\ Told /\ NoneLeftBehind /\ Within
  BY DEF Hooked, Given, Told, Live, NoneLeftBehind, Up, Within
<1>4. Held1
  BY DEF Held1
<1>5. CountCovers
  <2>1. Countings = {}
    BY DEF Countings, Counting, Live
  <2> QED BY <2>1, FS_EmptySet DEF CountCovers
<1> QED BY <1>1, <1>2, <1>3, <1>4, <1>5 DEF IInv

LEMMA NextIInv == ASSUME IInv, [Next]_vars PROVE IInv'
<1>1. CASE Next
  <2>1. CASE OwnStep
    BY <2>1, SubscribeNewKeeps, UpdateSettingsKeeps, InsertKeeps, MakeDownKeeps, HookKeeps,
       SetDownKeeps, CountedKeeps, CleanupKeeps, DownClosedKeeps, ReleaseKeeps, UncountKeeps
       DEF OwnStep
  <2> QED BY <1>1, <2>1, Kinds, MinorKeeps, MovesKeeps, LeavesKeeps
<1>2. CASE UNCHANGED vars
  BY <1>2 DEF vars, IInv, Typed, Worked, Called, Filed, Entered, Owned, Hooked, Given, Told,
     Held1, CountCovers, Countings, Counting, Within, NoneLeftBehind, Up, Live, Mapped,
     Referenced, Owners
<1> QED BY <1>1, <1>2

\* The invariant holds for every number of callers, tracks and media tracks.
THEOREM Invariance == Spec => []IInv
BY InitIInv, NextIInv, PTL DEF Spec

\* Closing a media track and adding a subscriber to it, whoever comes first,
\* leave no down track behind that forwards from a media track whose receivers
\* are gone, but one that was passed over for its codec: for every number of
\* callers, tracks and media tracks.
THEOREM NothingLeftBehind == Spec => []NoneLeftBehind
<1>1. IInv => NoneLeftBehind
  BY DEF IInv
<1> QED BY <1>1, Invariance, PTL

\* The subscription limit is kept by the down tracks themselves, however many
\* callers overwrite each other's subscriptions.
THEOREM Capacity == Spec => []CapacityKept
<1>1. ASSUME IInv, Limit > 0 PROVE Cardinality(Up) <= Limit
  <2> USE Apart
  <2> DEFINE P == {d \in Downs : w.down = d /\ w.pc \in {"recheck", "hook", "set"}}
  <2>1. /\ Typed /\ Hooked /\ Told /\ Within
        /\ count >= Cardinality(Countings) - (IF w.pc = "count" THEN 1 ELSE 0)
    BY <1>1 DEF IInv, CountCovers
  <2>2. Up \subseteq Countings \cup P
    BY <2>1 DEF Up, Hooked, Told, Live, Countings, Counting
  <2>3. IsFiniteSet(Countings) /\ Cardinality(Countings) \in Nat
    BY CountingsFinite
  <2>4. CASE P = {}
    <3>1. Up \subseteq Countings
      BY <2>2, <2>4
    <3>2. Cardinality(Up) <= Cardinality(Countings) /\ Cardinality(Up) \in Nat
      BY <2>3, <3>1, FS_Subset, FS_CardinalityType
    <3>3. Cardinality(Countings) <= Limit
      BY <1>1, <2>1, <2>3 DEF Within, Typed
    <3> QED BY <2>3, <3>2, <3>3
  <2>5. CASE P # {}
    <3>1. P = {w.down} /\ w.pc \in {"recheck", "hook", "set"}
      BY <2>5
    <3>2. /\ IsFiniteSet(Countings \cup P)
          /\ Cardinality(Countings \cup P) <= Cardinality(Countings) + 1
          /\ Cardinality(Countings \cup P) \in Nat
      <4>1. /\ IsFiniteSet(Countings \cup {w.down})
            /\ Cardinality(Countings \cup {w.down}) =
                  IF w.down \in Countings THEN Cardinality(Countings)
                  ELSE Cardinality(Countings) + 1
        BY <2>3, FS_AddElement
      <4>2. Countings \cup P = Countings \cup {w.down}
        BY <3>1
      <4>3. /\ Cardinality(Countings \cup {w.down}) <= Cardinality(Countings) + 1
            /\ Cardinality(Countings \cup {w.down}) \in Nat
        BY <2>3, <4>1
      <4> HIDE DEF P
      <4> QED BY <4>1, <4>2, <4>3, Zenon
    <3>3. Cardinality(Up) <= Cardinality(Countings \cup P) /\ Cardinality(Up) \in Nat
      BY <2>2, <3>2, FS_Subset, FS_CardinalityType
    <3>4. Cardinality(Countings) + 1 <= Limit
      BY <1>1, <2>1, <2>3, <3>1 DEF Within, Typed
    <3> QED BY <2>3, <3>2, <3>3, <3>4
  <2> QED BY <2>4, <2>5
<1>2. IInv => CapacityKept
  BY <1>1 DEF CapacityKept
<1> QED BY <1>2, Invariance, PTL

-----------------------------------------------------------------------------
(* What holds in addition when there is one caller only. *)

One == \A c, d \in Callers : c = d

Vacant == \A c \in Callers : call[c].pc = "insert" => subscriptions[call[c].track] = None

Busy == w.sub # None => Mapped(w.sub)

Found == \A s \in Subs : Referenced(s) /\ sub[s].down # None => Mapped(s)

OInv == IInv /\ Vacant /\ Busy /\ Found /\ CountAgrees

LEMMA HoldingFinite ==
    /\ IsFiniteSet(Holding) /\ Cardinality(Holding) \in Nat
    /\ IsFiniteSet(Uncounting) /\ Cardinality(Uncounting) \in Nat
<1>1. IsFiniteSet(Subs) /\ IsFiniteSet(Downs)
  BY FS_Interval DEF Subs, Downs
<1> QED BY <1>1, FS_Subset, FS_CardinalityType DEF Holding, Uncounting

\* What has a down track is in the map, so it is enough to look there.
LEMMA HoldingMapped ==
    ASSUME Found
    PROVE  Holding = {s \in Subs : Mapped(s) /\ sub[s].down # None}
BY DEF Found, Holding, Referenced

\* Steps that leave the subscriptions, their down tracks and the count alone.
Same ==
    /\ \A s \in Subs :
          Mapped(s)' /\ sub'[s].down # None <=> Mapped(s) /\ sub[s].down # None
    /\ \A d \in Downs : down'[d].phase = "uncount" <=> down[d].phase = "uncount"
    /\ count' = count /\ (w'.pc = "count" <=> w.pc = "count")

\* Such a step preserves the count.
LEMMA SameKeeps ==
    ASSUME OInv, Found', Same
    PROVE  CountAgrees'
<1>1. Holding = {s \in Subs : Mapped(s) /\ sub[s].down # None}
  BY HoldingMapped DEF OInv
<1>2. Holding' = {s \in Subs : Mapped(s)' /\ sub'[s].down # None}
  BY DEF Found, Holding, Referenced
<1>3. Holding' = Holding
  BY <1>1, <1>2 DEF Same
<1>4. Uncounting' = Uncounting
  BY DEF Same, Uncounting
<1> QED BY <1>3, <1>4 DEF OInv, CountAgrees, Same

LEMMA MinorOne ==
    ASSUME OInv, IInv', MinorStep
    PROVE  OInv'
<1> USE Apart
<1>1. Minor /\ Vacant /\ Busy /\ Found /\ Typed
  BY DEF MinorStep, OInv, IInv
<1>2. \A s \in Subs : Mapped(s)' <=> Mapped(s)
  BY <1>1 DEF Minor, Mapped
<1>3. \A s \in Subs : s \in Owners(Downs)' <=> s \in Owners(Downs)
  BY <1>1 DEF Minor, DownsKept, Owners
<1>4. \A s \in Subs : Referenced(s)' => Referenced(s)
  BY <1>1, <1>2, <1>3 DEF Minor, CallsKept, WorkerKept, Referenced
<1>5. Vacant'
  BY <1>1 DEF Minor, CallsKept, Vacant
<1>6. Busy'
  BY <1>1 DEF Minor, WorkerKept, Busy, Mapped
<1>7. Found'
  BY <1>1, <1>2, <1>4 DEF Minor, SubsKept, Found
<1>8. Same
  BY <1>1, <1>2 DEF Minor, SubsKept, DownsKept, WorkerKept, Same
<1> QED BY <1>5, <1>6, <1>7, <1>8, SameKeeps DEF OInv

LEMMA MovesOne ==
    ASSUME OInv, IInv', MoveStep
    PROVE  OInv'
<1> USE Apart
<1>1. Moves /\ Vacant /\ Busy /\ Found
  BY DEF MoveStep, OInv
<1>2. \A s \in Subs : /\ Mapped(s)' <=> Mapped(s)
                      /\ s \in Owners(Downs)' <=> s \in Owners(Downs)
  BY <1>1 DEF Moves, Mapped, Owners
<1>3. \A s \in Subs : Referenced(s)' => Referenced(s)
  BY <1>1, <1>2 DEF Moves, Referenced
<1>4. Vacant' /\ Busy'
  BY <1>1 DEF Moves, Vacant, Busy, Mapped
<1>5. Found'
  BY <1>1, <1>2, <1>3 DEF Moves, Found
<1>6. Same
  BY <1>1, <1>2 DEF Moves, Same
<1> QED BY <1>4, <1>5, <1>6, SameKeeps DEF OInv

LEMMA LeavesOne ==
    ASSUME NEW d \in Downs, OInv, IInv', LeaveStep(d)
    PROVE  OInv'
<1> USE Apart
<1> DEFINE s == down[d].owner
<1>1. Leaving(d) /\ Vacant /\ Busy /\ Found /\ Typed /\ Called
  BY DEF LeaveStep, OInv, IInv
<1>2. \A x \in Subs : Mapped(x) \/ x # s => sub'[x] = sub[x]
  BY <1>1 DEF Leaving, Left, Typed
<1>3. s \in Subs => \/ sub'[s] = sub[s]
                    \/ /\ ~Mapped(s) /\ w.sub # s /\ s \notin Owners(Downs \ {d})
                       /\ sub'[s] = Blank
  BY <1>1 DEF Leaving, Left, Typed
<1>4. \A x \in Subs : Mapped(x)' <=> Mapped(x)
  BY <1>1 DEF Leaving, Mapped
<1>5. \A x \in Subs : Referenced(x)' => Referenced(x)
  BY <1>1, <1>4 DEF Leaving, Referenced, Owners
<1> HIDE DEF s
<1>6. Vacant' /\ Busy'
  BY <1>1 DEF Leaving, Vacant, Busy, Mapped
<1>7. \A x \in Subs : sub'[x].down # None => sub'[x] = sub[x]
  BY <1>2, <1>3 DEF Blank
<1>8. Found'
  BY <1>1, <1>4, <1>5, <1>7 DEF Found
<1>9. Same
  BY <1>1, <1>2, <1>4 DEF Leaving, Same
<1> QED BY <1>6, <1>8, <1>9, SameKeeps DEF OInv

LEMMA SubscribeNewOne ==
    ASSUME One, OInv, IInv', NEW c \in Callers, NEW t \in Tracks, SubscribeNew(c, t)
    PROVE  OInv'
<1> USE Apart
<1> DEFINE s == Min(FreeSubs)
<1>1. s \in Subs /\ ~Referenced(s)
  BY FreeSub DEF SubscribeNew, FreeSubs
<1> HIDE DEF s
<1>2. /\ subscriptions[t] = None
      /\ sub' = [sub EXCEPT ![s] = [Blank EXCEPT !.track = t]]
      /\ call' = [call EXCEPT ![c] = [pc |-> "insert", track |-> t, sub |-> s]]
      /\ UNCHANGED <<subscriptions, count, w, down>>
  BY DEF SubscribeNew, s
<1>3. Vacant /\ Busy /\ Found /\ Typed
  BY DEF OInv, IInv
<1>4. sub'[s].down = None /\ \A r \in Subs \ {s} : sub'[r] = sub[r]
  BY <1>1, <1>2, <1>3 DEF Typed, Blank
<1>5. call'[c].track = t /\ call'[c].sub = s /\ \A b \in Callers : b = c
  BY <1>2, <1>3 DEF Typed, One
<1>6. \A x \in Subs : x # s => (Mapped(x)' <=> Mapped(x)) /\ (Referenced(x)' => Referenced(x))
  BY <1>2, <1>5 DEF Mapped, Referenced, Owners
<1>7. Vacant' /\ Busy'
  BY <1>2, <1>3, <1>5 DEF Vacant, Busy, Mapped
<1>8. Found'
  BY <1>3, <1>4, <1>6 DEF Found
<1>9. Same
  <2>1. \A x \in Subs : x = s => ~Mapped(x)' /\ ~Mapped(x)
    BY <1>1, <1>2 DEF Referenced, Mapped
  <2> QED BY <1>2, <1>4, <1>6, <2>1 DEF Same
<1> QED BY <1>7, <1>8, <1>9, SameKeeps DEF OInv

LEMMA UpdateSettingsOne ==
    ASSUME One, OInv, IInv', NEW c \in Callers, NEW t \in Tracks, UpdateSettings(c, t)
    PROVE  OInv'
<1> USE Apart
<1> DEFINE s == Min(FreeSubs)
<1>1. s \in Subs /\ ~Referenced(s)
  BY FreeSub DEF UpdateSettings, FreeSubs
<1> HIDE DEF s
<1>2. /\ call[c].pc = "idle" /\ subscriptions[t] = None
      /\ sub' = [sub EXCEPT ![s] = [Blank EXCEPT !.track = t]]
      /\ subscriptions' = [subscriptions EXCEPT ![t] = s]
      /\ UNCHANGED <<call, count, w, down>>
  BY DEF UpdateSettings, s
<1>3. Vacant /\ Busy /\ Found /\ Typed
  BY DEF OInv, IInv
<1>4. sub'[s].down = None /\ \A r \in Subs \ {s} : sub'[r] = sub[r]
  BY <1>1, <1>2, <1>3 DEF Typed, Blank
<1>5. subscriptions'[t] = s /\ \A u \in Tracks \ {t} : subscriptions'[u] = subscriptions[u]
  BY <1>2, <1>3 DEF Typed
<1>6. \A x \in Subs : x # s => (Mapped(x)' <=> Mapped(x)) /\ (Referenced(x)' => Referenced(x))
  BY <1>2, <1>5 DEF Mapped, Referenced, Owners
<1>7. \A x \in Subs : x = s => ~Mapped(x)
  BY <1>1 DEF Referenced
<1>8. Vacant'
  BY <1>2 DEF One, Vacant
<1>9. Busy'
  BY <1>2, <1>3, <1>5 DEF Busy, Mapped
<1>10. Found'
  BY <1>3, <1>4, <1>6 DEF Found
<1>11. Same
  BY <1>2, <1>4, <1>6, <1>7 DEF Same
<1> QED BY <1>8, <1>9, <1>10, <1>11, SameKeeps DEF OInv

LEMMA InsertOne ==
    ASSUME One, OInv, IInv', NEW c \in Callers, Insert(c)
    PROVE  OInv'
<1> USE Apart
<1> DEFINE s == call[c].sub
           t == call[c].track
<1>1. Vacant /\ Busy /\ Found /\ Typed /\ Called
  BY DEF OInv, IInv
<1>2. /\ s \in Subs /\ sub[s].down = None /\ subscriptions[t] = None /\ t \in Tracks
      /\ subscriptions' = [subscriptions EXCEPT ![t] = s]
      /\ call' = [call EXCEPT ![c].pc = "desire", ![c].sub = None]
      /\ UNCHANGED <<sub, count, w, down>>
  BY <1>1 DEF Insert, Called, Vacant
<1>3. subscriptions'[t] = s /\ \A u \in Tracks \ {t} : subscriptions'[u] = subscriptions[u]
  BY <1>1, <1>2 DEF Typed
<1>4. call'[c].pc = "desire" /\ call'[c].sub = None /\ \A b \in Callers : b = c
  BY <1>1, <1>2 DEF Typed, Call, One
<1> HIDE DEF s, t
<1>5. \A x \in Subs : x # s => (Mapped(x)' <=> Mapped(x)) /\ (Referenced(x)' => Referenced(x))
  BY <1>2, <1>3, <1>4 DEF Mapped, Referenced, Owners
<1>6. Vacant'
  BY <1>4 DEF Vacant
<1>7. Busy'
  BY <1>1, <1>2, <1>3 DEF Busy, Mapped
<1>8. Found'
  BY <1>1, <1>2, <1>5 DEF Found
<1>9. Same
  BY <1>2, <1>5 DEF Same
<1> QED BY <1>6, <1>7, <1>8, <1>9, SameKeeps DEF OInv

LEMMA MakeDownOne ==
    ASSUME OInv, IInv', MakeDown
    PROVE  OInv'
<1> USE Apart
<1> DEFINE d == Min(FreeDowns)
<1>1. Vacant /\ Busy /\ Found /\ Typed /\ Owned
  BY DEF OInv, IInv
<1>2. d \in Downs /\ down[d].phase \in {"none", "gone"}
  BY FreeDown DEF MakeDown, FreeDowns
<1> HIDE DEF d
<1>3. /\ w.pc = "make"
      /\ down' = [down EXCEPT ![d] = [phase |-> "up", media |-> w.media, owner |-> None]]
      /\ w' = [w EXCEPT !.pc = "recheck", !.down = d]
      /\ UNCHANGED <<subscriptions, sub, count, call>>
  BY DEF MakeDown, managerVars, d
<1>4. /\ down'[d].phase = "up" /\ down'[d].owner = None
      /\ \A x \in Downs \ {d} : down'[x] = down[x]
  BY <1>1, <1>2, <1>3 DEF Typed
<1>5. w'.pc = "recheck" /\ w'.sub = w.sub
  BY <1>1, <1>3 DEF Typed, WorkerState
<1>6. \A x \in Subs : (Mapped(x)' <=> Mapped(x)) /\ (Referenced(x)' => Referenced(x))
  BY <1>3, <1>4, <1>5 DEF Mapped, Referenced, Owners
<1>7. Vacant' /\ Busy'
  BY <1>1, <1>3, <1>5 DEF Vacant, Busy, Mapped
<1>8. Found'
  BY <1>1, <1>3, <1>6 DEF Found
<1>9. Same
  BY <1>2, <1>3, <1>4, <1>5, <1>6 DEF Same
<1> QED BY <1>7, <1>8, <1>9, SameKeeps DEF OInv

LEMMA HookOne ==
    ASSUME OInv, IInv', Hook
    PROVE  OInv'
<1> USE Apart
<1>1. Vacant /\ Busy /\ Found /\ Typed /\ Worked
  BY DEF OInv, IInv
<1>2. /\ w.pc = "hook"
      /\ w' = [w EXCEPT !.pc = "set"]
      /\ down' = [down EXCEPT ![w.down].owner =
            IF down[w.down].phase \in {"up", "closing"} THEN w.sub ELSE @]
      /\ UNCHANGED <<subscriptions, sub, count, call>>
  BY DEF Hook, managerVars
<1>3. w'.pc = "set" /\ w'.sub = w.sub
  BY <1>1, <1>2 DEF Typed, WorkerState
<1>4. \A x \in Downs : /\ down'[x].phase = down[x].phase
                       /\ down'[x].owner \in {down[x].owner, w.sub}
  BY <1>1, <1>2 DEF Typed, DownTrack
<1>5. \A x \in Subs : (Mapped(x)' <=> Mapped(x)) /\ (Referenced(x)' => Referenced(x))
  BY <1>2, <1>3, <1>4 DEF Mapped, Referenced, Owners
<1>6. Vacant' /\ Busy'
  BY <1>1, <1>2, <1>3 DEF Vacant, Busy, Mapped
<1>7. Found'
  BY <1>1, <1>2, <1>5 DEF Found
<1>8. Same
  BY <1>2, <1>3, <1>4, <1>5 DEF Same
<1> QED BY <1>6, <1>7, <1>8, SameKeeps DEF OInv

LEMMA SetDownOne ==
    ASSUME OInv, IInv', SetDown
    PROVE  OInv'
<1> USE Apart
<1> DEFINE s == w.sub
<1>1. Vacant /\ Busy /\ Found /\ Typed /\ Worked /\ CountAgrees
  BY DEF OInv, IInv
<1>2. /\ w.pc = "set" /\ s \in Subs /\ sub[s].down = None /\ w.down # None
      /\ sub' = [sub EXCEPT ![s].down = w.down]
      /\ w' = [w EXCEPT !.pc = "count"]
      /\ UNCHANGED <<subscriptions, count, call, down>>
  BY <1>1 DEF SetDown, Worked
<1>3. w'.pc = "count" /\ w'.sub = s /\ Mapped(s)
  BY <1>1, <1>2 DEF Typed, WorkerState, Busy
<1>4. sub'[s].down # None /\ \A r \in Subs \ {s} : sub'[r] = sub[r]
  BY <1>1, <1>2 DEF Typed, Subscription
<1>5. w.sub = s
  OBVIOUS
<1> HIDE DEF s
<1>6. \A x \in Subs : (Mapped(x)' <=> Mapped(x)) /\ (Referenced(x)' => Referenced(x))
  BY <1>2, <1>3, <1>5 DEF Mapped, Referenced, Owners
<1>7. Vacant' /\ Busy'
  BY <1>1, <1>2, <1>3, <1>5, <1>6 DEF Vacant, Busy
<1>8. Found'
  BY <1>1, <1>2, <1>3, <1>4, <1>6 DEF Found
<1>9. CountAgrees'
  <2>1. Holding = {x \in Subs : Mapped(x) /\ sub[x].down # None}
    BY <1>1, HoldingMapped
  <2>2. Holding' = {x \in Subs : Mapped(x)' /\ sub'[x].down # None}
    BY <1>8 DEF Found, Holding, Referenced
  <2>3. Holding' = Holding \cup {s} /\ s \notin Holding
    BY <1>2, <1>3, <1>4, <1>6, <2>1, <2>2
  <2>4. Cardinality(Holding') = Cardinality(Holding) + 1
    BY <2>3, HoldingFinite, FS_AddElement
  <2>5. Uncounting' = Uncounting
    BY <1>2 DEF Uncounting
  <2> QED BY <1>1, <1>2, <1>3, <2>4, <2>5, HoldingFinite DEF CountAgrees, Typed
<1> QED BY <1>7, <1>8, <1>9 DEF OInv

LEMMA CountedOne ==
    ASSUME OInv, IInv', Counted
    PROVE  OInv'
<1>1. Vacant /\ Busy /\ Found /\ Typed /\ CountAgrees
  BY DEF OInv, IInv
<1>2. /\ w.pc = "count" /\ count' = count + 1
      /\ w' = [w EXCEPT !.pc = "mark"]
      /\ UNCHANGED <<subscriptions, sub, call, down>>
  BY DEF Counted
<1>3. w'.pc = "mark" /\ w'.sub = w.sub
  BY <1>1, <1>2 DEF Typed, WorkerState
<1>4. \A x \in Subs : (Mapped(x)' <=> Mapped(x)) /\ (Referenced(x)' <=> Referenced(x))
  BY <1>2, <1>3 DEF Mapped, Referenced, Owners
<1>5. Vacant' /\ Busy' /\ Found'
  BY <1>1, <1>2, <1>3, <1>4 DEF Vacant, Busy, Found, Mapped
<1>6. CountAgrees'
  <2>1. Holding' = Holding /\ Uncounting' = Uncounting
    BY <1>2, <1>4 DEF Holding, Uncounting
  <2> QED BY <1>1, <1>2, <1>3, <2>1, HoldingFinite DEF CountAgrees, Typed
<1> QED BY <1>5, <1>6 DEF OInv

LEMMA CleanupOne ==
    ASSUME OInv, IInv', Cleanup
    PROVE  OInv'
<1> USE Apart
<1> DEFINE s == w.sub
<1>1. Vacant /\ Busy /\ Found /\ Typed /\ Worked /\ Filed
  BY DEF OInv, IInv
<1>2. /\ w.pc = "picked" /\ s \in Subs /\ sub[s].down = None
      /\ subscriptions' = [subscriptions EXCEPT ![sub[s].track] = None]
      /\ sub' = IF s \in Owners(Downs) THEN sub ELSE [sub EXCEPT ![s] = Blank]
      /\ w' = Idle
      /\ UNCHANGED <<count, call, down>>
  BY <1>1 DEF Cleanup, Worked, NeedsCleanup
<1> HIDE DEF s
<1>3. w'.pc = "idle" /\ w'.sub = None
  BY <1>2 DEF Idle
<1>4. sub'[s].down = None /\ \A r \in Subs \ {s} : sub'[r] = sub[r]
  BY <1>1, <1>2 DEF Typed, Blank
<1>5. /\ \A t \in Tracks : subscriptions'[t] # None => subscriptions'[t] = subscriptions[t]
      /\ \A t \in Tracks : subscriptions[t] # s /\ subscriptions[t] # None =>
            subscriptions'[t] = subscriptions[t] \/ sub[s].track = t
  BY <1>1, <1>2 DEF Typed
<1>6. \A x \in Subs : Mapped(x)' => Mapped(x)
  BY <1>5 DEF Mapped
<1>7. \A x \in Subs : Referenced(x)' => Referenced(x)
  BY <1>2, <1>3, <1>6 DEF Referenced, Owners
<1>8. \A x \in Subs \ {s} : Mapped(x) => Mapped(x)'
  <2>1. PICK t \in Tracks : subscriptions[t] = s
    BY <1>1, <1>2 DEF Busy, Mapped, s
  <2>2. sub[s].track = t
    BY <1>1, <1>2, <2>1 DEF Filed
  <2> QED BY <1>5, <2>1, <2>2 DEF Mapped
<1>9. Vacant' /\ Busy'
  BY <1>1, <1>2, <1>3, <1>5 DEF Vacant, Busy
<1>10. Found'
  BY <1>1, <1>4, <1>7, <1>8 DEF Found
<1>11. Same
  BY <1>2, <1>3, <1>4, <1>6, <1>8 DEF Same
<1> QED BY <1>9, <1>10, <1>11, SameKeeps DEF OInv

LEMMA DownClosedOne ==
    ASSUME OInv, IInv', NEW d \in Downs, DownClosed(d)
    PROVE  OInv'
<1>1. Vacant /\ Busy /\ Found /\ Typed
  BY DEF OInv, IInv
<1>2. /\ down[d].phase = "closing"
      /\ down' = [down EXCEPT ![d].phase = IF down[d].owner = None THEN "detach" ELSE "handle"]
      /\ UNCHANGED <<subscriptions, sub, count, call, w>>
  BY DEF DownClosed, managerVars
<1>3. \A x \in Downs : /\ down'[x].owner = down[x].owner
                       /\ down'[x].phase = "uncount" <=> down[x].phase = "uncount"
  BY <1>1, <1>2 DEF Typed, DownTrack
<1>4. \A x \in Subs : (Mapped(x)' <=> Mapped(x)) /\ (Referenced(x)' <=> Referenced(x))
  BY <1>2, <1>3 DEF Mapped, Referenced, Owners
<1>5. Vacant' /\ Busy' /\ Found'
  BY <1>1, <1>2, <1>4 DEF Vacant, Busy, Found, Mapped
<1>6. Same
  BY <1>2, <1>3, <1>4 DEF Same
<1> QED BY <1>5, <1>6, SameKeeps DEF OInv

LEMMA ReleaseOne ==
    ASSUME OInv, IInv', NEW d \in Downs, Release(d)
    PROVE  OInv'
<1> USE Apart
<1> DEFINE s == down[d].owner
<1>1. Vacant /\ Busy /\ Found /\ Typed /\ Owned /\ CountAgrees
  BY DEF OInv, IInv
<1>2. /\ down[d].phase = "handle" /\ s \in Subs /\ sub[s].down # None
      /\ down' = [down EXCEPT ![d].phase = "uncount"]
      /\ sub' = [sub EXCEPT ![s].down = None]
      /\ UNCHANGED <<subscriptions, count, call, w>>
  BY <1>1 DEF Release, LetGo, Owned, Typed, DownTrack
<1>3. Referenced(s)
  BY DEF Referenced, Owners
<1> HIDE DEF s
<1>4. /\ down'[d].phase = "uncount" /\ \A x \in Downs \ {d} : down'[x] = down[x]
      /\ \A x \in Downs : down'[x].owner = down[x].owner
  BY <1>1, <1>2 DEF Typed, DownTrack
<1>5. sub'[s].down = None /\ \A r \in Subs \ {s} : sub'[r] = sub[r]
  BY <1>1, <1>2 DEF Typed, Subscription
<1>6. \A x \in Subs : (Mapped(x)' <=> Mapped(x)) /\ (Referenced(x)' <=> Referenced(x))
  BY <1>2, <1>4 DEF Mapped, Referenced, Owners
<1>7. Vacant' /\ Busy'
  BY <1>1, <1>2 DEF Vacant, Busy, Mapped
<1>8. Found'
  BY <1>1, <1>5, <1>6 DEF Found
<1>9. CountAgrees'
  <2>1. Holding' = Holding \ {s} /\ s \in Holding
    BY <1>2, <1>3, <1>5, <1>6 DEF Holding
  <2>2. Uncounting' = Uncounting \cup {d} /\ d \notin Uncounting
    BY <1>2, <1>4 DEF Uncounting
  <2>3. /\ Cardinality(Holding') = Cardinality(Holding) - 1
        /\ Cardinality(Uncounting') = Cardinality(Uncounting) + 1
    BY <2>1, <2>2, HoldingFinite, FS_AddElement, FS_RemoveElement
  <2>4. count' = count /\ w' = w
    BY <1>2
  <2> QED BY <1>1, <2>3, <2>4, HoldingFinite DEF CountAgrees, Typed
<1> QED BY <1>7, <1>8, <1>9 DEF OInv

LEMMA UncountOne ==
    ASSUME OInv, IInv', NEW d \in Downs, Uncount(d)
    PROVE  OInv'
<1>1. Vacant /\ Busy /\ Found /\ Typed /\ CountAgrees
  BY DEF OInv, IInv
<1>2. /\ down[d].phase = "uncount" /\ count' = count - 1
      /\ down' = [down EXCEPT ![d].phase = "unmark"]
      /\ UNCHANGED <<subscriptions, sub, call, w>>
  BY DEF Uncount
<1>3. /\ down'[d].phase = "unmark" /\ \A x \in Downs \ {d} : down'[x] = down[x]
      /\ \A x \in Downs : down'[x].owner = down[x].owner
  BY <1>1, <1>2 DEF Typed, DownTrack
<1>4. \A x \in Subs : (Mapped(x)' <=> Mapped(x)) /\ (Referenced(x)' <=> Referenced(x))
  BY <1>2, <1>3 DEF Mapped, Referenced, Owners
<1>5. Vacant' /\ Busy' /\ Found'
  BY <1>1, <1>2, <1>4 DEF Vacant, Busy, Found, Mapped
<1>6. CountAgrees'
  <2>1. Holding' = Holding
    BY <1>2, <1>4 DEF Holding
  <2>2. Uncounting' = Uncounting \ {d} /\ d \in Uncounting
    BY <1>2, <1>3 DEF Uncounting
  <2>3. Cardinality(Uncounting') = Cardinality(Uncounting) - 1
    BY <2>2, HoldingFinite, FS_RemoveElement
  <2>4. count' = count - 1 /\ w' = w
    BY <1>2
  <2> QED BY <1>1, <2>1, <2>3, <2>4, HoldingFinite DEF CountAgrees, Typed
<1> QED BY <1>5, <1>6 DEF OInv

LEMMA InitOInv == ASSUME Init PROVE OInv
<1> USE Apart DEF Init, Blank, Idle, NoDown
<1>1. Vacant /\ Busy /\ Found
  BY DEF Vacant, Busy, Found
<1>2. Holding = {} /\ Uncounting = {}
  BY DEF Holding, Uncounting
<1>3. CountAgrees
  BY <1>2, FS_EmptySet DEF CountAgrees
<1> QED BY <1>1, <1>3, InitIInv DEF OInv

LEMMA NextOInv == ASSUME One, OInv, [Next]_vars PROVE OInv'
<1>1. IInv /\ IInv'
  BY NextIInv DEF OInv
<1>2. CASE Next
  <2>1. CASE OwnStep
    BY <1>1, <2>1, SubscribeNewOne, UpdateSettingsOne, InsertOne, MakeDownOne, HookOne,
       SetDownOne, CountedOne, CleanupOne, DownClosedOne, ReleaseOne, UncountOne DEF OwnStep
  <2> QED BY <1>1, <1>2, <2>1, Kinds, MinorOne, MovesOne, LeavesOne
<1>3. CASE UNCHANGED vars
  BY <1>1, <1>3 DEF vars, OInv, Vacant, Busy, Found, CountAgrees, Holding, Uncounting, Mapped,
     Referenced, Owners
<1> QED BY <1>2, <1>3

\* With one caller, the map holds what the worker works on and what has a down
\* track, and the count agrees.
THEOREM OneInvariance == One => (Spec => []OInv)
<1>1. SUFFICES ASSUME One PROVE Spec => []OInv
  OBVIOUS
<1>2. OInv /\ [Next]_vars => OInv'
  BY <1>1, NextOInv
<1> QED BY <1>2, InitOInv, PTL DEF Spec

\* With one caller the count is right whatever the down tracks do: nothing is
\* counted twice, and nothing is taken back twice.
THEOREM Counts == One => (Spec => []CountAgrees)
<1>1. OInv => CountAgrees
  BY DEF OInv
<1> QED BY <1>1, OneInvariance, PTL

\* With one caller a down track that forwards can be found in the map, or the
\* worker is just about to store it there.
THEOREM NothingOrphaned == One => (Spec => []NoOrphan)
<1>1. ASSUME OInv, NEW d \in Up PROVE d \in Held \/ w.down = d
  <2> USE Apart
  <2>1. Typed /\ Hooked /\ Told /\ Found /\ d \in Downs /\ down[d].phase = "up"
    BY <1>1 DEF OInv, IInv, Up
  <2>2. CASE w.down # d
    <3> DEFINE s == down[d].owner
    <3>1. s \in Subs /\ sub[s].down = d
      BY <2>1, <2>2 DEF Hooked, Told, Live, Typed, DownTrack
    <3>2. Referenced(s)
      BY <2>1 DEF Referenced, Owners
    <3> HIDE DEF s
    <3>3. PICK t \in Tracks : subscriptions[t] = s
      BY <2>1, <3>1, <3>2 DEF Found, Mapped
    <3> QED BY <2>1, <3>1, <3>3 DEF Held
  <2> QED BY <2>2
<1>2. OInv => NoOrphan
  BY <1>1 DEF NoOrphan
<1> QED BY <1>2, OneInvariance, PTL

\* Every variable has its type.  The bounds of the count come from
\* CountAgrees: no two subscriptions have the same down track, and none has
\* one that is about to be uncounted.
THEOREM TypeCorrect == One => (Spec => []TypeOK)
<1>1. ASSUME OInv PROVE count \in -1..MaxDowns
  <2> USE Apart
  <2> DEFINE Free == Downs \ Uncounting
             f == [s \in Holding |-> sub[s].down]
  <2>1. Typed /\ Held1 /\ CountAgrees
    BY <1>1 DEF OInv, IInv
  <2>2. IsFiniteSet(Downs) /\ Cardinality(Downs) = MaxDowns
    BY FS_Interval DEF Downs
  <2>3. Cardinality(Free) = MaxDowns - Cardinality(Uncounting) /\ IsFiniteSet(Free)
    <3>1. Uncounting \subseteq Downs
      BY DEF Uncounting
    <3>2. Downs \cap Uncounting = Uncounting
      BY <3>1
    <3> QED BY <2>2, <3>2, FS_Difference
  <2>4. f \in Injection(Holding, Free)
    <3>1. ASSUME NEW s \in Holding PROVE sub[s].down \in Free
      <4>1. sub[s].down \in Downs /\ Referenced(s) /\ sub[s].down # None
        BY <2>1 DEF Holding, Typed, Subscription
      <4>2. down[sub[s].down].phase # "uncount"
        BY <2>1, <4>1 DEF Holding, Held1, Live
      <4> QED BY <4>1, <4>2 DEF Uncounting
    <3>2. \A r, s \in Holding : sub[r].down = sub[s].down => r = s
      BY <2>1 DEF Holding, Held1
    <3> QED BY <3>1, <3>2 DEF Injection, IsInjective
  <2>5. Cardinality(Holding) <= Cardinality(Free)
    BY <2>3, <2>4, HoldingFinite, FS_Injection
  <2> QED BY <2>1, <2>3, <2>5, HoldingFinite DEF CountAgrees, Typed
<1>2. OInv => TypeOK
  BY <1>1 DEF OInv, IInv, Typed, TypeOK
<1> QED BY <1>2, OneInvariance, PTL

=============================================================================
