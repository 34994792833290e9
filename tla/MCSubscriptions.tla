-------------------------- MODULE MCSubscriptions --------------------------
(***************************************************************************)
(* Small rooms for TLC.                                                    *)
(***************************************************************************)
EXTENDS Subscriptions

CONSTANTS t1, t2, m1, m2, c1, c2

OneTrack == {t1}
TwoTracks == {t1, t2}
OneMedia == {m1}
TwoMedia == {m1, m2}
OneCaller == {c1}
TwoCallers == {c1, c2}

\* Each track is published once.
Once == [m \in Media |-> IF m = m1 THEN t1 ELSE t2]

\* Two states that differ in objects nobody refers to are the same.
Seen ==
    <<subscriptions, count, subscribedTo, closed, call, w, roomVars, entry, unsub,
      [s \in Subs |-> IF Referenced(s) THEN sub[s] ELSE Blank],
      [d \in Downs |-> IF d \in FreeDowns THEN NoDown ELSE down[d]]>>

=============================================================================
