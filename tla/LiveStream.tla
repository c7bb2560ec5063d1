----------------------------- MODULE LiveStream -----------------------------
(***************************************************************************)
(* What the MJPEG streamer promises, without threads, locks or a queue:    *)
(* frames are offered one after the other, some of them are taken for      *)
(* encoding, and what a viewer is shown is the picture of a frame that was *)
(* taken, with the boxes detected on that same frame, or nothing.  A frame *)
(* is never taken twice or after a newer one, and it is one of the         *)
(* Capacity newest when it is taken.  The picture is that of the frame     *)
(* taken last, until a packet of the encoder fails to come: from then on   *)
(* it may be of an earlier one, but never of one before the latest shown.  *)
(* A closed stream shows nothing again.                                    *)
(***************************************************************************)
EXTENDS Integers

CONSTANT Capacity

VARIABLES offered,   \* number of the newest frame offered, 0 before the first
          taken,     \* number of the frame taken last, 0 before the first
          shown,     \* picture and boxes a viewer gets, 0 for none
          latest,    \* number of the latest picture shown, 0 before the first
          late,      \* a packet has failed to come
          open       \* the stream has not been closed

vars == <<offered, taken, shown, latest, late, open>>

Nothing == [pixels |-> 0, boxes |-> 0]

Init ==
    /\ offered = 0
    /\ taken = 0
    /\ shown = Nothing
    /\ latest = 0
    /\ late = FALSE
    /\ open = TRUE

Offer ==
    /\ open
    /\ offered' = offered + 1
    /\ UNCHANGED <<taken, shown, latest, late, open>>

\* Frames between the old and the new value of taken are dropped.
Take ==
    /\ open
    /\ taken' \in (offered - Capacity + 1) .. offered
    /\ taken' > taken
    /\ UNCHANGED <<offered, shown, latest, late, open>>

\* No packet comes for the frame taken last, and none will make up for it.
Miss ==
    /\ open
    /\ taken > 0
    /\ late' = TRUE
    /\ UNCHANGED <<offered, taken, shown, latest, open>>

Show ==
    /\ open
    /\ \E k \in latest .. taken :
           /\ k > 0
           /\ ~late => k = taken
           /\ shown' = [pixels |-> k, boxes |-> k]
           /\ latest' = k
    /\ UNCHANGED <<offered, taken, late, open>>

ShowNothing ==
    /\ open
    /\ late
    /\ shown' = Nothing
    /\ UNCHANGED <<offered, taken, latest, late, open>>

Close ==
    /\ open
    /\ open' = FALSE
    /\ shown' = Nothing
    /\ UNCHANGED <<offered, taken, latest, late>>

Next == Offer \/ Take \/ Miss \/ Show \/ ShowNothing \/ Close

Spec == Init /\ [][Next]_vars
=============================================================================
