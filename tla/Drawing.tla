------------------------------- MODULE Drawing -------------------------------
(***************************************************************************)
(* What a drawing promises its user: a picture is a stack of strokes.  A   *)
(* stroke keeps the brush it was begun with, only the top of the stack     *)
(* ever changes, and it changes by one point or one stroke at a time,      *)
(* unless the whole picture is wiped.                                      *)
(*                                                                         *)
(* pic maps the stacking position of every visible stroke to the stroke.   *)
(***************************************************************************)
EXTENDS Naturals, Sequences

VARIABLE pic

\* Every stroke of p lies under position i.
AllUnder(p, i) == \A j \in DOMAIN p : j < i

\* p without the stroke at position i.
Without(p, i) == [j \in DOMAIN p \ {i} |-> p[j]]

Blank == [i \in {} |-> <<>>]

Init == pic = Blank

\* A stroke becomes visible on top of all others, with its first segment.
NewStroke ==
  \E i \in DOMAIN pic' :
    /\ AllUnder(pic, i)
    /\ DOMAIN pic' = DOMAIN pic \cup {i}
    /\ pic = Without(pic', i)
    /\ Len(pic'[i].points) = 2

\* The top stroke gets one more point and keeps its brush.
Extend ==
  \E i \in DOMAIN pic :
    /\ AllUnder(Without(pic, i), i)
    /\ DOMAIN pic' = DOMAIN pic
    /\ Without(pic', i) = Without(pic, i)
    /\ \E p \in {pic'[i].points[Len(pic'[i].points)]} :
         pic'[i] = [pic[i] EXCEPT !.points = Append(@, p)]

\* The top stroke goes.
Remove ==
  \E i \in DOMAIN pic :
    /\ AllUnder(Without(pic, i), i)
    /\ pic' = Without(pic, i)

Wipe == pic' = Blank

Next == NewStroke \/ Extend \/ Remove \/ Wipe

Spec == Init /\ [][Next]_pic
=============================================================================
