----------------------------- MODULE ButtonChrome -----------------------------
(***************************************************************************)
(* How the buttons of Controllers/CanvasDrawVC.swift look: what pressed,   *)
(* released and viewDidLayoutSubviews do to the subviews of a button that  *)
(* Views/UICreator.swift made.  A button has a decoration and over it its  *)
(* title.  Each handler removes the first subview, whatever it is, adds    *)
(* the decoration it wants and brings the title to the front.              *)
(***************************************************************************)
EXTENDS Naturals, Sequences

CONSTANT Buttons

VARIABLES subviews,   \* the subviews of each button, from back to front
          finger      \* the finger that touches it

chromeVars == <<subviews, finger>>

Views == {"title", "raised", "sunken"}

\* A finger that came down on the button is there, or has been dragged off it.
Fingers == {"up", "inside", "outside"}

ChromeTypeOK ==
  /\ subviews \in [Buttons -> [1..2 -> Views]]
  /\ finger \in [Buttons -> Fingers]

\* GetButton decorates the new button and brings the title to the front.
ChromeInit ==
  /\ subviews = [b \in Buttons |-> <<"raised", "title">>]
  /\ finger = [b \in Buttons |-> "up"]

-----------------------------------------------------------------------------
HasTitle(s) == \E i \in DOMAIN s : s[i] = "title"

TitleIndex(s) == CHOOSE i \in DOMAIN s : s[i] = "title"

\* bringSubviewToFront(titleLabel) does nothing if the title is no subview.
BringTitleToFront(s) ==
  IF HasTitle(s)
  THEN [i \in DOMAIN s |->
          IF i < TitleIndex(s) THEN s[i]
          ELSE IF i < Len(s) THEN s[i + 1]
          ELSE "title"]
  ELSE s

\* Mutant: the title stays where it is.
RedecorateOver(s, view) == Append(Tail(s), view)

\* Mutant: no subview is removed.
RedecoratePilesUp(s, view) == BringTitleToFront(Append(s, view))

\* subviews[0].removeFromSuperview(), addSubview(view), title to the front.
Redecorate(s, view) == BringTitleToFront(Append(Tail(s), view))

Touch(b, from, to) ==
  /\ finger[b] = from
  /\ finger' = [finger EXCEPT ![b] = to]

\* isHighlighted: UIKit keeps a button highlighted while its finger is inside,
\* and has the finger noted before it calls the handler.
Highlighted(b) == finger'[b] = "inside"

\* touchDown.
Pressed(b) ==
  /\ Touch(b, "up", "inside")
  /\ subviews' = [subviews EXCEPT ![b] =
                     IF Highlighted(b) THEN Redecorate(@, "sunken") ELSE Tail(@)]

\* touchUpInside.
Released(b) ==
  /\ Touch(b, "inside", "up")
  /\ subviews' = [subviews EXCEPT ![b] = Redecorate(@, "raised")]

\* No action is registered for dragging the finger off the button or back, for
\* lifting it outside, and for a touch that the system cancels.
Drag(b) ==
  /\ Touch(b, "inside", "outside") \/ Touch(b, "outside", "inside")
  /\ UNCHANGED subviews

LiftedOutside(b) ==
  /\ Touch(b, "outside", "up")
  /\ UNCHANGED subviews

Cancelled(b) ==
  /\ Touch(b, "inside", "up") \/ Touch(b, "outside", "up")
  /\ UNCHANGED subviews

\* viewDidLayoutSubviews releases all the buttons, also those that are held.
LayoutSubviews ==
  /\ subviews' = [b \in Buttons |-> Redecorate(subviews[b], "raised")]
  /\ UNCHANGED finger

ChromeNext ==
  \/ \E b \in Buttons :
       \/ Pressed(b)
       \/ Released(b)
       \/ Drag(b)
       \/ LiftedOutside(b)
       \/ Cancelled(b)
  \/ LayoutSubviews

ChromeSpec == ChromeInit /\ [][ChromeNext]_chromeVars

-----------------------------------------------------------------------------
(***************************************************************************)
(* In any order of presses, releases and layouts a button keeps exactly    *)
(* one decoration with the title over it: "the first subview" is always    *)
(* there, is always the decoration, and is never the title.                *)
(***************************************************************************)
TitleOnTop ==
  \A b \in Buttons :
    subviews[b] \in {<<"raised", "title">>, <<"sunken", "title">>}
=============================================================================
