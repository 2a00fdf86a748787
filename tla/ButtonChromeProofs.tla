-------------------------- MODULE ButtonChromeProofs --------------------------
(***************************************************************************)
(* Proofs about ButtonChrome, for any number of buttons.                   *)
(***************************************************************************)
EXTENDS ButtonChrome, SequenceTheorems, TLAPS

(***************************************************************************)
(* On a button that has its decoration under its title, a handler replaces *)
(* the decoration and nothing else.                                        *)
(***************************************************************************)
LEMMA RedecorateReplaces ==
  ASSUME NEW s \in {<<"raised", "title">>, <<"sunken", "title">>},
         NEW view \in {"raised", "sunken"}
  PROVE  Redecorate(s, view) = <<view, "title">>
<1> DEFINE t == Append(Tail(s), view)
<1>1. Tail(s) = <<"title">>
  <2>1. Tail(<<"raised", "title">>) = <<"title">>
    OBVIOUS
  <2>2. Tail(<<"sunken", "title">>) = <<"title">>
    OBVIOUS
  <2>3. QED
    BY <2>1, <2>2
<1>2. DOMAIN t = {1, 2} /\ t[1] = "title" /\ t[2] = view
  <2>1. <<"title">> \in Seq(Views) /\ Len(<<"title">>) = 1
    BY DEF Views
  <2>2. view \in Views
    BY DEF Views
  <2>3. /\ t \in Seq(Views)
        /\ Len(t) = 2
        /\ t[1] = "title"
        /\ t[2] = view
    <3> DEFINE q == <<"title">>
    <3>1. q \in Seq(Views) /\ Len(q) = 1 /\ q[1] = "title" /\ t = Append(q, view)
      BY <1>1, <2>1
    <3> HIDE DEF q, t
    <3>2. /\ Append(q, view) \in Seq(Views)
          /\ Len(Append(q, view)) = 2
          /\ Append(q, view)[1] = "title"
          /\ Append(q, view)[2] = view
      <4>1. /\ Append(q, view) \in Seq(Views)
            /\ Len(Append(q, view)) = Len(q) + 1
            /\ \A i \in 1..Len(q) : Append(q, view)[i] = q[i]
            /\ Append(q, view)[Len(q) + 1] = view
        BY <2>2, <3>1, AppendProperties
      <4>2. QED
        BY <3>1, <4>1
    <3>3. QED
      BY <3>1, <3>2
  <2>4. DOMAIN t = 1..2
    BY <2>3, LenProperties
  <2>5. QED
    BY <2>3, <2>4
<1> HIDE DEF t
<1>3. BringTitleToFront(t) = <<view, "title">>
  <2>1. HasTitle(t) /\ TitleIndex(t) = 1
    BY <1>2 DEF HasTitle, TitleIndex
  <2>2. Len(t) = 2
    BY <1>2, <1>1 DEF t
  <2>3. BringTitleToFront(t) = [i \in {1, 2} |-> IF i = 1 THEN view ELSE "title"]
    BY <1>2, <2>1, <2>2 DEF BringTitleToFront
  <2>4. QED
    BY <2>3
<1>4. QED
  BY <1>3 DEF Redecorate, t

(***************************************************************************)
(* Every step keeps the title on top of one decoration.                    *)
(***************************************************************************)
TwoViews == {<<"raised", "title">>, <<"sunken", "title">>}

ChromeInv == subviews \in [Buttons -> TwoViews] /\ finger \in [Buttons -> Fingers]

LEMMA ChromeStep == ChromeInv /\ [ChromeNext]_chromeVars => ChromeInv'
<1> SUFFICES ASSUME ChromeInv, [ChromeNext]_chromeVars
             PROVE  ChromeInv'
  OBVIOUS
<1> USE DEF ChromeInv
<1>a. ASSUME NEW b \in Buttons, NEW view \in {"raised", "sunken"}
      PROVE  Redecorate(subviews[b], view) \in TwoViews
  BY RedecorateReplaces DEF TwoViews
<1>b. ASSUME NEW b \in Buttons, NEW from, NEW to \in Fingers, Touch(b, from, to)
      PROVE  finger' \in [Buttons -> Fingers]
  BY <1>b DEF Touch
<1>1. ASSUME NEW b \in Buttons, Pressed(b)
      PROVE  ChromeInv'
  <2>1. Highlighted(b)
    BY <1>1 DEF Pressed, Touch, Highlighted, Fingers
  <2>2. QED
    BY <1>1, <1>a, <1>b, <2>1 DEF Pressed, Fingers
<1>2. ASSUME NEW b \in Buttons, Released(b)
      PROVE  ChromeInv'
  BY <1>2, <1>a, <1>b DEF Released, Fingers
<1>3. ASSUME NEW b \in Buttons, Drag(b) \/ LiftedOutside(b) \/ Cancelled(b)
      PROVE  ChromeInv'
  BY <1>3, <1>b DEF Drag, LiftedOutside, Cancelled, Fingers
<1>4. CASE LayoutSubviews
  BY <1>4, <1>a DEF LayoutSubviews
<1>5. CASE UNCHANGED chromeVars
  BY <1>5 DEF chromeVars
<1>6. QED
  BY <1>1, <1>2, <1>3, <1>4, <1>5 DEF ChromeNext

(***************************************************************************)
(* The blind removal of the first subview never takes a title away, and    *)
(* decorations do not pile up, whatever fingers and layouts do.            *)
(***************************************************************************)
THEOREM TitleStaysOnTop == ChromeSpec => []TitleOnTop
<1>1. ChromeInit => ChromeInv
  BY DEF ChromeInit, ChromeInv, TwoViews, Fingers
<1>2. ChromeInv => TitleOnTop
  BY DEF ChromeInv, TwoViews, TitleOnTop
<1>3. QED
  BY <1>1, <1>2, ChromeStep, PTL DEF ChromeSpec
=============================================================================
