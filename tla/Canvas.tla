-------------------------------- MODULE Canvas --------------------------------
(***************************************************************************)
(* The drawing surface: Models/Canvas.swift and Models/Line.swift, with    *)
(* the handlers of Controllers/CanvasDrawVC.swift that change it (Undo,    *)
(* Clear, the stroke slider, the palette).  Everything runs on the main    *)
(* thread, one event at a time; the events come in any order, and a finger *)
(* on a button does not lift the finger that is drawing.                   *)
(***************************************************************************)
EXTENDS Naturals, Sequences

CONSTANTS Colors,        \* the palette
          Black,         \* the colour a Canvas starts with
          Widths,        \* the values the slider can take
          Thin,          \* the width a Canvas starts with
          Points,        \* locations in the view
          MaxLines,      \* bound: touches are not begun on more lines
          MaxPoints      \* bound: a line is not extended beyond

ASSUME BrushAssumption  == Black \in Colors /\ Thin \in Widths
ASSUME BoundsAssumption == MaxLines \in Nat /\ MaxPoints \in Nat

VARIABLES
  lines,         \* Canvas.lines
  strokeColor,   \* Canvas.strokeColor
  strokeWidth,   \* Canvas.strokeWidth
  needsDisplay,  \* the view is marked for redrawing
  screen,        \* the picture the last draw(_:) produced
  touch,         \* the finger on the canvas: see Touches
  kept           \* history: the lines there were when that finger came down

canvasVars == <<lines, strokeColor, strokeWidth, needsDisplay, screen, touch,
                kept>>

(***************************************************************************)
(* "none": no finger on the canvas.  "drawing": a finger is down and the   *)
(* line it began is still there.  "orphan": Undo or Clear took that line   *)
(* away and the finger is still down.                                      *)
(***************************************************************************)
Touches == {"none", "drawing", "orphan"}

Line == [width : Widths, color : Colors, points : Seq(Points)]

Front(s) == SubSeq(s, 1, Len(s) - 1)

\* strokePath() paints nothing for a path that only has its first point.
Visible(line) == Len(line.points) >= 2

\* What draw(_:) paints: the visible lines, the later over the earlier.
Picture(ls) == [i \in {j \in DOMAIN ls : Visible(ls[j])} |-> ls[i]]

CanvasTypeOK ==
  /\ lines \in Seq(Line)
  /\ strokeColor \in Colors
  /\ strokeWidth \in Widths
  /\ needsDisplay \in BOOLEAN
  /\ touch \in Touches
  /\ kept \in Seq(Line)

CanvasInit ==
  /\ lines = <<>>
  /\ strokeColor = Black
  /\ strokeWidth = Thin
  /\ needsDisplay = TRUE
  /\ screen = Picture(<<>>)
  /\ touch = "none"
  /\ kept = <<>>

-----------------------------------------------------------------------------
\* Touches on the canvas.  The view takes one touch at a time.

TouchesBegan ==
  /\ touch = "none"
  /\ Len(lines) < MaxLines
  /\ lines' = Append(lines, [width |-> strokeWidth, color |-> strokeColor,
                             points |-> <<>>])
  /\ touch' = "drawing"
  /\ kept' = lines
  /\ UNCHANGED <<strokeColor, strokeWidth, needsDisplay, screen>>

\* Mutant: the last line is read and pushed, but not popped.
ExtendWithoutPop(p) ==
  LET lastLine == lines[Len(lines)] IN
  /\ lines # <<>>
  /\ Len(lastLine.points) < MaxPoints
  /\ Len(lines) < MaxLines + 1
  /\ lines' = Append(lines, [lastLine EXCEPT !.points = Append(@, p)])
  /\ needsDisplay' = TRUE

\* Mutant: the line is made anew with the brush of the moment.
ExtendWithNewBrush(p) ==
  LET lastLine == lines[Len(lines)] IN
  /\ lines # <<>>
  /\ Len(lastLine.points) < MaxPoints
  /\ lines' = Append(Front(lines),
                     [width |-> strokeWidth, color |-> strokeColor,
                      points |-> Append(lastLine.points, p)])
  /\ needsDisplay' = TRUE

\* The finger moves, and some line is there to take the point.
ExtendLastLine(p) ==
  LET lastLine == lines[Len(lines)] IN
  /\ lines # <<>>
  /\ Len(lastLine.points) < MaxPoints
  /\ lines' = Append(Front(lines),
                     [lastLine EXCEPT !.points = Append(@, p)])
  /\ needsDisplay' = TRUE

\* The finger moves with nothing left to extend: popLast() finds no line.
IgnoreMove == lines = <<>> /\ UNCHANGED <<lines, needsDisplay>>

TouchesMoved(p) ==
  /\ touch # "none"
  /\ ExtendLastLine(p) \/ IgnoreMove
  /\ UNCHANGED <<strokeColor, strokeWidth, screen, touch, kept>>

\* The finger is lifted or the system cancels the touch: neither is overridden.
TouchesEnded ==
  /\ touch # "none"
  /\ touch' = "none"
  /\ kept' = <<>>
  /\ UNCHANGED <<lines, strokeColor, strokeWidth, needsDisplay, screen>>

-----------------------------------------------------------------------------
\* Controls of CanvasDrawVC that act on the canvas.

\* The line of a finger that is still down is always the last, if it is there.
LoseLine == touch' = IF touch = "none" THEN "none" ELSE "orphan"

ClearCanvas == lines' = <<>>

\* Mutant: Clear does not ask for a redraw.
ClearUnseen ==
  /\ ClearCanvas
  /\ LoseLine
  /\ UNCHANGED <<strokeColor, strokeWidth, needsDisplay, screen, kept>>

Clear ==
  /\ ClearCanvas
  /\ needsDisplay' = TRUE
  /\ LoseLine
  /\ UNCHANGED <<strokeColor, strokeWidth, screen, kept>>

\* Mutant: Undo does not ask for a redraw.
UndoLineUnseen ==
  /\ lines' = IF Len(lines) > 0 THEN Front(lines) ELSE lines
  /\ LoseLine
  /\ UNCHANGED <<strokeColor, strokeWidth, needsDisplay, screen, kept>>

UndoLine ==
  /\ lines' = IF Len(lines) > 0 THEN Front(lines) ELSE lines
  /\ needsDisplay' = TRUE
  /\ LoseLine
  /\ UNCHANGED <<strokeColor, strokeWidth, screen, kept>>

\* Mutant: the slider counts from zero.
SliderValueFromZero(w) ==
  /\ strokeWidth' = w - 1
  /\ UNCHANGED <<lines, strokeColor, needsDisplay, screen, touch, kept>>

SliderValueChanged(w) ==
  /\ strokeWidth' = w
  /\ UNCHANGED <<lines, strokeColor, needsDisplay, screen, touch, kept>>

ColorSelected(c) ==
  /\ strokeColor' = c
  /\ UNCHANGED <<lines, strokeWidth, needsDisplay, screen, touch, kept>>

\* The run loop redraws a view that is marked, before it next waits.
Draw ==
  /\ needsDisplay
  /\ screen' = Picture(lines)
  /\ needsDisplay' = FALSE
  /\ UNCHANGED <<lines, strokeColor, strokeWidth, touch, kept>>

CanvasNext ==
  \/ TouchesBegan
  \/ \E p \in Points : TouchesMoved(p)
  \/ TouchesEnded
  \/ Clear
  \/ UndoLine
  \/ \E w \in Widths : SliderValueChanged(w)
  \/ \E c \in Colors : ColorSelected(c)
  \/ Draw

CanvasSpec == CanvasInit /\ [][CanvasNext]_canvasVars

\* The run loop does not starve the display pass.
FairCanvasSpec == CanvasSpec /\ WF_canvasVars(Draw)

-----------------------------------------------------------------------------
(***************************************************************************)
(* Unless a redraw is pending, the screen shows exactly the lines of the   *)
(* canvas.  touchesBegan never asks for a redraw: it is right not to only  *)
(* because the line it adds is invisible.                                  *)
(***************************************************************************)
ScreenIsFresh == ~needsDisplay => screen = Picture(lines)

\* The same stroke, with what points it has got since.
Continues(longer, line) ==
  /\ longer.width = line.width /\ longer.color = line.color
  /\ Len(line.points) <= Len(longer.points)
  /\ \A k \in DOMAIN line.points : longer.points[k] = line.points[k]

(***************************************************************************)
(* Whatever Undo and Clear do under a finger, its moves leave the lines    *)
(* that were there before it came down as they were, in their order, under *)
(* its own line.  Once that line is taken away the moves go on into the    *)
(* last line that is left (popLast takes whichever is there): that one     *)
(* grows, with its own brush, and no other.                                *)
(***************************************************************************)
FinishedLinesKept ==
  touch # "none" =>
    /\ touch = "drawing" => Len(lines) = Len(kept) + 1
    /\ touch = "orphan" =>
         /\ Len(lines) <= Len(kept)
         /\ lines # <<>> => Continues(lines[Len(lines)], kept[Len(lines)])
    /\ \A i \in 1..Len(lines) - 1 : lines[i] = kept[i]

(***************************************************************************)
(* The picture is a stack of strokes with the brush each was begun with    *)
(* (module Drawing), although lines also holds strokes no one can see and  *)
(* a finger may end up extending a stroke it did not begin.                *)
(***************************************************************************)
PictureStack == INSTANCE Drawing WITH pic <- Picture(lines)
PictureIsAStack == PictureStack!Spec

(***************************************************************************)
(* Again and again the screen shows the lines as they are: no change of    *)
(* them, Clear's and Undo's not either, stays off the screen for ever      *)
(* because nobody asked for a redraw.                                      *)
(***************************************************************************)
ScreenCatchesUp == []<>(screen = Picture(lines))
=============================================================================
