----------------------------- MODULE CanvasProofs -----------------------------
(***************************************************************************)
(* Proofs about Canvas, for every palette, every set of points and widths  *)
(* and whatever the bounds.                                                *)
(***************************************************************************)
EXTENDS Canvas, SequenceTheorems, TLAPS

(***************************************************************************)
(* What popLast() leaves of a sequence that has a last element.            *)
(***************************************************************************)
LEMMA FrontProperties ==
  ASSUME NEW S, NEW s \in Seq(S), s # <<>>
  PROVE  /\ Front(s) \in Seq(S)
         /\ Len(Front(s)) = Len(s) - 1
         /\ \A i \in 1..Len(s) - 1 : Front(s)[i] = s[i]
         /\ s[Len(s)] \in S
         /\ Len(s) \in Nat \ {0}
<1>1. Len(s) \in Nat \ {0}
  BY EmptySeq, LenProperties
<1>2. s[Len(s)] \in S
  BY <1>1, ElementOfSeq
<1>3. \A i \in 1..Len(s) - 1 : s[i] \in S
  BY <1>1, ElementOfSeq
<1>4. PICK n \in Nat : n = Len(s) - 1
  BY <1>1
<1>5. /\ SubSeq(s, 1, n) \in Seq(S)
      /\ Len(SubSeq(s, 1, n)) = IF 1 <= n THEN n - 1 + 1 ELSE 0
      /\ \A i \in 1..n - 1 + 1 : SubSeq(s, 1, n)[i] = s[1 + i - 1]
  BY <1>3, <1>4, SubSeqProperties
<1>6. QED
  BY <1>1, <1>2, <1>4, <1>5 DEF Front

(***************************************************************************)
(* Undo takes back exactly what the last append(_:) put there.             *)
(***************************************************************************)
LEMMA FrontAppend ==
  ASSUME NEW S, NEW s \in Seq(S), NEW e \in S
  PROVE  /\ Front(Append(s, e)) = s
         /\ Len(Append(s, e)) = Len(s) + 1
<1>1. PICK t \in Seq(S) : t = Append(s, e)
  BY AppendProperties
<1>2. /\ Len(t) = Len(s) + 1
      /\ \A i \in 1..Len(s) : t[i] = s[i]
      /\ t # <<>>
  BY <1>1, AppendProperties
<1>3. Len(s) \in Nat
  BY LenProperties
<1>4. /\ Front(t) \in Seq(S)
      /\ Len(Front(t)) = Len(t) - 1
      /\ \A i \in 1..Len(t) - 1 : Front(t)[i] = t[i]
  BY <1>2, FrontProperties
<1>5. Len(t) - 1 = Len(s)
  BY <1>2, <1>3
<1>6. Front(t) = s
  BY <1>2, <1>4, <1>5, SeqEqual
<1>7. QED
  BY <1>1, <1>2, <1>6

(***************************************************************************)
(* Every event keeps the state in its types.                               *)
(***************************************************************************)
LEMMA CanvasTypeStep ==
  CanvasTypeOK /\ [CanvasNext]_canvasVars => CanvasTypeOK'
<1> SUFFICES ASSUME CanvasTypeOK, [CanvasNext]_canvasVars
             PROVE  CanvasTypeOK'
  OBVIOUS
<1> USE DEF CanvasTypeOK, Touches
<1>1. CASE TouchesBegan
  <2>1. [width |-> strokeWidth, color |-> strokeColor, points |-> <<>>] \in Line
    BY EmptySeq DEF Line
  <2>2. lines' \in Seq(Line)
    BY <1>1, <2>1, AppendProperties DEF TouchesBegan
  <2>3. QED
    BY <1>1, <2>2 DEF TouchesBegan
<1>2. ASSUME NEW p \in Points, TouchesMoved(p)
      PROVE  CanvasTypeOK'
  <2>1. CASE ExtendLastLine(p)
    <3>1. /\ Front(lines) \in Seq(Line)
          /\ lines[Len(lines)] \in Line
      BY <2>1, FrontProperties DEF ExtendLastLine
    <3>2. Append(lines[Len(lines)].points, p) \in Seq(Points)
      BY <3>1, AppendProperties DEF Line
    <3>3. [lines[Len(lines)] EXCEPT !.points = Append(@, p)] \in Line
      BY <3>1, <3>2 DEF Line
    <3>4. lines' \in Seq(Line)
      BY <2>1, <3>1, <3>3, AppendProperties DEF ExtendLastLine
    <3>5. QED
      BY <1>2, <2>1, <3>4 DEF TouchesMoved, ExtendLastLine
  <2>2. CASE IgnoreMove
    BY <1>2, <2>2 DEF TouchesMoved, IgnoreMove
  <2>3. QED
    BY <1>2, <2>1, <2>2 DEF TouchesMoved
<1>3. CASE TouchesEnded
  BY <1>3, EmptySeq DEF TouchesEnded
<1>4. CASE Clear
  BY <1>4, EmptySeq DEF Clear, ClearCanvas, LoseLine
<1>5. CASE UndoLine
  <2>1. lines' \in Seq(Line)
    BY <1>5, FrontProperties, EmptySeq DEF UndoLine
  <2>2. QED
    BY <1>5, <2>1 DEF UndoLine, LoseLine
<1>6. ASSUME NEW w \in Widths, SliderValueChanged(w)
      PROVE  CanvasTypeOK'
  BY <1>6 DEF SliderValueChanged
<1>7. ASSUME NEW c \in Colors, ColorSelected(c)
      PROVE  CanvasTypeOK'
  BY <1>7 DEF ColorSelected
<1>8. CASE Draw
  BY <1>8 DEF Draw
<1>9. CASE UNCHANGED canvasVars
  BY <1>9 DEF canvasVars
<1>10. QED
  BY <1>1, <1>2, <1>3, <1>4, <1>5, <1>6, <1>7, <1>8, <1>9 DEF CanvasNext

(***************************************************************************)
(* Type correctness of the drawing surface.                                *)
(***************************************************************************)
THEOREM CanvasTypeCorrect == CanvasSpec => []CanvasTypeOK
<1>1. CanvasInit => CanvasTypeOK
  BY BrushAssumption, EmptySeq DEF CanvasInit, CanvasTypeOK, Touches
<1>2. QED
  BY <1>1, CanvasTypeStep, PTL DEF CanvasSpec

(***************************************************************************)
(* A line no one can see, laid on top or taken away, leaves the picture as *)
(* it is: why touchesBegan needs no redraw.                                *)
(***************************************************************************)
LEMMA InvisibleLineOnTop ==
  ASSUME NEW ls \in Seq(Line), NEW line \in Line, ~Visible(line)
  PROVE  Picture(Append(ls, line)) = Picture(ls)
<1> DEFINE up == Append(ls, line)
<1>1. /\ DOMAIN ls = 1..Len(ls)
      /\ Len(ls) \in Nat
  BY LenProperties
<1>2. /\ DOMAIN up = 1..Len(ls) + 1
      /\ \A i \in 1..Len(ls) : up[i] = ls[i]
      /\ up[Len(ls) + 1] = line
  BY <1>1, AppendProperties, LenProperties
<1> HIDE DEF up
<1>3. {j \in DOMAIN up : Visible(up[j])} = {j \in DOMAIN ls : Visible(ls[j])}
  <2>1. \A j \in DOMAIN up : j \in DOMAIN ls \/ j = Len(ls) + 1
    BY <1>1, <1>2
  <2>2. DOMAIN ls \subseteq DOMAIN up
    BY <1>1, <1>2
  <2>3. QED
    BY <1>1, <1>2, <2>1, <2>2
<1>4. QED
  BY <1>1, <1>2, <1>3 DEF Picture, up

(***************************************************************************)
(* Unless a redraw is pending the screen shows the lines: no event changes *)
(* what should be on the screen without asking for it to be redrawn.       *)
(***************************************************************************)
THEOREM ScreenAlwaysFresh == CanvasSpec => []ScreenIsFresh
<1>1. CanvasInit => ScreenIsFresh
  BY DEF CanvasInit, ScreenIsFresh
<1>2. CanvasTypeOK /\ ScreenIsFresh /\ [CanvasNext]_canvasVars => ScreenIsFresh'
  <2> SUFFICES ASSUME CanvasTypeOK, ScreenIsFresh, [CanvasNext]_canvasVars
               PROVE  ScreenIsFresh'
    OBVIOUS
  <2> USE DEF ScreenIsFresh
  <2>1. CASE TouchesBegan
    <3> DEFINE line == [width |-> strokeWidth, color |-> strokeColor,
                        points |-> <<>>]
    <3>1. line \in Line /\ ~Visible(line)
      BY EmptySeq DEF Line, Visible, CanvasTypeOK
    <3>2. Picture(lines') = Picture(lines)
      BY <2>1, <3>1, InvisibleLineOnTop DEF TouchesBegan, CanvasTypeOK
    <3>3. QED
      BY <2>1, <3>2 DEF TouchesBegan
  <2>2. ASSUME NEW p \in Points, TouchesMoved(p)
        PROVE  ScreenIsFresh'
    BY <2>2 DEF TouchesMoved, ExtendLastLine, IgnoreMove, CanvasTypeOK
  <2>3. CASE TouchesEnded
    BY <2>3 DEF TouchesEnded
  <2>4. CASE Clear
    BY <2>4 DEF Clear
  <2>5. CASE UndoLine
    BY <2>5 DEF UndoLine
  <2>6. ASSUME NEW w \in Widths, SliderValueChanged(w)
        PROVE  ScreenIsFresh'
    BY <2>6 DEF SliderValueChanged
  <2>7. ASSUME NEW c \in Colors, ColorSelected(c)
        PROVE  ScreenIsFresh'
    BY <2>7 DEF ColorSelected
  <2>8. CASE Draw
    BY <2>8 DEF Draw
  <2>9. CASE UNCHANGED canvasVars
    BY <2>9 DEF canvasVars
  <2>10. QED
    BY <2>1, <2>2, <2>3, <2>4, <2>5, <2>6, <2>7, <2>8, <2>9 DEF CanvasNext
<1>3. QED
  BY <1>1, <1>2, CanvasTypeCorrect, PTL DEF CanvasSpec

(***************************************************************************)
(* A move puts the last line back, longer, and leaves the others.          *)
(***************************************************************************)
LEMMA MoveOfLastLine ==
  ASSUME NEW p \in Points, CanvasTypeOK, ExtendLastLine(p)
  PROVE  /\ Len(lines) \in Nat \ {0}
         /\ Len(lines') = Len(lines)
         /\ \A i \in 1..Len(lines) - 1 : lines'[i] = lines[i]
         /\ lines[Len(lines)] \in Line
         /\ lines'[Len(lines)] \in Line
         /\ Continues(lines'[Len(lines)], lines[Len(lines)])
<1> DEFINE last   == lines[Len(lines)]
           longer == [last EXCEPT !.points = Append(@, p)]
           low    == Front(lines)
<1>1. /\ low \in Seq(Line)
      /\ Len(low) = Len(lines) - 1
      /\ \A i \in 1..Len(lines) - 1 : low[i] = lines[i]
      /\ last \in Line
      /\ Len(lines) \in Nat \ {0}
  BY FrontProperties DEF ExtendLastLine, CanvasTypeOK
<1>2. /\ Append(last.points, p) \in Seq(Points)
      /\ Len(Append(last.points, p)) = Len(last.points) + 1
      /\ \A k \in 1..Len(last.points) : Append(last.points, p)[k] = last.points[k]
      /\ Len(last.points) \in Nat
      /\ DOMAIN last.points = 1..Len(last.points)
  BY <1>1, AppendProperties, LenProperties DEF Line
<1>3. /\ longer \in Line
      /\ longer.points = Append(last.points, p)
      /\ longer.width = last.width /\ longer.color = last.color
  BY <1>1, <1>2 DEF Line
<1>4. Continues(longer, last)
  BY <1>2, <1>3 DEF Continues
<1>5. lines' = Append(low, longer)
  BY DEF ExtendLastLine
<1> HIDE DEF last, longer, low
<1>6. /\ Len(lines') = Len(low) + 1
      /\ \A i \in 1..Len(low) : lines'[i] = low[i]
      /\ lines'[Len(low) + 1] = longer
  BY <1>1, <1>3, <1>5, AppendProperties
<1>7. QED
  BY <1>1, <1>3, <1>4, <1>6 DEF last

(***************************************************************************)
(* A line is its own continuation, and so is a longer one of a longer one. *)
(***************************************************************************)
LEMMA ContinuesIsPreorder ==
  ASSUME NEW a \in Line, NEW b \in Line, NEW c
  PROVE  /\ Continues(a, a)
         /\ Continues(a, b) /\ Continues(b, c) => Continues(a, c)
<1>1. /\ Len(a.points) \in Nat /\ DOMAIN a.points = 1..Len(a.points)
      /\ Len(b.points) \in Nat /\ DOMAIN b.points = 1..Len(b.points)
  BY LenProperties DEF Line
<1>2. Continues(a, a)
  BY <1>1 DEF Continues
<1>3. QED
  BY <1>1, <1>2 DEF Continues

(***************************************************************************)
(* Under a finger the finished lines stay: all of them while it draws its  *)
(* own line, and all but the last that is left, which grows, afterwards.   *)
(***************************************************************************)
LEMMA FinishedLinesStep ==
  CanvasTypeOK /\ FinishedLinesKept /\ [CanvasNext]_canvasVars
    => FinishedLinesKept'
<1> SUFFICES ASSUME CanvasTypeOK, FinishedLinesKept, [CanvasNext]_canvasVars,
                    touch' # "none"
             PROVE  FinishedLinesKept'
  BY DEF FinishedLinesKept
<1>a. Len(lines) \in Nat /\ Len(kept) \in Nat
  BY LenProperties DEF CanvasTypeOK
<1>b. touch \in Touches
  BY DEF CanvasTypeOK
<1>1. CASE TouchesBegan
  <2> DEFINE new == [width |-> strokeWidth, color |-> strokeColor,
                     points |-> <<>>]
  <2>1. new \in Line
    BY EmptySeq DEF Line, CanvasTypeOK
  <2>2. /\ lines' = Append(lines, new) /\ kept' = lines /\ touch' = "drawing"
        /\ lines \in Seq(Line)
    BY <1>1 DEF TouchesBegan, CanvasTypeOK
  <2> HIDE DEF new
  <2>3. /\ Len(lines') = Len(lines) + 1
        /\ \A i \in 1..Len(lines) : lines'[i] = lines[i]
    BY <2>1, <2>2, AppendProperties
  <2>4. QED
    BY <1>a, <2>2, <2>3 DEF FinishedLinesKept
<1>2. ASSUME NEW p \in Points, TouchesMoved(p)
      PROVE  FinishedLinesKept'
  <2>0. UNCHANGED <<touch, kept>> /\ touch # "none"
    BY <1>2 DEF TouchesMoved
  <2>1. CASE ExtendLastLine(p)
    <3> DEFINE n == Len(lines)
    <3>1. /\ n \in Nat \ {0}
          /\ Len(lines') = n
          /\ \A i \in 1..n - 1 : lines'[i] = lines[i]
          /\ lines[n] \in Line /\ lines'[n] \in Line
          /\ Continues(lines'[n], lines[n])
      BY <2>1, MoveOfLastLine
    <3>2. lines # <<>>
      BY <2>1 DEF ExtendLastLine
    <3>3. touch = "orphan" => Continues(lines'[n], kept[n])
      BY <3>1, <3>2, ContinuesIsPreorder DEF FinishedLinesKept
    <3> HIDE DEF n
    <3>4. QED
      BY <2>0, <3>1, <3>3 DEF FinishedLinesKept, n
  <2>2. CASE IgnoreMove
    BY <2>0, <2>2 DEF IgnoreMove, FinishedLinesKept
  <2>3. QED
    BY <1>2, <2>1, <2>2 DEF TouchesMoved
<1>3. CASE TouchesEnded
  BY <1>3 DEF TouchesEnded
<1>4. CASE Clear
  <2>1. touch' = "orphan" /\ lines' = <<>> /\ UNCHANGED kept
    BY <1>4 DEF Clear, ClearCanvas, LoseLine
  <2>2. Len(<<>>) = 0
    OBVIOUS
  <2>3. QED
    BY <1>a, <2>1, <2>2 DEF FinishedLinesKept
<1>5. CASE UndoLine
  <2>0. touch' = "orphan" /\ touch # "none" /\ UNCHANGED kept
    BY <1>5 DEF UndoLine, LoseLine
  <2>1. CASE lines = <<>>
    <3>1. Len(lines) = 0 /\ lines' = lines
      BY <1>5, <2>1 DEF UndoLine
    <3>2. QED
      BY <1>a, <2>0, <2>1, <3>1 DEF FinishedLinesKept
  <2>2. CASE lines # <<>>
    <3> DEFINE n == Len(lines)
    <3>1. /\ n \in Nat \ {0}
          /\ lines' = Front(lines)
          /\ Front(lines) \in Seq(Line)
          /\ Len(Front(lines)) = n - 1
          /\ \A i \in 1..n - 1 : Front(lines)[i] = lines[i]
      BY <1>5, <2>2, FrontProperties DEF UndoLine, CanvasTypeOK
    <3> HIDE DEF n
    <3>2. /\ n - 1 <= Len(kept)
          /\ \A i \in 1..n - 1 : lines[i] = kept[i]
      BY <1>a, <1>b, <2>0, <3>1 DEF FinishedLinesKept, Touches, n
    <3>3. \A i \in 1..n - 1 : lines'[i] = kept[i]
      BY <3>1, <3>2
    <3>4. lines' # <<>> => n - 1 \in 1..n - 1
      BY <3>1, EmptySeq
    <3>5. lines' # <<>> => lines'[n - 1] \in Line
      BY <3>1, <3>4, ElementOfSeq
    <3>6. lines' # <<>> => Continues(lines'[n - 1], kept[n - 1])
      BY <3>3, <3>4, <3>5, ContinuesIsPreorder
    <3>7. Len(lines') = n - 1
      BY <3>1
    <3>8. QED
      BY <2>0, <3>1, <3>2, <3>3, <3>6, <3>7 DEF FinishedLinesKept
  <2>3. QED
    BY <2>1, <2>2
<1>6. ASSUME NEW w \in Widths, SliderValueChanged(w)
      PROVE  FinishedLinesKept'
  BY <1>6 DEF SliderValueChanged, FinishedLinesKept
<1>7. ASSUME NEW c \in Colors, ColorSelected(c)
      PROVE  FinishedLinesKept'
  BY <1>7 DEF ColorSelected, FinishedLinesKept
<1>8. CASE Draw
  BY <1>8 DEF Draw, FinishedLinesKept
<1>9. CASE UNCHANGED canvasVars
  BY <1>9 DEF canvasVars, FinishedLinesKept
<1>10. QED
  BY <1>1, <1>2, <1>3, <1>4, <1>5, <1>6, <1>7, <1>8, <1>9 DEF CanvasNext

(***************************************************************************)
(* The moves of a finger leave the finished lines, in every canvas.        *)
(***************************************************************************)
THEOREM FinishedLinesStay == CanvasSpec => []FinishedLinesKept
<1>1. CanvasInit => FinishedLinesKept
  BY DEF CanvasInit, FinishedLinesKept
<1>2. QED
  BY <1>1, FinishedLinesStep, CanvasTypeCorrect, PTL DEF CanvasSpec

-----------------------------------------------------------------------------
(***************************************************************************)
(* A sequence is its last element on top of the rest.                      *)
(***************************************************************************)
LEMMA FrontThenLast ==
  ASSUME NEW S, NEW s \in Seq(S), s # <<>>
  PROVE  s = Append(Front(s), s[Len(s)])
<1>1. /\ Front(s) \in Seq(S)
      /\ Len(Front(s)) = Len(s) - 1
      /\ \A i \in 1..Len(s) - 1 : Front(s)[i] = s[i]
      /\ s[Len(s)] \in S
      /\ Len(s) \in Nat \ {0}
  BY FrontProperties
<1>2. PICK f \in Seq(S) : f = Front(s)
  BY <1>1
<1>3. PICK e \in S : e = s[Len(s)]
  BY <1>1
<1>4. PICK t \in Seq(S) : t = Append(f, e)
  BY AppendProperties
<1>5. /\ Len(t) = Len(f) + 1
      /\ \A i \in 1..Len(f) : t[i] = f[i]
      /\ t[Len(f) + 1] = e
  BY <1>4, AppendProperties
<1>6. Len(t) = Len(s)
  BY <1>1, <1>2, <1>5
<1>7. \A i \in 1..Len(s) : t[i] = s[i]
  BY <1>1, <1>2, <1>3, <1>5
<1>8. s = t
  BY <1>6, <1>7, SeqEqual
<1>9. QED
  BY <1>2, <1>3, <1>4, <1>8

(***************************************************************************)
(* A visible line laid on top is the top stroke of the picture, above all  *)
(* the strokes there were.                                                 *)
(***************************************************************************)
LEMMA VisibleLineOnTop ==
  ASSUME NEW ls \in Seq(Line), NEW line \in Line, Visible(line)
  PROVE  LET i   == Len(ls) + 1
             old == Picture(ls)
             new == Picture(Append(ls, line))
         IN  /\ DOMAIN new = DOMAIN old \cup {i}
             /\ i \notin DOMAIN old
             /\ new[i] = line
             /\ old = PictureStack!Without(new, i)
             /\ PictureStack!AllUnder(old, i)
<1> DEFINE up == Append(ls, line)
           top == Len(ls) + 1
<1>1. /\ DOMAIN ls = 1..Len(ls)
      /\ Len(ls) \in Nat
  BY LenProperties
<1>2. /\ DOMAIN up = 1..top
      /\ \A i \in 1..Len(ls) : up[i] = ls[i]
      /\ up[top] = line
  BY <1>1, AppendProperties, LenProperties
<1>3. Picture(ls) = [i \in {j \in DOMAIN ls : Visible(ls[j])} |-> ls[i]]
  BY DEF Picture
<1>4. Picture(up) = [i \in {j \in DOMAIN up : Visible(up[j])} |-> up[i]]
  BY DEF Picture
<1> HIDE DEF up
<1>5. /\ \A j \in DOMAIN up : j \in DOMAIN ls \/ j = top
      /\ DOMAIN ls \subseteq DOMAIN up
      /\ top \in DOMAIN up
      /\ top \notin DOMAIN ls
      /\ \A j \in DOMAIN ls : j < top
  BY <1>1, <1>2
<1> HIDE DEF top
<1>6. {j \in DOMAIN up : Visible(up[j])}
        = {j \in DOMAIN ls : Visible(ls[j])} \cup {top}
  BY <1>1, <1>2, <1>5
<1>7. /\ DOMAIN Picture(up) = DOMAIN Picture(ls) \cup {top}
      /\ top \notin DOMAIN Picture(ls)
      /\ Picture(up)[top] = line
  BY <1>2, <1>3, <1>4, <1>5, <1>6
<1>8. DOMAIN Picture(up) \ {top} = {j \in DOMAIN ls : Visible(ls[j])}
  BY <1>3, <1>7
<1>9. \A j \in DOMAIN Picture(ls) : Picture(up)[j] = ls[j]
  BY <1>1, <1>2, <1>3, <1>4, <1>6
<1>10. Picture(ls) = [j \in DOMAIN Picture(up) \ {top} |-> Picture(up)[j]]
  BY <1>3, <1>8, <1>9
<1>11. \A j \in DOMAIN Picture(ls) : j < top
  BY <1>3, <1>5
<1>12. QED
  BY <1>7, <1>10, <1>11 DEF PictureStack!Without, PictureStack!AllUnder, up, top

(***************************************************************************)
(* Undo takes the top stroke, or a stroke no one could see.                *)
(***************************************************************************)
LEMMA UndoOnPicture ==
  CanvasTypeOK /\ UndoLine
    => PictureStack!Remove \/ UNCHANGED Picture(lines)
<1> SUFFICES ASSUME CanvasTypeOK, UndoLine, lines # <<>>
             PROVE  PictureStack!Remove \/ UNCHANGED Picture(lines)
  BY EmptySeq, LenProperties DEF UndoLine, CanvasTypeOK
<1>1. /\ Front(lines) \in Seq(Line)
      /\ lines[Len(lines)] \in Line
      /\ Len(lines) \in Nat \ {0}
      /\ lines = Append(Front(lines), lines[Len(lines)])
      /\ lines' = Front(lines)
  BY FrontProperties, FrontThenLast DEF CanvasTypeOK, UndoLine
<1>2. CASE Visible(lines[Len(lines)])
  <2> DEFINE i == Len(Front(lines)) + 1
  <2>1. /\ DOMAIN Picture(lines) = DOMAIN Picture(lines') \cup {i}
        /\ Picture(lines') = PictureStack!Without(Picture(lines), i)
        /\ PictureStack!AllUnder(Picture(lines'), i)
    BY <1>1, <1>2, VisibleLineOnTop
  <2>2. QED
    BY <2>1 DEF PictureStack!Remove
<1>3. CASE ~Visible(lines[Len(lines)])
  BY <1>1, <1>3, InvisibleLineOnTop
<1>4. QED
  BY <1>2, <1>3

(***************************************************************************)
(* A move extends the top stroke, makes a stroke visible on top, or adds   *)
(* the first point of a stroke, which no one sees.                         *)
(***************************************************************************)
LEMMA MoveOnPicture ==
  ASSUME NEW p \in Points, CanvasTypeOK, ExtendLastLine(p)
  PROVE  \/ PictureStack!NewStroke
         \/ PictureStack!Extend
         \/ UNCHANGED Picture(lines)
<1> DEFINE low    == Front(lines)
           line   == lines[Len(lines)]
           longer == [line EXCEPT !.points = Append(@, p)]
           i      == Len(low) + 1
           before == Picture(lines)
           after  == Picture(lines')
<1>1. /\ low \in Seq(Line)
      /\ line \in Line
      /\ lines = Append(low, line)
      /\ lines' = Append(low, longer)
  BY FrontProperties, FrontThenLast DEF CanvasTypeOK, ExtendLastLine
<1>2. /\ Append(line.points, p) \in Seq(Points)
      /\ Len(Append(line.points, p)) = Len(line.points) + 1
      /\ Append(line.points, p)[Len(line.points) + 1] = p
      /\ Len(line.points) \in Nat
  BY <1>1, AppendProperties, LenProperties DEF Line
<1>3. /\ longer \in Line
      /\ longer.points = Append(line.points, p)
  BY <1>1, <1>2 DEF Line
<1>4. CASE Visible(line)
  <2>1. Visible(longer)
    BY <1>2, <1>3, <1>4 DEF Visible
  <2>2. /\ DOMAIN before = DOMAIN Picture(low) \cup {i}
        /\ before[i] = line
        /\ Picture(low) = PictureStack!Without(before, i)
        /\ PictureStack!AllUnder(Picture(low), i)
    BY <1>1, <1>4, VisibleLineOnTop
  <2>3. /\ DOMAIN after = DOMAIN Picture(low) \cup {i}
        /\ after[i] = longer
        /\ Picture(low) = PictureStack!Without(after, i)
    BY <1>1, <1>3, <2>1, VisibleLineOnTop
  <2>4. longer.points[Len(longer.points)] = p
    BY <1>2, <1>3
  <2> HIDE DEF i, line, longer, before, after
  <2>5. after[i] = [before[i] EXCEPT !.points =
                      Append(@, after[i].points[Len(after[i].points)])]
    BY <2>2, <2>3, <2>4 DEF longer
  <2>6. PictureStack!Extend
    BY <2>2, <2>3, <2>5 DEF PictureStack!Extend, before, after
  <2>7. QED
    BY <2>6
<1>5. CASE ~Visible(line) /\ Visible(longer)
  <2>1. before = Picture(low)
    BY <1>1, <1>5, InvisibleLineOnTop
  <2>2. /\ DOMAIN after = DOMAIN before \cup {i}
        /\ after[i] = longer
        /\ before = PictureStack!Without(after, i)
        /\ PictureStack!AllUnder(before, i)
    BY <1>1, <1>3, <1>5, <2>1, VisibleLineOnTop
  <2>3. Len(longer.points) = 2
    BY <1>2, <1>3, <1>5 DEF Visible
  <2>4. PictureStack!NewStroke
    BY <2>2, <2>3 DEF PictureStack!NewStroke
  <2>5. QED
    BY <2>4
<1>6. CASE ~Visible(line) /\ ~Visible(longer)
  BY <1>1, <1>3, <1>6, InvisibleLineOnTop
<1>7. QED
  BY <1>2, <1>3, <1>4, <1>5, <1>6 DEF Visible

(***************************************************************************)
(* The canvas implements the stack of strokes: on the picture, every event *)
(* is a step of Drawing or no step at all.                                 *)
(***************************************************************************)
THEOREM CanvasImplementsDrawing == CanvasSpec => PictureIsAStack
<1>1. CanvasInit => PictureStack!Init
  BY DEF CanvasInit, PictureStack!Init, PictureStack!Blank, Picture
<1>2. CanvasTypeOK /\ [CanvasNext]_canvasVars
        => [PictureStack!Next]_(Picture(lines))
  <2> SUFFICES ASSUME CanvasTypeOK, [CanvasNext]_canvasVars
               PROVE  PictureStack!Next \/ UNCHANGED Picture(lines)
    OBVIOUS
  <2>1. CASE TouchesBegan
    <3> DEFINE line == [width |-> strokeWidth, color |-> strokeColor,
                        points |-> <<>>]
    <3>1. line \in Line /\ ~Visible(line)
      BY EmptySeq DEF Line, Visible, CanvasTypeOK
    <3>2. QED
      BY <2>1, <3>1, InvisibleLineOnTop DEF TouchesBegan, CanvasTypeOK
  <2>2. ASSUME NEW p \in Points, TouchesMoved(p)
        PROVE  PictureStack!Next \/ UNCHANGED Picture(lines)
    <3>1. CASE ExtendLastLine(p)
      BY <3>1, MoveOnPicture DEF PictureStack!Next
    <3>2. CASE IgnoreMove
      BY <3>2 DEF IgnoreMove
    <3>3. QED
      BY <2>2, <3>1, <3>2 DEF TouchesMoved
  <2>3. CASE TouchesEnded
    BY <2>3 DEF TouchesEnded
  <2>4. CASE Clear
    <3>1. Picture(lines') = PictureStack!Blank
      BY <2>4 DEF Clear, ClearCanvas, Picture, PictureStack!Blank
    <3>2. QED
      BY <3>1 DEF PictureStack!Next, PictureStack!Wipe
  <2>5. CASE UndoLine
    BY <2>5, UndoOnPicture DEF PictureStack!Next
  <2>6. ASSUME NEW w \in Widths, SliderValueChanged(w)
        PROVE  UNCHANGED Picture(lines)
    BY <2>6 DEF SliderValueChanged
  <2>7. ASSUME NEW c \in Colors, ColorSelected(c)
        PROVE  UNCHANGED Picture(lines)
    BY <2>7 DEF ColorSelected
  <2>8. CASE Draw
    BY <2>8 DEF Draw
  <2>9. CASE UNCHANGED canvasVars
    BY <2>9 DEF canvasVars
  <2>10. QED
    BY <2>1, <2>2, <2>3, <2>4, <2>5, <2>6, <2>7, <2>8, <2>9 DEF CanvasNext
<1>3. QED
  BY <1>1, <1>2, CanvasTypeCorrect, PTL
     DEF CanvasSpec, PictureIsAStack, PictureStack!Spec
=============================================================================
