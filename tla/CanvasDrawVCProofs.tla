-------------------------- MODULE CanvasDrawVCProofs --------------------------
(***************************************************************************)
(* Proofs about CanvasDrawVC, for any palette and slider, and any number   *)
(* of lines, photo jobs and uploads.                                       *)
(***************************************************************************)
EXTENDS CanvasDrawVC, CanvasProofs

ChromeProofs == INSTANCE ButtonChromeProofs

-----------------------------------------------------------------------------
(***************************************************************************)
(* The canvas on the screen is a canvas: every step of the screen is one   *)
(* of its own steps or leaves it as it is.                                 *)
(***************************************************************************)
LEMMA ScreenCanvasStarts == VCInit => CanvasInit
BY DEF VCInit

LEMMA FlushIsCanvasStep == FlushUpdates => [CanvasNext]_canvasVars
BY DEF FlushUpdates, CanvasNext

LEMMA ScreenStepIsCanvasStep == [VCNext]_vcVars => [CanvasNext]_canvasVars
<1> SUFFICES ASSUME [VCNext]_vcVars
             PROVE  [CanvasNext]_canvasVars
  OBVIOUS
<1>1. ASSUME NEW b \in InUse, Press(b)
      PROVE  [CanvasNext]_canvasVars
  <2>1. CASE PressSave
    BY <2>1, FlushIsCanvasStep DEF PressSave
  <2>2. CASE PressClear
    BY <2>2 DEF PressClear, CanvasNext
  <2>3. CASE PressUndo
    BY <2>3 DEF PressUndo, CanvasNext
  <2>4. CASE PressShare
    BY <2>4 DEF PressShare
  <2>5. QED
    BY <1>1, <2>1, <2>2, <2>3, <2>4 DEF Press
<1>2. CASE ButtonMoves
  BY <1>2 DEF ButtonMoves
<1>3. CASE CanvasEvents
  BY <1>3 DEF CanvasEvents, CanvasNext
<1>4. CASE ConfirmTitle
  BY <1>4, FlushIsCanvasStep DEF ConfirmTitle
<1>5. CASE DismissAlert
  BY <1>5 DEF DismissAlert
<1>6. CASE Results
  BY <1>6 DEF Results, ImageSaved, UploadReported
<1>7. ASSUME NEW i \in DOMAIN uploads, UploadStored(i)
      PROVE  [CanvasNext]_canvasVars
  BY <1>7 DEF UploadStored
<1>8. CASE NetworkChanges
  BY <1>8 DEF NetworkChanges
<1>9. CASE UNCHANGED vcVars
  BY <1>9 DEF vcVars
<1>10. QED
  BY <1>1, <1>2, <1>3, <1>4, <1>5, <1>6, <1>7, <1>8, <1>9 DEF VCNext

(***************************************************************************)
(* So what is true of every canvas is true of the one on the screen: it is *)
(* redrawn whenever it should be, and finished lines stay as they are.     *)
(***************************************************************************)
THEOREM ScreenCanvasIsSound ==
  VCSpec => [](CanvasTypeOK /\ ScreenIsFresh /\ FinishedLinesKept)
<1>1. VCSpec => CanvasSpec
  BY ScreenCanvasStarts, ScreenStepIsCanvasStep, PTL DEF VCSpec, CanvasSpec
<1>2. QED
  BY <1>1, CanvasTypeCorrect, ScreenAlwaysFresh, FinishedLinesStay, PTL

-----------------------------------------------------------------------------
(***************************************************************************)
(* A move of the finger that extends a line leaves at least that line.     *)
(***************************************************************************)
LEMMA ExtendKeepsLines ==
  ASSUME NEW p \in Points, CanvasTypeOK, ExtendLastLine(p)
  PROVE  lines' # <<>>
<1> DEFINE longer == [lines[Len(lines)] EXCEPT !.points = Append(@, p)]
<1>1. /\ Front(lines) \in Seq(Line)
      /\ lines[Len(lines)] \in Line
  BY FrontProperties DEF CanvasTypeOK, ExtendLastLine
<1>2. Append(lines[Len(lines)].points, p) \in Seq(Points)
  BY <1>1, AppendProperties DEF Line
<1>3. longer \in Line
  BY <1>1, <1>2 DEF Line
<1>4. lines' = Append(Front(lines), longer)
  BY DEF ExtendLastLine
<1> HIDE DEF longer
<1>5. QED
  BY <1>1, <1>3, <1>4, AppendProperties

(***************************************************************************)
(* While the dialog asks for a title there is something to share: only     *)
(* Clear and Undo take lines away, and no button is pressed under it.      *)
(***************************************************************************)
LEMMA DialogStep ==
  CanvasTypeOK /\ DialogHasDrawing /\ [VCNext]_vcVars => DialogHasDrawing'
<1> SUFFICES ASSUME CanvasTypeOK, DialogHasDrawing, [VCNext]_vcVars,
                    alert' = "title dialog"
             PROVE  lines' # <<>>
  BY DEF DialogHasDrawing
<1>a. alert = "title dialog" => lines # <<>>
  BY DEF DialogHasDrawing
<1>b. FlushUpdates => lines' = lines
  BY DEF FlushUpdates, Draw, canvasVars
<1>1. ASSUME NEW b \in InUse, Press(b)
      PROVE  lines' # <<>>
  <2>1. CASE PressSave
    BY <1>a, <1>b, <2>1 DEF PressSave, canvasVars
  <2>2. CASE PressClear
    BY <2>2 DEF PressClear, Uncovered, screenVars
  <2>3. CASE PressUndo
    BY <2>3 DEF PressUndo, Uncovered, screenVars
  <2>4. CASE PressShare
    BY <1>a, <2>4 DEF PressShare, canvasVars
  <2>5. QED
    BY <1>1, <2>1, <2>2, <2>3, <2>4 DEF Press
<1>2. CASE ButtonMoves
  BY <1>a, <1>2 DEF ButtonMoves, canvasVars, screenVars
<1>3. CASE CanvasEvents
  <2>0. alert = "title dialog" /\ lines # <<>>
    BY <1>a, <1>3 DEF CanvasEvents, screenVars
  <2>1. ~Uncovered
    BY <2>0 DEF Uncovered
  <2>2. ASSUME NEW p \in Points, TouchesMoved(p)
        PROVE  lines' # <<>>
    BY <2>0, <2>2, ExtendKeepsLines DEF TouchesMoved, IgnoreMove
  <2>3. CASE TouchesEnded
    BY <2>0, <2>3 DEF TouchesEnded
  <2>4. ASSUME NEW w \in Widths, SliderValueChanged(w)
        PROVE  lines' # <<>>
    BY <2>0, <2>4 DEF SliderValueChanged
  <2>5. CASE Draw
    BY <2>0, <2>5 DEF Draw
  <2>6. QED
    BY <1>3, <2>1, <2>2, <2>3, <2>4, <2>5 DEF CanvasEvents
<1>4. CASE ConfirmTitle
  BY <1>4 DEF ConfirmTitle, StartUpload, SayOffline
<1>5. CASE DismissAlert
  BY <1>5 DEF DismissAlert
<1>6. CASE Results
  BY <1>a, <1>6 DEF Results, ImageSaved, UploadReported, Present, canvasVars
<1>7. ASSUME NEW i \in DOMAIN uploads, UploadStored(i)
      PROVE  lines' # <<>>
  BY <1>a, <1>7 DEF UploadStored, canvasVars
<1>8. CASE NetworkChanges
  BY <1>a, <1>8 DEF NetworkChanges, canvasVars
<1>9. CASE UNCHANGED vcVars
  BY <1>a, <1>9 DEF vcVars, canvasVars, screenVars
<1>10. QED
  BY <1>1, <1>2, <1>3, <1>4, <1>5, <1>6, <1>7, <1>8, <1>9 DEF VCNext

(***************************************************************************)
(* The check Share made before the dialog came up still holds at OK.       *)
(***************************************************************************)
THEOREM DialogKeepsDrawing == VCSpec => []DialogHasDrawing
<1>1. VCInit => DialogHasDrawing
  BY DEF VCInit, DialogHasDrawing
<1>2. QED
  BY <1>1, DialogStep, ScreenCanvasIsSound, PTL DEF VCSpec

-----------------------------------------------------------------------------
(***************************************************************************)
(* The buttons on the screen are buttons: what a press does besides, and   *)
(* all that happens on the canvas and around it, leaves their looks alone. *)
(***************************************************************************)
LEMMA ScreenStepIsChromeStep ==
  [VCNext]_vcVars => [ChromeProofs!ChromeNext]_(ChromeProofs!chromeVars)
<1> SUFFICES ASSUME [VCNext]_vcVars
             PROVE  \/ ChromeProofs!ChromeNext
                    \/ UNCHANGED <<subviews, finger>>
  BY DEF ChromeProofs!chromeVars
<1>1. ASSUME NEW b \in Buttons, Chrome!Pressed(b)
      PROVE  ChromeProofs!ChromeNext
  BY <1>1 DEF ChromeProofs!ChromeNext, ChromeProofs!Pressed, Chrome!Pressed,
              ChromeProofs!Highlighted, Chrome!Highlighted,
              ChromeProofs!Touch, Chrome!Touch,
              ChromeProofs!Redecorate, Chrome!Redecorate,
              ChromeProofs!BringTitleToFront, Chrome!BringTitleToFront,
              ChromeProofs!HasTitle, Chrome!HasTitle,
              ChromeProofs!TitleIndex, Chrome!TitleIndex
<1>2. ASSUME NEW b \in InUse, Press(b)
      PROVE  ChromeProofs!ChromeNext
  BY <1>1, <1>2 DEF Press, PressSave, PressClear, PressUndo, PressShare, Buttons
<1>3. CASE ButtonMoves
  <2>1. ASSUME NEW b \in InUse, Chrome!Released(b)
        PROVE  ChromeProofs!ChromeNext
    BY <2>1, InUseAssumption
       DEF ChromeProofs!ChromeNext, ChromeProofs!Released, Chrome!Released,
           ChromeProofs!Touch, Chrome!Touch,
           ChromeProofs!Redecorate, Chrome!Redecorate,
           ChromeProofs!BringTitleToFront, Chrome!BringTitleToFront,
           ChromeProofs!HasTitle, Chrome!HasTitle,
           ChromeProofs!TitleIndex, Chrome!TitleIndex
  <2>2. ASSUME NEW b \in InUse,
               Chrome!Drag(b) \/ Chrome!LiftedOutside(b) \/ Chrome!Cancelled(b)
        PROVE  ChromeProofs!ChromeNext
    BY <2>2, InUseAssumption
       DEF ChromeProofs!ChromeNext, ChromeProofs!Drag, Chrome!Drag,
           ChromeProofs!LiftedOutside, Chrome!LiftedOutside,
           ChromeProofs!Cancelled, Chrome!Cancelled,
           ChromeProofs!Touch, Chrome!Touch
  <2>3. ASSUME Chrome!LayoutSubviews
        PROVE  ChromeProofs!ChromeNext
    BY <2>3
       DEF ChromeProofs!ChromeNext, ChromeProofs!LayoutSubviews,
           Chrome!LayoutSubviews,
           ChromeProofs!Redecorate, Chrome!Redecorate,
           ChromeProofs!BringTitleToFront, Chrome!BringTitleToFront,
           ChromeProofs!HasTitle, Chrome!HasTitle,
           ChromeProofs!TitleIndex, Chrome!TitleIndex
  <2>4. QED
    BY <1>3, <2>1, <2>2, <2>3 DEF ButtonMoves
<1>4. ASSUME \/ CanvasEvents
             \/ ConfirmTitle
             \/ DismissAlert
             \/ Results
             \/ \E i \in DOMAIN uploads : UploadStored(i)
             \/ NetworkChanges
             \/ UNCHANGED vcVars
      PROVE  UNCHANGED <<subviews, finger>>
  BY <1>4 DEF CanvasEvents, ConfirmTitle, DismissAlert, Results, ImageSaved,
              UploadReported, UploadStored, NetworkChanges, vcVars
<1>5. QED
  BY <1>2, <1>3, <1>4 DEF VCNext

LEMMA ScreenStartsAsChrome == VCInit => ChromeProofs!ChromeInv
<1>1. VCInit => ChromeProofs!ChromeInit
  BY DEF VCInit, Chrome!ChromeInit, ChromeProofs!ChromeInit
<1>2. ChromeProofs!ChromeInit => ChromeProofs!ChromeInv
  BY DEF ChromeProofs!ChromeInit, ChromeProofs!ChromeInv, ChromeProofs!TwoViews,
         ChromeProofs!Fingers
<1>3. QED
  BY <1>1, <1>2

(***************************************************************************)
(* Every button of the screen keeps one decoration under its title, in any *)
(* order of presses that do their work, releases and layouts.              *)
(***************************************************************************)
THEOREM TitlesStayOnTop == VCSpec => []TitlesOnTop
<1>1. ChromeProofs!ChromeInv => TitlesOnTop
  BY DEF ChromeProofs!ChromeInv, ChromeProofs!TwoViews, TitlesOnTop,
         Chrome!TitleOnTop
<1>2. QED
  BY <1>1, ScreenStartsAsChrome, ScreenStepIsChromeStep, ChromeProofs!ChromeStep,
     PTL DEF VCSpec
-----------------------------------------------------------------------------
(***************************************************************************)
(* A snapshot brings the screen up to date and leaves the lines: as long   *)
(* as every change of the lines asks for a redraw (ScreenIsFresh), what is *)
(* on the screen after the flush is the drawing.                           *)
(***************************************************************************)
LEMMA SnapshotIsCurrent ==
  ScreenIsFresh /\ FlushUpdates => Snapshot = Picture(lines) /\ lines' = lines
BY DEF ScreenIsFresh, FlushUpdates, Snapshot, Draw, canvasVars

-----------------------------------------------------------------------------
(***************************************************************************)
(* What the screen holds beside its canvas and its buttons: an alert there *)
(* is, and of what is saved and uploaded, pictures.                        *)
(***************************************************************************)
Pictures == {Picture(ls) : ls \in Seq(Line)}

Upload == [picture : Pictures, stored : BOOLEAN,
           reported : {<<>>, <<"success">>, <<"failure">>}]

ScreenInv ==
  /\ alert \in Alerts
  /\ IsABag(saves) /\ \A pic \in DOMAIN saves : IsPicture(pic)
  /\ uploads \in Seq(Upload) /\ Len(uploads) <= MaxUploads
  /\ online \in BOOLEAN

LEMMA PictureIsPicture == \A ls \in Seq(Line) : IsPicture(Picture(ls))
BY ElementOfSeq, LenProperties DEF IsPicture, Picture

LEMMA SaveAndFinish ==
  ASSUME IsABag(saves), \A pic \in DOMAIN saves : IsPicture(pic), NEW pic
  PROVE  /\ IsPicture(pic) =>
              /\ IsABag(saves (+) SetToBag({pic}))
              /\ \A p \in DOMAIN (saves (+) SetToBag({pic})) : IsPicture(p)
         /\ IsABag(saves (-) SetToBag({pic}))
         /\ \A p \in DOMAIN (saves (-) SetToBag({pic})) : IsPicture(p)
<1>1. /\ IsABag(saves (+) SetToBag({pic}))
      /\ DOMAIN (saves (+) SetToBag({pic})) = DOMAIN saves \cup {pic}
  BY DEF IsABag, (+), SetToBag
<1>2. /\ IsABag(saves (-) SetToBag({pic}))
      /\ DOMAIN (saves (-) SetToBag({pic})) \subseteq DOMAIN saves
  BY DEF IsABag, (-), SetToBag
<1>3. QED
  BY <1>1, <1>2

(***************************************************************************)
(* What a step of its contract does to an upload.                          *)
(***************************************************************************)
LEMMA UploadSteps ==
  ASSUME ScreenInv, NEW i \in DOMAIN uploads,
         \/ UploadStored(i)
         \/ \E outcome \in {"success", "failure"} : UploadReported(i, outcome)
  PROVE  /\ uploads' \in Seq(Upload)
         /\ DOMAIN uploads' = DOMAIN uploads
         /\ Len(uploads') = Len(uploads)
<1>1. uploads \in Seq(Upload) /\ uploads[i] \in Upload
  BY ElementOfSeq, LenProperties DEF ScreenInv
<1>2. PICK up \in Upload : uploads' = [uploads EXCEPT ![i] = up]
  <2>1. CASE UploadStored(i)
    <3>1. uploads' = [uploads EXCEPT ![i] = [@ EXCEPT !.stored = TRUE]]
      BY <2>1 DEF UploadStored
    <3>2. [uploads[i] EXCEPT !.stored = TRUE] \in Upload
      BY <1>1 DEF Upload
    <3>3. QED
      BY <3>1, <3>2
  <2>2. ASSUME NEW outcome \in {"success", "failure"}, UploadReported(i, outcome)
        PROVE  \E up \in Upload : uploads' = [uploads EXCEPT ![i] = up]
    <3> DEFINE report == <<outcome>>
    <3>1. uploads[i].reported = <<>> /\ Append(<<>>, outcome) = report
      <4>1. Contract(i)!Report(outcome)
        BY <2>2 DEF UploadReported
      <4>2. uploads[i].reported = <<>>
        BY <4>1 DEF Contract!Report
      <4>3. Append(<<>>, outcome) = report
        OBVIOUS
      <4>4. QED
        BY <4>2, <4>3
    <3>2. report \in {<<>>, <<"success">>, <<"failure">>}
      OBVIOUS
    <3> HIDE DEF report
    <3>3. [uploads[i] EXCEPT !.reported = report] \in Upload
      BY <1>1, <3>2 DEF Upload
    <3>4. uploads' = [uploads EXCEPT ![i].reported = Append(@, outcome)]
      BY <2>2 DEF UploadReported
    <3>5. uploads' = [uploads EXCEPT ![i] = [uploads[i] EXCEPT !.reported = report]]
      BY <3>1, <3>4
    <3>6. QED
      BY <3>3, <3>5
  <2>3. QED
    BY <2>1, <2>2
<1>3. uploads' \in Seq(Upload) /\ DOMAIN uploads' = DOMAIN uploads
  BY <1>1, <1>2, ExceptSeq
<1>4. QED
  BY <1>1, <1>3, LenProperties

LEMMA ScreenStart == VCInit => ScreenInv
<1> SUFFICES ASSUME VCInit PROVE ScreenInv
  OBVIOUS
<1>1. IsABag(saves) /\ DOMAIN saves = {}
  BY DEF VCInit, EmptyBag, SetToBag, IsABag
<1>2. uploads \in Seq(Upload) /\ Len(uploads) <= MaxUploads
  BY EmptySeq, LimitsAssumption DEF VCInit
<1>3. QED
  BY <1>1, <1>2 DEF VCInit, ScreenInv, Alerts

LEMMA ScreenStep ==
  CanvasTypeOK /\ ScreenIsFresh /\ ScreenInv /\ [VCNext]_vcVars => ScreenInv'
<1> SUFFICES ASSUME CanvasTypeOK, ScreenIsFresh, ScreenInv, [VCNext]_vcVars
             PROVE  ScreenInv'
  OBVIOUS
<1>a. UNCHANGED screenVars => ScreenInv'
  BY DEF ScreenInv, screenVars
<1>b. FlushUpdates => Snapshot \in Pictures /\ IsPicture(Snapshot)
  BY SnapshotIsCurrent, PictureIsPicture DEF Pictures, CanvasTypeOK
<1>c. \A a \in Alerts : Present(a) => alert' \in Alerts
  BY DEF Present, ScreenInv
<1>1. ASSUME NEW b \in InUse, Press(b)
      PROVE  ScreenInv'
  <2>1. CASE PressSave
    <3>1. UNCHANGED <<alert, uploads, online>>
      BY <2>1 DEF PressSave
    <3>2. \/ FlushUpdates /\ saves' = saves (+) SetToBag({Snapshot})
          \/ saves' = saves
      BY <2>1 DEF PressSave, SaveToPhotoLibrary
    <3>3. IsABag(saves') /\ \A pic \in DOMAIN saves' : IsPicture(pic)
      BY <1>b, <3>2, SaveAndFinish DEF ScreenInv
    <3>4. QED
      BY <3>1, <3>3 DEF ScreenInv
  <2>2. CASE PressClear
    BY <1>a, <2>2 DEF PressClear
  <2>3. CASE PressUndo
    BY <1>a, <2>3 DEF PressUndo
  <2>4. CASE PressShare
    <3>1. /\ UNCHANGED <<saves, uploads, online>>
          /\ alert' = "title dialog" \/ alert' = alert
      BY <2>4 DEF PressShare
    <3>2. QED
      BY <3>1 DEF ScreenInv, Alerts
  <2>5. QED
    BY <1>1, <2>1, <2>2, <2>3, <2>4 DEF Press
<1>2. CASE ButtonMoves
  BY <1>a, <1>2 DEF ButtonMoves
<1>3. CASE CanvasEvents
  BY <1>a, <1>3 DEF CanvasEvents, screenVars
<1>4. CASE ConfirmTitle
  <2>1. UNCHANGED <<saves, online>> /\ FlushUpdates
    BY <1>4 DEF ConfirmTitle
  <2>2. CASE StartUpload(Snapshot)
    <3> DEFINE new == [picture |-> Snapshot, stored |-> FALSE, reported |-> <<>>]
    <3>1. new \in Upload
      BY <1>b, <2>1 DEF Upload
    <3>2. uploads' = Append(uploads, new) /\ Len(uploads) < MaxUploads
      BY <2>2 DEF StartUpload
    <3> HIDE DEF new
    <3>3. uploads' \in Seq(Upload) /\ Len(uploads') = Len(uploads) + 1
      BY <3>1, <3>2, AppendProperties DEF ScreenInv
    <3>4. Len(uploads') <= MaxUploads
      BY <3>2, <3>3, LenProperties, LimitsAssumption DEF ScreenInv
    <3>5. alert' \in Alerts
      BY <2>2 DEF StartUpload, Alerts
    <3>6. QED
      BY <2>1, <3>3, <3>4, <3>5 DEF ScreenInv
  <2>3. CASE SayOffline
    BY <2>1, <2>3 DEF SayOffline, ScreenInv, Alerts, Outcomes
  <2>4. QED
    BY <1>4, <2>2, <2>3 DEF ConfirmTitle
<1>5. CASE DismissAlert
  BY <1>5 DEF DismissAlert, ScreenInv, Alerts
<1>6. CASE Results
  <2>1. ASSUME NEW pic, NEW ok, ImageSaved(pic, ok)
        PROVE  ScreenInv'
    <3>1. /\ UNCHANGED <<uploads, online>>
          /\ saves' = saves (-) SetToBag({pic})
          /\ Present("saved") \/ Present("save error")
      BY <2>1 DEF ImageSaved
    <3>2. IsABag(saves') /\ \A p \in DOMAIN saves' : IsPicture(p)
      BY <3>1, SaveAndFinish DEF ScreenInv
    <3>3. alert' \in Alerts
      BY <1>c, <3>1 DEF Alerts, Outcomes
    <3>4. QED
      BY <3>1, <3>2, <3>3 DEF ScreenInv
  <2>2. ASSUME NEW i \in DOMAIN uploads, NEW outcome \in {"success", "failure"},
               UploadReported(i, outcome)
        PROVE  ScreenInv'
    <3>1. /\ UNCHANGED <<saves, online>>
          /\ Present("uploaded") \/ Present("upload failed")
      BY <2>2 DEF UploadReported
    <3>2. alert' \in Alerts
      BY <1>c, <3>1 DEF Alerts, Outcomes
    <3>3. uploads' \in Seq(Upload) /\ Len(uploads') = Len(uploads)
      BY <2>2, UploadSteps
    <3>4. QED
      BY <3>1, <3>2, <3>3 DEF ScreenInv
  <2>3. QED
    BY <1>6, <2>1, <2>2 DEF Results
<1>7. ASSUME NEW i \in DOMAIN uploads, UploadStored(i)
      PROVE  ScreenInv'
  <2>1. UNCHANGED <<alert, saves, online>>
    BY <1>7 DEF UploadStored
  <2>2. uploads' \in Seq(Upload) /\ Len(uploads') = Len(uploads)
    BY <1>7, UploadSteps
  <2>3. QED
    BY <2>1, <2>2 DEF ScreenInv
<1>8. CASE NetworkChanges
  BY <1>8 DEF NetworkChanges, ScreenInv
<1>9. CASE UNCHANGED vcVars
  BY <1>a, <1>9 DEF vcVars
<1>10. QED
  BY <1>1, <1>2, <1>3, <1>4, <1>5, <1>6, <1>7, <1>8, <1>9 DEF VCNext

LEMMA PartsMakeType ==
  CanvasTypeOK /\ ScreenInv /\ ChromeProofs!ChromeInv => VCTypeOK
<1> SUFFICES ASSUME CanvasTypeOK, ScreenInv, ChromeProofs!ChromeInv
             PROVE  VCTypeOK
  OBVIOUS
<1>1. Chrome!ChromeTypeOK
  <2>1. \A s \in {<<"raised", "title">>, <<"sunken", "title">>} :
          s \in [1..2 -> {"title", "raised", "sunken"}]
    OBVIOUS
  <2>2. QED
    BY <2>1 DEF Chrome!ChromeTypeOK, ChromeProofs!ChromeInv, Chrome!Fingers,
                ChromeProofs!Fingers, ChromeProofs!TwoViews, Chrome!Views
<1>2. DOMAIN uploads \in {1..n : n \in 0..MaxUploads}
  <2>1. Len(uploads) \in Nat /\ DOMAIN uploads = 1..Len(uploads)
    BY LenProperties DEF ScreenInv
  <2>2. Len(uploads) \in 0..MaxUploads
    BY <2>1, LimitsAssumption DEF ScreenInv
  <2>3. QED
    BY <2>1, <2>2
<1>3. ASSUME NEW i \in DOMAIN uploads
      PROVE  IsUpload(uploads[i])
  <2>1. uploads[i] \in Upload
    BY ElementOfSeq, LenProperties DEF ScreenInv
  <2>2. IsPicture(uploads[i].picture)
    BY <2>1, PictureIsPicture DEF Upload, Pictures
  <2>3. QED
    BY <2>1, <2>2 DEF Upload, IsUpload
<1>4. QED
  BY <1>1, <1>2, <1>3 DEF VCTypeOK, ScreenInv, BagToSet

(***************************************************************************)
(* The drawing screen is type correct, for any palette and slider, and any *)
(* bounds on touches, photo jobs and uploads.                              *)
(***************************************************************************)
THEOREM ScreenTypeCorrect == VCSpec => []VCTypeOK
<1>1. QED
  BY ScreenStart, ScreenStep, ScreenStartsAsChrome, ScreenStepIsChromeStep,
     ChromeProofs!ChromeStep, ScreenCanvasIsSound, PartsMakeType, PTL DEF VCSpec

-----------------------------------------------------------------------------
(***************************************************************************)
(* A picture that is saved or uploaded is the one of the moment.  Only     *)
(* Save adds to the photo jobs and only the dialog starts an upload; both  *)
(* take a snapshot, before which the screen is brought up to date.         *)
(***************************************************************************)
NewAreCurrent ==
  /\ \A pic \in BagToSet(saves') :
       JobsFor(pic, saves) < JobsFor(pic, saves') => pic = Picture(lines)
  /\ \A i \in DOMAIN uploads' \ DOMAIN uploads : uploads'[i].picture = Picture(lines)

LEMMA SaveAddsOne ==
  ASSUME IsABag(saves), NEW pic, saves' = saves (+) SetToBag({pic}),
         NEW p \in DOMAIN saves', JobsFor(p, saves) < JobsFor(p, saves')
  PROVE  p = pic
<1> SUFFICES ASSUME p # pic PROVE FALSE
  OBVIOUS
<1>1. p \in DOMAIN saves /\ saves'[p] = saves[p] + 0 /\ saves[p] \in Nat
  BY DEF IsABag, (+), SetToBag
<1>2. JobsFor(p, saves) = saves[p] /\ JobsFor(p, saves') = saves'[p]
  BY <1>1 DEF JobsFor, BagIn, BagToSet
<1>3. QED
  BY <1>1, <1>2

LEMMA FinishAddsNone ==
  ASSUME IsABag(saves), NEW pic, saves' = saves (-) SetToBag({pic}),
         NEW p \in DOMAIN saves'
  PROVE  ~(JobsFor(p, saves) < JobsFor(p, saves'))
<1>1. /\ p \in DOMAIN saves /\ saves[p] \in Nat
      /\ saves'[p] = saves[p] \/ saves'[p] = saves[p] - 1
  BY DEF IsABag, (-), SetToBag
<1>2. JobsFor(p, saves) = saves[p] /\ JobsFor(p, saves') = saves'[p]
  BY <1>1 DEF JobsFor, BagIn, BagToSet
<1>3. QED
  BY <1>1, <1>2

LEMMA CurrentStep ==
  ScreenIsFresh /\ ScreenInv /\ [VCNext]_vcVars => NewAreCurrent \/ UNCHANGED vcVars
<1> SUFFICES ASSUME ScreenIsFresh, ScreenInv, VCNext PROVE NewAreCurrent
  OBVIOUS
<1>a. ASSUME UNCHANGED saves
      PROVE  \A pic \in BagToSet(saves') :
               ~(JobsFor(pic, saves) < JobsFor(pic, saves'))
  <2>1. SUFFICES ASSUME NEW pic \in DOMAIN saves
                 PROVE  ~(JobsFor(pic, saves) < JobsFor(pic, saves'))
    BY <1>a DEF BagToSet
  <2>2. saves[pic] \in Nat
    BY DEF ScreenInv, IsABag
  <2>3. JobsFor(pic, saves) = saves[pic] /\ JobsFor(pic, saves') = saves[pic]
    BY <1>a DEF JobsFor, BagIn, BagToSet
  <2>4. QED
    BY <2>2, <2>3
<1>b. UNCHANGED <<saves, uploads>> => NewAreCurrent
  BY <1>a DEF NewAreCurrent
<1>c. FlushUpdates => Snapshot = Picture(lines)
  BY SnapshotIsCurrent
<1>1. ASSUME NEW b \in InUse, Press(b)
      PROVE  NewAreCurrent
  <2>1. CASE PressSave
    <3>1. /\ UNCHANGED uploads
          /\ \/ saves' = saves (+) SetToBag({Picture(lines)})
             \/ UNCHANGED saves
      BY <1>c, <2>1 DEF PressSave, SaveToPhotoLibrary
    <3>2. ASSUME saves' = saves (+) SetToBag({Picture(lines)})
          PROVE  NewAreCurrent
      BY <3>1, <3>2, SaveAddsOne DEF NewAreCurrent, ScreenInv, BagToSet
    <3>3. QED
      BY <1>b, <3>1, <3>2
  <2>2. CASE ~PressSave
    BY <1>1, <1>b, <2>2 DEF Press, PressClear, PressUndo, PressShare, screenVars
  <2>3. QED
    BY <2>1, <2>2
<1>2. CASE ButtonMoves
  BY <1>b, <1>2 DEF ButtonMoves, screenVars
<1>3. CASE CanvasEvents
  BY <1>b, <1>3 DEF CanvasEvents, screenVars
<1>4. CASE ConfirmTitle
  <2>1. UNCHANGED saves /\ Snapshot = Picture(lines)
    BY <1>4, <1>c DEF ConfirmTitle
  <2>2. CASE StartUpload(Snapshot)
    <3> DEFINE new == [picture |-> Snapshot, stored |-> FALSE, reported |-> <<>>]
    <3>1. uploads' = Append(uploads, new) /\ new.picture = Picture(lines)
      BY <2>1, <2>2 DEF StartUpload
    <3> HIDE DEF new
    <3>2. uploads \in Seq(Upload)
      BY DEF ScreenInv
    <3>3. \A i \in DOMAIN uploads' \ DOMAIN uploads : uploads'[i] = new
      BY <3>1, <3>2
    <3>4. QED
      BY <1>a, <2>1, <3>1, <3>3 DEF NewAreCurrent
  <2>3. CASE SayOffline
    BY <1>b, <2>1, <2>3 DEF SayOffline
  <2>4. QED
    BY <1>4, <2>2, <2>3 DEF ConfirmTitle
<1>5. CASE DismissAlert
  BY <1>b, <1>5 DEF DismissAlert
<1>6. CASE Results
  <2>1. ASSUME NEW pic, NEW ok, ImageSaved(pic, ok)
        PROVE  NewAreCurrent
    <3>1. UNCHANGED uploads /\ saves' = saves (-) SetToBag({pic})
      BY <2>1 DEF ImageSaved
    <3>2. QED
      BY <3>1, FinishAddsNone DEF NewAreCurrent, ScreenInv, BagToSet
  <2>2. ASSUME NEW i \in DOMAIN uploads, NEW outcome, UploadReported(i, outcome)
        PROVE  NewAreCurrent
    <3>1. UNCHANGED saves /\ DOMAIN uploads' = DOMAIN uploads
      BY <2>2 DEF UploadReported
    <3>2. QED
      BY <1>a, <3>1 DEF NewAreCurrent
  <2>3. QED
    BY <1>6, <2>1, <2>2 DEF Results
<1>7. ASSUME NEW i \in DOMAIN uploads, UploadStored(i)
      PROVE  NewAreCurrent
  <2>1. UNCHANGED saves /\ DOMAIN uploads' = DOMAIN uploads
    BY <1>7 DEF UploadStored
  <2>2. QED
    BY <1>a, <2>1 DEF NewAreCurrent
<1>8. CASE NetworkChanges
  BY <1>b, <1>8 DEF NetworkChanges
<1>9. QED
  BY <1>1, <1>2, <1>3, <1>4, <1>5, <1>6, <1>7, <1>8 DEF VCNext

(***************************************************************************)
(* takeSnapshot gives the drawing of the moment to saveToPhotoLibrary and  *)
(* to FBUploadManager although it takes what is on the screen: every       *)
(* change of the lines has asked for a redraw, and it flushes first.       *)
(***************************************************************************)
THEOREM PicturesStayCurrent == VCSpec => PicturesAreCurrent
<1>1. ScreenIsFresh /\ ScreenInv /\ [VCNext]_vcVars => [NewAreCurrent]_vcVars
  BY CurrentStep
<1>2. VCSpec => [][NewAreCurrent]_vcVars
  BY <1>1, ScreenStart, ScreenStep, ScreenCanvasIsSound, PTL DEF VCSpec
<1>3. QED
  BY <1>2 DEF PicturesAreCurrent, NewAreCurrent
=============================================================================
