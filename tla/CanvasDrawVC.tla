----------------------------- MODULE CanvasDrawVC -----------------------------
(***************************************************************************)
(* The drawing screen: Controllers/CanvasDrawVC.swift over its canvas      *)
(* (module Canvas) and its buttons (module ButtonChrome), with the alerts, *)
(* the jobs that write to the photo library and the uploads it starts.     *)
(*                                                                         *)
(* All of it is on the main thread; photo jobs run on a concurrent queue   *)
(* and uploads in the SDK, and both come back at any time, with an alert.  *)
(* An upload takes the steps of UploadContract, which UploadTask is shown  *)
(* to keep.  What becomes of an object in the bucket, which every device   *)
(* writes to, is not part of the screen, nor is the title typed for it.    *)
(***************************************************************************)
EXTENDS Canvas, FiniteSets, Bags

CONSTANTS
  InUse,        \* bound: the buttons that are pressed
  MaxTouches,   \* bound: buttons that are touched at a time
  MaxSaves,     \* bound: photo jobs at a time
  MaxUploads    \* bound: uploads in all

Buttons == {"Save", "Clear", "Undo", "Share"}

ASSUME InUseAssumption == InUse \subseteq Buttons
ASSUME LimitsAssumption ==
  MaxTouches \in Nat /\ MaxSaves \in Nat /\ MaxUploads \in Nat

VARIABLES
  subviews, finger,   \* the buttons: see ButtonChrome
  alert,      \* the UIAlertController that is presented: see Alerts
  saves,      \* photo jobs under way: the pictures
  uploads,    \* the uploads there have been
  online      \* what isConnectedToNetwork would say

Chrome == INSTANCE ButtonChrome

screenVars == <<alert, saves, uploads, online>>
vcVars == <<canvasVars, subviews, finger, screenVars>>

\* The dialog that asks for a title, and the alerts that only have an OK.
Outcomes == {"saved", "save error", "uploaded", "upload failed", "offline"}
Alerts == {"none", "title dialog"} \cup Outcomes

\* What a picture is made of; there are too many pictures to name them.
IsPicture(pic) == \A i \in DOMAIN pic : pic[i] \in Line /\ Visible(pic[i])

IsUpload(up) ==
  /\ IsPicture(up.picture)
  /\ up.stored \in BOOLEAN
  /\ up.reported \in {<<>>, <<"success">>, <<"failure">>}

VCTypeOK ==
  /\ CanvasTypeOK
  /\ Chrome!ChromeTypeOK
  /\ alert \in Alerts
  /\ IsABag(saves) /\ \A pic \in BagToSet(saves) : IsPicture(pic)
  /\ DOMAIN uploads \in {1..n : n \in 0..MaxUploads}
  /\ \A i \in DOMAIN uploads : IsUpload(uploads[i])
  /\ online \in BOOLEAN

VCInit ==
  /\ CanvasInit
  /\ Chrome!ChromeInit
  /\ alert = "none"
  /\ saves = EmptyBag
  /\ uploads = <<>>
  /\ online \in BOOLEAN

-----------------------------------------------------------------------------
\* UIAlertController.present(): the root view controller presents one view
\* controller at a time; while it does, it refuses the next.
Present(a) == alert' = IF alert = "none" THEN a ELSE alert

\* Mutant: afterScreenUpdates is false.
DoNotFlush == UNCHANGED canvasVars

\* drawHierarchy with afterScreenUpdates: a display that is pending is done first.
FlushUpdates == IF needsDisplay THEN Draw ELSE UNCHANGED canvasVars

\* takeSnapshot(): the image is of what is on the screen by then.
Snapshot == screen'

\* An alert covers the screen for new touches, not for those that go on.
Uncovered == alert = "none"

\* saveToPhotoLibrary: a job of a global queue, which has the picture by value.
SaveToPhotoLibrary(pic) == saves' = saves (+) SetToBag({pic})

-----------------------------------------------------------------------------
\* pressed(sender:) of each button, whole: the look and then the work.

PressSave ==
  /\ Uncovered
  /\ Chrome!Pressed("Save")
  /\ \/ /\ lines # <<>>
        /\ BagCardinality(saves) < MaxSaves
        /\ FlushUpdates
        /\ SaveToPhotoLibrary(Snapshot)
     \/ lines = <<>> /\ UNCHANGED <<canvasVars, saves>>
  /\ UNCHANGED <<alert, uploads, online>>

PressClear ==
  /\ Uncovered
  /\ Chrome!Pressed("Clear")
  /\ Clear
  /\ UNCHANGED screenVars

PressUndo ==
  /\ Uncovered
  /\ Chrome!Pressed("Undo")
  /\ UndoLine
  /\ UNCHANGED screenVars

\* Mutant: Share does not look whether there is anything to share.
PressShareAnyway ==
  /\ Uncovered
  /\ Chrome!Pressed("Share")
  /\ alert' = "title dialog"
  /\ UNCHANGED <<canvasVars, saves, uploads, online>>

PressShare ==
  /\ Uncovered
  /\ Chrome!Pressed("Share")
  /\ alert' = IF lines # <<>> THEN "title dialog" ELSE alert
  /\ UNCHANGED <<canvasVars, saves, uploads, online>>

Press(b) ==
  /\ Cardinality({c \in Buttons : finger[c] # "up"}) < MaxTouches
  /\ \/ b = "Save" /\ PressSave
     \/ b = "Clear" /\ PressClear
     \/ b = "Undo" /\ PressUndo
     \/ b = "Share" /\ PressShare

\* What else a finger on a button does, and layouts, which leave the lines.
ButtonMoves ==
  /\ \/ \E b \in InUse :
          \/ Chrome!Released(b)
          \/ Chrome!Drag(b)
          \/ Chrome!LiftedOutside(b)
          \/ Chrome!Cancelled(b)
     \/ Chrome!LayoutSubviews
  /\ UNCHANGED <<canvasVars, screenVars>>

CanvasEvents ==
  /\ \/ Uncovered /\ TouchesBegan
     \/ \E p \in Points : TouchesMoved(p)
     \/ TouchesEnded
     \/ \E w \in Widths : SliderValueChanged(w)
     \/ Uncovered /\ \E c \in Colors : ColorSelected(c)
     \/ Draw
  /\ UNCHANGED <<subviews, finger, screenVars>>

-----------------------------------------------------------------------------
\* OK on the dialog, which is gone when its handler runs: the snapshot is taken
\* first, then FBUploadManager looks at the network.

StartUpload(pic) ==
  /\ Len(uploads) < MaxUploads
  /\ uploads' = Append(uploads, [picture |-> pic, stored |-> FALSE,
                                 reported |-> <<>>])
  /\ alert' = "none"

SayOffline == alert' = "offline" /\ UNCHANGED uploads

IsConnectedToNetwork == online

ConfirmTitle ==
  /\ alert = "title dialog"
  /\ FlushUpdates
  /\ IF IsConnectedToNetwork THEN StartUpload(Snapshot) ELSE SayOffline
  /\ UNCHANGED <<subviews, finger, saves, online>>

DismissAlert ==
  /\ alert \in Outcomes
  /\ alert' = "none"
  /\ UNCHANGED <<canvasVars, subviews, finger, saves, uploads, online>>

\* onImageSaved.
ImageSaved(pic, ok) ==
  /\ saves' = saves (-) SetToBag({pic})
  /\ Present(IF ok THEN "saved" ELSE "save error")
  /\ UNCHANGED <<canvasVars, subviews, finger, uploads, online>>

\* What may become of an upload is for UploadContract to say.
Contract(i) == INSTANCE UploadContract WITH stored <- uploads[i].stored,
                                            reported <- uploads[i].reported

\* The server stores the object; the SDK may have given up on it before.
UploadStored(i) ==
  /\ uploads' = [uploads EXCEPT ![i].stored = TRUE]
  /\ Contract(i)!Store
  /\ UNCHANGED <<canvasVars, subviews, finger, alert, saves, online>>

\* The completion block of putData.
UploadReported(i, outcome) ==
  /\ uploads' = [uploads EXCEPT ![i].reported = Append(@, outcome)]
  /\ Contract(i)!Report(outcome)
  /\ Present(IF outcome = "success" THEN "uploaded" ELSE "upload failed")
  /\ UNCHANGED <<canvasVars, subviews, finger, saves, online>>

NetworkChanges ==
  /\ online' = ~online
  /\ UNCHANGED <<canvasVars, subviews, finger, alert, saves, uploads>>

-----------------------------------------------------------------------------
Results ==
  \/ \E pic \in BagToSet(saves), ok \in BOOLEAN : ImageSaved(pic, ok)
  \/ \E i \in DOMAIN uploads :
       \E outcome \in {"success", "failure"} : UploadReported(i, outcome)

VCNext ==
  \/ \E b \in InUse : Press(b)
  \/ ButtonMoves
  \/ CanvasEvents
  \/ ConfirmTitle
  \/ DismissAlert
  \/ Results
  \/ \E i \in DOMAIN uploads : UploadStored(i)
  \/ NetworkChanges

VCSpec == VCInit /\ [][VCNext]_vcVars

\* Photo jobs and uploads come back, and the user puts alerts away.
FairVCSpec ==
  /\ VCSpec
  /\ WF_vcVars(Results)
  /\ WF_vcVars(DismissAlert)

-----------------------------------------------------------------------------
(***************************************************************************)
(* On the screen, too, every button has one decoration under its title:    *)
(* the blind removal of "the first subview" never takes the title, in any  *)
(* order of presses that do their work, releases and layouts.              *)
(***************************************************************************)
TitlesOnTop == Chrome!TitleOnTop

JobsFor(pic, jobs) == IF BagIn(pic, jobs) THEN jobs[pic] ELSE 0

(***************************************************************************)
(* A picture that is saved or uploaded is the drawing of the moment, not   *)
(* what the screen showed before the last lines were drawn: whatever is on *)
(* the screen when the snapshot is taken has been brought up to date.      *)
(***************************************************************************)
PicturesAreCurrent ==
  [][/\ \A pic \in BagToSet(saves') :
          JobsFor(pic, saves) < JobsFor(pic, saves') => pic = Picture(lines)
     /\ \A i \in DOMAIN uploads' \ DOMAIN uploads :
          uploads'[i].picture = Picture(lines)]_vcVars

(***************************************************************************)
(* There are lines to share as long as the dialog asks for a title: the    *)
(* check was made before it came up, and what can still happen under it    *)
(* does not take them away.                                                *)
(***************************************************************************)
DialogHasDrawing == alert = "title dialog" => lines # <<>>

(***************************************************************************)
(* "Your Canvas will be automatically uploaded when connected to internet."*)
(* (CanvasDrawVC.swift:354): once there is a connection for good, another  *)
(* upload is started after that was said.                                  *)
(***************************************************************************)
OfflineIsUploadedLater ==
  <>[]online => \A n \in 0..MaxUploads :
                  alert = "offline" /\ Len(uploads) = n ~> Len(uploads) > n
=============================================================================
