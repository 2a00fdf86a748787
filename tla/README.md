# Canvas Painter: verification

Canvas Painter is an iPad app with two tabs. On the first one draws with a
finger, and the drawing can be undone, cleared, saved to the photo library, or
shared by uploading it to a Firebase Storage folder. On the second tab is a feed
of everything in that folder. This directory holds TLA+ models of the parts of
the app that have behaviour, configurations that check them with TLC, and
proofs checked with TLAPS.

Paths below are relative to `src/Canvas Drawing/`; the app is in
`Canvas Drawing/` there, the libraries it vendors in `Pods/`.

## The system

| Component | Where | State | Operations |
|---|---|---|---|
| Canvas, the drawing surface | `Models/Canvas.swift`, `Models/Line.swift` | `lines`, the brush, "needs display" | touches began/moved/ended, clear, `draw(_:)` |
| The drawing screen | `Controllers/CanvasDrawVC.swift`, `Views/UIExtensions.swift` | alert on screen, photo jobs and uploads under way | Save, Clear, Undo, Share, slider, palette, OK of the dialog, results |
| Its buttons | `Controllers/CanvasDrawVC.swift`, `Views/UICreator.swift` | the subviews of each button | pressed, released, `viewDidLayoutSubviews` |
| The feed | `Controllers/FeedVC.swift` | `folderList`, `downloadedImages`, the global `imageCache`, what the collection view counted | `viewWillAppear`, the completion of the listing, `load` and its callbacks |
| Network check | `Models/InternetConnectionManager.swift` | none | `isConnectedToNetwork` |
| Scene, app, tabs | `Delegates/*.swift`, `MainTabBarVC.swift` | the view controllers | a connecting scene builds them anew |
| Firebase Storage, upload | `Pods/FirebaseStorage` | the task's state, observers, fetcher, completion flag | `putData`, `observe`, `cancel`, `pause`, `resume`, fetcher callbacks |
| Resumable upload | `GTMSessionUploadFetcher.m` in `Pods/GTMSessionFetcher` | upload location, offset, query flag, the chunk under way, paused, stopped | begin, pause, resume, stop, the ends of the initial request, of chunks and of queries, the retry block |
| Fetcher service | `GTMSessionFetcherService.m`, `GTMSessionFetcher.m` | running and delayed fetchers per host, each fetcher's `serviceHost` | begin, stop, end of a request, retry decision, retry timer, retry |
| Firebase Storage, listing | `FIRStorageReference.m`, `FIRStorageListTask.m` | page token, items so far | `listAll` |
| Shadows, layout, the old `ViewController` | `NeumorphicVIew.swift`, constraints, `ViewController.swift` | layers | not modelled |
| Other pods | `Pods/*` | | not modelled: the app does not reach them, or only through Firebase Storage |

How they interact:

- A finger goes to the canvas or to a button, and `CanvasDrawVC` calls the
  canvas: `clearCanvas`, `lines.popLast` for Undo, the brush. UIKit calls
  `draw(_:)` later, once the view is marked.
- Save takes a snapshot (which has pending updates drawn) and starts a photo job
  on a global queue. Its result comes back as an alert.
- Share only presents a dialog. The OK of the dialog takes the snapshot, asks for
  the network, and either starts an upload or says that the device is offline.
- An upload is a task of the SDK: its state is written on the serial queue of
  `FIRStorage` and on the main queue, the app is called back on the main queue.
- The task's fetcher opens an upload session with an initial request and then
  sends the data in chunks, each one a fetcher of its own. The initial requests,
  the listings and the downloads of the SDK share one fetcher service, which lets
  ten of a host run at a time; chunks and queries are made without the service.
- The feed lists the folder whenever it appears, and for each object asks for the
  URL and then for the data; callbacks come on the main queue and on that of
  `URLSession`. All feeds of the process share one cache.

What is hard in it:

- **Two actors on one screen.** A second finger presses Undo or Clear while the
  first is drawing; an alert comes up under a finger that is on the canvas.
- **Checks and uses apart.** Share checks that there are lines, but the snapshot
  is taken after the dialog. `folderList` is set by one callback and read by a
  block that runs later. A URL is given, and the object replaced before its data
  is fetched.
- **Results at any time, into one place.** Photo jobs and uploads end when they
  like; only one alert can be presented.
- **Threads in the SDK.** Observers are guarded by a lock, the state is not;
  cancel fires its handlers on one queue while the answer is handled on another.
- **Lost, repeated and overtaking requests.** After a lost chunk only the server
  knows where to go on; pause and resume can leave two streams of chunks on one
  upload, which share its offset.
- **Slots and a line of waiting fetchers**, left and entered by begin, stop and
  retry on three threads, with part of the bookkeeping outside the lock.
- **Paging over a bucket that changes, and failures in the middle.**
- **One cache for several feeds**, of which each only shows its own images.

`PROJECT.json` lists each such hazard at its line with the properties that would
catch it.

## The modules

```
Drawing  <--implements--  Canvas  <--EXTENDS--  CanvasDrawVC  --INSTANCE-->  ButtonChrome
                                                    |
                                                    +--INSTANCE, per upload-->  UploadContract
                                                                                        ^
                                                               UploadTask --implements--+
                                                                    |
                                                                    +--INSTANCE-->  FetcherContract
                                                                                        ^
FetcherService                                              UploadFetcher --implements--+

ListAll  <--its promise is used by--  FeedVC
```

The `MC*` modules give the small instances their sets; the `*Proofs` modules hold
the theorems.

**`Canvas`** is the drawing surface. `lines`, `strokeColor` and `strokeWidth` are
the fields of the class; `needsDisplay` is UIKit's mark; `screen` is what
`draw(_:)` last painted. `touch` and `kept` are not in the code: the first says
whether a finger is down and whether the line it began is still there, the
second is the history the properties speak about. One action per handler:
`TouchesBegan`, `TouchesMoved`, `TouchesEnded` (neither `touchesEnded` nor
`touchesCancelled` is overridden, so all that happens is that the finger is gone),
`Clear` (the handler: `clearCanvas()`, which is `ClearCanvas`, and then
`setNeedsDisplay()`), `UndoLine`, `SliderValueChanged`, `ColorSelected`, `Draw`.
`popLast` and `append` of `touchesMoved` are one step: they are in one handler on
the main thread. Points are model values; a picture is the visible lines, by
their position, since CoreGraphics paints nothing for a path of one point.

**`Drawing`** is what the canvas promises: a picture is a stack of strokes with
the brush each was begun with, of which only the top one changes, by one point,
one stroke, or all of it wiped. `Canvas` implements it under `pic <-
Picture(lines)`. That is not obvious: the list also holds lines no one can see
(after a touch, or a move of one point), and a finger whose line was undone
extends someone else's.

**`ButtonChrome`** is the look of the buttons: each handler removes "the first
subview" without looking what it is, adds a decoration, and brings the title to
the front. The touches a button gets no message about (dragged off, lifted
outside, cancelled) are actions too.

**`CanvasDrawVC`** is the whole drawing screen: it extends `Canvas` and
instantiates `ButtonChrome`, so that a press is the look *and* the work in one
step, as in `pressed(sender:)`. Added state: the alert that is presented, photo
jobs under way (a bag of pictures), the uploads there have been and
the network. `Present` is
`UIViewController.present` as the extension calls it: nothing happens if
something is already presented. A snapshot is a copy of what is on the *screen*,
not of the lines; what makes it current is that a pending display is done first
(`FlushUpdates`, the `afterScreenUpdates: true` of `takeSnapshot`) and that
otherwise the screen is fresh. An upload takes the steps of an instance of
`UploadContract`, which `UploadTask` is shown to keep. The bucket itself is not
part of the screen's state: every device writes to it.

**`UploadContract`** is what the caller of `putData` is promised: the completion
block runs at most once, and without an error only if the object is stored.

**`UploadTask`** is one upload inside the SDK at the grain of its threads: the
main thread with the blocks of the main queue, and the storage queue with the
task's blocks. Each access to the state, the fetcher or the observers is a step
of its own, so that a block of one queue can run between two statements of the
other. `fireHandlers` copies the handlers under the lock and dispatches each;
the dictionary's order is free. `putData`'s handlers dispatch a second time and
look at the flag. The fetcher below it is not modelled here a second time: it
takes the steps of `FetcherContract`, and drops an answer that is queued when it
is stopped.

**`FetcherContract`** is what the owner of a `GTMSessionUploadFetcher` is
promised: at most one answer, none after a stop, and a good one only if the
server holds the whole object. A pause does not keep an answer away.

**`UploadFetcher`** is that fetcher with its requests. `location`, `isPaused`,
`currentOffset`, `shouldInitiateOffsetQuery` and `chunkFetcher` are its fields,
`outcome` what the completion handler was given; `mainQ` holds the blocks of the
main queue, `net` the requests under way, `session` and `content` what the server
has, byte by byte as positions of the data. When the client drops a chunk
(`destroyChunkFetcher`), `Hush` takes its callbacks away from the request and from
its blocks; a block of the main queue that is dropped so does nothing when its
turn comes (`RunDropped`). A chunk is made in one block and
begun in the next, and pause, resume and stop, which come from the queue of
`FIRStorage`, are cut where the code leaves its lock, so that they fall between
any two blocks and into the middle of each other's effects. `RunRetry` is the
retry block: it never retries, it leaves word that a query is due. `Failed` and
`Succeeded` are the two halves of `chunkFetcher:finishedWithData:error:`, which
serves chunks and queries alike. The server takes a chunk only at the offset it
has; a request may be lost before or after it took effect, a chunk may be cut at
any multiple of the granularity, and a request may be refused for good. A request
whose callbacks were dropped (`heard = FALSE`) may still arrive. It implements
`FetcherContract`, under `phase <- Phase`, `stored <- Whole`.

**`FetcherService`** is the limit of fetchers per host. `running` and `delayed`
are the two lists of the one host the app uses, `host` the fetchers whose
`serviceHost` is set, `work` what each fetcher is at (waiting for authorization,
for an answer, for the retry decision, for the retry timer, ...), `todo` what
each of the three threads has left to do of the call it is in. What the service
does under its lock is one step; `serviceHost` is set (`SetHost`), read (`Check`)
and cleared (`ClearHost`) outside the lock, in steps of their own, and the
promoted fetchers are started between the last two.

**`ListAll`** is the listing of a folder, page by page, against a bucket that
grows. A name is its rank in the bucket's order; a page is any non-empty first
part of what comes after the token. `ReceiveError` is the code as it is: the
handler reports the error and goes on to the end.

**`FeedVC`** is the feed: `images` is the array `downloadedImages`, in which an image
may be twice; listings and loads under way are bags, because the same
appearance, listing and load can be under way twice; a load goes through the
URL, the data and the main queue. `rows` is what the collection view counted at
its last `reloadData`. Objects have versions, and each version its own URL. The
cache remembers, as history, which feed filled an entry. `ConnectScene` makes a
new `FeedVC`; what the old one began goes on. The two outcomes of a listing,
`Listed` and `ListedAfterError`, are those of `ListAll`. When an image shown is
no image, or its feed is gone, the app may crash.

## What is checked

All runs are exhaustive over their instance, with deadlock checked except for
`feed` and `feed_unwrap`, where the app may have crashed, and for `upload_task`,
`upload_fetcher`, `upload_all_there`, `fetcher_service` and `fetcher_slot`, where
the work comes to its end.

| Run | Properties | Shows |
|---|---|---|
| `canvas` | `CanvasTypeOK`, `ScreenIsFresh`, `FinishedLinesKept`, `PictureIsAStack`, `ScreenCatchesUp` | Touches, Undo, Clear and brush changes in any order leave the finished lines and the stack of strokes right, also when the finger's own line is taken away; no change stays off the screen for ever. |
| `screen` | `VCTypeOK`, `TitlesOnTop`, `DialogHasDrawing`, `PicturesAreCurrent` | With all four buttons: no order of presses, releases and layouts takes a title away; the drawing Share has checked is still there at OK; what is saved or shared, a copy of the screen, is the drawing of the moment although it may not have been redrawn. |
| `upload_task` | `TaskTypeOK`, `OutcomeOnItsWay`, `KeepsContract`, `ReportsOutcome` | The SDK reports at most once, truthfully, and in the end, whatever is cancelled, paused or resumed when. |
| `upload_fetcher` | `FetcherTypeOK`, `ContentIsPrefix`, `LostChunksAreForgiven`, `KeepsFetcherContract`, `UploadEnds`, `FallsQuiet` | The server never holds anything but a beginning of the data; lost chunks alone do not fail an upload; the owner gets one true answer, and gets it unless it leaves the upload paused; requests do not go on for ever. |
| `fetcher_service` | `ServiceTypeOK`, `ListedOnce`, `SlotsAreUsed`, `AtWorkHoldsSlot`, `FetchersEnd` | The limit is one of requests, no fetcher is listed twice, none waits while a slot is free, and each gets its answer unless it is stopped or a slot was lost. |
| `list_all` | `ListTypeOK`, `ListingComplete`, `ListingEnds` | A listing without error has every object that was there, in order and once; a listing ends. |
| `feed` | `FeedTypeOK`, `RowsHaveImages`, `CachedIsShown`, `ListedIsShown` | No row without an image; the cache check loses no image of the feed that filled the cache; what is listed is shown in the end. |

Five runs show that the code does not do what is said of it:

| Run | Said | What happens |
|---|---|---|
| `offline` | "Your Canvas will be automatically uploaded when connected to internet." (`CanvasDrawVC.swift:354`) | Nothing keeps the canvas and nothing waits for a connection. |
| `fetcher_slot` | "The fetcher is no longer in the running or the delayed array, so remove its host" (`GTMSessionFetcherService.m:527`); without a host it "has been stopped previously" (`:461`) | A stop that has left the lock is overtaken by a retry of the same fetcher, which is let in again; then the stop removes the host of a fetcher that runs. When its request ends nobody takes it off the list: the slot is lost. Ten lost slots would stop every further request to the host. |
| `list_all_error` | "invoked with all items and prefixes" (`FIRStorageReference.h:233`) | When a later page fails, the completion is called twice: with the error, then with the pages there were and no error. |
| `feed_unwrap` | `imageToCache!` (`FeedVC.swift:96`) | An object uploaded again between the URL and the data: the old URL answers with something that is no image, and the app crashes. |
| `upload_all_there` | "Handle we're done" (`GTMSessionUploadFetcher.m:1156`) | A query finds that all data was received, but the upload is still active: the first chunk is sent once more, refused for its offset, and queried again, without end and without a delay. It needs a server that keeps all data of a final chunk without being final (`KeepsAll`), as when the connection breaks between the two; in `upload_fetcher` the server is always final with the last byte. |

### Bounds, and why they are enough

- `canvas`: two colours, one width, one point, `MaxLines = 3`, `MaxPoints = 3`.
  Two brushes tell a stroke's own brush from the current one; a width goes the
  way of a colour, and two of it are in `screen`. Three points pass
  through every visibility (0 and 1 invisible, 2 just visible, 3 a further
  point). Three lines are the fewest with two lines underneath, so that a finger
  whose line was undone extends one of them and must leave the other. The lines and
  points are bounded in the guards of `TouchesBegan` and `ExtendLastLine`; the
  theorems have no such instance.
- `screen`, `offline`: one line, one colour and one point, since lines and brush
  have been dealt with; two widths in `screen`. `InUse` says which buttons a run
  presses: all four in `screen`. `MaxTouches` bounds the
  buttons that are touched at a time: two let one be lifted while another is
  down. `MaxSaves` bounds photo jobs at a time, `MaxUploads` uploads in all; one
  of each is enough where the question is what the picture was when it was taken.
- `upload_task`: `MaxOps = 2` calls of three operations give every ordered pair
  around the upload; `MaxProgress = 1`, for a progress event changes nothing
  that a second would not change again.
- `upload_fetcher`: five bytes in chunks of two, with a rest of one that the last
  chunk takes up (`Length = 5`, `ChunkSize = 3`, `Granularity = 2`, `Slack = 1`),
  so that there are a first and a last chunk, cuts in either, and offsets that
  are and are not multiples of the granularity. `MaxOps = 3` calls give pause,
  resume and a stop, which makes two streams and ends them; `MaxFaults = 2`
  faults let a query get lost after a chunk. Seven bytes in four chunks with three
  faults were checked as well, with the same result, but take longer.
- `upload_all_there`: one chunk and one fault suffice.
- `fetcher_service`: three fetchers for one slot (the code has ten), so that one
  runs and two wait in order; `MaxFailures = 2` lets a fetcher fail again after a
  retry, or two fail once, and `MaxStops = 1` stops one of them anywhere.
- `fetcher_slot`: two fetchers, one failure and one stop suffice.
- `list_all`: four names, of which any may be there at first and any appear
  later, so up to four pages, with objects added before and after the token. The
  names are 1, 2, 4, 5 so that a token that is a successor is out of type.
- `feed`: one object in up to two versions (`MaxVersions`), two appearances
  (`MaxAppears`) of one feed or of two (`MaxScenes = 2`). Two appearances are
  the fewest whose listings and loads overlap; a second version makes a URL
  stale. Whether two objects are mixed up is not a question of this model: a
  load never looks at another object's state, except for "is it the first
  image", which the two versions show.

### Fairness, and why it is justified

- `FairCanvasSpec`: the run loop performs its display pass when a view is marked;
  it is not starved by touches.
- `FairVCSpec`: photo jobs and uploads come back, the user puts alerts away.
  `offline` is refuted even so, with the connection back for good.
- `FairTaskSpec`: both dispatch queues are served, and a fetch that is going on is
  answered: with a response, or with an error when `maxUploadRetryTime` (600 s by
  default) is over. A paused fetch need not be; therefore `ReportsOutcome`
  excludes uploads that stay paused for ever.
- `FairSpec` of `UploadFetcher`: the main queue runs; a call of the owner that has
  begun goes on (that it is made at all is not assumed); a request that is under
  way is answered, unless it gets lost, and faults are finitely many, which is
  what `MaxFaults` says. The code has no limit of its own: it would go on for as
  long as requests fail. `UploadEnds` excepts uploads left paused.
- `FairSpec` of `FetcherService`: threads and queues go on, the retry timer fires,
  and requests come to an end: with an answer, or with the time-out of the
  session. Stops and failures are not assumed to happen.
- `FairListSpec`: a request is answered, at worst with a timeout. Uploads need no
  fairness; that the listing ends does not depend on them, as names are finite.
- `FairFeedSpec`: requests are answered or fail, and the main queue is served.
  Nothing is assumed of appearances, uploads, evictions or scenes.

### Mutants

Next to the definitions they change, the modules hold mutants of the code, each
marked "Mutant:" (a missing `setNeedsDisplay`, `popLast` without effect, the flag
of `putData` not looked at, observers removed before they are fired, ...). They
are not part of any next-state relation; with one put in place of the definition
it varies, the property it is meant for fails on the run's own instance.

## What is proved

For every value of the constants, under the `ASSUME`s of the modules (the initial
brush is in the palette; bounds are numbers; operations and buttons are the known
ones), which TLC evaluates in the runs:

| Theorem | Statement |
|---|---|
| `CanvasTypeCorrect` | `CanvasSpec => []CanvasTypeOK` |
| `ScreenAlwaysFresh` | `CanvasSpec => []ScreenIsFresh` |
| `FinishedLinesStay` | `CanvasSpec => []FinishedLinesKept` |
| `CanvasImplementsDrawing` | `CanvasSpec => PictureIsAStack`: `Canvas` implements `Drawing` |
| `TitleStaysOnTop` | `ChromeSpec => []TitleOnTop` |
| `ScreenCanvasIsSound` | the canvas invariants, on the screen |
| `ScreenTypeCorrect` | `VCSpec => []VCTypeOK` |
| `TitlesStayOnTop` | `VCSpec => []TitlesOnTop` |
| `DialogKeepsDrawing` | `VCSpec => []DialogHasDrawing` |
| `PicturesStayCurrent` | `VCSpec => PicturesAreCurrent`, an action property |
| `TaskTypeCorrect` | `TaskSpec => []TaskTypeOK` |
| `OutcomeNeverLost` | `TaskSpec => []OutcomeOnItsWay` |
| `TaskKeepsContract` | `TaskSpec => KeepsContract`: `UploadTask` implements `UploadContract` |
| `UploadTypeCorrect` | `Spec => []FetcherTypeOK` of `UploadFetcher` |
| `ServerHoldsPrefix` | `Spec => []ContentIsPrefix` |
| `LostChunksNeverFail` | `Spec => []LostChunksAreForgiven` |
| `FetcherKeepsContract` | `Spec => KeepsFetcherContract`: `UploadFetcher` implements `FetcherContract` |
| `ServiceTypeCorrect` | `Spec => []ServiceTypeOK` of `FetcherService` |
| `FetchersListedOnce` | `Spec => []ListedOnce` |
| `SlotsAlwaysUsed` | `Spec => []SlotsAreUsed` |
| `WorkersHoldSlots` | `Spec => []AtWorkHoldsSlot` |
| `ListTypeCorrect` | `ListSpec => []ListTypeOK` |
| `ListingsComplete` | `ListSpec => []ListingComplete` |
| `FeedTypeCorrect` | `FeedSpec => []FeedTypeOK` |
| `RowsAlwaysHaveImages` | `FeedSpec => []RowsHaveImages` |
| `CachedAlwaysShown` | `FeedSpec => []CachedIsShown` |

The chain from the screen down to the requests is composed at the contracts: the
screen takes the steps of `UploadContract`, which `UploadTask` is proved to
implement; `UploadTask` takes those of `FetcherContract`, which `UploadFetcher`
is proved to implement. That the upper module of each pair keeps to the contract
holds by construction, since its actions conjoin the contract's; the theorems are
those about the lower one. No module holds all three levels at once.

The arguments:

- *Canvas.* `CanvasTypeOK` is inductive. `ScreenIsFresh` needs one fact:
  `TouchesBegan` is the only step that changes the lines without marking the
  view, and the line it adds is invisible (`InvisibleLineOnTop`), so that the
  picture is the same. `FinishedLinesKept` needs that popping and pushing
  one line leaves the front (`FrontAppend`, `MoveOfLastLine`), and follows the
  finger beyond an Undo or Clear: the last line that is left then continues the
  one that was there when the finger came down (`ContinuesIsPreorder`). The refinement maps each step:
  Undo removes the top stroke or, if the last line is invisible, stutters
  (`UndoOnPicture`); a move makes a new stroke, extends the top one or
  stutters, by how many points the last line had (`MoveOnPicture`).
- *Buttons.* `ChromeInv` says that each button is one of two sequences.
  `RedecorateReplaces` computes the handler on both.
- *Screen.* Every step of the screen is a canvas step or leaves the canvas as it
  is, and a step of the buttons or leaves them (`ScreenStepIsChromeStep`), so the
  invariants of both carry over (`ScreenCanvasIsSound`, `TitlesStayOnTop`).
  `DialogHasDrawing` is inductive with `CanvasTypeOK`: under the dialog only
  moves of a finger change the lines, and an extended line is not nothing.
  `PicturesAreCurrent` compares the picture, which is taken from the screen, with
  the lines: either a redraw was pending and the snapshot had it done, or none
  was, and `ScreenIsFresh`, proved of the canvas, says that the screen has them
  (`SnapshotIsCurrent`). A handler that changed the lines and forgot to ask for a
  redraw would break it here, too. `ScreenInv` has the types of the rest.
- *Upload task.* That a success is truthful is decided when the fetcher answers
  and reported many steps later, through two dispatches. `SafeInv` follows it
  there: every block on the main queue that would report success is vouched for
  by `stored`, and so is the answer the main thread is in the middle of; and
  `completed` says whether the app was told (`completed <=> reported # <<>>`),
  which gives "at most once". From it each step is a step of the contract or a
  stutter (`ContractStep`). For `OutcomeOnItsWay`, `ToldInv` says that from
  `putData` on both of its handlers are registered *until* the app is told or a
  block that tells it is queued, and that this has happened before the answer's
  handling comes to the removal of the observers. The other observers do not help
  there, so the property counts only the two that tell the outcome.
- *Upload fetcher.* Only the server's own offset tells it what a chunk is, so the
  data must be taken from the place the request names. The two are computed
  separately, one rounded down to the granularity; they agree because
  `currentOffset` stays `Aligned`: it only ever is zero, the end of a chunk that
  is not the last, or what the server says it has when that is not yet all, and
  what the server keeps of less than all is a multiple of the granularity. `UploadInv` carries this through the
  network and the queue (`NetOK`, `BlocksOK`, `ContentOK`), for any number of
  streams at a time; `GrownContent` is then what the server makes of a chunk of
  it. The refinement needs two facts more: a final answer comes only when the
  session is final, and nothing is under way before the fetch has begun
  (`NothingBefore`). `LostChunksAreForgiven` speaks about an upload that nobody
  pauses, resumes or stops, and of which no request is refused for good. For
  such an upload, `OneStream` says that exactly one request or one block is under
  way at any time, and at which stage; a chunk that fails then always leaves word
  that a query is due, and the query goes on from an offset before the end.
- *Fetcher service.* That a fetcher is listed once depends on what the threads are
  still going to do: `ComesOnce` says that a fetcher is at most once about to be
  admitted or started, on whichever thread, and `DelayedAreBegun` that one in the
  line is not, so that it comes to work only by its promotion; `LeavesAtTheEnd`
  that only a fetcher that is stopped, over or about to be admitted again is
  taken off a list; `StartHoldsSlot` that what is to be started has its slot. All
  of it is stated over `Pending`, the steps each thread has left, so that one
  lemma per shape of a call says what is pending after it. `SlotsAreUsed` and
  `AtWorkHoldsSlot` are inductive together with these.
- *Listing.* `GatheredOK` says that the items are sorted, end at the token, and
  miss nothing of the start up to it; `PageOK` that a page on its way goes on
  right behind it, and that what it leaves out is behind its last name. The
  bucket may grow in between: nothing of what was there at the start can come to
  be missing. `ReportOK` is what the first call has of it.
- *Feed.* `FeedTypeOK` is not inductive as it stands: that a load asks for the URL
  of a version there has been needs that only objects that exist are listed and
  asked for (`ListedExist`). Images are only ever appended, which keeps
  `RowsHaveImages`, and one is in the array before it is in the cache, which
  keeps `CachedIsShown`.

TLC, too, finds each of these inductive invariants true on the instance of its run
(where a quantifier ranges over `Nat` or over sequences, over a finite part). They
are not among the properties of the runs, since the theorems say more.

Only model-checked: liveness (`ScreenCatchesUp`, `ReportsOutcome`, `UploadEnds`,
`FallsQuiet`, `FetchersEnd`, `ListingEnds`, `ListedIsShown`), which rests on
fairness and so on `ENABLED`, about which the prover cannot reason. Every
invariant and every safety property of the passing runs has its theorem. The
five counterexamples are TLC's.

## What the models assume

- UIKit handles one event at a time on the main thread, presents one view
  controller from the root at a time, takes new touches away from what an alert
  covers but not those that are under way, and redraws marked views. The view
  takes a single touch (`isMultipleTouchEnabled` is not set); two fingers are on
  two views.
- A button is highlighted while its finger is inside it (`Highlighted`), and is so
  already when `touchDown` is sent, so the first branch of `pressed` is the one
  taken. The other one, which would leave the button without a decoration, is in
  the model.
- The buttons' handlers are those of `CanvasDrawVC`. `UICreator.GetButton`
  registers itself as the target although it has no such methods; the models
  take the app to work as its author runs it.
- `onImageSaved` presents on the main thread, wherever the photo library calls it.
- Cloud Storage takes a chunk only at the offset it has, keeps of a chunk that
  breaks off a first part that is a multiple of the granularity, and answers a
  chunk at another offset with a 4xx status and the upload status "active". A
  session that was cancelled answers a chunk with that status or with an error. An
  initial request may be answered without opening a session (no location, or a
  status that is final or cancelled): `RunInitial` then fails the upload.
- The app signs nobody in, so that authorization succeeds at every start; all
  references are of one bucket, so that there is one fetcher service and one
  queue of `FIRStorage`, and one host.
- The two locked sections of `stopFetching` are one step, as is what a callback of
  the session does before it calls the service. That a task that was cancelled
  still comes to `didCompleteWithError`, and so to a second `fetcherDidStop`
  (`GTMSessionFetcher.m:1875`), is left out: the fetcher has no callbacks any more
  and is not begun again, and either it has no host, so that nothing happens, or
  the stop is about to take it off its list, or has, so that nothing else is.
- Cloud Storage lists names in order, gives no empty page with a token, and an
  upload replaces the object of the same name and gives it a new URL. Nothing is
  ever deleted: no code of the app deletes.
- `downloadURL` and its callback, and the two queues a response passes through
  before it is handled, are one step each where nothing can be told apart.

## What is not modelled

- Shadows, constraints, fonts, colours and the unused `ViewController`: set once,
  or drawing without state that matters.
- Of the uploader: files and data providers, background sessions, restarting an
  upload from its location, and metadata, none of which the app uses. Of the
  fetcher service: the shared URL session and its discarding (each start obtains
  the session anew), priorities, `stopAllFetchers`. Prefixes in a listing; the
  other tasks of a reference.
- The other pods: gRPC, BoringSSL, Firestore, Auth, leveldb, abseil and so on are
  vendored libraries with more than 600 000 lines of C and C++ that the app links
  and hardly reaches: it makes no Firestore query and signs nobody in. The program
  proper is about 1 500 lines of Swift, and what it does through Firebase Storage
  and the fetcher is Objective-C; a share of the C and C++ lines says nothing
  about how much of the program is modelled.
- How reachability is asked for: only that its answer changes at any time.

An object in the bucket is replaced by a later upload under the same title, from
this device or from another. The alert at `CanvasDrawVC.swift:342` says of the
first that it "will be shared with others", which then is no longer so. The
models leave this out: the screen does not know the bucket, which all devices
write to, and that a PUT replaces what was there needs no model to be seen. That
the feed copes with replaced objects is in `FeedVC` (`feed_unwrap`).

Behaviours seen in the code that no line of the repository speaks about, and that
therefore are in the models but not the subject of a property:

- After Undo or Clear under a finger that draws, its next moves extend an earlier
  line, in that line's brush, or go nowhere if there is none.
- The result of a photo job or an upload that comes while another alert or the
  title dialog is up is never seen.
- A pause and a resume during the initial request send a query before there is a
  location; it fails for want of a URL, and with it the upload. For a pause alone
  the code is prepared (`GTMSessionUploadFetcher.m:1013`).
- A pause does not reach a chunk that is made but not begun, nor a query: the
  upload goes on while it is paused, and may finish.
- A fetcher that is stopped while it waits for authorization, or while a retry or
  its promotion is on its way, still makes its request; nobody hears of it.
- A touch lifted outside a button leaves it looking pressed until the next layout.
- A tap leaves an invisible line, and a blank picture can be saved or shared.
- A feed of a new scene shows of what is in the cache only the first image.
- Loads of overlapping appearances may show an image twice.
- Each layout adds shadow layers to every view (not in the models).
- A title with a "/" is stored under a prefix, which the feed does not list (not
  in the models, where a title is atomic).

## Plan

Done, in this order: `Drawing` and `Canvas` with their proofs; `ButtonChrome`;
`CanvasDrawVC` over both; `UploadContract` and `UploadTask` with the proof of the
refinement; `ListAll`; `FeedVC`; all buttons of the screen in one run;
`FetcherContract`, used by `UploadTask` and implemented by `UploadFetcher`;
`FetcherService`; then the proofs of the screen's types, titles and
pictures, of the outcome of an upload task, and of all safety properties of
`UploadFetcher`, `FetcherService`, `ListAll` and `FeedVC`.

Next:

1. An abstract listing, of which `ListAll` is shown to be an implementation and
   which `FeedVC` is shown to use, as `FetcherContract` stands between
   `UploadTask` and `UploadFetcher`: what is listed without an error holds all
   that was there, and what comes after an error may be anything less.
2. Action properties of `FetcherService` that its invariants do not give: that
   waiting fetchers are promoted in the order they came, and that a fetcher that
   is over takes no slot again.
3. The same for the feed: that images only grow, and each belongs to a version
   that there was when its URL was given.
4. The download-URL task, and the other tasks of a reference that the feed uses.
