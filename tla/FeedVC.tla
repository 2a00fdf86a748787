-------------------------------- MODULE FeedVC --------------------------------
(***************************************************************************)
(* The feed: Controllers/FeedVC.swift.  Whenever the view appears, the     *)
(* objects under "FeedImages" are listed, each listed object is asked for  *)
(* its URL, and an image that is not in the cache is downloaded and shown. *)
(* Nothing waits for what an earlier appearance began.                     *)
(*                                                                         *)
(* The cache is global and outlives the view controller: when the system   *)
(* disconnects the scene and connects a new one, a new FeedVC begins with  *)
(* no images, while requests of the old one may still be under way.        *)
(***************************************************************************)
EXTENDS Naturals, Sequences, FiniteSets, Functions, Bags

CONSTANTS Objects,       \* names under "FeedImages"
          MaxVersions,   \* bound: so many uploads of one name
          MaxAppears,    \* bound: the feed appears so often
          MaxScenes      \* bound: so many scenes are connected

ASSUME BoundsAssumption ==
  /\ MaxVersions \in Nat
  /\ MaxAppears \in Nat
  /\ MaxScenes \in Nat \ {0}

VARIABLES
  bucket,     \* the version of each object, 0 if there is none
  vc,         \* the FeedVC of the connected scene: they count from 1 on
  appears,    \* how often a feed has appeared
  listings,   \* listAll calls under way
  folder,     \* FeedVC.folderList, of each FeedVC
  blocks,     \* how many blocks that read folderList are on the main queue
  loads,      \* load calls under way, at each of their steps
  images,     \* FeedVC.downloadedImages
  rows,       \* the number of items of the collection view
  cache,      \* imageCache: the images in it, each with the FeedVC it is from
  alive,      \* the app has not crashed
  lost        \* history: the loads that ended with an error

feedVars == <<bucket, vc, appears, listings, folder, blocks, loads, images,
              rows, cache, alive, lost>>

VCs == 1..MaxScenes

\* The URL of an object is a new one with each upload.
URLs == Objects \X (1..MaxVersions)

Present == {o \in Objects : bucket[o] > 0}

Listing(v, there) == [vc |-> v, there |-> there]

Listings == {Listing(v, s) : v \in VCs, s \in SUBSET Objects}

\* A load waits for the URL, then for the data, then for the main queue.
AskURL(v, o)       == [step |-> "url",  vc |-> v, object |-> o]
AskData(v, u)      == [step |-> "data", vc |-> v, url |-> u]
Show(v, u, isImage) == [step |-> "show", vc |-> v, url |-> u, image |-> isImage]

Loads == {AskURL(v, o) : v \in VCs, o \in Objects}
           \cup {AskData(v, u) : v \in VCs, u \in URLs}
           \cup {Show(v, u, i) : v \in VCs, u \in URLs, i \in BOOLEAN}

IsBagOver(bag, S) == IsABag(bag) /\ DOMAIN bag \subseteq S

One(e) == SetToBag({e})
Replace(bag, e, f) == (bag (-) One(e)) (+) One(f)

FeedTypeOK ==
  /\ bucket \in [Objects -> 0..MaxVersions]
  /\ vc \in VCs
  /\ appears \in 0..MaxAppears
  /\ IsBagOver(listings, Listings)
  /\ folder \in [VCs -> SUBSET Objects]
  /\ blocks \in [VCs -> Nat]
  /\ IsBagOver(loads, Loads)
  /\ images \in [VCs -> Seq(URLs)]
  /\ rows \in [VCs -> Nat]
  /\ cache \subseteq [url : URLs, by : VCs]
  /\ alive \in BOOLEAN
  /\ lost \subseteq VCs \X Objects

FeedInit ==
  /\ bucket = [o \in Objects |-> 0]
  /\ vc = 1
  /\ appears = 0
  /\ listings = EmptyBag
  /\ folder = [v \in VCs |-> {}]
  /\ blocks = [v \in VCs |-> 0]
  /\ loads = EmptyBag
  /\ images = [v \in VCs |-> <<>>]
  /\ rows = [v \in VCs |-> 0]
  /\ cache = {}
  /\ alive = TRUE
  /\ lost = {}

-----------------------------------------------------------------------------
\* Around the feed: users upload, NSCache evicts, scenes come and go.

Upload(o) ==
  /\ bucket[o] < MaxVersions
  /\ bucket' = [bucket EXCEPT ![o] = @ + 1]
  /\ UNCHANGED <<vc, appears, listings, folder, blocks, loads, images, rows,
                 cache, alive, lost>>

Evict(c) ==
  /\ cache' = cache \ {c}
  /\ UNCHANGED <<bucket, vc, appears, listings, folder, blocks, loads, images,
                 rows, alive, lost>>

ConnectScene ==
  /\ vc < MaxScenes
  /\ vc' = vc + 1
  /\ UNCHANGED <<bucket, appears, listings, folder, blocks, loads, images,
                 rows, cache, alive, lost>>

-----------------------------------------------------------------------------
\* Mutant: the index of the last row for the number of rows.
ReloadToLast(v) == rows' = [rows EXCEPT ![v] = Len(images'[v]) - 1]

ReloadData(v) == rows' = [rows EXCEPT ![v] = Len(images'[v])]

\* Mutant: the feed starts anew after the collection view has counted.
ViewWillAppearAnew ==
  /\ appears < MaxAppears
  /\ appears' = appears + 1
  /\ rows' = [rows EXCEPT ![vc] = Len(images[vc])]
  /\ images' = [images EXCEPT ![vc] = <<>>]
  /\ listings' = listings (+) One(Listing(vc, Present))
  /\ UNCHANGED <<bucket, vc, folder, blocks, loads, cache, alive, lost>>

ViewWillAppear ==
  /\ appears < MaxAppears
  /\ appears' = appears + 1
  /\ UNCHANGED images
  /\ ReloadData(vc)
  /\ listings' = listings (+) One(Listing(vc, Present))
  /\ UNCHANGED <<bucket, vc, folder, blocks, loads, cache, alive, lost>>

\* The completion of listAll sets folderList and dispatches a block that reads
\* it.  It is called once with everything (ListAll!ListingComplete) ...
Listed(l) ==
  /\ \E found \in SUBSET Present :
       /\ l.there \subseteq found
       /\ folder' = [folder EXCEPT ![l.vc] = found]
  /\ blocks' = [blocks EXCEPT ![l.vc] = @ + 1]
  /\ listings' = listings (-) One(l)
  /\ UNCHANGED <<bucket, vc, appears, loads, images, rows, cache, alive, lost>>

\* ... or, after an error, twice in a row: with nothing, then with the pages
\* there were before the error (ListAll!ReceiveError).
ListedAfterError(l) ==
  /\ \E found \in SUBSET Present : folder' = [folder EXCEPT ![l.vc] = found]
  /\ blocks' = [blocks EXCEPT ![l.vc] = @ + 2]
  /\ listings' = listings (-) One(l)
  /\ UNCHANGED <<bucket, vc, appears, loads, images, rows, cache, alive, lost>>

\* Mutant: the block works on the feed that is connected.
LoadFolderOfCurrent(v) ==
  /\ blocks[v] > 0
  /\ blocks' = [blocks EXCEPT ![v] = @ - 1]
  /\ loads' = loads (+) SetToBag({AskURL(vc, o) : o \in folder[vc]})
  /\ UNCHANGED images
  /\ ReloadData(vc)
  /\ UNCHANGED <<bucket, vc, appears, listings, folder, cache, alive, lost>>

\* The block: load every object of the list there is by now.
LoadFolder(v) ==
  /\ blocks[v] > 0
  /\ blocks' = [blocks EXCEPT ![v] = @ - 1]
  /\ loads' = loads (+) SetToBag({AskURL(v, o) : o \in folder[v]})
  /\ UNCHANGED images
  /\ ReloadData(v)
  /\ UNCHANGED <<bucket, vc, appears, listings, folder, cache, alive, lost>>

-----------------------------------------------------------------------------
\* load(storageRef:).

URLOf(o) == <<o, bucket[o]>>

Cached(u) == \E c \in cache : c.url = u

\* The URL is in the cache: the image is shown only if it is the first one, and
\* the collection view is not told.
ShowCached(v, o) ==
  /\ BagIn(AskURL(v, o), loads)
  /\ Cached(URLOf(o))
  /\ images' = IF images[v] = <<>>
               THEN [images EXCEPT ![v] = <<URLOf(o)>>]
               ELSE images
  /\ loads' = loads (-) One(AskURL(v, o))
  /\ UNCHANGED <<bucket, vc, appears, listings, folder, blocks, rows, cache,
                 alive, lost>>

GetData(v, o) ==
  /\ BagIn(AskURL(v, o), loads)
  /\ ~Cached(URLOf(o))
  /\ loads' = Replace(loads, AskURL(v, o), AskData(v, URLOf(o)))
  /\ UNCHANGED <<bucket, vc, appears, listings, folder, blocks, images, rows,
                 cache, alive, lost>>

\* Neither error is retried before the feed appears again.
LoadFails(load) ==
  /\ load.step \in {"url", "data"}
  /\ loads' = loads (-) One(load)
  /\ lost' = lost \cup {<<load.vc, IF load.step = "url" THEN load.object
                                                        ELSE load.url[1]>>}
  /\ UNCHANGED <<bucket, vc, appears, listings, folder, blocks, images, rows,
                 cache, alive>>

\* A response without an error: the image, if the URL is still the object's, or
\* whatever the server says instead.  The status code is not looked at.
DataArrives(v, u, isImage) ==
  /\ BagIn(AskData(v, u), loads)
  /\ isImage => u = URLOf(u[1])
  /\ loads' = Replace(loads, AskData(v, u), Show(v, u, isImage))
  /\ UNCHANGED <<bucket, vc, appears, listings, folder, blocks, images, rows,
                 cache, alive, lost>>

\* Mutant: the image is added under the condition for cached ones.
ShowImageIfFirst(v, u) ==
  /\ BagIn(Show(v, u, TRUE), loads)
  /\ images' = IF images[v] = <<>>
               THEN [images EXCEPT ![v] = <<u>>]
               ELSE images
  /\ cache' = {c \in cache : c.url # u} \cup {[url |-> u, by |-> v]}
  /\ ReloadData(v)
  /\ loads' = loads (-) One(Show(v, u, TRUE))
  /\ UNCHANGED <<bucket, vc, appears, listings, folder, blocks, alive, lost>>

\* On the main queue; the FeedVC is there.
ShowImage(v, u) ==
  /\ BagIn(Show(v, u, TRUE), loads)
  /\ images' = [images EXCEPT ![v] = Append(@, u)]
  /\ cache' = {c \in cache : c.url # u} \cup {[url |-> u, by |-> v]}
  /\ ReloadData(v)
  /\ loads' = loads (-) One(Show(v, u, TRUE))
  /\ UNCHANGED <<bucket, vc, appears, listings, folder, blocks, alive, lost>>

\* On the main queue: imageToCache! is nil, or self! is, if the scene is gone
\* and nothing else keeps its FeedVC.
Crash(v, u) ==
  /\ \/ BagIn(Show(v, u, FALSE), loads)
     \/ BagIn(Show(v, u, TRUE), loads) /\ v # vc
  /\ alive' = FALSE
  /\ UNCHANGED <<bucket, vc, appears, listings, folder, blocks, loads, images,
                 rows, cache, lost>>

-----------------------------------------------------------------------------
Handle ==
  \/ \E l \in BagToSet(listings) : Listed(l) \/ ListedAfterError(l)
  \/ \E v \in VCs : LoadFolder(v)
  \/ \E v \in VCs, o \in Objects : ShowCached(v, o) \/ GetData(v, o)
  \/ \E load \in BagToSet(loads) : LoadFails(load)
  \/ \E v \in VCs, u \in URLs :
       \/ \E isImage \in BOOLEAN : DataArrives(v, u, isImage)
       \/ ShowImage(v, u)
       \/ Crash(v, u)

FeedNext ==
  /\ alive
  /\ \/ \E o \in Objects : Upload(o)
     \/ \E c \in cache : Evict(c)
     \/ ConnectScene
     \/ ViewWillAppear
     \/ Handle

FeedSpec == FeedInit /\ [][FeedNext]_feedVars

\* Requests are answered, if only with an error, and the main queue is served.
FairFeedSpec == FeedSpec /\ WF_feedVars(alive /\ Handle)

-----------------------------------------------------------------------------
(***************************************************************************)
(* The collection view never asks cellForItemAt for a row that has no      *)
(* image: downloadedImages[indexPath.row] is in range, however the         *)
(* appearances, listings and downloads overlap.                            *)
(***************************************************************************)
RowsHaveImages == \A v \in VCs : rows[v] <= Len(images[v])

(***************************************************************************)
(* An image in the cache is among the images of the FeedVC that put it     *)
(* there.  load drops an image it finds in the cache unless it is the      *)
(* first; that loses nothing only because of this.                         *)
(***************************************************************************)
CachedIsShown == \A c \in cache : c.url \in Range(images[c.by])

(***************************************************************************)
(* Every object of a list is shown in the end, in some version, unless its *)
(* load fails, the app crashes, the image is in the cache from another     *)
(* FeedVC, or a later listing replaced the list.                           *)
(***************************************************************************)
ShownIn(v, o) == \E u \in Range(images[v]) : u[1] = o

ListedIsShown ==
  \A v \in VCs, o \in Objects :
    (blocks[v] > 0 /\ o \in folder[v]) ~>
       \/ ShownIn(v, o)
       \/ <<v, o>> \in lost
       \/ \E c \in cache : c.url[1] = o /\ c.by # v
       \/ o \notin folder[v]
       \/ ~alive

(***************************************************************************)
(* "self!.downloadedImages.append(imageToCache!)" (FeedVC.swift:96): what  *)
(* a download gives without an error is an image, and the feed is there.   *)
(***************************************************************************)
UnwrapsSucceed == alive
=============================================================================
