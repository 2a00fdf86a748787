----------------------------- MODULE FeedVCProofs -----------------------------
(***************************************************************************)
(* Proofs about FeedVC, for any objects, versions, appearances and scenes: *)
(* its types, that the collection view never has more rows than there are  *)
(* images, and that what is in the cache is shown by the feed it is from.  *)
(***************************************************************************)
EXTENDS FeedVC, TLAPS

\* Only objects that there are get listed, and so asked for: the URL of each is
\* that of a version there has been.
ListedExist ==
  /\ \A v \in VCs : folder[v] \subseteq Present
  /\ \A v \in VCs, o \in Objects : BagIn(AskURL(v, o), loads) => o \in Present

FeedInv ==
  /\ FeedTypeOK
  /\ ListedExist
  /\ RowsHaveImages
  /\ CachedIsShown

-----------------------------------------------------------------------------
\* What is put into a bag and taken out of it.
LEMMA BagPlus ==
  ASSUME NEW S, NEW bag, IsBagOver(bag, S), NEW E \in SUBSET S
  PROVE  /\ IsBagOver(bag (+) SetToBag(E), S)
         /\ DOMAIN (bag (+) SetToBag(E)) = DOMAIN bag \cup E
BY DEF IsBagOver, IsABag, (+), SetToBag

LEMMA BagMinus ==
  ASSUME NEW S, NEW bag, IsBagOver(bag, S), NEW e
  PROVE  /\ IsBagOver(bag (-) One(e), S)
         /\ DOMAIN (bag (-) One(e)) \subseteq DOMAIN bag
BY DEF IsBagOver, IsABag, (-), SetToBag, One

LEMMA BagReplace ==
  ASSUME NEW S, NEW bag, IsBagOver(bag, S), NEW e, NEW f \in S
  PROVE  /\ IsBagOver(Replace(bag, e, f), S)
         /\ DOMAIN Replace(bag, e, f) \subseteq DOMAIN bag \cup {f}
<1> DEFINE rest == bag (-) One(e)
<1>1. IsBagOver(rest, S) /\ DOMAIN rest \subseteq DOMAIN bag
  BY BagMinus
<1>2. Replace(bag, e, f) = rest (+) SetToBag({f}) /\ {f} \in SUBSET S
  BY DEF Replace, One
<1> HIDE DEF rest
<1>3. /\ IsBagOver(rest (+) SetToBag({f}), S)
      /\ DOMAIN (rest (+) SetToBag({f})) = DOMAIN rest \cup {f}
  BY <1>1, <1>2, BagPlus
<1> QED BY <1>1, <1>2, <1>3

LEMMA EmptyIsBag == \A S : IsBagOver(EmptyBag, S) /\ DOMAIN EmptyBag = {}
BY DEF IsBagOver, IsABag, EmptyBag, SetToBag

\* The steps of a load tell the kinds apart.
LEMMA LoadKinds ==
  /\ \A v \in VCs, o \in Objects : AskURL(v, o) \in Loads
  /\ \A v \in VCs, u \in URLs : AskData(v, u) \in Loads
  /\ \A v \in VCs, u \in URLs, i \in BOOLEAN : Show(v, u, i) \in Loads
  /\ \A v, w \in VCs, o \in Objects, u \in URLs : AskURL(v, o) # AskData(w, u)
  /\ \A v, w \in VCs, o \in Objects, u \in URLs, i \in BOOLEAN :
       AskURL(v, o) # Show(w, u, i)
<1>1. \A v, w \in VCs, o \in Objects, u \in URLs : AskURL(v, o) # AskData(w, u)
  <2> SUFFICES ASSUME NEW v \in VCs, NEW w \in VCs, NEW o \in Objects, NEW u \in URLs
               PROVE  AskURL(v, o).step # AskData(w, u).step
    OBVIOUS
  <2> QED BY DEF AskURL, AskData
<1>2. \A v, w \in VCs, o \in Objects, u \in URLs, i \in BOOLEAN :
        AskURL(v, o) # Show(w, u, i)
  <2> SUFFICES ASSUME NEW v \in VCs, NEW w \in VCs, NEW o \in Objects, NEW u \in URLs,
                      NEW i \in BOOLEAN
               PROVE  AskURL(v, o).step # Show(w, u, i).step
    OBVIOUS
  <2> QED BY DEF AskURL, Show
<1> QED BY <1>1, <1>2 DEF Loads

\* What is missing after a load failed.
LEMMA LoadOf ==
  ASSUME NEW load \in Loads, load.step \in {"url", "data"}
  PROVE  /\ load.vc \in VCs
         /\ (IF load.step = "url" THEN load.object ELSE load.url[1]) \in Objects
<1>1. CASE \E v \in VCs, o \in Objects : load = AskURL(v, o)
  BY <1>1 DEF AskURL
<1>2. CASE \E v \in VCs, u \in URLs : load = AskData(v, u)
  BY <1>2 DEF AskData, URLs
<1>3. CASE \E v \in VCs, u \in URLs, i \in BOOLEAN : load = Show(v, u, i)
  BY <1>3 DEF Show
<1> QED BY <1>1, <1>2, <1>3 DEF Loads

\* Images are only added, so that what was shown still is.
Grown == /\ images' \in [VCs -> Seq(URLs)]
         /\ \A v \in VCs : /\ Range(images[v]) \subseteq Range(images'[v])
                           /\ Len(images[v]) <= Len(images'[v])

LEMMA AppendGrows ==
  ASSUME NEW s \in Seq(URLs), NEW u \in URLs
  PROVE  /\ Append(s, u) \in Seq(URLs)
         /\ Range(Append(s, u)) = Range(s) \cup {u}
         /\ Len(Append(s, u)) = Len(s) + 1
<1>1. /\ Append(s, u) \in Seq(URLs)
      /\ DOMAIN s = 1..Len(s) /\ Len(s) \in Nat
      /\ DOMAIN Append(s, u) = 1..(Len(s) + 1)
      /\ Len(Append(s, u)) = Len(s) + 1
  OBVIOUS
<1>2. /\ \A i \in DOMAIN s : i \in DOMAIN Append(s, u) /\ Append(s, u)[i] = s[i]
      /\ Len(s) + 1 \in DOMAIN Append(s, u) /\ Append(s, u)[Len(s) + 1] = u
      /\ \A i \in DOMAIN Append(s, u) : i \in DOMAIN s \/ i = Len(s) + 1
  BY <1>1
<1> QED BY <1>1, <1>2 DEF Range

LEMMA UnchangedGrows == FeedTypeOK /\ UNCHANGED images => Grown
<1> SUFFICES ASSUME FeedTypeOK, UNCHANGED images PROVE Grown
  OBVIOUS
<1>1. \A v \in VCs : Len(images[v]) \in Nat
  BY DEF FeedTypeOK
<1> QED BY <1>1 DEF Grown, FeedTypeOK

\* The rows are counted anew, or there are still as many.
LEMMA RowsStay ==
  ASSUME FeedTypeOK, RowsHaveImages, Grown,
         rows' = rows \/ \E v \in VCs : ReloadData(v)
  PROVE  rows' \in [VCs -> Nat] /\ RowsHaveImages'
<1>1. \A v \in VCs : /\ Len(images[v]) \in Nat /\ Len(images'[v]) \in Nat
                     /\ rows[v] \in Nat /\ rows[v] <= Len(images[v])
                     /\ Len(images[v]) <= Len(images'[v])
  BY DEF FeedTypeOK, RowsHaveImages, Grown
<1>2. CASE rows' = rows
  BY <1>1, <1>2 DEF FeedTypeOK, RowsHaveImages
<1>3. ASSUME NEW v \in VCs, ReloadData(v)
      PROVE  rows' \in [VCs -> Nat] /\ RowsHaveImages'
  <2>1. rows' = [rows EXCEPT ![v] = Len(images'[v])] /\ rows \in [VCs -> Nat]
    BY <1>3 DEF ReloadData, FeedTypeOK
  <2>2. \A w \in VCs : rows'[w] = IF w = v THEN Len(images'[v]) ELSE rows[w]
    BY <2>1
  <2>3. \A w \in VCs : rows'[w] <= Len(images'[w])
    BY <1>1, <2>2
  <2> QED BY <1>1, <2>1, <2>3 DEF RowsHaveImages
<1> QED BY <1>2, <1>3

LEMMA CacheStays ==
  ASSUME CachedIsShown, FeedTypeOK, Grown, cache' \subseteq cache
  PROVE  CachedIsShown'
BY DEF CachedIsShown, FeedTypeOK, Grown

-----------------------------------------------------------------------------
LEMMA FeedInitInv == FeedInit => FeedInv
<1> SUFFICES ASSUME FeedInit PROVE FeedInv
  OBVIOUS
<1>1. 0 \in 0..MaxVersions /\ 0 \in 0..MaxAppears /\ 1 \in VCs
  BY BoundsAssumption DEF VCs
<1>2. FeedTypeOK
  BY <1>1, EmptyIsBag DEF FeedInit, FeedTypeOK
<1>3. ListedExist
  BY EmptyIsBag DEF FeedInit, ListedExist, BagIn, BagToSet
<1>4. RowsHaveImages
  BY DEF FeedInit, RowsHaveImages
<1>5. CachedIsShown
  BY DEF FeedInit, CachedIsShown
<1> QED BY <1>2, <1>3, <1>4, <1>5 DEF FeedInv

\* A version is added, an image leaves the cache, a scene is connected.
LEMMA AroundInv ==
  ASSUME FeedInv,
         \/ \E o \in Objects : Upload(o)
         \/ \E c \in cache : Evict(c)
         \/ ConnectScene
  PROVE  FeedInv'
<1>1. UNCHANGED <<appears, listings, folder, blocks, loads, images, rows, alive, lost>>
  BY DEF Upload, Evict, ConnectScene
<1>t. /\ bucket \in [Objects -> 0..MaxVersions]
      /\ vc \in VCs
  BY DEF FeedInv, FeedTypeOK
<1>2. /\ bucket' \in [Objects -> 0..MaxVersions]
      /\ \A o \in Objects : bucket[o] > 0 => bucket'[o] > 0
  <2>1. ASSUME NEW o \in Objects, Upload(o)
        PROVE  /\ bucket' \in [Objects -> 0..MaxVersions]
               /\ \A p \in Objects : bucket[p] > 0 => bucket'[p] > 0
    <3>1. bucket' = [bucket EXCEPT ![o] = @ + 1] /\ bucket[o] < MaxVersions
      BY <2>1 DEF Upload
    <3>2. bucket[o] \in 0..MaxVersions /\ bucket[o] + 1 \in 0..MaxVersions
      BY <1>t, <3>1, BoundsAssumption
    <3>3. \A p \in Objects : bucket'[p] = IF p = o THEN bucket[o] + 1 ELSE bucket[p]
      BY <1>t, <3>1
    <3> QED BY <1>t, <3>1, <3>2, <3>3
  <2>2. UNCHANGED bucket \/ \E o \in Objects : Upload(o)
    BY DEF Evict, ConnectScene
  <2> QED BY <1>t, <2>1, <2>2
<1>3. vc' \in VCs
  <2>1. CASE ConnectScene
    BY <1>t, <2>1, BoundsAssumption DEF ConnectScene, VCs
  <2>2. CASE ~ConnectScene
    BY <1>t, <2>2 DEF Upload, Evict
  <2> QED BY <2>1, <2>2
<1>4. cache' \subseteq cache
  BY DEF Upload, Evict, ConnectScene
<1>5. FeedTypeOK'
  BY <1>1, <1>2, <1>3, <1>4 DEF FeedInv, FeedTypeOK
<1>6. ListedExist'
  BY <1>1, <1>2 DEF FeedInv, ListedExist, Present
<1>7. RowsHaveImages' /\ CachedIsShown'
  BY <1>1, <1>4, RowsStay, CacheStays, UnchangedGrows DEF FeedInv
<1> QED BY <1>5, <1>6, <1>7 DEF FeedInv

LEMMA AppearInv ==
  ASSUME FeedInv, ViewWillAppear
  PROVE  FeedInv'
<1>1. /\ UNCHANGED <<bucket, vc, folder, blocks, loads, images, cache, alive, lost>>
      /\ appears < MaxAppears /\ appears' = appears + 1
      /\ listings' = listings (+) One(Listing(vc, Present))
      /\ ReloadData(vc)
      /\ FeedTypeOK
  BY DEF ViewWillAppear, FeedInv
<1>2. vc \in VCs /\ Grown
  BY <1>1, UnchangedGrows DEF FeedTypeOK
<1>3. rows' \in [VCs -> Nat] /\ RowsHaveImages' /\ CachedIsShown'
  BY <1>1, <1>2, RowsStay, CacheStays DEF FeedInv
<1>4. appears' \in 0..MaxAppears
  BY <1>1, BoundsAssumption DEF FeedTypeOK
<1>5. IsBagOver(listings', Listings)
  <2>1. {Listing(vc, Present)} \in SUBSET Listings
    BY <1>2 DEF Present, Listings
  <2>2. IsBagOver(listings, Listings)
    BY <1>1 DEF FeedTypeOK
  <2> QED BY <1>1, <2>1, <2>2, BagPlus DEF One
<1>6. FeedTypeOK'
  BY <1>1, <1>3, <1>4, <1>5 DEF FeedTypeOK
<1>7. ListedExist'
  BY <1>1 DEF FeedInv, ListedExist, Present
<1> QED BY <1>3, <1>6, <1>7 DEF FeedInv

\* A listing that comes back leaves a list of objects that there are.
LEMMA ListedInv ==
  ASSUME FeedInv, NEW l \in BagToSet(listings), Listed(l) \/ ListedAfterError(l)
  PROVE  FeedInv'
<1>1. /\ UNCHANGED <<bucket, vc, appears, loads, images, rows, cache, alive, lost>>
      /\ listings' = listings (-) One(l)
      /\ FeedTypeOK
  BY DEF Listed, ListedAfterError, FeedInv
<1>2. l.vc \in VCs
  <2>1. IsBagOver(listings, Listings) /\ l \in DOMAIN listings
    BY <1>1 DEF FeedTypeOK, BagToSet
  <2>2. l \in Listings
    BY <2>1 DEF IsBagOver
  <2> QED BY <2>2 DEF Listing, Listings
<1>3. PICK found \in SUBSET Present : folder' = [folder EXCEPT ![l.vc] = found]
  BY DEF Listed, ListedAfterError
<1>4. /\ folder' \in [VCs -> SUBSET Objects]
      /\ \A v \in VCs : folder'[v] \subseteq Present
  <2>1. found \in SUBSET Objects /\ folder \in [VCs -> SUBSET Objects]
    BY <1>1 DEF FeedTypeOK, Present
  <2> QED BY <1>2, <1>3, <2>1 DEF FeedInv, ListedExist
<1>5. blocks' \in [VCs -> Nat]
  <2>1. blocks \in [VCs -> Nat] /\ blocks[l.vc] \in Nat
    BY <1>1, <1>2 DEF FeedTypeOK
  <2>2. \/ blocks' = [blocks EXCEPT ![l.vc] = @ + 1]
        \/ blocks' = [blocks EXCEPT ![l.vc] = @ + 2]
    BY DEF Listed, ListedAfterError
  <2> QED BY <2>1, <2>2
<1>6. IsBagOver(listings', Listings)
  <2>1. IsBagOver(listings, Listings)
    BY <1>1 DEF FeedTypeOK
  <2> QED BY <1>1, <2>1, BagMinus
<1>7. FeedTypeOK'
  BY <1>1, <1>4, <1>5, <1>6 DEF FeedTypeOK
<1>8. ListedExist'
  BY <1>1, <1>4 DEF FeedInv, ListedExist, Present
<1>9. RowsHaveImages' /\ CachedIsShown'
  BY <1>1, RowsStay, CacheStays, UnchangedGrows DEF FeedInv
<1> QED BY <1>7, <1>8, <1>9 DEF FeedInv

LEMMA LoadFolderInv ==
  ASSUME FeedInv, NEW v \in VCs, LoadFolder(v)
  PROVE  FeedInv'
<1> DEFINE asked == {AskURL(v, o) : o \in folder[v]}
<1>1. /\ UNCHANGED <<bucket, vc, appears, listings, folder, images, cache, alive, lost>>
      /\ blocks[v] > 0 /\ blocks' = [blocks EXCEPT ![v] = @ - 1]
      /\ loads' = loads (+) SetToBag(asked)
      /\ ReloadData(v)
      /\ FeedTypeOK
  BY DEF LoadFolder, FeedInv
<1>2. folder[v] \subseteq Objects /\ folder[v] \subseteq Present
  BY <1>1 DEF FeedTypeOK, FeedInv, ListedExist
<1>3. IsBagOver(loads, Loads)
  BY <1>1 DEF FeedTypeOK
<1>4. asked \in SUBSET Loads
  BY <1>2, LoadKinds
<1>5. \A w \in VCs, o \in Objects : AskURL(w, o) \in asked => o \in folder[v]
  BY DEF AskURL
<1> HIDE DEF asked
<1>6. IsBagOver(loads', Loads) /\ DOMAIN loads' = DOMAIN loads \cup asked
  BY <1>1, <1>3, <1>4, BagPlus
<1>7. blocks' \in [VCs -> Nat]
  <2>1. blocks \in [VCs -> Nat] /\ blocks[v] \in Nat
    BY <1>1 DEF FeedTypeOK
  <2>2. blocks[v] - 1 \in Nat
    BY <1>1, <2>1
  <2> QED BY <1>1, <2>1, <2>2
<1>8. rows' \in [VCs -> Nat] /\ RowsHaveImages' /\ CachedIsShown'
  BY <1>1, RowsStay, CacheStays, UnchangedGrows DEF FeedInv
<1>9. FeedTypeOK'
  BY <1>1, <1>6, <1>7, <1>8 DEF FeedTypeOK
<1>10. ListedExist'
  BY <1>1, <1>2, <1>5, <1>6 DEF FeedInv, ListedExist, Present, BagIn, BagToSet
<1> QED BY <1>8, <1>9, <1>10 DEF FeedInv

\* A cached image is added if it is the first one.
LEMMA ShowCachedInv ==
  ASSUME FeedInv, NEW v \in VCs, NEW o \in Objects, ShowCached(v, o)
  PROVE  FeedInv'
<1>1. /\ UNCHANGED <<bucket, vc, appears, listings, folder, blocks, rows, cache,
                     alive, lost>>
      /\ loads' = loads (-) One(AskURL(v, o))
      /\ Cached(URLOf(o))
      /\ images' = IF images[v] = <<>>
                   THEN [images EXCEPT ![v] = <<URLOf(o)>>]
                   ELSE images
      /\ FeedTypeOK
  BY DEF ShowCached, FeedInv
<1>2. URLOf(o) \in URLs
  BY <1>1 DEF Cached, FeedTypeOK
<1>3. Grown
  <2>1. CASE images[v] = <<>>
    <3>1. /\ images' = [images EXCEPT ![v] = <<URLOf(o)>>]
          /\ images \in [VCs -> Seq(URLs)]
      BY <1>1, <2>1 DEF FeedTypeOK
    <3>2. /\ <<URLOf(o)>> \in Seq(URLs) /\ Len(<<URLOf(o)>>) = 1
          /\ Range(<<>>) = {} /\ Len(<<>>) = 0
      BY <1>2 DEF Range
    <3>3. \A w \in VCs : /\ images'[w] = IF w = v THEN <<URLOf(o)>> ELSE images[w]
                         /\ Len(images[w]) \in Nat
      BY <3>1
    <3>4. images' \in [VCs -> Seq(URLs)]
      BY <3>1, <3>2
    <3>5. ASSUME NEW w \in VCs
          PROVE  /\ Range(images[w]) \subseteq Range(images'[w])
                 /\ Len(images[w]) <= Len(images'[w])
      <4>1. CASE w = v
        BY <2>1, <3>2, <3>3, <4>1
      <4>2. CASE w # v
        BY <3>3, <4>2
      <4> QED BY <4>1, <4>2
    <3> QED BY <3>4, <3>5 DEF Grown
  <2>2. CASE images[v] # <<>>
    BY <1>1, <2>2, UnchangedGrows
  <2> QED BY <2>1, <2>2
<1>4. IsBagOver(loads', Loads) /\ DOMAIN loads' \subseteq DOMAIN loads
  BY <1>1, BagMinus DEF FeedTypeOK
<1>5. FeedTypeOK'
  BY <1>1, <1>3, <1>4 DEF FeedTypeOK, Grown
<1>6. ListedExist'
  BY <1>1, <1>4 DEF FeedInv, ListedExist, Present, BagIn, BagToSet
<1>7. RowsHaveImages' /\ CachedIsShown'
  BY <1>1, <1>3, RowsStay, CacheStays DEF FeedInv
<1> QED BY <1>5, <1>6, <1>7 DEF FeedInv

\* The steps between the URL and the image.
LEMMA LoadGoesOnInv ==
  ASSUME FeedInv, NEW v \in VCs,
         \/ \E o \in Objects : GetData(v, o)
         \/ \E u \in URLs, isImage \in BOOLEAN : DataArrives(v, u, isImage)
  PROVE  FeedInv'
<1>1. /\ UNCHANGED <<bucket, vc, appears, listings, folder, blocks, images, rows,
                     cache, alive, lost>>
      /\ FeedTypeOK
  BY DEF GetData, DataArrives, FeedInv
<1>2. IsBagOver(loads, Loads)
  BY <1>1 DEF FeedTypeOK
<1>3. /\ IsBagOver(loads', Loads)
      /\ \A w \in VCs, p \in Objects :
           AskURL(w, p) \in DOMAIN loads' => AskURL(w, p) \in DOMAIN loads
  <2>1. ASSUME NEW o \in Objects, GetData(v, o)
        PROVE  /\ IsBagOver(loads', Loads)
               /\ \A w \in VCs, p \in Objects :
                    AskURL(w, p) \in DOMAIN loads' => AskURL(w, p) \in DOMAIN loads
    <3>1. /\ loads' = Replace(loads, AskURL(v, o), AskData(v, URLOf(o)))
          /\ BagIn(AskURL(v, o), loads)
      BY <2>1 DEF GetData
    <3>2. URLOf(o) \in URLs
      <4>1. o \in Present
        BY <3>1 DEF FeedInv, ListedExist
      <4>2. bucket[o] \in 1..MaxVersions
        BY <1>1, <4>1, BoundsAssumption DEF Present, FeedTypeOK
      <4> QED BY <4>2 DEF URLOf, URLs
    <3>3. AskData(v, URLOf(o)) \in Loads
      BY <3>2, LoadKinds
    <3>4. /\ IsBagOver(loads', Loads)
          /\ DOMAIN loads' \subseteq DOMAIN loads \cup {AskData(v, URLOf(o))}
      BY <1>2, <3>1, <3>3, BagReplace
    <3> QED BY <3>2, <3>4, LoadKinds
  <2>2. ASSUME NEW u \in URLs, NEW isImage \in BOOLEAN, DataArrives(v, u, isImage)
        PROVE  /\ IsBagOver(loads', Loads)
               /\ \A w \in VCs, p \in Objects :
                    AskURL(w, p) \in DOMAIN loads' => AskURL(w, p) \in DOMAIN loads
    <3>1. loads' = Replace(loads, AskData(v, u), Show(v, u, isImage))
      BY <2>2 DEF DataArrives
    <3>2. Show(v, u, isImage) \in Loads
      BY LoadKinds
    <3>3. /\ IsBagOver(loads', Loads)
          /\ DOMAIN loads' \subseteq DOMAIN loads \cup {Show(v, u, isImage)}
      BY <1>2, <3>1, <3>2, BagReplace
    <3> QED BY <3>3, LoadKinds
  <2> QED BY <2>1, <2>2
<1>4. FeedTypeOK'
  BY <1>1, <1>3 DEF FeedTypeOK
<1>5. ListedExist'
  BY <1>1, <1>3 DEF FeedInv, ListedExist, Present, BagIn, BagToSet
<1>6. RowsHaveImages' /\ CachedIsShown'
  BY <1>1, RowsStay, CacheStays, UnchangedGrows DEF FeedInv
<1> QED BY <1>4, <1>5, <1>6 DEF FeedInv

LEMMA LoadFailsInv ==
  ASSUME FeedInv, NEW load \in BagToSet(loads), LoadFails(load)
  PROVE  FeedInv'
<1> DEFINE object == IF load.step = "url" THEN load.object ELSE load.url[1]
<1>1. /\ UNCHANGED <<bucket, vc, appears, listings, folder, blocks, images, rows,
                     cache, alive>>
      /\ load.step \in {"url", "data"}
      /\ loads' = loads (-) One(load)
      /\ lost' = lost \cup {<<load.vc, object>>}
      /\ FeedTypeOK
  BY DEF LoadFails, FeedInv
<1>2. load \in Loads
  BY <1>1 DEF FeedTypeOK, IsBagOver, BagToSet
<1>3. load.vc \in VCs /\ object \in Objects
  BY <1>1, <1>2, LoadOf
<1> HIDE DEF object
<1>4. IsBagOver(loads', Loads) /\ DOMAIN loads' \subseteq DOMAIN loads
  BY <1>1, BagMinus DEF FeedTypeOK
<1>5. FeedTypeOK'
  BY <1>1, <1>3, <1>4 DEF FeedTypeOK
<1>6. ListedExist'
  BY <1>1, <1>4 DEF FeedInv, ListedExist, Present, BagIn, BagToSet
<1>7. RowsHaveImages' /\ CachedIsShown'
  BY <1>1, RowsStay, CacheStays, UnchangedGrows DEF FeedInv
<1> QED BY <1>5, <1>6, <1>7 DEF FeedInv

\* The image is added, put into the cache and counted.
LEMMA ShowImageInv ==
  ASSUME FeedInv, NEW v \in VCs, NEW u \in URLs, ShowImage(v, u)
  PROVE  FeedInv'
<1>1. /\ UNCHANGED <<bucket, vc, appears, listings, folder, blocks, alive, lost>>
      /\ images' = [images EXCEPT ![v] = Append(@, u)]
      /\ cache' = {c \in cache : c.url # u} \cup {[url |-> u, by |-> v]}
      /\ ReloadData(v)
      /\ loads' = loads (-) One(Show(v, u, TRUE))
      /\ FeedTypeOK
  BY DEF ShowImage, FeedInv
<1>2. images \in [VCs -> Seq(URLs)] /\ images[v] \in Seq(URLs)
  BY <1>1 DEF FeedTypeOK
<1>3. \A w \in VCs : images'[w] = IF w = v THEN Append(images[v], u) ELSE images[w]
  BY <1>1, <1>2
<1>4. /\ Append(images[v], u) \in Seq(URLs)
      /\ Range(Append(images[v], u)) = Range(images[v]) \cup {u}
      /\ Len(Append(images[v], u)) = Len(images[v]) + 1
  BY <1>2, AppendGrows
<1>5. Grown
  <2>1. images' \in [VCs -> Seq(URLs)]
    BY <1>1, <1>2, <1>4
  <2>2. ASSUME NEW w \in VCs
        PROVE  /\ Range(images[w]) \subseteq Range(images'[w])
               /\ Len(images[w]) <= Len(images'[w])
    <3>1. Len(images[w]) \in Nat
      BY <1>2
    <3>2. CASE w = v
      <4>1. images'[v] = Append(images[v], u) /\ Len(images[v]) \in Nat
        BY <1>3, <3>1, <3>2
      <4> QED BY <1>4, <3>2, <4>1
    <3>3. CASE w # v
      BY <1>3, <3>1, <3>3
    <3> QED BY <3>2, <3>3
  <2> QED BY <2>1, <2>2 DEF Grown
<1>6. rows' \in [VCs -> Nat] /\ RowsHaveImages'
  BY <1>1, <1>5, RowsStay DEF FeedInv
<1>7. cache' \subseteq [url : URLs, by : VCs]
  BY <1>1 DEF FeedTypeOK
<1>8. CachedIsShown'
  <2> SUFFICES ASSUME NEW c \in cache' PROVE c.url \in Range(images'[c.by])
    BY DEF CachedIsShown
  <2>1. CASE c \in cache
    <3>1. c.url \in Range(images[c.by]) /\ c.by \in VCs
      BY <1>1, <2>1 DEF FeedInv, CachedIsShown, FeedTypeOK
    <3> QED BY <1>5, <3>1 DEF Grown
  <2>2. CASE c = [url |-> u, by |-> v]
    <3>1. c.url = u /\ c.by = v
      BY <2>2
    <3> QED BY <1>3, <1>4, <3>1
  <2> QED BY <1>1, <2>1, <2>2
<1>9. IsBagOver(loads', Loads) /\ DOMAIN loads' \subseteq DOMAIN loads
  <2>1. IsBagOver(loads, Loads)
    BY <1>1 DEF FeedTypeOK
  <2> QED BY <1>1, <2>1, BagMinus
<1>10. FeedTypeOK'
  BY <1>1, <1>5, <1>6, <1>7, <1>9 DEF FeedTypeOK, Grown
<1>11. ListedExist'
  BY <1>1, <1>9 DEF FeedInv, ListedExist, Present, BagIn, BagToSet
<1> QED BY <1>6, <1>8, <1>10, <1>11 DEF FeedInv

LEMMA CrashInv ==
  ASSUME FeedInv, NEW v \in VCs, NEW u \in URLs, Crash(v, u)
  PROVE  FeedInv'
<1>1. /\ UNCHANGED <<bucket, vc, appears, listings, folder, blocks, loads, images,
                     rows, cache, lost>>
      /\ alive' = FALSE
      /\ FeedTypeOK
  BY DEF Crash, FeedInv
<1>2. FeedTypeOK'
  BY <1>1 DEF FeedTypeOK
<1>3. ListedExist'
  BY <1>1 DEF FeedInv, ListedExist, Present
<1>4. RowsHaveImages' /\ CachedIsShown'
  BY <1>1 DEF FeedInv, RowsHaveImages, CachedIsShown
<1> QED BY <1>2, <1>3, <1>4 DEF FeedInv

LEMMA FeedNextInv == FeedInv /\ [FeedNext]_feedVars => FeedInv'
<1> SUFFICES ASSUME FeedInv, [FeedNext]_feedVars PROVE FeedInv'
  OBVIOUS
<1>1. CASE \/ \E o \in Objects : Upload(o)
           \/ \E c \in cache : Evict(c)
           \/ ConnectScene
  BY <1>1, AroundInv
<1>2. CASE ViewWillAppear
  BY <1>2, AppearInv
<1>3. CASE Handle
  <2>1. CASE \E l \in BagToSet(listings) : Listed(l) \/ ListedAfterError(l)
    BY <2>1, ListedInv
  <2>2. CASE \E v \in VCs : LoadFolder(v)
    BY <2>2, LoadFolderInv
  <2>3. CASE \E v \in VCs, o \in Objects : ShowCached(v, o) \/ GetData(v, o)
    BY <2>3, ShowCachedInv, LoadGoesOnInv
  <2>4. CASE \E load \in BagToSet(loads) : LoadFails(load)
    BY <2>4, LoadFailsInv
  <2>5. CASE \E v \in VCs, u \in URLs :
               \/ \E isImage \in BOOLEAN : DataArrives(v, u, isImage)
               \/ ShowImage(v, u)
               \/ Crash(v, u)
    BY <2>5, LoadGoesOnInv, ShowImageInv, CrashInv
  <2> QED BY <1>3, <2>1, <2>2, <2>3, <2>4, <2>5 DEF Handle
<1>4. CASE UNCHANGED feedVars
  <2>1. UNCHANGED <<bucket, vc, appears, listings, folder, blocks, loads, images,
                    rows, cache, alive, lost>>
    BY <1>4 DEF feedVars
  <2> QED BY <2>1 DEF FeedInv, FeedTypeOK, ListedExist, Present, RowsHaveImages,
                      CachedIsShown
<1> QED BY <1>1, <1>2, <1>3, <1>4 DEF FeedNext

-----------------------------------------------------------------------------
(***************************************************************************)
(* Every step of the feed keeps the invariant: what is listed or asked for *)
(* exists, rows have images, and what is cached was shown.                 *)
(***************************************************************************)
THEOREM FeedInvariant == FeedSpec => []FeedInv
<1> QED BY FeedInitInv, FeedNextInv, PTL DEF FeedSpec

(***************************************************************************)
(* The feed is type correct: among others, an object that is asked for has *)
(* a URL, and no block runs that was not dispatched.                       *)
(***************************************************************************)
THEOREM FeedTypeCorrect == FeedSpec => []FeedTypeOK
<1>1. FeedInv => FeedTypeOK
  BY DEF FeedInv
<1> QED BY <1>1, FeedInvariant, PTL

(***************************************************************************)
(* cellForItemAt finds an image in downloadedImages for every row that the *)
(* collection view counted, however appearances and downloads overlap.     *)
(***************************************************************************)
THEOREM RowsAlwaysHaveImages == FeedSpec => []RowsHaveImages
<1>1. FeedInv => RowsHaveImages
  BY DEF FeedInv
<1> QED BY <1>1, FeedInvariant, PTL

(***************************************************************************)
(* What load finds in the cache is shown by the feed that put it there, so *)
(* that a feed on its own loses nothing when it drops what is cached.      *)
(***************************************************************************)
THEOREM CachedAlwaysShown == FeedSpec => []CachedIsShown
<1>1. FeedInv => CachedIsShown
  BY DEF FeedInv
<1> QED BY <1>1, FeedInvariant, PTL
=============================================================================
