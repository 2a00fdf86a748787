\* Two feeds that share the cache, one after the other or the same one twice,
\* of one object that is uploaded again: two images, up to four loads.
CONSTANTS
  Objects = {o1}
  MaxVersions = 2
  MaxAppears = 2
  MaxScenes = 2
SPECIFICATION FairFeedSpec
INVARIANT FeedTypeOK
INVARIANT RowsHaveImages
INVARIANT CachedIsShown
PROPERTY ListedIsShown
\* The app stops when it has crashed.
CHECK_DEADLOCK FALSE
