\* One feed, and an object that is uploaded again while it is downloaded.
CONSTANTS
  Objects = {o1}
  MaxVersions = 2
  MaxAppears = 1
  MaxScenes = 1
SPECIFICATION FeedSpec
INVARIANT UnwrapsSucceed
CHECK_DEADLOCK FALSE
