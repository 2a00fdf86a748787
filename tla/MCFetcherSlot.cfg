\* A fetcher that is stopped while it is retried, and one that waits for it.
CONSTANTS
  Fetchers = {f1, f2}
  MaxRunning = 1
  MaxFailures = 1
  MaxStops = 1
SPECIFICATION Spec
INVARIANT WithoutHostNotListed
\* All fetchers come to an end.
CHECK_DEADLOCK FALSE
