\* Three fetchers for one slot, with two failures and a stop.
CONSTANTS
  Fetchers = {f1, f2, f3}
  MaxRunning = 1
  MaxFailures = 2
  MaxStops = 1
SPECIFICATION FairSpec
INVARIANT ServiceTypeOK
INVARIANT ListedOnce
INVARIANT SlotsAreUsed
INVARIANT AtWorkHoldsSlot
PROPERTY FetchersEnd
\* All fetchers come to an end.
CHECK_DEADLOCK FALSE
