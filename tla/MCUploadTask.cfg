\* Any two calls of cancel, pause and resume, in any order, around one upload.
CONSTANTS
  Ops = {"cancel", "pause", "resume"}
  MaxOps = 2
  MaxProgress = 1
SPECIFICATION FairTaskSpec
INVARIANT TaskTypeOK
INVARIANT OutcomeOnItsWay
PROPERTY KeepsContract
PROPERTY ReportsOutcome
\* The upload comes to an end.
CHECK_DEADLOCK FALSE
