\* Three chunks, two faults and three calls of the owner, so that two streams
\* of chunks may run side by side.
CONSTANTS
  Length = 5
  ChunkSize = 3
  Granularity = 2
  Slack = 1
  KeepsAll = FALSE
  Ops = {"pause", "resume", "stop"}
  MaxOps = 3
  MaxFaults = 2
SPECIFICATION FairSpec
INVARIANT FetcherTypeOK
INVARIANT ContentIsPrefix
INVARIANT LostChunksAreForgiven
PROPERTY KeepsFetcherContract
PROPERTY UploadEnds
PROPERTY FallsQuiet
\* The upload comes to an end.
CHECK_DEADLOCK FALSE
