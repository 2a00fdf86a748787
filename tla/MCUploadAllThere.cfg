\* One chunk, which arrives although its answer is lost, at a server that is
\* not final for it.
CONSTANTS
  Length = 4
  ChunkSize = 4
  Granularity = 2
  Slack = 1
  KeepsAll = TRUE
  Ops = {}
  MaxOps = 0
  MaxFaults = 1
SPECIFICATION FairSpec
PROPERTY AllReceivedIsDone
CHECK_DEADLOCK FALSE
