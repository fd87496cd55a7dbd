CHECK_DEADLOCK FALSE
CONSTANTS
  long = long
  odd = odd
  Chunk = {long, odd}
  Events <- MCEvents
  Overhead <- MCOverhead
  MaxRaw = 6
  MaxCalls = 2
  MaxFaults = 1
SPECIFICATION FairSpec
INVARIANTS
  TypeOK
  NoRecordLost
  RecordsInOrder
  OkMeansAccepted
  FailureEndsCall
  NoEmptyPut
  CutAtLimit
  HandlesBalanced
  MetricsComplete
PROPERTY ChunkEnds
