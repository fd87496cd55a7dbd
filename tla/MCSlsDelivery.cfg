CHECK_DEADLOCK FALSE
CONSTANTS
  chunk = chunk
  Chunk = {chunk}
  Events <- MCEvents
  Overhead <- MCOverhead
  MaxRaw = 5
  MaxCalls = 3
  MaxFaults = 1
SPECIFICATION DeliverySpec
INVARIANTS
  StoredInOrder
  OkMeansChunkStored
  DuplicatesNeedRetries
PROPERTY DeliversChunks
