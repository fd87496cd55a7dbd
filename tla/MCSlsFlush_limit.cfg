CHECK_DEADLOCK FALSE
CONSTANTS
  long = long
  odd = odd
  Chunk = {long}
  Events <- MCEvents
  Overhead <- MCOverhead
  MaxRaw = 6
  MaxCalls = 2
  MaxFaults = 0
SPECIFICATION Spec
INVARIANT BatchWithinLimit
