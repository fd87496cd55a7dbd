CHECK_DEADLOCK FALSE
CONSTANTS
  Call = {c1, c2}
  Answer <- MCAnswer
  MaxConn = 1
  MaxFaults = 2
SPECIFICATION FairSpec
INVARIANTS
  ConnectionsReturned
  AnswerDecides
  
  RequestIdTrue
PROPERTIES
  KeepsPutPromise
  CallsReturn
