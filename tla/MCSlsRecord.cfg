CHECK_DEADLOCK FALSE
CONSTANTS
  Token <- MCToken
  Value <- MCValue
  Event <- MCEvent
  MaxDepth = 1
  TimeRange = 16
  Now = 5
  Failing <- MCFailing
SPECIFICATION Spec
INVARIANTS
  LogFaithful
  LogEncodable
  FailuresContained
