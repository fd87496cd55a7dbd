CHECK_DEADLOCK FALSE
CONSTANTS
  Endpoint <- MCEndpoint
  Project = "p"
  Paths <- MCPaths
  HeaderCount = 3
  MaxFaults = 2
SPECIFICATION Spec
INVARIANTS
  CurlReleased
  HeadersAreSuffix
  OverrideMatchesUrl
