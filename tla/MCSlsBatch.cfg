CHECK_DEADLOCK FALSE
CONSTANTS
  Log <- MCLog
  Encodable <- MCEncodable
  RawSize <- MCRawSize
  LogSeqs <- MCLogSeqs
  Options <- MCOptions
SPECIFICATION BatchSpec
INVARIANTS
  RequestsFit
  RequestsFill
  RequestsComplete
