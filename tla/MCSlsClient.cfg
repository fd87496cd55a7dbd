CHECK_DEADLOCK FALSE
CONSTANTS
  Config <- MCConfig
  Input <- MCInput
  Status = {200, 299, 300, 400, 408, 429, 499, 500, 501, 502, 503, 504, 505, 599}
  Dates = {"date1", "date2"}
  IntMax = 8
  Lz4MaxInput = 6
SPECIFICATION FairSpec
INVARIANTS
  SentRequestVerifies
  OkMeansStored
PROPERTY KeepsPutPromise
