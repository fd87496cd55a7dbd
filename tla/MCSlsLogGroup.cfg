CONSTANTS
  Contents <- MCContents
  Stamps <- MCStamps
  Labels <- MCLabels
  MaxLogs = 2
  MaxContents = 2
SPECIFICATION Spec
INVARIANTS
  EncodedSizeExact
PROPERTY CountedIsFinal
