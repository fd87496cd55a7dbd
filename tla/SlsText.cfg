CHECK_DEADLOCK FALSE
CONSTANTS
  Byte = {0, 10, 31, 34, 45, 47, 58, 65, 92, 99, 117, 255}
  MaxLen = 4
SPECIFICATION StringSpec
INVARIANTS
  EncodersReadBack
  ExtractReadsBack
