SPECIFICATION Spec
CONSTANTS
  Chunked <- ChunkedStandIn
  DigitBytes = {48, 49, 50, 53, 54, 57, 65, 102, 120}
  MaxDigits = 4
  Maxima = {9, 10, 15, 16, 99, 100, 255, 256}
  ListBytes = {99, 67, 122, 44, 32}
  MaxList = 6
INVARIANTS
  NumbersDecode
  DecodeNeverWraps
  ChunkedIsLastAndOnce
CHECK_DEADLOCK FALSE
