SPECIFICATION ConsumerSpec
CONSTANTS
  TransferEncodingName <- TransferEncodingStandIn
  ContentLength <- ContentLengthStandIn
  Chunked <- ChunkedStandIn
  StaticStr <- StaticStrStandIn
  HEAD = HEAD
  CONNECT = CONNECT
  Methods = {HEAD, CONNECT, OTHER}
  Alphabet = {13, 10, 32, 58, 48, 50, 52}
  MaxBuf = 3
  ShrinkAfterEof = TRUE
  UintMax = 2
INVARIANT ShrinkLosesNothing
