SPECIFICATION ConsumerSpec
CONSTANTS
  TransferEncodingName <- TransferEncodingStandIn
  ContentLength <- ContentLengthStandIn
  Chunked <- ChunkedStandIn
  StaticStr <- StaticStrStandIn
  HEAD = HEAD
  CONNECT = CONNECT
  Methods = {HEAD, CONNECT, OTHER}
  Alphabet = {13, 10, 32, 58, 48, 50, 52}
  MaxBuf = 3
  ShrinkAfterEof = FALSE
  UintMax = 2
INVARIANTS
  TypeOK
  TokenInsideBuffer
  FramingConsistent
  TokenIsMaximalRun
  ValueIsLeftTrimmed
  BodyNeverStarves
  FramingFollowsFields
  BodyIsComplete
  ConnectionIsReused
  RefusalIsJustified
PROPERTIES
  RetryIsNoop
  ExpectedTokenComes
