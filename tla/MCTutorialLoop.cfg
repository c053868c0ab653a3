SPECIFICATION Spec
CONSTANTS
  Host <- HostLiteral
  TransferEncodingName <- TransferEncodingLiteral
  ContentLength <- ContentLengthLiteral
  Chunked <- ChunkedLiteral
  StaticStr <- SpHttp1Literal
  Streams <- Conversations
  AnyCut = FALSE
  UintMax = 255
PROPERTY ReadyGetsThisMessage
