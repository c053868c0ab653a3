SPECIFICATION Spec
CONSTANTS
  Host <- HostLiteral
  TransferEncodingName <- TransferEncodingLiteral
  ContentLength <- ContentLengthLiteral
  Chunked <- ChunkedLiteral
  StaticStr <- SpHttp1Literal
  Streams <- Conversations
  AnyCut = TRUE
  UintMax = 255
INVARIANT UnreadIsKept
