SPECIFICATION DriverSpec
CONSTANTS
  TransferEncodingName <- TransferEncodingLiteral
  ContentLength <- ContentLengthLiteral
  Chunked <- ChunkedLiteral
  StaticStr <- Http1Literal
  HEAD = HEAD
  CONNECT = CONNECT
  RequestMethods = {HEAD, CONNECT, GET}
  Streams <- Corpus
  MaxPiece = 6
  UintMax = 255
INVARIANTS
  PiecesDoNotMatter
  CloseIsReported
PROPERTIES
  StreamIsDrained
  TokensFollowGrammar
