SPECIFICATION DriverSpec
CONSTANTS
  Host <- HostLiteral
  TransferEncodingName <- TransferEncodingLiteral
  ContentLength <- ContentLengthLiteral
  Chunked <- ChunkedLiteral
  StaticStr <- SpHttp1Literal
  Streams <- Corpus
  MaxPiece = 6
  UintMax = 255
INVARIANT PiecesDoNotMatter
PROPERTY StreamIsDrained
