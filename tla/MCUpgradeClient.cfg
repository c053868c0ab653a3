SPECIFICATION Spec
CONSTANTS
  TransferEncodingName <- TransferEncodingLiteral
  ContentLength <- ContentLengthLiteral
  Chunked <- ChunkedLiteral
  StaticStr <- Http1Literal
  Upgrade <- UpgradeLiteral
  HEAD = HEAD
  CONNECT = CONNECT
  GET = GET
  Streams <- Answers
  MaxPiece = 12
  UintMax = 255
INVARIANT UpgradeKeepsTheRest
PROPERTY UpgradeHappens
