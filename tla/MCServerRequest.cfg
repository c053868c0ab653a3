SPECIFICATION Spec
CONSTANTS
  Host <- HostLiteral
  TransferEncodingName <- TransferEncodingLiteral
  ContentLength <- ContentLengthLiteral
  Chunked <- ChunkedLiteral
  StaticStr <- SpHttp1Literal
  Connection <- ConnectionLiteral
  CloseOption <- CloseLiteral
  KeepAlive <- KeepAliveLiteral
  UpgradeOption <- UpgradeLiteral
  Streams <- Corpus
  Pieces = {1, 5, 60}
  UintMax = 255
INVARIANTS
  SignalsTellTheRequest
  ConnectionIsKept
  UpgradeHasTheRest
PROPERTY RequestsAreTold
