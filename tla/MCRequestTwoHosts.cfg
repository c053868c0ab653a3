SPECIFICATION ConsumerSpec
CONSTANTS
  Host <- HostStandIn
  TransferEncodingName <- TransferEncodingStandIn
  ContentLength <- ContentLengthStandIn
  Chunked <- ChunkedStandIn
  StaticStr <- StaticStrStandIn
  Alphabet = {13, 10, 32, 58, 48, 50}
  MaxBuf = 3
  UintMax = 2
INVARIANT TwoHostsAreRefused
