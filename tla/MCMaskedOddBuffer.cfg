SPECIFICATION Spec
CONSTANTS
  RxMax = 3
  CloseIn = {}
  SendIn = {}
  TxData <- NoData
  PingData <- NoData
  AppCodes = {1000}
  Reasons <- NoData
  PongMax = 4
  PeerOps = {"BINARY", "PING"}
  PeerSizes = {2, 6}
  PeerExt = {0, 2}
  PeerCodes = {1000}
  PeerBytes <- TwoKeys
  PeerKeys <- TwoKeys
  PeerMasks = {FALSE, TRUE}
  PeerRsv = {FALSE}
  MaxChunk = 2
  MaxMsg = 6
INVARIANTS InOrder
