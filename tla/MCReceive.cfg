SPECIFICATION FairSpec
CONSTANTS
  RxMax = 2
  CloseIn = {}
  SendIn = {}
  TxData <- NoData
  PingData <- NoData
  AppCodes = {1000}
  Reasons <- NoData
  PongMax = 4
  PeerOps = {"TEXT", "BINARY", "CONTINUE", "PING"}
  PeerSizes = {0, 1, 3, 126, 127}
  PeerExt = {0, 2}
  PeerCodes = {1000}
  PeerBytes <- Utf8Bytes
  PeerKeys <- OneKey
  PeerMasks = {FALSE}
  PeerRsv = {FALSE}
  MaxChunk = 2
  MaxMsg = 4
INVARIANTS InOrder RxAgrees TextIsUtf8 PingKept
PROPERTIES Boundaries Delivered PongSent
