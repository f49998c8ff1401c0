SPECIFICATION Spec
CONSTANTS
  RxMax = 2
  CloseIn <- OpenClose
  SendIn <- QuietSend
  TxData <- NoData
  PingData <- NoData
  AppCodes = {1000, 1005}
  Reasons <- NoData
  PongMax = 3
  PeerOps = {"CLOSE", "PING", "PONG", "BINARY", "RESERVE"}
  PeerSizes = {0, 1, 2, 3, 126}
  PeerExt = {0}
  PeerCodes = {1000, 1005, 3000, 999}
  PeerBytes <- OneKey
  PeerKeys <- OneKey
  PeerMasks = {FALSE}
  PeerRsv = {FALSE, TRUE}
  MaxChunk = 3
  MaxMsg = 3
INVARIANTS ClosedIsClosed
