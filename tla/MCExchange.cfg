SPECIFICATION Spec
CONSTANTS
  RxMax = 4
  CloseIn <- QuietClose
  SendIn <- QuietSend
  TxData <- Halves
  PingData <- OneByte
  AppCodes = {1000, 1006}
  Reasons <- Cut
  PongMax = 4
  PeerOps = {"BINARY", "CLOSE", "PING"}
  PeerSizes = {0, 3, 5}
  PeerExt = {0}
  PeerCodes = {1000, 1006, 3000}
  PeerBytes <- TwoKeys
  PeerKeys <- TwoKeys
  PeerMasks = {TRUE}
  PeerRsv = {FALSE}
  MaxChunk = 1
  MaxMsg = 5
INVARIANTS PeerOk TxAgrees InOrder
