SPECIFICATION Spec
CONSTANTS
  RxMax = 3
  CloseIn <- QuietClose
  SendIn <- QuietSend
  TxData <- OneByte
  PingData <- LongPing
  AppCodes = {1000, 1006}
  Reasons <- OneByte
  PongMax = 3
  PeerOps = {"CLOSE", "PING"}
  PeerSizes = {0, 2}
  PeerExt = {0}
  PeerCodes = {1000}
  PeerBytes <- OneKey
  PeerKeys <- OneKey
  PeerMasks = {FALSE}
  PeerRsv = {FALSE}
  MaxChunk = 2
  MaxMsg = 3
INVARIANTS PeerOk
