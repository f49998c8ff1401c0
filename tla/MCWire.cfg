SPECIFICATION BenchSpec
CONSTANTS
  DataSizes = {0, 1, 5, 123, 124, 125, 126, 127, 128, 255, 256, 65534, 65535}
  ControlSizes = {0, 1, 2, 5, 123, 124, 125, 126, 65533}
  PeerLengths = {0, 1, 125, 126, 127, 255, 256, 65535, 65536, 16777216, 70000001}
  Bytes = {0, 1, 15, 63, 64, 170, 252, 255}
  MaxEncoded = 4
  Chunks = {0, 1, 24, 36, 55, 56, 63, 64, 65, 130}
  MaxHashed = 194
  Messages <- AMessages
  Known <- AKnown
INVARIANTS HeaderRight SizeRight Utf8Right Base64Right BlocksRight RoundsRight
