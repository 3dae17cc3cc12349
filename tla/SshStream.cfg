SPECIFICATION Spec
CONSTANTS
  Window = 4
  MinAdjust = 2
  PacketMax = 2
  Missing = 2
  PeerWindow = 2
  ReadSizes = {1, 2}
  WriteSizes = {1, 3}
  DataBytes = 3
  ExtBytes = 1
  Mod = 64
  MaxCalls = 3
  MaxBlock = 1
  MaxAbandon = 1
INVARIANTS Inv WindowKeepsMoving BytesInOrder CloseIsClean
CHECK_DEADLOCK FALSE
