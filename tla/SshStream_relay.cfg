SPECIFICATION RelaySpec
CONSTANTS
  Window = 4
  MinAdjust = 2
  PacketMax = 2
  Missing = 2
  PeerWindow = 2
  ReadSizes = {1, 2}
  WriteSizes = {1, 3}
  DataBytes = 4
  ExtBytes = 1
  Mod = 64
  MaxCalls = 4
  MaxBlock = 0
  MaxAbandon = 1
INVARIANT RelayLosesNothing
CHECK_DEADLOCK FALSE
