SPECIFICATION Spec
CONSTANTS
  Msg <- MCMsg
  MaxSent = 2
  MaxLen = 4
  ReadHalf = 2
  SockBuf = 6
  MaxIntr = 2
INVARIANTS StreamAligned BuffersReturned
PROPERTIES CarriesPackets
CHECK_DEADLOCK FALSE
