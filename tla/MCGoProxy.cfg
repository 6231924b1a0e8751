SPECIFICATION Spec
CONSTANTS
  MaxUp = 4
  MaxDown = 2
  MaxTraffic = 4
  SockBuf = 1
INVARIANTS InOrder LossBound CloseAfterUsers PanicOnlyInGap OnlyClientEnds
PROPERTIES StrandedForever ClientCloseEnds
CHECK_DEADLOCK FALSE
