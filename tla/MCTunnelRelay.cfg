SPECIFICATION Spec
CONSTANTS
  MaxApp = 3
  MaxHop = 2
  ReadHalf = 2
  SockBuf = 2
  TunBuf = 1
INVARIANTS InOrder NothingDropped OrderlyEnd
PROPERTIES MutualBlockIsFinal Delivery EndPropagates
CHECK_DEADLOCK FALSE
