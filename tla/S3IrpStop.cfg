SPECIFICATION Spec
CONSTANTS
  w1 = w1
  w2 = w2
  w3 = w3
  w4 = w4
  r1 = r1
  NONE = NONE
  Irps = {w1, w3, w4, r1}
  Dirs = {"read", "write"}
  DirOf <- TwoWay
  LenOf <- Mixed
  MapRegMax = 1
  MaxTransfer = 2
  Env = {"cancel", "remove", "shared", "stop"}
INVARIANTS
  SuccessIsReal
  EveryRequestHasAnOwner
  BufferIsHeld
  StoppedIsQuiet
CHECK_DEADLOCK FALSE
