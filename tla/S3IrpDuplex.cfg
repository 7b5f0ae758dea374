SPECIFICATION Spec
CONSTANTS
  w1 = w1
  w2 = w2
  w3 = w3
  w4 = w4
  r1 = r1
  NONE = NONE
  Irps = {w1, r1}
  Dirs = {"read", "write"}
  DirOf <- TwoWay
  LenOf <- OnePass
  MapRegMax = 1
  MaxTransfer = 2
  Env = {"duplex"}
INVARIANTS
  SuccessIsReal
CHECK_DEADLOCK FALSE
