SPECIFICATION Spec
CONSTANTS
  w1 = w1
  w2 = w2
  w3 = w3
  w4 = w4
  r1 = r1
  NONE = NONE
  Irps = {w1, w2, w3}
  Dirs = {"write"}
  DirOf <- OneWay
  LenOf <- OnePass
  MapRegMax = 1
  MaxTransfer = 2
  Env = {"cancel", "remove", "stop", "threads"}
SYMMETRY Symmetry
INVARIANTS
  CompletedOnce
CHECK_DEADLOCK FALSE
