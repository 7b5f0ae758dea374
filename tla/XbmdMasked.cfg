SPECIFICATION Spec
CONSTANTS
  MayFail = {"registers", "region", "irq", "device", "readbuf", "writebuf", "chrdev"}
  Env = {"dataerror"}
  Boards <- AllBoards
  MaxIter = 2
  MaxSize = 2
  MaxChanges = 3
PROPERTY ShownReadIsReal
CHECK_DEADLOCK FALSE
