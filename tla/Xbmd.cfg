SPECIFICATION Spec
CONSTANTS
  MayFail = {"registers", "region", "irq", "device", "readbuf", "writebuf", "chrdev"}
  Env = {"late", "fatal"}
  Boards <- AllBoards
  MaxIter = 2
  MaxSize = 2
  MaxChanges = 3
INVARIANTS DriverInv AppInv
PROPERTIES ShownIsReal IterationsAreGood RunsEnd
CHECK_DEADLOCK FALSE
