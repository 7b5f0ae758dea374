SPECIFICATION Spec
CONSTANTS
  Env = {"failure", "dataerror"}
  Runs = 3
  MaxQueue = 2
INVARIANT AppInv
PROPERTIES ShownIsReal RunEnds
\* The form may have lost its controls.
CHECK_DEADLOCK FALSE
