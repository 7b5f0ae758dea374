SPECIFICATION Spec
CONSTANTS
  Env = {"failure", "latefailure", "dataerror", "interruptsoff", "latedpc"}
  Runs = 2
  MaxQueue = 1
PROPERTIES StartsNoLess NumbersAreReal
\* The form may have lost its controls.
CHECK_DEADLOCK FALSE
