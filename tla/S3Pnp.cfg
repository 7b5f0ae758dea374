SPECIFICATION Spec
CONSTANTS
  Env = {"failure", "surprise"}
  MaxDrift = 3
INVARIANTS HardwareInv QueueInv
PROPERTIES PnpCompletes QueueResumes
\* The device is removed at the end.
CHECK_DEADLOCK FALSE
