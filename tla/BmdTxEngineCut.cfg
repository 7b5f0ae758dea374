SPECIFICATION Spec
CONSTANTS
  MwrCount = 2
  MrdCount = 2
  MwrLen = 3
  MrdLen = 2
  MwrAddr = 68
  MrdAddr = 72
  Mwr64 = TRUE
  MwrWrr = 1
  MrdWrr = 1
  CountSpan = 8
  DwSpan = 4
  AddrSpan = 128
  LowSpan = 64
  WrrSpan = 4
  DstDiscontinues = TRUE
  BusMasterToggles = TRUE
  ResetTakes = TRUE
INVARIANTS
  TransfersTile
  PayloadMatchesHeader
