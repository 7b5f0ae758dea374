SPECIFICATION FairSpec
CONSTANTS
  MwrCount = 4
  MrdCount = 4
  MwrLen = 4
  MrdLen = 2
  MwrAddr = 4
  MrdAddr = 16
  Mwr64 = FALSE
  MwrWrr = 2
  MrdWrr = 1
  CountSpan = 8
  DwSpan = 4
  AddrSpan = 128
  LowSpan = 64
  WrrSpan = 4
  DstDiscontinues = FALSE
  BusMasterToggles = FALSE
  ResetTakes = TRUE
INVARIANTS
  TypeOK
  WriteDoneIsExact
  ReadRequestsAreExact
  TransferInv
  WeightBoundsTheRow
PROPERTIES
  TransfersComplete
