SPECIFICATION EpSpec
CONSTANTS
  MwrCount = 1
  MrdCount = 1
  MwrLen = 1
  MrdLen = 2
  MwrAddr = 4
  MrdAddr = 16
  Mwr64 = FALSE
  MwrWrr = 0
  MrdWrr = 0
  CountSpan = 4
  DwSpan = 4
  AddrSpan = 32
  LowSpan = 32
  WrrSpan = 1
  DstDiscontinues = FALSE
  BusMasterToggles = FALSE
  ResetTakes = TRUE
  Env = {"wrongdata", "refused"}
  MaxStall = 1
  CplSpan = 4
  SizeSpan = 8
INVARIANTS
  EpInv
  WritesLand
PROPERTIES
  ImplementsTxEngine
  AnsweredOnce
  StatusIsReal
  ResetClears
  ReadsAnswered
  InterruptsArrive
  TurnoffIsSafe
