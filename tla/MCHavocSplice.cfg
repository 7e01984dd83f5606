CONSTANTS
  UWidth = 16
  L = 4
  TargetLens = {4, 5}
  ExtraLens = {1}
  Stackings = {1}
  Ops <- MCOpsSplice
  StageMax0 = 1
  SpliceStageMax = 1
  OrigPerf = 100
  HavocMaxMult = 1
  SpliceCycles = 2
  UseSplicing = TRUE
  ReadyForSplicing = 2
  MinLenOpt = 8
  MaxFile = 6
  BlkXL = 1
  RbMode = TRUE
  FRESH = FRESH
  WR = WR
  EOB = EOB
  JUNK = JUNK
  UB = UB
INIT Init
NEXT Next
CHECK_DEADLOCK FALSE
INVARIANTS
  MaskCoversBuffer
