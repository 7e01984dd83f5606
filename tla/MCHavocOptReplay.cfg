CONSTANTS
  UWidth = 16
  L = 2
  TargetLens = {4}
  ExtraLens = {1}
  Stackings = {1, 2}
  Ops <- AllOps
  StageMax0 = 1
  SpliceStageMax = 1
  OrigPerf = 100
  HavocMaxMult = 1
  SpliceCycles = 1
  UseSplicing = FALSE
  ReadyForSplicing = 2
  MinLenOpt = 1
  MaxFile = 4
  BlkXL = 1
  RbMode = TRUE
  FRESH = FRESH
  WR = WR
  EOB = EOB
  JUNK = JUNK
  UB = UB
INIT Init
NEXT Next
CHECK_DEADLOCK FALSE
INVARIANT RestoreRoundTrip
