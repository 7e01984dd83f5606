\* Every MUT_ALG, the five mask-relevant cases, entries short enough to
\* mask SPLICE_OVERWRITE and long enough to mask SPLICE_INSERT, and enough
\* picks for one ADWIN-TS arm to fold two nodes and drop.
CONSTANTS
  Algs = {"uniform", "ucb", "klucb", "ts", "adsts", "dts", "dbe", "exppp", "expix"}
  FLIP_BIT1 = 0
  OVERWRITE_WITH_EXTRA = 1
  INSERT_EXTRA = 2
  SPLICE_OVERWRITE = 3
  SPLICE_INSERT = 4
  ExtrasCnts = {0, 1}
  ReadyCounts = {1, 2}
  Lens = {1, 3}
  MaxFile = 4
  BlkXL = 1
  StageMax = 3
  MaxPicks = 5
  AdwinM = 2
  MinElemToStartDrop = 4
  MinElemToCheck = 2
  DropInterval = 2
  AdaptiveResetting = FALSE
SPECIFICATION Spec
CHECK_DEADLOCK FALSE
INVARIANTS
  TypeOK
  ExecutedLegal
  PullsCounted
  AdwinSummarisesWindow
PROPERTIES
  AdwinRefinement
