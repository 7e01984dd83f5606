CONSTANTS
  UWidth = 16
  Input <- MCInput
  RandBytes = {0, 4}
  Modes = {"vanilla", "rb", "rb_nomask", "shadow"}
  Keys <- MCKeys
  TokenSets <- MCTokenSets
  MayAbandon = TRUE
  NoArith = FALSE
  EffScale2 = 1
  EffMinLen = 4
  EffMaxPerc = 50
  MinAutoExtra = 3
  MaxAutoExtra = 4
  UserExtras <- MCUserExtras
  MaxDetExtras = 1
  AExtras <- MCAExtras
  UseAutoExtras = 1
  MaxFile = 8
SPECIFICATION Spec
CHECK_DEADLOCK FALSE
INVARIANTS
  TypeOK
  AutoExtrasAreTokens
  OverwriteExecutesDistinct
PROPERTIES
  Calibration
