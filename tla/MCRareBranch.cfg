CONSTANTS
  Branches = {0, 1, 2}
  Entries = {1, 2}
  Trace <- MCTrace
  MaxRare = 4
  MaxHits = 4
  RareExps = {1, 3}
  BlInit = 2
  MaxBlacklist = 3
  UseBranchMask = TRUE
  RunWithShadow = FALSE
INIT Init
NEXT Next
INVARIANTS
  TypeOK
  RarestIsLowestClass
  SelectionSound
  BlacklistFits
