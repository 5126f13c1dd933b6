SPECIFICATION FairSpec
CONSTANTS
  Default <- DefaultAccount
  Wanted <- TwoAccounts
  Air <- HomeOnline
  MaxBoots = 2
  MaxDrops = 1
  PowerFails = TRUE
  WritesFail = TRUE
INVARIANTS
  TypeOK
  NeverMixed
  AckedIsStored
  SetUpOnce
PROPERTIES
  SetUpCompletes
  LedTellsLink
