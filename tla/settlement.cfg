SPECIFICATION FairSpec
CONSTANTS
  Accounts <- TwoAccounts
  Keys = {1, 2, 3}
  MaxCents = 1
  Null = Null
  Asked <- ThereAndBack
  PageSize = 1
  Secrets = {"old", "new"}
INVARIANTS
  TypeOK
  ListedHaveMoved
  WalkMissesAtMostWhatLeft
PROPERTIES
  BacklogDrains
