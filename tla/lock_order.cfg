SPECIFICATION FairSpec
CONSTANTS
  s1 = s1
  s2 = s2
  s3 = s3
  k1 = k1
  k2 = k2
  Sessions = {s1, s2}
  Accounts = {1, 2}
  Keys = {k1, k2}
  Ends <- BothWays
  MaxResetAttempts = 3
  Null = Null
INVARIANTS
  CirclesExplained
  TransferHoldersPass
PROPERTIES
  EveryoneEnds
