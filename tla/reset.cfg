SPECIFICATION FairResetSpec
CONSTANTS
  w1 = w1
  w2 = w2
  t1 = t1
  k1 = k1
  Accounts <- TwoAccounts
  Keys = {k1}
  Workers = {w1, w2}
  Tellers = {t1}
  Sessions = {w1, w2, t1}
  Null = Null
  MaxCents = 3
  Orders <- BothWaysAndNone
  Modes = {TRUE}
  MaxRetries = 2
  ClientsOverlap = FALSE
  Deltas <- PlusMinus
  MutateRetries = 2
  MaxEntries = 2
  Opening <- OneOpened
  Restarts = FALSE
  MaxResets = 1
INVARIANTS
  LedgerChain
  BookingCurrent
PROPERTIES
  NoLostUpdate
  ImplementsResettableBank
  AcceptedWhenAnswered
  RequestsEnd
  MutationsEnd
