SPECIFICATION Spec
CONSTANTS
  w1 = w1
  w2 = w2
  k1 = k1
  k2 = k2
  Accounts <- TwoAccounts
  Keys = {k1, k2}
  Workers = {w1, w2}
  Tellers = {}
  Sessions = {w1, w2}
  Null = Null
  MaxCents = 3
  Orders <- Crossing
  Modes = {TRUE, FALSE}
  MaxRetries = 3
  ClientsOverlap = FALSE
  Deltas = {}
  MutateRetries = 3
  MaxEntries = 0
  Opening <- RichAndPoor
  Restarts = FALSE
SYMMETRY Symmetry
PROPERTIES
  UnbookedLeftToItsKey
