SPECIFICATION Spec
CONSTANTS
  Keys = {1, 2, 3}
  Mine = {1, 3}
  PageSize = 1
  MaxEntries = 2
  Lists <- Everything
INVARIANTS
  EntriesInOrder
  WalkFindsWhatStays
  RepeatsAreArrivals
