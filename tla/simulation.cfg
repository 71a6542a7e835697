SPECIFICATION FairSpec
CONSTANTS
  c1 = c1
  w1 = w1
  w2 = w2
  Main = Main
  Callers = {c1, Main}
  Workers = {w1, w2}
  Transfers = 2
  Accounts = 1
  MaxConflictAttempts = 2
  MaxResetAttempts = 2
  MaxRuns = 2
  Null = Null
INVARIANTS
  TypeOK
  OneExecution
  ResetAlone
  CountersAddUp
  CancelLeavesNoOrphan
  IdleMeansEmpty
PROPERTIES
  StopReturns
  RunsEnd
