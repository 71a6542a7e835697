SPECIFICATION Spec
CONSTANTS
  None = None
  Word = 4096
  Replicas = {1, 2, 3, 4}
  Env <- Environments
  Lower <- ToLower
  ClientIds = {"liquida", "svc"}
  Accounts = {1}
  Texts <- AmountTexts
  MaxTokens = 2
  MaxErrors = 1
INVARIANTS
  AmountsExact
  TokenRoleCurrent
  ServiceMovesNothing
PROPERTIES
  SeedIdempotent
