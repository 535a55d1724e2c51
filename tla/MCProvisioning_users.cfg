SPECIFICATION MCSpec
INVARIANTS AloneIdentitiesUnique RowsExplained NoEntryWhenBarred
PROPERTY RepeatedBootstrapCompletes
CONSTANTS
  Requests = {1, 2}
  Providers = {"local", "external"}
  Tokens <- AllTokens
  LocalUsers <- AllLocal
  Admins <- MCAdmin
  Roles = {"admin", "dev"}
  Ops = {"validate", "local", "status", "bootstrap"}
  MaxUsers = 3
  MaxFaults = 2
  None = None
