SPECIFICATION MCSpec
INVARIANTS  ClientsLimited
PROPERTY RequestsAnswered
CONSTANTS
  Requests = {1, 2}
  Users = {1}
  Addresses <- MCAddresses
  Tokens <- MCTokens
  Routes <- MCRoutes
  Grants <- MCGrants
  Providers = {"local", "external"}
  IpMax = 2
  UserMax = 2
  AdminMax = 3
  MaxHits = 3
  None = None
