SPECIFICATION MCSpec
INVARIANTS AnswersSound AccessFresh CatalogResolves ListingsBounded
PROPERTY Settles
CONSTANTS
    None = None
    TablePrefix <- MCTablePrefix
    SystemTables <- MCSystemTables
    MaxName = 3
    Requests = {1, 2}
    Paths <- MCPaths
    Titles <- MCTitles
    Fields = {"id", "a"}
    Lifetime = 2
    CallTime = 1
    Ops = {"list", "read", "create", "update", "delete"}
    Bodies <- MCBodies
    MaxTables = 2
    MaxChanges = 1
    MaxRows = 1
    Readers = {r1, r2}
    Urls = {u1, u2}
    TTL = 4
    ReadTime = 2
    Keys = {1, 2, 3}
    PageSize = 2
    PageTakes = {1, 3}
    PageNumbers = {1, 2}
