SPECIFICATION MCSpec
CONSTANTS
    Sample <- MCSample
    FirstBooks <- MCFirstBooks
    FirstAuthors <- MCFirstAuthors
    Schema = "sql"
    Ops <- MCOps
    Users <- MCUsers
    Books <- MCBooks
    Authors <- MCAuthors
    Favorites <- MCFavorites
    Accounts <- MCAccounts
    UserChanges <- MCUserChanges
    BookChanges <- MCBookChanges
    Members = {"admin", "alice"}
    Administrators = {"admin"}
    Volumes <- MCVolumes
    Calls = {"c1", "c2"}
    Shelved = {1, 2, 3, 4}
    First = {1, 2, 3}
    MaxVersion = 1
    MaxTotal = 2
    Narrow = {1, 2}
    Found = {2, 3}
    ByAuthor = {3}
    Guest = FALSE
    StoreOps = {"get", "create", "update", "delete"}
    Views = {"home", "books", "authors"}
    Filters <- MCFilters
    None = None
    Requests = {r1, r2}
    Parts <- FrontendParts
INVARIANTS  ListsShown FavoritesShown
PROPERTIES SignedOutStays PageIsShown
