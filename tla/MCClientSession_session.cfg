SPECIFICATION FairSpec
INVARIANT OneSession
PROPERTIES ImplementsStore GuardReleased
CONSTANTS
    Requests = {1, 2}
    CallbackStores = FALSE
    MaxSessions = 2
    MaxRenewals = 2
    None = None
