\* Loads race changes of roles, with lost answers; the Map has two entries.
SPECIFICATION FairSpec
INVARIANT CacheSound
PROPERTIES EvictsOldestWhenFull StaleGrantExpires 
CONSTANTS
    Users = {u1, u2, u3}
    Requests = {r1, r2}
    MaxEntries = 2
    TTL = 2
    MaxRows = 4
    Faults = {"fail"}
    Ops = {"getUserPermissions", "deleteRole", "assignRoles"}
    Tables = {t1}
    Actions = {"read"}
    Names = {"admin"}
    None = None
    Roles <- MCRoles
    Grants <- MCGrants
    Batches <- MCBatches
    SeedRoles <- MCSeedRoles
    SeedUserRoles <- MCSeedUserRoles
    SeedPermissions <- MCSeedPermissions
