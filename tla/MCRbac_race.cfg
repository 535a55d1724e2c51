\* A load in flight stores what it read before the change.
SPECIFICATION Spec
INVARIANT ClearedOnChange
CONSTANTS
    Users = {u1}
    Requests = {r1, r2}
    MaxEntries = 1
    TTL = 1
    MaxRows = 3
    Faults = {}
    Ops = {"getUserPermissions", "deleteRole"}
    Tables = {t1}
    Actions = {"read"}
    Names = {"admin"}
    None = None
    Roles <- MCRoles
    Grants <- MCGrants
    Batches <- MCBatches
    SeedRoles <- MCSeedRoles
    SeedUserRoles <- MCSeedUserRoles
    SeedPermissions <- MCSeedPermissions
