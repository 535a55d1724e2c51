SPECIFICATION Spec
INVARIANT OneRowEach
PROPERTY OperationsEffective
CONSTANTS
    Users = {u1}
    Requests = {r1}
    MaxEntries = 1
    TTL = 1
    MaxRows = 5
    Faults = {"fail", "crash"}
    Ops <- AdminOps
    Tables = {t1, t2}
    Actions = {"read"}
    Names = {"admin"}
    None = None
    Roles <- MCRoles
    Grants <- MCGrants
    Batches <- MCBatches
    SeedRoles <- MCSeedRoles
    SeedUserRoles <- MCSeedUserRoles
    SeedPermissions <- MCSeedPermissions
