SPECIFICATION Spec
CONSTANTS
    Users = {u1}
    Requests = {r1, r2}
    Tables = {t1}
    Actions = {"read"}
    Names = {"admin"}
    None = None
    MaxEntries = 1
    TTL = 1
    MaxRows = 3
    Faults = {"fail", "crash"}
    Ops <- AllOps
    Roles <- MCRoles
    Grants <- MCGrants
    Batches <- MCBatches
    SeedRoles <- MCSeedRoles
    SeedUserRoles <- MCSeedUserRoles
    SeedPermissions <- MCSeedPermissions
SYMMETRY Symmetric
INVARIANTS TypeOK  
