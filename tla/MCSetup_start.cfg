SPECIFICATION MCSpec
INVARIANTS StartSafe SetupSafe
PROPERTIES LegacyUntouched EventuallyComplete
CONSTANTS
    Definitions <- MCDefinitions
    Fields <- MCFields
    WithLegacy = {"table_permissions"}
    RolesTable = "roles"
    PermissionsTable = "table_permissions"
    Schemas <- MCSchemas
    MaxFaults = 3
    None = None
    ExampleTables <- MCExampleTables
    WithUnique = {"books", "users"}
    MaxCopies = 2
