------------------------------- MODULE Rbac -------------------------------
(***************************************************************************)
(* Role-based access control of the middleware: the permission load of      *)
(* PermissionsService with its cache, and the operations of RolesService,   *)
(* UserRolesService and PermissionsManagementService that change what the   *)
(* load reads.                                                              *)
(*                                                                          *)
(* The tables roles, user_roles and table_permissions live in NocoDB.  Each *)
(* request to the middleware is a process that awaits one NocoDB call after *)
(* another; between two calls of one request any other request may run.     *)
(* pc[r] names the call request r is waiting for, or the code that runs     *)
(* when the answer of its last call arrives ("store...", "clear...").       *)
(***************************************************************************)
EXTENDS PermissionsCache

CONSTANTS Requests,   \* requests the middleware handles concurrently
          Tables,     \* logical table names
          Actions,    \* CrudAction
          Roles,      \* role ids, given out by NocoDB in ascending order
          Names,      \* role names
          Ops,        \* the operations the clients call
          Batches,    \* the permission lists sent with setTablePermissions
          Faults,     \* the faults that may happen: a subset of {"fail", "crash"}
          MaxRows,    \* bound on the row ids given out by NocoDB: beyond it,
                      \* as beyond the last of Roles, NocoDB refuses to create
          SeedRoles, SeedUserRoles, SeedPermissions, \* contents at the start
          None        \* no value

RoleRow == [id : Roles, name : Names, system : BOOLEAN]
UserRoleRow == [id : Nat, user : Users, role : Roles]
Item == [table : Tables, acts : SUBSET Actions]
PermissionRow == [id : Nat, role : Roles, table : Tables, acts : SUBSET Actions]

ASSUME RbacAssumption ==
    /\ Roles \subseteq Nat
    /\ Grants = Tables \X Actions
    /\ Batches \subseteq SUBSET Item
    /\ MaxRows \in Nat
    /\ IsFiniteSet(SeedRoles)
    /\ IsFiniteSet(SeedUserRoles)
    /\ IsFiniteSet(SeedPermissions)
    /\ SeedRoles \subseteq RoleRow
    /\ SeedUserRoles \subseteq UserRoleRow
    /\ SeedPermissions \subseteq PermissionRow
    /\ \A x, y \in SeedRoles : x.id = y.id => x = y
    /\ \A x, y \in SeedUserRoles : x.id = y.id => x = y
    /\ \A x, y \in SeedPermissions : x.id = y.id => x = y
    /\ \A x \in SeedUserRoles \cup SeedPermissions :
          x.id <= Cardinality(SeedUserRoles) + Cardinality(SeedPermissions)
    /\ None \notin Users \cup Roles

VARIABLES
    roles, userRoles, tablePermissions, \* the tables in NocoDB
    nextRole, nextRow,                  \* ids NocoDB gives out next
    cache,                              \* permissionsCache
    pc, local,                          \* control state and locals of requests
    overtaken, excused                  \* history: see Coherent below

tables == <<roles, userRoles, tablePermissions, nextRole, nextRow>>
vars == <<tables, cache, pc, local, overtaken, excused>>

-----------------------------------------------------------------------------
(* What the tables mean. *)

RoleIds == {x.id : x \in roles}
Assigned(u) == {x.role : x \in {y \in userRoles : y.user = u}}
Active(u) == Assigned(u) \cap RoleIds

\* The union over the rows of a set of roles, as the load aggregates them.
Granted(R) ==
    UNION {{x.table} \X x.acts : x \in {y \in tablePermissions : y.role \in R}}

\* What an uninterrupted load of u would return now.
Effective(u) == Granted(Active(u))

-----------------------------------------------------------------------------
(* Requests. *)

Blank == [user |-> None, role |-> None, roleIds |-> {}, rows |-> {},
          items |-> {}, value |-> {}, data |-> None]

Removing == {"deletePermission", "deleteNext"}
OnUser == {"readUserRoles", "readRoles", "readPermissions", "storePermissions",
           "findAssignment", "createAssignment", "findRemoval",
           "deleteAssignment", "clearUser"}
OnRole == {"deleteRole", "createAssignment", "findRemoval", "listSource",
           "findPermission", "writePermission", "listPermissions", "clearAll"}
          \cup Removing
PC == OnUser \cup OnRole \cup {"idle", "findRole", "createRole"}

\* r has changed a table and the clearCache that follows has not run.
Unannounced(r) == pc[r] \in {"clearUser", "clearAll", "deleteNext"}

\* The users whose entries that clearCache is about.
Affected(r) == IF pc[r] = "clearUser" THEN {local[r].user} ELSE Users

\* Loads for a user of S that have read user_roles and may still store.
Loading(S) ==
    {r \in Requests :
        /\ pc[r] \in {"readRoles", "readPermissions", "storePermissions"}
        /\ local[r].user \in S}

Start(r, op, p, args) ==
    /\ op \in Ops
    /\ pc[r] = "idle"
    /\ pc' = [pc EXCEPT ![r] = p]
    /\ local' = [local EXCEPT ![r] = args]
    /\ UNCHANGED <<tables, cache, overtaken, excused>>

Goto(r, p) == pc' = [pc EXCEPT ![r] = p]

\* The request ends, by return or by exception.  If it had changed a table
\* without reaching its clearCache, that is recorded in the history.
Finish(r) ==
    /\ Goto(r, "idle")
    /\ local' = [local EXCEPT ![r] = Blank]
    /\ IF Unannounced(r)
       THEN /\ overtaken' = overtaken \cup Loading(Affected(r))
            /\ excused' = excused \cup (DOMAIN cache \cap Affected(r))
       ELSE /\ overtaken' = overtaken \ {r}
            /\ UNCHANGED excused

-----------------------------------------------------------------------------
(* getUserPermissions.  A hit returns the cached value and changes nothing;  *)
(* a miss reads user_roles, roles and table_permissions one after the other. *)

StartLoad(r, u) ==
    /\ ~Hit(cache, u)
    /\ Start(r, "getUserPermissions", "readUserRoles", [Blank EXCEPT !.user = u])

\* No assigned role: empty permissions are returned and not cached.
ReadUserRoles(r) ==
    LET roleIds == Assigned(local[r].user) IN
    /\ pc[r] = "readUserRoles"
    /\ \/ /\ roleIds = {}
          /\ Finish(r)
       \/ /\ roleIds # {}
          /\ Goto(r, "readRoles")
          /\ local' = [local EXCEPT ![r].roleIds = roleIds]
          /\ UNCHANGED <<overtaken, excused>>
    /\ UNCHANGED <<tables, cache>>

\* Slip: roles that no longer exist are kept.
ActiveRoleIdsAll(r) == local[r].roleIds

\* Only roles that still exist may grant access.
ActiveRoleIds(r) == local[r].roleIds \cap RoleIds

ReadRoles(r) ==
    /\ pc[r] = "readRoles"
    /\ \/ /\ ActiveRoleIds(r) = {}
          /\ Finish(r)
       \/ /\ ActiveRoleIds(r) # {}
          /\ Goto(r, "readPermissions")
          /\ local' = [local EXCEPT ![r].roleIds = ActiveRoleIds(r)]
          /\ UNCHANGED <<overtaken, excused>>
    /\ UNCHANGED <<tables, cache>>

ReadPermissions(r) ==
    /\ pc[r] = "readPermissions"
    /\ Goto(r, "storePermissions")
    /\ local' = [local EXCEPT ![r].value = Granted(local[r].roleIds)]
    /\ UNCHANGED <<tables, cache, overtaken, excused>>

\* The answer of the last read arrives: cachePermissions, then return.
StorePermissions(r) ==
    /\ pc[r] = "storePermissions"
    /\ cache' = CachePermissions(cache, local[r].user, local[r].value)
    /\ excused' = (IF r \in overtaken THEN excused \cup {local[r].user}
                   ELSE excused \ {local[r].user}) \cap DOMAIN cache'
    /\ overtaken' = overtaken \ {r}
    /\ Goto(r, "idle")
    /\ local' = [local EXCEPT ![r] = Blank]
    /\ UNCHANGED tables

-----------------------------------------------------------------------------
(* The end of every change: its answer arrives and the cache is cleared.     *)

\* clearCache() without a user.  A list of permissions goes on to its next item.
ClearAllEntries(r) ==
    /\ pc[r] = "clearAll"
    /\ cache' = ClearAll(cache)
    /\ excused' = {}
    /\ overtaken' = overtaken \cup Loading(Users)
    /\ IF local[r].items = {}
       THEN /\ Goto(r, "idle")
            /\ local' = [local EXCEPT ![r] = Blank]
       ELSE /\ Goto(r, "findPermission")
            /\ UNCHANGED local
    /\ UNCHANGED tables

\* clearCache(userId).  A list of roles goes on to its next role.
ClearUserEntry(r) ==
    LET u == local[r].user IN
    /\ pc[r] = "clearUser"
    /\ cache' = ClearUser(cache, u)
    /\ excused' = excused \ {u}
    /\ overtaken' = overtaken \cup Loading({u})
    /\ IF local[r].roleIds = {}
       THEN /\ Goto(r, "idle")
            /\ local' = [local EXCEPT ![r] = Blank]
       ELSE /\ Goto(r, "findAssignment")
            /\ UNCHANGED local
    /\ UNCHANGED tables

-----------------------------------------------------------------------------
(* RolesService *)

StartCreateRole(r, row) ==
    Start(r, "createRole", "findRole", [Blank EXCEPT !.data = row])

\* findRoleByName: a role of that name is a conflict.
FindRole(r) ==
    /\ pc[r] = "findRole"
    /\ \/ /\ \E x \in roles : x.name = local[r].data.name
          /\ Finish(r)
       \/ /\ \A x \in roles : x.name # local[r].data.name
          /\ Goto(r, "createRole")
          /\ UNCHANGED <<local, overtaken, excused>>
    /\ UNCHANGED <<tables, cache>>

\* The cache is not cleared.  Users who were assigned the id before the role
\* existed keep an entry without its permissions: that is recorded.
CreateRole(r) ==
    LET holders == {u \in Users : nextRole \in Assigned(u)}
        row == [id |-> nextRole, name |-> local[r].data.name,
                system |-> local[r].data.system]
    IN
    /\ pc[r] = "createRole"
    /\ \/ /\ nextRole \in Roles
          /\ roles' = roles \cup {row}
          /\ nextRole' = nextRole + 1
          /\ excused' = excused \cup (holders \cap DOMAIN cache)
          /\ overtaken' = overtaken \cup Loading(holders)
          /\ Goto(r, "idle")
          /\ local' = [local EXCEPT ![r] = Blank]
       \/ /\ nextRole \notin Roles
          /\ Finish(r)
          /\ UNCHANGED <<roles, nextRole>>
    /\ UNCHANGED <<userRoles, tablePermissions, nextRow, cache>>

StartDeleteRole(r, role) ==
    Start(r, "deleteRole", "deleteRole", [Blank EXCEPT !.role = role])

\* Slip: the role is deleted and the request returns without clearCache.
DeleteRoleUncleared(r) ==
    LET found == {x \in roles : x.id = local[r].role} IN
    /\ pc[r] = "deleteRole"
    /\ roles' = roles \ found
    /\ Finish(r)
    /\ UNCHANGED <<userRoles, tablePermissions, nextRole, nextRow, cache>>

\* A missing record is answered with 404.  Neither user_roles nor
\* table_permissions is touched, nor is is_system_role looked at.
DeleteRole(r) ==
    LET found == {x \in roles : x.id = local[r].role} IN
    /\ pc[r] = "deleteRole"
    /\ \/ /\ found = {}
          /\ Finish(r)
          /\ UNCHANGED roles
       \/ /\ found # {}
          /\ roles' = roles \ found
          /\ Goto(r, "clearAll")
          /\ UNCHANGED <<local, overtaken, excused>>
    /\ UNCHANGED <<userRoles, tablePermissions, nextRole, nextRow, cache>>

-----------------------------------------------------------------------------
(* UserRolesService.  assignRole is assignMultipleRoles of one role; roleIds *)
(* holds the roles of the request that are still to be assigned.             *)

StartAssignRoles(r, u, R) ==
    /\ R # {}
    /\ Start(r, "assignRoles", "findAssignment",
             [Blank EXCEPT !.user = u, !.roleIds = R])

AssignmentRows(u, role) == {x \in userRoles : x.user = u /\ x.role = role}

\* Slip: the role looked up is not the one handed to create.
FindAssignmentUnset(r) ==
    /\ pc[r] = "findAssignment"
    /\ Goto(r, "createAssignment")
    /\ local' = [local EXCEPT ![r].roleIds = {}]
    /\ UNCHANGED <<tables, cache, overtaken, excused>>

\* Slip: a conflict is retried and not skipped.
FindAssignmentRetried(r) ==
    /\ pc[r] = "findAssignment"
    /\ \E role \in local[r].roleIds :
         /\ AssignmentRows(local[r].user, role) = {}
         /\ Goto(r, "createAssignment")
         /\ local' = [local EXCEPT ![r].role = role, ![r].roleIds = @ \ {role}]
    /\ UNCHANGED <<tables, cache, overtaken, excused>>

\* A role the user has already is a conflict, and the next one is tried.
FindAssignment(r) ==
    /\ pc[r] = "findAssignment"
    /\ \E role \in local[r].roleIds :
         LET rest == local[r].roleIds \ {role} IN
         IF AssignmentRows(local[r].user, role) = {}
         THEN /\ Goto(r, "createAssignment")
              /\ local' = [local EXCEPT ![r].role = role, ![r].roleIds = rest]
              /\ UNCHANGED <<overtaken, excused>>
         ELSE IF rest # {}
         THEN /\ local' = [local EXCEPT ![r].roleIds = rest]
              /\ UNCHANGED <<pc, overtaken, excused>>
         ELSE Finish(r)
    /\ UNCHANGED <<tables, cache>>

CreateAssignment(r) ==
    LET row == [id |-> nextRow, user |-> local[r].user, role |-> local[r].role] IN
    /\ pc[r] = "createAssignment"
    /\ \/ /\ nextRow <= MaxRows
          /\ userRoles' = userRoles \cup {row}
          /\ nextRow' = nextRow + 1
          /\ Goto(r, "clearUser")
          /\ UNCHANGED <<local, overtaken, excused>>
       \/ /\ nextRow > MaxRows
          /\ Finish(r)
          /\ UNCHANGED <<userRoles, nextRow>>
    /\ UNCHANGED <<roles, tablePermissions, nextRole, cache>>

StartRemoveRole(r, u, role) ==
    Start(r, "removeRole", "findRemoval",
          [Blank EXCEPT !.user = u, !.role = role])

\* Slip: the assignment is looked up by user only.
FindRemovalAnyRole(r) ==
    /\ pc[r] = "findRemoval"
    /\ \E x \in {y \in userRoles : y.user = local[r].user} :
         local' = [local EXCEPT ![r].rows = {x.id}]
    /\ Goto(r, "deleteAssignment")
    /\ UNCHANGED <<tables, cache, overtaken, excused>>

\* findOne: one of the matching rows, whatever their number.
FindRemoval(r) ==
    LET found == AssignmentRows(local[r].user, local[r].role) IN
    /\ pc[r] = "findRemoval"
    /\ \/ /\ found = {}
          /\ Finish(r)
       \/ \E x \in found :
            /\ Goto(r, "deleteAssignment")
            /\ local' = [local EXCEPT ![r].rows = {x.id}]
            /\ UNCHANGED <<overtaken, excused>>
    /\ UNCHANGED <<tables, cache>>

DeleteAssignment(r) ==
    LET found == {x \in userRoles : x.id \in local[r].rows} IN
    /\ pc[r] = "deleteAssignment"
    /\ \/ /\ found = {}
          /\ Finish(r)
          /\ UNCHANGED userRoles
       \/ /\ found # {}
          /\ userRoles' = userRoles \ found
          /\ Goto(r, "clearUser")
          /\ UNCHANGED <<local, overtaken, excused>>
    /\ UNCHANGED <<roles, tablePermissions, nextRole, nextRow, cache>>

-----------------------------------------------------------------------------
(* PermissionsManagementService.  setTablePermissions is batchSetPermissions *)
(* of one item; items holds the items still to be written.                   *)

StartSetPermissions(r, role, items) ==
    /\ items # {}
    /\ Start(r, "setPermissions", "findPermission",
             [Blank EXCEPT !.role = role, !.items = items])

PermissionRows(role, table) ==
    {x \in tablePermissions : x.role = role /\ x.table = table}

\* Slip: the row is looked up by role only.
FindPermissionAnyTable(r) ==
    /\ pc[r] = "findPermission"
    /\ \E item \in local[r].items :
         LET found == {x \in tablePermissions : x.role = local[r].role} IN
         \E rows \in IF found = {} THEN {{}} ELSE {{x.id} : x \in found} :
            local' = [local EXCEPT ![r].items = @ \ {item},
                                   ![r].data = item,
                                   ![r].rows = rows]
    /\ Goto(r, "writePermission")
    /\ UNCHANGED <<tables, cache, overtaken, excused>>

\* findOne for the next item: rows is empty or holds the id of a matching row.
FindPermission(r) ==
    /\ pc[r] = "findPermission"
    /\ \E item \in local[r].items :
         LET found == PermissionRows(local[r].role, item.table) IN
         \E rows \in IF found = {} THEN {{}} ELSE {{x.id} : x \in found} :
            local' = [local EXCEPT ![r].items = @ \ {item},
                                   ![r].data = item,
                                   ![r].rows = rows]
    /\ Goto(r, "writePermission")
    /\ UNCHANGED <<tables, cache, overtaken, excused>>

\* Slip: an update adds to the actions of the row and takes none away.
WritePermissionAdding(r) ==
    LET found == {x \in tablePermissions : x.id \in local[r].rows}
        old == UNION {x.acts : x \in found}
        id == IF found = {} THEN nextRow ELSE (CHOOSE x \in found : TRUE).id
    IN
    /\ pc[r] = "writePermission"
    /\ id <= MaxRows
    /\ tablePermissions' = (tablePermissions \ found) \cup
         {[id |-> id, role |-> local[r].role, table |-> local[r].data.table,
           acts |-> old \cup local[r].data.acts]}
    /\ nextRow' = IF found = {} THEN nextRow + 1 ELSE nextRow
    /\ Goto(r, "clearAll")
    /\ UNCHANGED <<roles, userRoles, nextRole, cache, local, overtaken, excused>>

\* create, or update of the row found: an update of a missing record is a 404.
WritePermission(r) ==
    LET found == {x \in tablePermissions : x.id \in local[r].rows}
        row(id) == [id |-> id, role |-> local[r].role,
                    table |-> local[r].data.table, acts |-> local[r].data.acts]
    IN
    /\ pc[r] = "writePermission"
    /\ \/ /\ local[r].rows = {}
          /\ nextRow <= MaxRows
          /\ tablePermissions' = tablePermissions \cup {row(nextRow)}
          /\ nextRow' = nextRow + 1
          /\ Goto(r, "clearAll")
          /\ UNCHANGED <<local, overtaken, excused>>
       \/ /\ found # {}
          /\ tablePermissions' = (tablePermissions \ found)
                                 \cup {row(x.id) : x \in found}
          /\ Goto(r, "clearAll")
          /\ UNCHANGED <<nextRow, local, overtaken, excused>>
       \/ /\ IF local[r].rows = {} THEN nextRow > MaxRows ELSE found = {}
          /\ Finish(r)
          /\ UNCHANGED <<tablePermissions, nextRow>>
    /\ UNCHANGED <<roles, userRoles, nextRole, cache>>

\* copyPermissions reads the source's rows and sets each of them for the target.
StartCopyPermissions(r, source, target) ==
    Start(r, "copyPermissions", "listSource",
          [Blank EXCEPT !.role = target, !.roleIds = {source}])

ListSource(r) ==
    LET found == {[table |-> x.table, acts |-> x.acts] :
                    x \in {y \in tablePermissions : y.role \in local[r].roleIds}}
    IN
    /\ pc[r] = "listSource"
    /\ \/ /\ found = {}
          /\ Finish(r)
       \/ /\ found # {}
          /\ Goto(r, "findPermission")
          /\ local' = [local EXCEPT ![r].items = found, ![r].roleIds = {}]
          /\ UNCHANGED <<overtaken, excused>>
    /\ UNCHANGED <<tables, cache>>

\* deleteRolePermissions deletes the listed rows one by one and clears the
\* cache after the last one only.
StartDeletePermissions(r, role) ==
    Start(r, "deletePermissions", "listPermissions", [Blank EXCEPT !.role = role])

ListPermissions(r) ==
    LET found == {x.id : x \in {y \in tablePermissions : y.role = local[r].role}}
    IN
    /\ pc[r] = "listPermissions"
    /\ Goto(r, IF found = {} THEN "clearAll" ELSE "deletePermission")
    /\ local' = [local EXCEPT ![r].rows = found]
    /\ UNCHANGED <<tables, cache, overtaken, excused>>

DeletePermission(r) ==
    /\ pc[r] \in Removing
    /\ \E id \in local[r].rows :
         LET found == {x \in tablePermissions : x.id = id}
             rest == local[r].rows \ {id}
         IN
         \/ /\ found = {}
            /\ Finish(r)
            /\ UNCHANGED tablePermissions
         \/ /\ found # {}
            /\ tablePermissions' = tablePermissions \ found
            /\ Goto(r, IF rest = {} THEN "clearAll" ELSE "deleteNext")
            /\ local' = [local EXCEPT ![r].rows = rest]
            /\ UNCHANGED <<overtaken, excused>>
    /\ UNCHANGED <<roles, userRoles, nextRole, nextRow, cache>>

-----------------------------------------------------------------------------
(* Faults and time.                                                          *)

\* The call r waits for fails, or the answer of the call it made is lost after
\* NocoDB has applied it (r is then at "clear..."): the exception ends r.
Fail(r) ==
    /\ "fail" \in Faults
    /\ pc[r] # "idle"
    /\ Finish(r)
    /\ UNCHANGED <<tables, cache>>

\* The process restarts: requests and cache are gone, the tables remain.
Crash ==
    /\ "crash" \in Faults
    /\ pc' = [r \in Requests |-> "idle"]
    /\ local' = [r \in Requests |-> Blank]
    /\ cache' = ClearAll(cache)
    /\ overtaken' = {}
    /\ excused' = {}
    /\ UNCHANGED tables

Tick ==
    /\ \E u \in DOMAIN cache : Hit(cache, u)
    /\ cache' = Aged(cache)
    /\ UNCHANGED <<tables, pc, local, overtaken, excused>>

-----------------------------------------------------------------------------
Init ==
    /\ roles = SeedRoles
    /\ userRoles = SeedUserRoles
    /\ tablePermissions = SeedPermissions
    /\ nextRole = Cardinality(SeedRoles) + 1
    /\ nextRow = Cardinality(SeedUserRoles) + Cardinality(SeedPermissions) + 1
    /\ cache = [u \in {} |-> Blank]
    /\ pc = [r \in Requests |-> "idle"]
    /\ local = [r \in Requests |-> Blank]
    /\ overtaken = {}
    /\ excused = {}

\* A client calls an operation.
Call(r) ==
    \/ \E u \in Users : StartLoad(r, u)
    \/ \E name \in Names, system \in BOOLEAN :
          StartCreateRole(r, [name |-> name, system |-> system])
    \/ \E role \in Roles :
          \/ StartDeleteRole(r, role)
          \/ StartDeletePermissions(r, role)
          \/ \E u \in Users : StartRemoveRole(r, u, role)
          \/ \E items \in Batches : StartSetPermissions(r, role, items)
          \/ \E source \in Roles : StartCopyPermissions(r, source, role)
    \/ \E u \in Users, R \in SUBSET Roles : StartAssignRoles(r, u, R)

\* r's next NocoDB call is answered.
Step(r) ==
    \/ ReadUserRoles(r) \/ ReadRoles(r) \/ ReadPermissions(r)
    \/ StorePermissions(r) \/ ClearAllEntries(r) \/ ClearUserEntry(r)
    \/ FindRole(r) \/ CreateRole(r) \/ DeleteRole(r)
    \/ FindAssignment(r) \/ CreateAssignment(r)
    \/ FindRemoval(r) \/ DeleteAssignment(r)
    \/ FindPermission(r) \/ WritePermission(r) \/ ListSource(r)
    \/ ListPermissions(r) \/ DeletePermission(r)

Next ==
    \/ \E r \in Requests : Call(r) \/ Step(r) \/ Fail(r)
    \/ Crash
    \/ Tick

Spec == Init /\ [][Next]_vars

\* NocoDB answers every call it is sent, and time passes.
Fairness ==
    /\ \A r \in Requests : WF_vars(Step(r))
    /\ WF_vars(Tick)

FairSpec == Spec /\ Fairness

-----------------------------------------------------------------------------
Local == [user : Users \cup {None}, role : Roles \cup {None},
          roleIds : SUBSET Roles, rows : SUBSET Nat, items : SUBSET Item,
          value : SUBSET Grants,
          data : Item \cup [name : Names, system : BOOLEAN] \cup {None}]

\* The locals that the code at p reads have been set.
ArgumentsSet(p, l) ==
    /\ p \in OnUser => l.user \in Users
    /\ p \in OnRole => l.role \in Roles
    /\ p = "writePermission" => l.data \in Item
    /\ p \in {"findRole", "createRole"}
          => l.data \in [name : Names, system : BOOLEAN]

TablesOK ==
    /\ roles \subseteq RoleRow
    /\ userRoles \subseteq UserRoleRow
    /\ tablePermissions \subseteq PermissionRow
    /\ nextRole \in Nat
    /\ nextRow \in Nat

CacheOK ==
    /\ DOMAIN cache \subseteq Users
    /\ cache \in [DOMAIN cache -> Entry]

RequestsOK ==
    /\ pc \in [Requests -> PC]
    /\ local \in [Requests -> Local]
    /\ \A r \in Requests : ArgumentsSet(pc[r], local[r])
    /\ overtaken \subseteq Requests
    /\ excused \subseteq Users

\* Type invariant of the tables, the cache and the requests.  It includes that
\* no request gets to a call whose arguments it has not set.
TypeOK == TablesOK /\ CacheOK /\ RequestsOK

-----------------------------------------------------------------------------
(* Coherence of the cache with the tables.                                   *)

\* A change that concerns u has been applied and its clearCache is to come.
Pending(u) == \E r \in Requests : Unannounced(r) /\ u \in Affected(r)

\* What a permission check answers from the cache is what the tables say, with
\* these exceptions only: a change whose clearCache has not run yet (Pending);
\* an entry stored by a load that was overtaken by a clearCache between its
\* reads and its store; an entry that outlived a change whose answer was lost,
\* so that clearCache never ran; and a role created after it was assigned.
\* Every operation that changes roles, user_roles or table_permissions is
\* thereby required to clear what it makes stale.
Coherent ==
    \A u \in Users \ excused :
        Hit(cache, u) /\ ~Pending(u) => cache[u].value = Effective(u)

\* What a load at p holds in its locals is what its reads would return now.
UpToDate(p, l) ==
    /\ p = "readRoles" => l.roleIds = Assigned(l.user)
    /\ p = "readPermissions" => l.roleIds = Active(l.user)
    /\ p = "storePermissions" => l.value = Effective(l.user)

\* A load that no clearCache has overtaken is up to date, so that it may store
\* what it read.  In particular it goes on with the roles that still exist.
LoadsCoherent ==
    \A r \in Requests \ overtaken :
        ~Pending(local[r].user) => UpToDate(pc[r], local[r])

\* Once no change is on its way, no check answers from permissions that were
\* changed.  (The code does not keep this: a load may store what it read before
\* the change after the change cleared the cache.)
ClearedOnChange ==
    \A u \in Users : Hit(cache, u) /\ ~Pending(u) => cache[u].value = Effective(u)

\* A grant answered from the cache that the tables no longer give is gone after
\* a while, whatever raced and failed: entries expire, and while an entry is
\* alive no load starts that could renew it.
StaleGrantExpires ==
    \A u \in Users :
        (Hit(cache, u) /\ ~(cache[u].value \subseteq Effective(u)))
            ~> (~Hit(cache, u) \/ cache[u].value \subseteq Effective(u))

\* Every request is answered: the loops over roles, items and rows end.
RequestsEnd == \A r \in Requests : pc[r] # "idle" ~> pc[r] = "idle"

-----------------------------------------------------------------------------
(* The cache as a bounded Map in insertion order.                            *)

\* The Map never holds more entries than its capacity.
CacheBounded == Cardinality(DOMAIN cache) <= MaxEntries

\* The front of the Map is always the entry closest to expiry.
ExpiryOrder == InOrder(cache)

\* cachePermissions keeps the Map within its capacity, and in the order in which
\* its eviction relies on finding the entries.
CacheSound == CacheBounded /\ ExpiryOrder

\* The entry of another user is lost to a store only if it has expired, or the
\* Map is full afterwards and every entry kept lives at least as long.
EvictsOldestWhenFull ==
    [][\A r \in Requests : StorePermissions(r) =>
         \A v \in DOMAIN cache \ (DOMAIN cache' \cup {local[r].user}) :
            Hit(cache, v) =>
               /\ Cardinality(DOMAIN cache') = MaxEntries
               /\ \A w \in DOMAIN cache' : cache'[w].ttl >= cache[v].ttl]_vars

-----------------------------------------------------------------------------
(* What the administrator relies on.                                         *)

\* With one administrator at a time, a user has a role at most once and a role
\* has at most one row per table, although the code looks before it creates
\* and calls fail halfway.
OneRowEach ==
    /\ \A x, y \in userRoles : x.user = y.user /\ x.role = y.role => x = y
    /\ \A x, y \in tablePermissions :
          x.role = y.role /\ x.table = y.table => x = y
    /\ \A x, y \in roles : x.name = y.name => x = y

\* When removeRole deletes an assignment, the user no longer has the role: no
\* second row is left that still grants it.
RemoveRoleRemoves ==
    [][\A r \in Requests, u \in Users, role \in Roles :
         /\ pc[r] = "deleteAssignment"
         /\ pc'[r] = "clearUser"
         /\ local[r].user = u
         /\ local[r].role = role
         => role \notin Assigned(u)']_vars

\* When setTablePermissions has written an item, the role has the actions of
\* the item on its table and no others, whichever rows existed before.
SetPermissionsSets ==
    [][\A r \in Requests, role \in Roles, item \in Item :
         /\ pc[r] = "writePermission"
         /\ pc'[r] = "clearAll"
         /\ local[r].role = role
         /\ local[r].data = item
         => {a \in Actions : <<item.table, a>> \in Granted({role})'}
               = item.acts]_vars

\* What the API has answered is what the tables then grant: a removal is whole
\* and an update neither adds nor leaves a right.
OperationsEffective == RemoveRoleRemoves /\ SetPermissionsSets

\* Role names are unique (violated when two requests create roles).
RoleNamesUnique == \A x, y \in roles : x.name = y.name => x = y

\* A role marked as a system role is never deleted (violated: deleteRole does
\* not look at the mark).
SystemRolesStay ==
    [][\A x \in roles : x.system => x \in roles']_vars
=============================================================================
