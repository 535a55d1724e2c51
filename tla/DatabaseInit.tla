--------------------------- MODULE DatabaseInit ---------------------------
(***************************************************************************)
(* DatabaseInitializationService: every start of the middleware walks over  *)
(* the system tables, creates those that are missing, adds missing fields   *)
(* to the others, and then seeds the admin role and its permissions.        *)
(*                                                                          *)
(* pc names the NocoDB call that the starting process awaits, or "started", *)
(* "stopped" (onModuleInit threw) or "down".  A call fails with or without  *)
(* having taken effect; a process may die between any two steps, and a      *)
(* write it had sent may still arrive after the next process has started.   *)
(***************************************************************************)
EXTENDS Naturals, Sequences, FiniteSets

CONSTANTS Definitions,   \* names of the system tables, in the order of the code
          Fields,        \* the fields of each table
          WithLegacy,    \* the tables that had link fields up to 0.7.x
          RolesTable, PermissionsTable, \* two of the tables
          Schemas,       \* what may be in NocoDB before the first start
          MaxFaults,     \* bound on failed calls, crashes and deletions
          None           \* no value

Names == {Definitions[i] : i \in DOMAIN Definitions}

\* A table as NocoDB knows it.  Titles are unique in a base.
Table == [fields : SUBSET UNION {Fields[n] : n \in Names}, legacy : BOOLEAN]

ASSUME InitAssumption ==
    /\ Definitions \in Seq(Names) /\ Len(Definitions) > 0
    /\ \A i, j \in DOMAIN Definitions : Definitions[i] = Definitions[j] => i = j
    /\ WithLegacy \subseteq Names
    /\ {RolesTable, PermissionsTable} \subseteq Names
    /\ \A s \in Schemas :
          /\ DOMAIN s \subseteq Names
          /\ \A n \in DOMAIN s : s[n] \in Table /\ (s[n].legacy => n \in WithLegacy)
    /\ MaxFaults \in Nat
    /\ None \notin Names \cup Nat

VARIABLES
    schema,          \* the tables in NocoDB: a function from their names
    admins,          \* ids of the rows of roles named admin
    perms,           \* rows of table_permissions of admin roles
    nextId,          \* id NocoDB gives out next
    pc,              \* the call awaited
    at, todo,        \* index of the current table, fields it still lacks
    admin, existing, \* id of the admin role, id of the permission row found
    late,            \* writes of dead processes that have not arrived
    faults, arrived, \* counters: faults so far, late writes that did arrive
    clean            \* history: in this start nothing failed and nobody else
                     \* changed the tables

data == <<schema, admins, perms, nextId>>
locals == <<at, todo, admin, existing>>
vars == <<data, pc, locals, late, faults, arrived, clean>>

Current == Definitions[at]
Missing(n) == Fields[n] \ schema[n].fields

-----------------------------------------------------------------------------
(* Writes, as NocoDB applies them. *)

TableWrite(n) == [kind |-> "table", name |-> n]
FieldWrite(n, f) == [kind |-> "field", name |-> n, field |-> f]
RoleWrite == [kind |-> "role", name |-> RolesTable]
GrantWrite(role, n) ==
    [kind |-> "grant", name |-> PermissionsTable, role |-> role, table |-> n]
RegrantWrite(id) == [kind |-> "regrant", name |-> PermissionsTable, id |-> id]

\* NocoDB refuses a second table of a title and anything in a missing table.
Applicable(w) == (w.kind = "table") # (w.name \in DOMAIN schema)

Apply(w) ==
    /\ Applicable(w)
    /\ \/ /\ w.kind = "table"
          /\ schema' = [n \in DOMAIN schema \cup {w.name} |->
                          IF n = w.name
                          THEN [fields |-> Fields[n], legacy |-> FALSE]
                          ELSE schema[n]]
          /\ UNCHANGED <<admins, perms, nextId>>
       \/ /\ w.kind = "field"
          /\ schema' = [schema EXCEPT ![w.name].fields = @ \cup {w.field}]
          /\ UNCHANGED <<admins, perms, nextId>>
       \/ /\ w.kind = "role"
          /\ admins' = admins \cup {nextId}
          /\ nextId' = nextId + 1
          /\ UNCHANGED <<schema, perms>>
       \/ /\ w.kind = "grant"
          /\ perms' = perms \cup
                {[id |-> nextId, role |-> w.role, table |-> w.table, full |-> TRUE]}
          /\ nextId' = nextId + 1
          /\ UNCHANGED <<schema, admins>>
       \/ /\ w.kind = "regrant"
          /\ perms' = {IF p.id = w.id THEN [p EXCEPT !.full = TRUE] ELSE p : p \in perms}
          /\ UNCHANGED <<schema, admins, nextId>>

\* The write the process has sent, if it awaits one.
Sent ==
    CASE pc = "createTable" -> {TableWrite(Current)}
      [] pc = "createColumn" -> {FieldWrite(Current, f) : f \in todo}
      [] pc = "createRole" -> {RoleWrite}
      [] pc = "writePermission" ->
            {IF existing = None THEN GrantWrite(admin, Current)
                                ELSE RegrantWrite(existing)}
      [] OTHER -> {}

-----------------------------------------------------------------------------
(* The code between two calls. *)

Goto(p) == pc' = p
Stay == UNCHANGED <<late, faults, arrived, clean>>

\* NocoDB refuses the call awaited: its table is gone, or already there.
Refused ==
    CASE pc = "createTable" -> Current \in DOMAIN schema
      [] pc \in {"checkLegacy", "readFields", "createColumn"} ->
            Current \notin DOMAIN schema
      [] pc \in {"findAdmin", "createRole"} -> RolesTable \notin DOMAIN schema
      [] pc \in {"findGrant", "writePermission"} ->
            PermissionsTable \notin DOMAIN schema
      [] OTHER -> FALSE

\* The call awaited fails: refused, or by a fault of network or NocoDB.
Fault ==
    /\ IF Refused THEN UNCHANGED faults
       ELSE faults < MaxFaults /\ faults' = faults + 1
    /\ UNCHANGED <<late, arrived>>
Swallow == Fault /\ clean' = FALSE

\* initializeTables: on to the next table, or to the seeding after the last.
NextTable ==
    /\ todo' = {}
    /\ IF at = Len(Definitions)
       THEN at' = 1 /\ Goto("findRoles")
       ELSE at' = at + 1 /\ Goto("findTable")
    /\ UNCHANGED <<admin, existing>>

\* A slip: the check for link fields of the old schema is left out.
FindTableUnchecked ==
    /\ pc = "findTable"
    /\ IF Current \notin DOMAIN schema THEN Goto("createTable")
       ELSE Goto("readFields")
    /\ UNCHANGED <<data, locals>> /\ Stay

\* ensureTableExists: getTableByName has answered.
FindTable ==
    /\ pc = "findTable"
    /\ IF Current \notin DOMAIN schema THEN Goto("createTable")
       ELSE IF Current \in WithLegacy THEN Goto("checkLegacy")
       ELSE Goto("readFields")
    /\ UNCHANGED <<data, locals>> /\ Stay

\* ensureTableExists: createTable has answered.
CreateTable ==
    /\ pc = "createTable"
    /\ Apply(TableWrite(Current))
    /\ NextTable /\ Stay

\* ... or failed: null is returned, and initializeTables returns.
FailCreateTable ==
    /\ pc = "createTable"
    /\ Apply(TableWrite(Current)) \/ UNCHANGED data
    /\ Goto("started") /\ Swallow /\ UNCHANGED locals

\* assertNoLegacyLinkFields: a legacy table stops the startup.
CheckLegacy ==
    /\ pc = "checkLegacy"
    /\ Current \in DOMAIN schema
    /\ Goto(IF schema[Current].legacy THEN "stopped" ELSE "readFields")
    /\ UNCHANGED <<data, locals>> /\ Stay

\* A slip: the fields of an existing table are left as they are.
ReadFieldsOnly == pc = "readFields" /\ NextTable /\ UNCHANGED data /\ Stay

\* ensureFieldsExist: getTableMetadata has answered.
ReadFields ==
    /\ pc = "readFields"
    /\ Current \in DOMAIN schema
    /\ IF Missing(Current) = {} THEN NextTable
       ELSE /\ todo' = Missing(Current) /\ Goto("createColumn")
            /\ UNCHANGED <<at, admin, existing>>
    /\ UNCHANGED data /\ Stay

AfterColumn(f) ==
    IF todo = {f} THEN NextTable
    ELSE todo' = todo \ {f} /\ UNCHANGED <<pc, at, admin, existing>>

\* ensureFieldsExist: createColumn has answered for one of the fields.
CreateColumn(f) ==
    /\ pc = "createColumn" /\ f \in todo
    /\ Apply(FieldWrite(Current, f))
    /\ AfterColumn(f) /\ Stay

\* ... or failed: the error is logged, the loop goes on.
FailCreateColumn(f) ==
    /\ pc = "createColumn" /\ f \in todo
    /\ Apply(FieldWrite(Current, f)) \/ UNCHANGED data
    /\ AfterColumn(f) /\ Swallow

\* seedDefaultPermissions: the two tables are looked up again.
FindSeedTable ==
    \/ /\ pc = "findRoles"
       /\ Goto("findPermissions")
       /\ UNCHANGED <<data, locals>> /\ Stay
    \/ /\ pc = "findPermissions"
       /\ IF {RolesTable, PermissionsTable} \subseteq DOMAIN schema
          THEN Goto("findAdmin") /\ Stay
          ELSE Goto("started") /\ clean' = FALSE /\ UNCHANGED <<late, faults, arrived>>
       /\ UNCHANGED <<data, locals>>

\* A slip: the role is created at every start.
FindAdminBlind ==
    /\ pc = "findAdmin"
    /\ Goto("createRole") /\ UNCHANGED <<data, locals>> /\ Stay

\* ... the admin role is looked up, and created if there is none.
FindAdmin ==
    /\ pc = "findAdmin"
    /\ RolesTable \in DOMAIN schema
    /\ IF admins = {} THEN Goto("createRole") /\ UNCHANGED admin
       ELSE \E r \in admins : admin' = r /\ Goto("findGrant")
    /\ UNCHANGED <<data, at, todo, existing>> /\ Stay

\* A slip: the id of the role just created is not taken over.
CreateRoleUnread ==
    /\ pc = "createRole"
    /\ Apply(RoleWrite)
    /\ Goto("findGrant") /\ UNCHANGED locals /\ Stay

\* ... which NocoDB answers with the row.
CreateRole ==
    /\ pc = "createRole"
    /\ Apply(RoleWrite)
    /\ admin' = nextId /\ Goto("findGrant")
    /\ UNCHANGED <<at, todo, existing>> /\ Stay

\* ensureAdminPermissions: findOne for the current table has answered.
FindGrant ==
    /\ pc = "findGrant"
    /\ PermissionsTable \in DOMAIN schema
    /\ LET found == {p \in perms : p.role = admin /\ p.table = Current} IN
       IF found = {} THEN existing' = None
       ELSE \E p \in found : existing' = p.id
    /\ Goto("writePermission")
    /\ UNCHANGED <<data, at, todo, admin>> /\ Stay

\* A slip: the loop ends one table early.
WritePermissionShort ==
    /\ pc = "writePermission"
    /\ \E w \in Sent : Apply(w)
    /\ existing' = None
    /\ IF at + 1 >= Len(Definitions) THEN Goto("started") /\ UNCHANGED at
                                    ELSE Goto("findGrant") /\ at' = at + 1
    /\ UNCHANGED <<todo, admin>> /\ Stay

\* ... and the row has been updated or created.
WritePermission ==
    /\ pc = "writePermission"
    /\ \E w \in Sent : Apply(w)
    /\ existing' = None
    /\ IF at = Len(Definitions) THEN Goto("started") /\ UNCHANGED at
                                ELSE Goto("findGrant") /\ at' = at + 1
    /\ UNCHANGED <<todo, admin>> /\ Stay

\* The lookups of initializeTables and the check for legacy fields throw.
FailStartup ==
    /\ pc \in {"findTable", "checkLegacy"}
    /\ Goto("stopped") /\ Fault /\ UNCHANGED <<data, locals, clean>>

\* ensureFieldsExist catches: the table counts as initialised.
FailReadFields ==
    /\ pc = "readFields"
    /\ NextTable /\ Swallow /\ UNCHANGED data

Seeding == {"findRoles", "findPermissions", "findAdmin", "createRole",
            "findGrant", "writePermission"}

\* seedDefaultPermissions catches whatever its calls throw.
FailSeeding ==
    /\ pc \in Seeding
    /\ UNCHANGED data \/ \E w \in Sent : Apply(w)
    /\ Goto("started") /\ Swallow /\ UNCHANGED locals

-----------------------------------------------------------------------------
(* The world around the starting process. *)

\* A process starts with empty memory.
Start ==
    /\ pc \in {"down", "stopped"}
    /\ Goto("findTable") /\ at' = 1 /\ todo' = {}
    /\ admin' = None /\ existing' = None /\ clean' = TRUE
    /\ UNCHANGED <<data, late, faults, arrived>>

\* The operator shuts the middleware down, for another start.
Shutdown ==
    /\ pc = "started" /\ Goto("down")
    /\ UNCHANGED <<data, locals, late, faults, arrived, clean>>

\* The process dies; what it has sent may be under way.
Crash ==
    /\ pc \notin {"down", "stopped", "started"}
    /\ Goto("down")
    /\ late' = late \/ \E w \in Sent : late' = late \cup {w}
    /\ faults < MaxFaults /\ faults' = faults + 1
    /\ UNCHANGED <<data, locals, arrived, clean>>

\* A write of a dead process arrives.
Arrive(w) ==
    /\ w \in late
    /\ late' = late \ {w}
    /\ IF Applicable(w) THEN Apply(w) /\ arrived' = arrived + 1
                        ELSE UNCHANGED <<data, arrived>>
    /\ UNCHANGED <<pc, locals, faults, clean>>

\* A table is deleted in NocoDB, as the error about legacy tables asks for
\* and scripts/debug/delete-tables.ts does.
DeleteTable(n) ==
    /\ n \in DOMAIN schema
    /\ schema[n].legacy \/ (n \in WithLegacy /\ faults < MaxFaults)
    /\ faults' = IF schema[n].legacy THEN faults ELSE faults + 1
    /\ schema' = [m \in DOMAIN schema \ {n} |-> schema[m]]
    /\ perms' = IF n = PermissionsTable THEN {} ELSE perms
    /\ clean' = FALSE
    /\ UNCHANGED <<admins, nextId, pc, locals, late, arrived>>

\* An administrator takes a right from the admin role through the API.
Reduce ==
    /\ pc = "started" /\ faults < MaxFaults /\ faults' = faults + 1
    /\ \E p \in perms : p.full /\ perms' = (perms \ {p}) \cup {[p EXCEPT !.full = FALSE]}
    /\ clean' = FALSE
    /\ UNCHANGED <<schema, admins, nextId, pc, locals, late, arrived>>

Init ==
    /\ schema \in Schemas
    /\ admins = {} /\ perms = {} /\ nextId = 1
    /\ pc = "down" /\ at = 1 /\ todo = {} /\ admin = None /\ existing = None
    /\ late = {} /\ faults = 0 /\ arrived = 0 /\ clean = TRUE

\* What the starting process does when its call is answered or fails.
Proceed ==
    \/ FindTable \/ CreateTable \/ CheckLegacy \/ ReadFields
    \/ \E f \in todo : CreateColumn(f) \/ FailCreateColumn(f)
    \/ FindSeedTable \/ FindAdmin \/ CreateRole \/ FindGrant \/ WritePermission
    \/ FailCreateTable \/ FailStartup \/ FailReadFields \/ FailSeeding

Environment ==
    \/ Shutdown \/ Crash \/ Reduce
    \/ \E w \in late : Arrive(w)
    \/ \E n \in DOMAIN schema : DeleteTable(n)

Next == Proceed \/ Start \/ Environment

Spec == Init /\ [][Next]_vars

\* NocoDB answers the calls of the start or they fail; the middleware is
\* started when it is down.  The code never repeats a start by itself: that
\* the operator restarts a middleware that serves, again and again, and
\* deletes legacy tables, are assumptions.
Fairness ==
    /\ WF_vars(Proceed) /\ WF_vars(Start) /\ WF_vars(Shutdown)
    /\ \A n \in Names : WF_vars(n \in DOMAIN schema /\ schema[n].legacy /\ DeleteTable(n))
FairSpec == Spec /\ Fairness

-----------------------------------------------------------------------------
(* Properties. *)

Ready(n) == n \in DOMAIN schema /\ Missing(n) = {} /\ ~schema[n].legacy

Admitted(role, n) ==
    \E p \in perms : p.role = role /\ p.table = n /\ p.full

Complete ==
    /\ \A n \in Names : Ready(n)
    /\ \E role \in admins : \A n \in Names : Admitted(role, n)

\* The variables have their types; a process that awaits the answer of
\* createColumn lacks a field, and one that writes permissions has a role.
TypeOK ==
    /\ DOMAIN schema \subseteq Names /\ \A n \in DOMAIN schema : schema[n] \in Table
    /\ nextId \in Nat
    /\ admins \subseteq 0 .. nextId
    /\ perms \subseteq [id : Nat, role : Nat, table : Names, full : BOOLEAN]
    /\ pc \in {"down", "started", "stopped", "findTable", "createTable",
              "checkLegacy", "readFields", "createColumn"} \cup Seeding
    /\ at \in DOMAIN Definitions
    /\ pc = "createColumn" => todo # {}
    /\ pc \in {"findGrant", "writePermission"} => admin \in admins
    /\ existing \in Nat \cup {None}
    /\ faults \in 0 .. MaxFaults /\ arrived \in Nat /\ clean \in BOOLEAN

\* A start that reports success and swallowed no error leaves everything in
\* place: each table with each field, and an admin role with all rights on
\* every one of them, whatever earlier starts left half done.
CleanStartCompletes == pc = "started" /\ clean => Complete

\* assertNoLegacyLinkFields: a legacy table is never extended or replaced.
LegacyUntouched ==
    [][\A n \in DOMAIN schema \cap DOMAIN schema' :
          schema[n].legacy => schema'[n] = schema[n]]_vars

\* However often the start is repeated after crashes and lost answers, it does
\* not repeat its seeds: a second row needs a write of a dead process that
\* arrives after the next one looked.
SeedsNotRepeated ==
    /\ Cardinality(admins) <= 1 + arrived
    /\ \A role \in admins, n \in Names :
          Cardinality({p \in perms : p.role = role /\ p.table = n}) <= 1 + arrived

\* A start neither leaves out what it reports nor repeats what there is.
StartSafe == TypeOK /\ CleanStartCompletes /\ SeedsNotRepeated

\* Once the faults are over, restarts complete the initialisation for good.
EventuallyComplete == <>[]Complete
=============================================================================
