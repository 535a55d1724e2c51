--------------------------- MODULE RecordAccess ---------------------------
(***************************************************************************)
(* DataService: generic access to the records of user tables, and its       *)
(* cache of table ids and fields.  Whoever administers NocoDB changes the   *)
(* tables at any time.                                                      *)
(*                                                                          *)
(* pc names the NocoDB call a request awaits.  A read of the fields is two  *)
(* steps, at NocoDB and the arrival of the answer, because the answers of   *)
(* two requests may arrive in the other order.  Ages count ticks since      *)
(* NocoDB gave the fields; an answer arrives within CallTime.               *)
(***************************************************************************)
EXTENDS Catalog

CONSTANTS Requests,
          Paths,      \* the names that requests use
          Titles,     \* the titles and physical names tables get
          Fields,     \* titles of fields, among them "id"
          Lifetime,   \* TABLE_CACHE_TTL_MS in ticks
          CallTime,   \* bound on the time of an answer in ticks
          Ops,        \* the operations that clients call
          Bodies,     \* sets of fields of request bodies
          MaxTables,  \* bound on ids NocoDB gives to tables
          MaxChanges, \* bound on changes of fields
          MaxRows     \* bound on ids NocoDB gives to records

\* A body names fields, and lifetimes and bounds are numbers.
ASSUME RecordAccessAssumption ==
    /\ TablePrefix \in Seq(STRING) /\ Titles \subseteq Seq(STRING)
    /\ Lifetime \in Nat \ {0} /\ {CallTime, MaxTables, MaxChanges, MaxRows} \subseteq Nat
    /\ \A b \in Bodies : b \subseteq Fields
    /\ Ops \subseteq {"list", "read", "create", "update", "delete"}

VARIABLES
    tables,          \* NocoDB's tables
    rows,            \* NocoDB's records: table, id and fields with a value
    nextTable, nextRow, changes,
    cache,           \* DataService.tables
    pc, local        \* control state and locals of requests

base == <<tables, rows, nextTable, nextRow, changes>>
vars == <<base, cache, pc, local>>

Info(t, age) == [id |-> t.id, writable |-> t.writable, managed |-> t.managed, age |-> age]
\* Besides its locals a request has a history: the table its name has stood for
\* all the time, the age of the fields used, whether their table was gone.
Blank == [op |-> None, path |-> None, row |-> None, body |-> {}, table |-> None,
          info |-> None, result |-> None, steady |-> {}, used |-> None, missed |-> FALSE]

Has(id) == \E t \in tables : t.id = id
Table(id) == CHOOSE t \in tables : t.id = id

Goto(r, p, l) == pc' = [pc EXCEPT ![r] = p] /\ local' = [local EXCEPT ![r] = l]
Finish(r, l, result) ==
    Goto(r, "idle", [Blank EXCEPT !.result = result, !.path = l.path, !.steady = l.steady,
                                  !.used = l.used, !.missed = l.missed])
Reading == UNCHANGED base

-----------------------------------------------------------------------------
(* getTable *)

Live(e) == e # None /\ e.ttl > 0

\* assertWritableFields
Rejected(info, body) ==
    "id" \in body \/ body \cap info.managed # {} \/ ~(body \subseteq info.writable)

\* What follows getTable in list, read, create, update and delete.
Checked(r, l, info) ==
    LET k == [l EXCEPT !.info = info, !.used = info.age] IN
    IF l.op \in {"create", "update"} /\ Rejected(info, l.body)
    THEN Finish(r, k, "badRequest")
    ELSE Goto(r, l.op, k)

\* TablePermissionsGuard's check of the name and assertRecordInput come first.
Start(r, op, path, row, body) ==
    /\ pc[r] = "idle"
    /\ LET l == [Blank EXCEPT !.op = op, !.path = path, !.row = row, !.body = body,
                              !.steady = {t.id : t \in Resolve(tables, path) \ {None}}] IN
       IF ~isValidTableName(path) \/ path \in SystemTables
       THEN Finish(r, l, "notFound")
       ELSE IF op \in {"create", "update"} /\ body = {}
       THEN Finish(r, l, "badRequest")
       ELSE IF Live(cache[path])
       THEN Checked(r, l, cache[path].info)
       ELSE Goto(r, "findTable", l)
    /\ Reading /\ UNCHANGED cache

FindTable(r) ==
    /\ pc[r] = "findTable"
    /\ \E t \in Resolve(tables, local[r].path) :
          IF t = None
          THEN /\ cache' = [cache EXCEPT ![local[r].path] = None]
               /\ Finish(r, local[r], "notFound")
          ELSE /\ Goto(r, "readFields", [local[r] EXCEPT !.table = t.id])
               /\ UNCHANGED cache
    /\ Reading

ReadFields(r) ==
    /\ pc[r] = "readFields"
    /\ IF Has(local[r].table)
       THEN Goto(r, "store", [local[r] EXCEPT !.info = Info(Table(local[r].table), 0)])
       ELSE Finish(r, local[r], "failed")
    /\ Reading /\ UNCHANGED cache

\* A slip: the new lifetime is added to what is left of the old one.
StoreLonger(r) ==
    /\ pc[r] = "store"
    /\ LET p == local[r].path
           rest == IF cache[p] = None THEN 0 ELSE cache[p].ttl IN
       cache' = [cache EXCEPT ![p] = [info |-> local[r].info, ttl |-> Lifetime + rest]]
    /\ Checked(r, local[r], local[r].info)
    /\ Reading

\* A slip: what has expired is given another lifetime.
StoreOld(r) ==
    /\ pc[r] = "store"
    /\ LET p == local[r].path
           info == IF cache[p] = None THEN local[r].info ELSE cache[p].info IN
       /\ cache' = [cache EXCEPT ![p] = [info |-> info, ttl |-> Lifetime]]
       /\ Checked(r, local[r], info)
    /\ Reading

Store(r) ==
    /\ pc[r] = "store"
    /\ cache' = [cache EXCEPT ![local[r].path] =
                    [info |-> local[r].info, ttl |-> Lifetime]]
    /\ Checked(r, local[r], local[r].info)
    /\ Reading

-----------------------------------------------------------------------------
(* The calls on records.  NocoDB refuses what is wrong with 400 or 422, which *)
(* withUpstreamValidation turns into a bad request.                           *)

Target(r) == local[r].info.id
Mine(r) == {x \in rows : x.table = Target(r) /\ x.id = local[r].row}
Accepts(id, body) == Has(id) /\ body \subseteq Table(id).writable

Refused(r) ==
    /\ pc[r] \in {"create", "update"}
    /\ Has(Target(r)) /\ ~Accepts(Target(r), local[r].body)
    /\ Finish(r, local[r], "badRequest")
    /\ Reading /\ UNCHANGED cache

\* NocoDB answers 404 for a table that is gone: no record for read, update
\* and delete, an error for list and create.
Gone(r) ==
    /\ pc[r] \in {"list", "count", "read", "create", "update", "delete"}
    /\ ~Has(Target(r))
    /\ Finish(r, [local[r] EXCEPT !.missed = TRUE],
              IF pc[r] \in {"read", "update", "delete"} THEN "notFound" ELSE "failed")
    /\ Reading /\ UNCHANGED cache

Create(r) ==
    /\ pc[r] = "create" /\ nextRow <= MaxRows /\ Accepts(Target(r), local[r].body)
    /\ rows' = rows \cup {[table |-> Target(r), id |-> nextRow, fields |-> local[r].body]}
    /\ nextRow' = nextRow + 1
    /\ Finish(r, local[r], "done")
    /\ UNCHANGED <<tables, nextTable, changes, cache>>

Update(r) ==
    /\ pc[r] = "update" /\ Accepts(Target(r), local[r].body)
    /\ rows' = (rows \ Mine(r)) \cup {[x EXCEPT !.fields = @ \cup local[r].body] : x \in Mine(r)}
    /\ Finish(r, local[r], IF Mine(r) = {} THEN "notFound" ELSE "done")
    /\ UNCHANGED <<tables, nextTable, nextRow, changes, cache>>

Delete(r) ==
    /\ pc[r] = "delete" /\ Has(Target(r))
    /\ rows' = rows \ Mine(r)
    /\ Finish(r, local[r], IF Mine(r) = {} THEN "notFound" ELSE "done")
    /\ UNCHANGED <<tables, nextTable, nextRow, changes, cache>>

Read(r) ==
    /\ pc[r] = "read" /\ Has(Target(r))
    /\ Finish(r, local[r], IF Mine(r) = {} THEN "notFound" ELSE "done")
    /\ Reading /\ UNCHANGED cache

\* list asks for the page and then for the count.
List(r) ==
    /\ pc[r] = "list" /\ Has(Target(r))
    /\ Goto(r, "count", local[r])
    /\ Reading /\ UNCHANGED cache

Count(r) ==
    /\ pc[r] = "count" /\ Has(Target(r))
    /\ Finish(r, local[r], "done")
    /\ Reading /\ UNCHANGED cache

Fail(r) ==
    /\ pc[r] # "idle"
    /\ Finish(r, local[r], "failed")
    /\ Reading /\ UNCHANGED cache

-----------------------------------------------------------------------------
(* Whoever administers NocoDB, the clock and the process *)

\* Requests whose name no longer stands for the table it did are not steady.
Unsettle(after) ==
    local' = [r \in Requests |->
                IF local[r].path = None
                   \/ {t.id : t \in Resolve(after, local[r].path) \ {None}} = local[r].steady
                THEN local[r] ELSE [local[r] EXCEPT !.steady = {}]]

CreateTable(title, physical) ==
    /\ nextTable <= MaxTables
    /\ \A t \in tables : t.title # title /\ t.physical # physical
    /\ \E w \in SUBSET (Fields \ {"id"}) :
          tables' = tables \cup {[id |-> nextTable, title |-> title, physical |-> physical,
                                  writable |-> w, managed |-> Fields \ (w \cup {"id"})]}
    /\ nextTable' = nextTable + 1
    /\ Unsettle(tables')
    /\ UNCHANGED <<rows, nextRow, changes, cache, pc>>

DropTable(t) ==
    /\ changes < MaxChanges /\ changes' = changes + 1
    /\ tables' = tables \ {t}
    /\ rows' = {x \in rows : x.table # t.id}
    /\ Unsettle(tables')
    /\ UNCHANGED <<nextTable, nextRow, cache, pc>>

ChangeFields(t, w, m) ==
    /\ changes < MaxChanges /\ changes' = changes + 1
    /\ w \cap m = {}
    /\ tables' = (tables \ {t}) \cup {[t EXCEPT !.writable = w, !.managed = m]}
    /\ UNCHANGED <<rows, nextTable, nextRow, cache, pc, local>>

\* Greater ages than the properties tell apart are not counted.
Aged(info) == [info EXCEPT !.age = IF info.age > Lifetime + CallTime THEN info.age
                                   ELSE info.age + 1]
Older(e) == IF e = None \/ e.ttl = 0 THEN e
            ELSE [info |-> Aged(e.info), ttl |-> e.ttl - 1]

Tick ==
    /\ \A r \in Requests : pc[r] = "store" => local[r].info.age < CallTime
    /\ cache' = [p \in Paths |-> Older(cache[p])]
    /\ local' = [r \in Requests |->
                   IF pc[r] = "store" THEN [local[r] EXCEPT !.info = Aged(local[r].info)]
                   ELSE local[r]]
    /\ UNCHANGED <<base, pc>>

Crash ==
    /\ cache' = [p \in Paths |-> None]
    /\ pc' = [r \in Requests |-> "idle"]
    /\ local' = [r \in Requests |-> Blank]
    /\ Reading

-----------------------------------------------------------------------------
Init ==
    /\ tables = {} /\ rows = {} /\ nextTable = 1 /\ nextRow = 1 /\ changes = 0
    /\ cache = [p \in Paths |-> None]
    /\ pc = [r \in Requests |-> "idle"]
    /\ local = [r \in Requests |-> Blank]

Step(r) ==
    \/ FindTable(r) \/ ReadFields(r) \/ Store(r)
    \/ Refused(r) \/ Gone(r)
    \/ Create(r) \/ Update(r) \/ Delete(r) \/ Read(r) \/ List(r) \/ Count(r)

Change ==
    \/ \E title, physical \in Titles : CreateTable(title, physical)
    \/ \E t \in tables : DropTable(t)
    \/ \E t \in tables, w, m \in SUBSET (Fields \ {"id"}) : ChangeFields(t, w, m)

Next ==
    \/ \E r \in Requests, p \in Paths, row \in 1 .. MaxRows, b \in Bodies,
          op \in Ops :
            Start(r, op, p, row, b)
    \/ \E r \in Requests : Step(r) \/ Fail(r)
    \/ Change \/ Tick \/ Crash

Spec == Init /\ [][Next]_vars

\* Time passes, and calls are answered or fail.
Fairness == WF_vars(Tick) /\ \A r \in Requests : WF_vars(Step(r) \/ Fail(r))
FairSpec == Spec /\ Fairness

-----------------------------------------------------------------------------
(* Properties. *)

\* Entries are what a table once was; expired entries do not age further.
TypeOK ==
    /\ \A t, u \in tables : t.id = u.id \/ t.title = u.title => t = u
    /\ \A p \in Paths : cache[p] # None =>
          /\ cache[p].ttl \in 0 .. Lifetime
          /\ cache[p].info.id \in 1 .. nextTable - 1
          /\ cache[p].info.writable \cap cache[p].info.managed = {}
    /\ \A x \in rows : Has(x.table)

\* Whatever the order in which answers arrive, no request is checked against
\* fields that NocoDB gave longer ago than a lifetime and one call.
ServedFresh ==
    \A r \in Requests : local[r].used # None => local[r].used < Lifetime + CallTime

\* So, entries of the cache are what a table once was, expire in their time, and
\* no request is checked against older ones.
AccessFresh == TypeOK /\ ServedFresh

\* Each table in the catalog is reached by the name given there.
CatalogResolves ==
    \A x \in listExternalTables(tables) :
        /\ Resolve(tables, x.name) = {x.table}
        /\ \A y \in listExternalTables(tables) : x.name = y.name => x = y

\* Changes of the tables reach the cache: when they are over, what it serves
\* is what the tables are.
CacheSettles ==
    <>[](\A p \in Paths : Live(cache[p]) =>
            \E t \in Resolve(tables, p) \ {None} : Info(t, 0) = [cache[p].info EXCEPT !.age = 0])

\* docs/api.md: new fields are visible after 60 seconds at the latest
\* (violated: the lifetime begins when the answer arrives).
FieldsAfterLifetime ==
    \A r \in Requests : local[r].used # None => local[r].used <= Lifetime

\* docs/api.md: new tables can be reached at once (violated when the name was
\* that of a table that was dropped).
NewTablesReachable ==
    \A r \in Requests : local[r].missed => Cardinality(local[r].steady) # 1
=============================================================================
