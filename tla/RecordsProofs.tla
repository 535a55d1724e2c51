--------------------------- MODULE RecordsProofs ---------------------------
(***************************************************************************)
(* Proofs about Records.  Of the access to tables: for any tables, names,   *)
(* fields, lifetime and number of requests, no request is checked against   *)
(* fields older than the lifetime and a call, and each name of the catalog  *)
(* leads to its table.  Of the route cache: what it answers is fresh, and   *)
(* the URL's own.  Of the reading of pages: however rows come and go, what  *)
(* a listing misses and repeats is bounded by what came and went.           *)
(***************************************************************************)
EXTENDS Records, FiniteSetTheorems, TLAPS

-----------------------------------------------------------------------------
(* The inductive invariant of the access to tables *)

\* What is known of a table once NocoDB has given its fields.
Infos == [id : Nat, writable : SUBSET Fields, managed : SUBSET Fields, age : Nat]
Entries == [info : Infos, ttl : Nat]
TableSet == [id : Nat, title : Titles, physical : Titles,
             writable : SUBSET Fields, managed : SUBSET Fields]
RowSet == [table : Nat, id : Nat, fields : SUBSET Fields]
Places == {"idle", "findTable", "readFields", "store",
           "list", "count", "read", "create", "update", "delete"}
Results == {"notFound", "badRequest", "failed", "done"}
Locals == [op : Ops \cup {None}, path : Paths \cup {None}, row : Nat \cup {None},
           body : SUBSET Fields, table : Nat \cup {None}, info : Infos \cup {None},
           result : Results \cup {None}, steady : SUBSET Nat, used : Nat \cup {None},
           missed : BOOLEAN]

\* Fields of a table that exists or once existed; n is the next id of a table.
InfoOK(info, n) ==
    info \in Infos /\ info.id \in 1 .. n - 1 /\ info.writable \cap info.managed = {}

\* Ids and titles are those of one table.
TablesOK ==
    /\ nextTable \in Nat \ {0} /\ nextRow \in Nat
    /\ tables \subseteq TableSet /\ rows \subseteq RowSet
    /\ \A t \in tables : t.id \in 1 .. nextTable - 1 /\ t.writable \cap t.managed = {}
    /\ \A t, u \in tables : t.id = u.id \/ t.title = u.title => t = u
    /\ \A x \in rows : Has(x.table)

\* The older the fields were when they were kept, the sooner their entry is old.
EntryOK(e, n) ==
    e # None => /\ e \in Entries /\ InfoOK(e.info, n) /\ e.ttl <= Lifetime
                /\ e.info.age + e.ttl <= Lifetime + CallTime
CacheOK ==
    /\ cache \in [Paths -> Entries \cup {None}]
    /\ \A p \in Paths : EntryOK(cache[p], nextTable)

\* What a request carries that awaits call p: an answer is kept only while it
\* is no older than a call.
RequestOK(p, l, n) ==
    /\ l \in Locals
    /\ p \in {"findTable", "readFields", "store"} => l.path \in Paths /\ l.op \in Ops
    /\ p = "store" => InfoOK(l.info, n) /\ l.info.age <= CallTime
    /\ l.used # None => l.used < Lifetime + CallTime
RequestsOK ==
    /\ pc \in [Requests -> Places] /\ local \in [Requests -> Locals]
    /\ \A r \in Requests : RequestOK(pc[r], local[r], nextTable)

IInv == TablesOK /\ CacheOK /\ RequestsOK

-----------------------------------------------------------------------------
(* Requests *)

LEMMA Constants ==
    /\ Lifetime \in Nat \ {0} /\ CallTime \in Nat
    /\ \A b \in Bodies : b \subseteq Fields
    /\ Ops \subseteq {"list", "read", "create", "update", "delete"}
BY RecordAccessAssumption DEF RecordAccessAssumption

LEMMA OpsAreCalls ==
    ASSUME NEW op \in Ops
    PROVE  op \in Places /\ op \notin {"findTable", "readFields", "store"}
<1>1. op \in {"list", "read", "create", "update", "delete"}
  BY Constants
<1> QED BY <1>1 DEF Places

LEMMA BlankTyped ==
    ASSUME NEW n \in Nat \ {0}
    PROVE  Blank \in Locals /\ Blank.used = None /\ RequestOK("idle", Blank, n)
<1>1. Blank \in Locals
  BY DEF Blank, Locals
<1>2. Blank.used = None
  BY DEF Blank
<1> QED BY <1>1, <1>2 DEF RequestOK

LEMMA GotoKeeps ==
    ASSUME RequestsOK, NEW r \in Requests, NEW p \in Places, NEW l,
           Goto(r, p, l), RequestOK(p, l, nextTable), UNCHANGED nextTable
    PROVE  RequestsOK'
<1>1. l \in Locals
  BY DEF RequestOK
<1>2. pc' \in [Requests -> Places] /\ local' \in [Requests -> Locals]
  BY <1>1 DEF Goto, RequestsOK
<1>3. ASSUME NEW q \in Requests
      PROVE  RequestOK(pc'[q], local'[q], nextTable')
  <2>1. CASE q = r
    <3>1. pc'[q] = p /\ local'[q] = l
      BY <2>1 DEF Goto, RequestsOK
    <3> QED BY <3>1
  <2>2. CASE q # r
    <3>1. pc'[q] = pc[q] /\ local'[q] = local[q]
      BY <2>2 DEF Goto, RequestsOK
    <3> QED BY <3>1 DEF RequestsOK
  <2> QED BY <2>1, <2>2
<1> QED BY <1>2, <1>3 DEF RequestsOK

\* An answer keeps of the locals what the properties are about.
LEMMA FinishKeeps ==
    ASSUME RequestsOK, NEW r \in Requests, NEW l \in Locals, NEW result \in Results,
           l.used # None => l.used < Lifetime + CallTime,
           Finish(r, l, result), UNCHANGED nextTable
    PROVE  RequestsOK'
<1> DEFINE k == [Blank EXCEPT !.result = result, !.path = l.path, !.steady = l.steady,
                              !.used = l.used, !.missed = l.missed]
<1>1. k \in Locals /\ k.used = l.used
  BY DEF Blank, Locals
<1>2. Goto(r, "idle", k)
  BY DEF Finish
<1> HIDE DEF k
<1>3. RequestOK("idle", k, nextTable)
  BY <1>1 DEF RequestOK
<1>4. "idle" \in Places
  BY DEF Places
<1> QED BY <1>2, <1>3, <1>4, GotoKeeps

\* The fields that a request is checked against are younger than a lifetime and
\* a call.
LEMMA CheckedKeeps ==
    ASSUME RequestsOK, NEW r \in Requests, NEW l \in Locals, NEW info \in Infos,
           l.op \in Ops, info.age < Lifetime + CallTime,
           Checked(r, l, info), UNCHANGED nextTable
    PROVE  RequestsOK'
<1> DEFINE k == [l EXCEPT !.info = info, !.used = info.age]
<1>1. k \in Locals /\ k.used = info.age
  BY DEF Locals, Infos
<1>2. Finish(r, k, "badRequest") \/ Goto(r, l.op, k)
  BY DEF Checked
<1> HIDE DEF k
<1>3. CASE Finish(r, k, "badRequest")
  <2>1. k \in Locals /\ "badRequest" \in Results
    BY <1>1 DEF Results
  <2>2. k.used # None => k.used < Lifetime + CallTime
    BY <1>1
  <2> QED BY <1>3, <2>1, <2>2, FinishKeeps
<1>4. CASE Goto(r, l.op, k)
  <2>1. l.op \in Places /\ l.op \notin {"findTable", "readFields", "store"}
    BY OpsAreCalls
  <2>2. RequestOK(l.op, k, nextTable)
    BY <1>1, <2>1 DEF RequestOK
  <2> QED BY <1>4, <2>1, <2>2, GotoKeeps
<1> QED BY <1>2, <1>3, <1>4

\* Where only requests move, the tables and what is kept of them stay in order.
LEMMA RequestMoves ==
    ASSUME IInv, RequestsOK', UNCHANGED <<base, cache>>
    PROVE  IInv'
BY DEF IInv, TablesOK, CacheOK, EntryOK, base, Has

LEMMA LocalTyped ==
    ASSUME IInv, NEW r \in Requests
    PROVE  /\ local[r] \in Locals /\ local[r].body \subseteq Fields
           /\ pc[r] = "findTable" \/ pc[r] = "readFields" \/ pc[r] = "store" =>
                 local[r].path \in Paths /\ local[r].op \in Ops
           /\ pc[r] = "store" => /\ InfoOK(local[r].info, nextTable)
                                 /\ local[r].info.age <= CallTime
           /\ local[r].used # None => local[r].used < Lifetime + CallTime
<1>1. RequestOK(pc[r], local[r], nextTable)
  BY DEF IInv, RequestsOK
<1> QED BY <1>1 DEF RequestOK, Locals

\* What getTable may return is a table, or nothing.
LEMMA Resolved ==
    ASSUME IInv, NEW n
    PROVE  /\ Resolve(tables, n) \subseteq tables \cup {None}
           /\ {t.id : t \in Resolve(tables, n) \ {None}} \subseteq Nat
<1>1. Resolve(tables, n) \subseteq tables \cup {None}
  BY DEF Resolve, Entitled, Physical
<1>2. \A t \in tables : t.id \in Nat
  BY DEF IInv, TablesOK, TableSet
<1> QED BY <1>1, <1>2

\* A finished request, whatever the answer, keeps the invariant.
LEMMA FinishIsSafe ==
    ASSUME IInv, NEW r \in Requests, NEW result \in Results,
           Finish(r, local[r], result), UNCHANGED nextTable
    PROVE  RequestsOK'
<1>1. local[r] \in Locals /\ (local[r].used # None => local[r].used < Lifetime + CallTime)
  BY LocalTyped
<1>2. RequestsOK
  BY DEF IInv
<1> QED BY <1>1, <1>2, FinishKeeps

-----------------------------------------------------------------------------
(* getTable *)

LEMMA StartKeeps ==
    ASSUME IInv, NEW r \in Requests, NEW op \in Ops, NEW path \in Paths,
           NEW row \in 1 .. MaxRows, NEW body \in Bodies, Start(r, op, path, row, body)
    PROVE  IInv'
<1> DEFINE l == [Blank EXCEPT !.op = op, !.path = path, !.row = row, !.body = body,
                              !.steady = {t.id : t \in Resolve(tables, path) \ {None}}]
<1>1. {t.id : t \in Resolve(tables, path) \ {None}} \subseteq Nat
  BY Resolved
<1>2. body \subseteq Fields /\ row \in Nat
  BY Constants
<1>3. l \in Locals /\ l.op = op /\ l.path = path /\ l.used = None
  BY <1>1, <1>2 DEF Blank, Locals
<1>4. /\ UNCHANGED <<base, cache>>
      /\ \/ Finish(r, l, "notFound") \/ Finish(r, l, "badRequest")
         \/ Live(cache[path]) /\ Checked(r, l, cache[path].info)
         \/ Goto(r, "findTable", l)
  BY DEF Start, Reading
<1> HIDE DEF l
<1>5. UNCHANGED nextTable /\ RequestsOK
  BY <1>4 DEF base, IInv
<1>6. CASE Finish(r, l, "notFound") \/ Finish(r, l, "badRequest")
  <2>1. "notFound" \in Results /\ "badRequest" \in Results
    BY DEF Results
  <2>2. l.used # None => l.used < Lifetime + CallTime
    BY <1>3
  <2>3. RequestsOK'
    BY <1>3, <1>5, <1>6, <2>1, <2>2, FinishKeeps
  <2> QED BY <1>4, <2>3, RequestMoves
<1>7. CASE Live(cache[path]) /\ Checked(r, l, cache[path].info)
  <2>1. cache[path] # None /\ cache[path].ttl > 0
    BY <1>7 DEF Live
  <2>2. EntryOK(cache[path], nextTable)
    BY DEF IInv, CacheOK
  <2>3. cache[path].info \in Infos /\ cache[path].info.age < Lifetime + CallTime
    BY <2>1, <2>2, Constants DEF EntryOK, InfoOK, Entries, Infos
  <2>4. l.op \in Ops
    BY <1>3
  <2>5. RequestsOK'
    BY <1>3, <1>5, <1>7, <2>3, <2>4, CheckedKeeps
  <2> QED BY <1>4, <2>5, RequestMoves
<1>8. CASE Goto(r, "findTable", l)
  <2>1. "findTable" \in Places
    BY DEF Places
  <2>2. RequestOK("findTable", l, nextTable)
    BY <1>3 DEF RequestOK
  <2>3. RequestsOK'
    BY <1>5, <1>8, <2>1, <2>2, GotoKeeps
  <2> QED BY <1>4, <2>3, RequestMoves
<1> QED BY <1>4, <1>6, <1>7, <1>8

LEMMA FindTableKeeps ==
    ASSUME IInv, NEW r \in Requests, FindTable(r)
    PROVE  IInv'
<1> DEFINE path == local[r].path
<1>1. path \in Paths /\ local[r].op \in Ops /\ local[r] \in Locals
  BY LocalTyped DEF FindTable
<1>2. UNCHANGED base /\ UNCHANGED nextTable
  BY DEF FindTable, Reading, base
<1>3. PICK t \in Resolve(tables, path) :
         IF t = None
         THEN cache' = [cache EXCEPT ![path] = None] /\ Finish(r, local[r], "notFound")
         ELSE Goto(r, "readFields", [local[r] EXCEPT !.table = t.id]) /\ UNCHANGED cache
  BY DEF FindTable
<1>4. CASE t = None
  <2>1. cache' = [cache EXCEPT ![path] = None] /\ Finish(r, local[r], "notFound")
    BY <1>3, <1>4
  <2>2. CacheOK'
    BY <1>1, <1>2, <2>1 DEF IInv, CacheOK, EntryOK
  <2>3. "notFound" \in Results
    BY DEF Results
  <2>4. RequestsOK'
    BY <1>2, <2>1, <2>3, FinishIsSafe
  <2>5. TablesOK'
    BY <1>2 DEF IInv, TablesOK, base, Has
  <2> QED BY <2>2, <2>4, <2>5 DEF IInv
<1>5. CASE t # None
  <2> DEFINE l == [local[r] EXCEPT !.table = t.id]
  <2>1. Goto(r, "readFields", l) /\ UNCHANGED cache
    BY <1>3, <1>5
  <2>2. t.id \in Nat
    BY <1>5, Resolved
  <2>3. l \in Locals /\ l.path = path /\ l.op = local[r].op /\ l.used = local[r].used
    BY <1>1, <2>2 DEF Locals
  <2> HIDE DEF l
  <2>4. RequestOK("readFields", l, nextTable)
    BY <1>1, <2>3, LocalTyped DEF RequestOK
  <2>5. "readFields" \in Places
    BY DEF Places
  <2>6. RequestsOK'
    BY <1>2, <2>1, <2>4, <2>5, GotoKeeps DEF IInv
  <2> QED BY <1>2, <2>1, <2>6, RequestMoves
<1> QED BY <1>4, <1>5

\* The table of an id that exists is in the tables.
LEMMA TableFound ==
    ASSUME NEW id, Has(id)
    PROVE  Table(id) \in tables /\ Table(id).id = id
BY DEF Has, Table

LEMMA ReadFieldsKeeps ==
    ASSUME IInv, NEW r \in Requests, ReadFields(r)
    PROVE  IInv'
<1>1. local[r].path \in Paths /\ local[r].op \in Ops /\ local[r] \in Locals
  BY LocalTyped DEF ReadFields
<1>2. UNCHANGED <<base, cache>> /\ UNCHANGED nextTable
  BY DEF ReadFields, Reading, base
<1>3. CASE Has(local[r].table)
  <2> DEFINE t == Table(local[r].table)
             info == Info(t, 0)
             l == [local[r] EXCEPT !.info = info]
  <2>1. t \in tables /\ t \in TableSet
    BY <1>3, TableFound DEF IInv, TablesOK
  <2>2. InfoOK(info, nextTable) /\ info.age = 0
    BY <2>1 DEF IInv, TablesOK, TableSet, Info, InfoOK, Infos
  <2> HIDE DEF info
  <2>3. /\ l \in Locals /\ l.path = local[r].path /\ l.op = local[r].op
        /\ l.used = local[r].used /\ l.info = info
    BY <1>1, <2>2 DEF Locals, InfoOK
  <2>4. Goto(r, "store", l)
    BY <1>3 DEF ReadFields, info
  <2> HIDE DEF l
  <2>5. RequestOK("store", l, nextTable)
    BY <1>1, <2>2, <2>3, LocalTyped, Constants DEF RequestOK
  <2>6. "store" \in Places
    BY DEF Places
  <2>7. RequestsOK'
    BY <1>2, <2>4, <2>5, <2>6, GotoKeeps DEF IInv
  <2> QED BY <1>2, <2>7, RequestMoves
<1>4. CASE ~Has(local[r].table)
  <2>1. Finish(r, local[r], "failed")
    BY <1>4 DEF ReadFields
  <2>2. "failed" \in Results
    BY DEF Results
  <2>3. RequestsOK'
    BY <1>2, <2>1, <2>2, FinishIsSafe
  <2> QED BY <1>2, <2>3, RequestMoves
<1> QED BY <1>3, <1>4

LEMMA StoreKeeps ==
    ASSUME IInv, NEW r \in Requests, Store(r)
    PROVE  IInv'
<1> DEFINE info == local[r].info
           e == [info |-> info, ttl |-> Lifetime]
<1>1. local[r].path \in Paths /\ local[r].op \in Ops /\ local[r] \in Locals
  BY LocalTyped DEF Store
<1>2. InfoOK(info, nextTable) /\ info \in Infos /\ info.age <= CallTime /\ info.age \in Nat
  BY LocalTyped DEF Store, InfoOK, Infos
<1>3. UNCHANGED base /\ UNCHANGED nextTable
  BY DEF Store, Reading, base
<1>4. cache' = [cache EXCEPT ![local[r].path] = e] /\ Checked(r, local[r], info)
  BY DEF Store
<1>5. e \in Entries /\ EntryOK(e, nextTable)
  BY <1>2, Constants DEF Entries, EntryOK
<1> HIDE DEF e, info
<1>6. CacheOK'
  BY <1>1, <1>3, <1>4, <1>5 DEF IInv, CacheOK
<1>7. RequestsOK'
  <2>1. info.age < Lifetime + CallTime
    BY <1>2, Constants
  <2>2. RequestsOK
    BY DEF IInv
  <2> QED BY <1>1, <1>2, <1>3, <1>4, <2>1, <2>2, CheckedKeeps
<1>8. TablesOK'
  BY <1>3 DEF IInv, TablesOK, base, Has
<1> QED BY <1>6, <1>7, <1>8 DEF IInv

-----------------------------------------------------------------------------
(* The calls on records *)

LEMMA AnsweredKeeps ==
    ASSUME IInv, NEW r \in Requests,
           Refused(r) \/ Gone(r) \/ Read(r) \/ Count(r) \/ Fail(r)
    PROVE  IInv'
<1>1. "badRequest" \in Results /\ "notFound" \in Results /\ "failed" \in Results /\ "done" \in Results
  BY DEF Results
<1>2. UNCHANGED <<base, cache>> /\ UNCHANGED nextTable
  BY DEF Refused, Gone, Read, Count, Fail, Reading, base
<1>3. CASE Gone(r)
  <2> DEFINE l == [local[r] EXCEPT !.missed = TRUE]
             result == IF pc[r] \in {"read", "update", "delete"} THEN "notFound" ELSE "failed"
  <2>1. l \in Locals /\ (l.used # None => l.used < Lifetime + CallTime)
    BY LocalTyped DEF Locals
  <2>2. result \in Results
    BY <1>1
  <2>3. Finish(r, l, result)
    BY <1>3 DEF Gone
  <2> HIDE DEF l, result
  <2>4. RequestsOK
    BY DEF IInv
  <2>5. RequestsOK'
    BY <1>2, <2>1, <2>2, <2>3, <2>4, FinishKeeps
  <2> QED BY <1>2, <2>5, RequestMoves
<1>4. CASE Refused(r) \/ Read(r) \/ Count(r) \/ Fail(r)
  <2>1. \E result \in Results : Finish(r, local[r], result)
    BY <1>1, <1>4 DEF Refused, Read, Count, Fail
  <2>2. RequestsOK'
    BY <1>2, <2>1, FinishIsSafe
  <2> QED BY <1>2, <2>2, RequestMoves
<1> QED BY <1>3, <1>4

LEMMA ListKeeps ==
    ASSUME IInv, NEW r \in Requests, List(r)
    PROVE  IInv'
<1>1. UNCHANGED <<base, cache>> /\ UNCHANGED nextTable /\ Goto(r, "count", local[r])
  BY DEF List, Reading, base
<1>2. RequestOK("count", local[r], nextTable)
  BY LocalTyped DEF RequestOK
<1>3. "count" \in Places
  BY DEF Places
<1>4. RequestsOK
  BY DEF IInv
<1>5. RequestsOK'
  BY <1>1, <1>2, <1>3, <1>4, GotoKeeps
<1> QED BY <1>1, <1>5, RequestMoves

\* Records are written to a table that is there.
LEMMA RowsMove ==
    ASSUME IInv, RequestsOK', UNCHANGED <<tables, nextTable, cache>>,
           nextRow' \in Nat, rows' \subseteq RowSet, \A x \in rows' : Has(x.table)
    PROVE  IInv'
BY DEF IInv, TablesOK, CacheOK, EntryOK, Has

LEMMA CreateKeeps ==
    ASSUME IInv, NEW r \in Requests, Create(r)
    PROVE  IInv'
<1> DEFINE x == [table |-> Target(r), id |-> nextRow, fields |-> local[r].body]
<1>1. /\ UNCHANGED <<tables, nextTable, cache>> /\ nextRow' = nextRow + 1
      /\ rows' = rows \cup {x} /\ Finish(r, local[r], "done") /\ Has(Target(r))
  BY DEF Create, Accepts
<1>2. Target(r) \in Nat
  BY <1>1 DEF Has, IInv, TablesOK, TableSet
<1>3. x \in RowSet /\ x.table = Target(r)
  BY <1>2, LocalTyped DEF RowSet, IInv, TablesOK
<1> HIDE DEF x
<1>4. rows' \subseteq RowSet /\ \A y \in rows' : Has(y.table)
  BY <1>1, <1>3 DEF IInv, TablesOK
<1>5. "done" \in Results /\ nextRow' \in Nat
  BY <1>1 DEF Results, IInv, TablesOK
<1>6. RequestsOK'
  BY <1>1, <1>5, FinishIsSafe
<1> QED BY <1>1, <1>4, <1>5, <1>6, RowsMove

LEMMA UpdateKeeps ==
    ASSUME IInv, NEW r \in Requests, Update(r)
    PROVE  IInv'
<1>1. /\ UNCHANGED <<tables, nextTable, nextRow, cache>>
      /\ rows' = (rows \ Mine(r)) \cup {[x EXCEPT !.fields = @ \cup local[r].body] : x \in Mine(r)}
      /\ Finish(r, local[r], IF Mine(r) = {} THEN "notFound" ELSE "done")
  BY DEF Update
<1>2. ASSUME NEW x \in Mine(r)
      PROVE  LET y == [x EXCEPT !.fields = @ \cup local[r].body]
             IN  y \in RowSet /\ Has(y.table)
  <2>1. x \in RowSet /\ Has(x.table)
    BY DEF Mine, IInv, TablesOK
  <2> QED BY <2>1, LocalTyped DEF RowSet
<1>3. rows' \subseteq RowSet /\ \A y \in rows' : Has(y.table)
  BY <1>1, <1>2 DEF IInv, TablesOK
<1>4. \E result \in Results : Finish(r, local[r], result)
  BY <1>1 DEF Results
<1>5. RequestsOK' /\ nextRow' \in Nat
  BY <1>1, <1>4, FinishIsSafe DEF IInv, TablesOK
<1> QED BY <1>1, <1>3, <1>5, RowsMove

LEMMA DeleteKeeps ==
    ASSUME IInv, NEW r \in Requests, Delete(r)
    PROVE  IInv'
<1>1. /\ UNCHANGED <<tables, nextTable, nextRow, cache>> /\ rows' = rows \ Mine(r)
      /\ \E result \in Results : Finish(r, local[r], result)
  BY DEF Delete, Results
<1>2. rows' \subseteq RowSet /\ \A y \in rows' : Has(y.table)
  BY <1>1 DEF IInv, TablesOK
<1>3. RequestsOK' /\ nextRow' \in Nat
  BY <1>1, FinishIsSafe DEF IInv, TablesOK
<1> QED BY <1>1, <1>2, <1>3, RowsMove

-----------------------------------------------------------------------------
(* Whoever administers NocoDB, the clock and the process *)

\* Requests that are no longer steady lose no more than that, and more ids do
\* not trouble what is kept of those there were.
LEMMA UnsettleKeeps ==
    ASSUME IInv, NEW after, Unsettle(after), UNCHANGED <<pc, cache>>,
           nextTable' \in Nat, nextTable' >= nextTable
    PROVE  RequestsOK' /\ CacheOK'
<1>1. nextTable \in Nat
  BY DEF IInv, TablesOK
<1>2. ASSUME NEW info, InfoOK(info, nextTable)
      PROVE  InfoOK(info, nextTable')
  BY <1>1, <1>2 DEF InfoOK
<1>3. ASSUME NEW r \in Requests
      PROVE  RequestOK(pc[r], local'[r], nextTable')
  <2>1. RequestOK(pc[r], local[r], nextTable')
    BY <1>2 DEF IInv, RequestsOK, RequestOK
  <2>2. CASE local'[r] = local[r]
    BY <2>1, <2>2
  <2>3. CASE local'[r] # local[r]
    <3>1. local'[r] = [local[r] EXCEPT !.steady = {}]
      BY <2>3 DEF Unsettle
    <3>2. local[r] \in Locals
      BY <2>1 DEF RequestOK
    <3> DEFINE l == local'[r]
    <3>3. /\ l \in Locals /\ l.path = local[r].path /\ l.op = local[r].op
          /\ l.info = local[r].info /\ l.used = local[r].used
      BY <3>1, <3>2 DEF Locals
    <3> HIDE DEF l
    <3>4. RequestOK(pc[r], l, nextTable')
      BY <2>1, <3>3 DEF RequestOK
    <3> QED BY <3>4 DEF l
  <2> QED BY <2>2, <2>3
<1>4. local' \in [Requests -> Locals]
  <2>1. \A r \in Requests : local'[r] \in Locals
    BY <1>3 DEF RequestOK
  <2>2. local' = [r \in Requests |-> local'[r]]
    BY DEF Unsettle
  <2> QED BY <2>1, <2>2
<1>5. RequestsOK'
  BY <1>3, <1>4 DEF IInv, RequestsOK
<1>6. CacheOK'
  BY <1>2 DEF IInv, CacheOK, EntryOK
<1> QED BY <1>5, <1>6

LEMMA CreateTableKeeps ==
    ASSUME IInv, NEW title \in Titles, NEW physical \in Titles, CreateTable(title, physical)
    PROVE  IInv'
<1>1. PICK w \in SUBSET (Fields \ {"id"}) :
         tables' = tables \cup {[id |-> nextTable, title |-> title, physical |-> physical,
                                 writable |-> w, managed |-> Fields \ (w \cup {"id"})]}
  BY DEF CreateTable
<1> DEFINE t == [id |-> nextTable, title |-> title, physical |-> physical,
                 writable |-> w, managed |-> Fields \ (w \cup {"id"})]
<1>2. /\ nextTable' = nextTable + 1 /\ Unsettle(tables') /\ UNCHANGED <<rows, nextRow, cache, pc>>
      /\ \A u \in tables : u.title # title
  BY DEF CreateTable
<1>3. nextTable \in Nat \ {0} /\ \A u \in tables : u.id \in 1 .. nextTable - 1
  BY DEF IInv, TablesOK
<1>4. /\ t \in TableSet /\ t.id = nextTable /\ t.title = title /\ t.writable \cap t.managed = {}
  BY <1>3 DEF TableSet
<1>5. tables' = tables \cup {t}
  BY <1>1
<1> HIDE DEF t
<1>6. nextTable' \in Nat \ {0} /\ nextTable' >= nextTable
  BY <1>2, <1>3
<1>7. RequestsOK' /\ CacheOK'
  BY <1>2, <1>6, UnsettleKeeps
<1>8. tables' \subseteq TableSet
  BY <1>4, <1>5 DEF IInv, TablesOK
<1>9. \A u \in tables' : u.id \in 1 .. nextTable' - 1 /\ u.writable \cap u.managed = {}
  BY <1>2, <1>3, <1>4, <1>5 DEF IInv, TablesOK
<1>10. \A u, v \in tables' : u.id = v.id \/ u.title = v.title => u = v
  BY <1>2, <1>3, <1>4, <1>5 DEF IInv, TablesOK
<1>11. \A x \in rows' : \E u \in tables' : u.id = x.table
  BY <1>2, <1>5 DEF IInv, TablesOK, Has
<1>12. TablesOK'
  BY <1>2, <1>6, <1>8, <1>9, <1>10, <1>11 DEF IInv, TablesOK, Has
<1> QED BY <1>7, <1>12 DEF IInv

LEMMA DropTableKeeps ==
    ASSUME IInv, NEW t \in tables, DropTable(t)
    PROVE  IInv'
<1>1. /\ tables' = tables \ {t} /\ rows' = {x \in rows : x.table # t.id}
      /\ Unsettle(tables') /\ UNCHANGED <<nextTable, nextRow, cache, pc>>
  BY DEF DropTable
<1>2. nextTable' \in Nat /\ nextTable' >= nextTable
  BY <1>1 DEF IInv, TablesOK
<1>3. RequestsOK' /\ CacheOK'
  BY <1>1, <1>2, UnsettleKeeps
<1>4. \A x \in rows' : \E u \in tables' : u.id = x.table
  BY <1>1 DEF IInv, TablesOK, Has
<1>5. TablesOK'
  BY <1>1, <1>4 DEF IInv, TablesOK, Has
<1> QED BY <1>3, <1>5 DEF IInv

LEMMA ChangeFieldsKeeps ==
    ASSUME IInv, NEW t \in tables, NEW w \in SUBSET (Fields \ {"id"}),
           NEW m \in SUBSET (Fields \ {"id"}), ChangeFields(t, w, m)
    PROVE  IInv'
<1> DEFINE u == [t EXCEPT !.writable = w, !.managed = m]
<1>1. /\ tables' = (tables \ {t}) \cup {u} /\ w \cap m = {}
      /\ UNCHANGED <<rows, nextTable, nextRow, cache, pc, local>>
  BY DEF ChangeFields
<1>2. t \in TableSet /\ t.id \in 1 .. nextTable - 1
  BY DEF IInv, TablesOK
<1>3. u \in TableSet /\ u.id = t.id /\ u.title = t.title /\ u.writable \cap u.managed = {}
  BY <1>1, <1>2 DEF TableSet
<1> HIDE DEF u
<1>4. \A x \in rows' : \E v \in tables' : v.id = x.table
  BY <1>1, <1>3 DEF IInv, TablesOK, Has
<1>5. tables' \subseteq TableSet
  BY <1>1, <1>3 DEF IInv, TablesOK
<1>6. \A v \in tables' : v.id \in 1 .. nextTable' - 1 /\ v.writable \cap v.managed = {}
  BY <1>1, <1>2, <1>3 DEF IInv, TablesOK
<1>7. \A v, x \in tables' : v.id = x.id \/ v.title = x.title => v = x
  BY <1>1, <1>3 DEF IInv, TablesOK
<1>8. TablesOK'
  BY <1>1, <1>4, <1>5, <1>6, <1>7 DEF IInv, TablesOK, Has
<1>9. RequestsOK' /\ CacheOK'
  BY <1>1 DEF IInv, RequestsOK, CacheOK, EntryOK
<1> QED BY <1>8, <1>9 DEF IInv

LEMMA AgedOK ==
    ASSUME NEW n \in Nat, NEW info, InfoOK(info, n)
    PROVE  InfoOK(Aged(info), n) /\ Aged(info).age <= info.age + 1
<1>1. info \in Infos /\ info.age \in Nat
  BY DEF InfoOK, Infos
<1> DEFINE a == IF info.age > Lifetime + CallTime THEN info.age ELSE info.age + 1
<1>2. a \in Nat /\ a <= info.age + 1
  BY <1>1, Constants
<1> HIDE DEF a
<1>3. Aged(info) = [info EXCEPT !.age = a]
  BY DEF Aged, a
<1>4. /\ Aged(info) \in Infos /\ Aged(info).id = info.id /\ Aged(info).age = a
      /\ Aged(info).writable = info.writable /\ Aged(info).managed = info.managed
  BY <1>1, <1>2, <1>3 DEF Infos
<1> QED BY <1>2, <1>4 DEF InfoOK

LEMMA OlderOK ==
    ASSUME NEW n \in Nat, NEW e \in Entries \cup {None}, EntryOK(e, n)
    PROVE  Older(e) \in Entries \cup {None} /\ EntryOK(Older(e), n)
<1>1. CASE e = None \/ e.ttl = 0
  BY <1>1 DEF Older
<1>2. CASE ~(e = None \/ e.ttl = 0)
  <2> DEFINE info == Aged(e.info)
  <2>1. e \in Entries /\ e.ttl \in Nat \ {0} /\ e.ttl <= Lifetime
    BY <1>2 DEF EntryOK, Entries
  <2>2. InfoOK(e.info, n) /\ e.info.age \in Nat /\ e.info.age + e.ttl <= Lifetime + CallTime
    BY <1>2 DEF EntryOK, InfoOK, Infos
  <2>3. InfoOK(info, n) /\ info.age <= e.info.age + 1
    BY <2>2, AgedOK
  <2>4. info \in Infos /\ info.age \in Nat
    BY <2>3 DEF InfoOK, Infos
  <2>5. Older(e) = [info |-> info, ttl |-> e.ttl - 1]
    BY <1>2 DEF Older
  <2> HIDE DEF info
  <2>6. Older(e) \in Entries /\ Older(e).info = info /\ Older(e).ttl = e.ttl - 1
    BY <2>1, <2>4, <2>5 DEF Entries
  <2>7. info.age + (e.ttl - 1) <= Lifetime + CallTime /\ e.ttl - 1 <= Lifetime
    BY <2>1, <2>2, <2>3, <2>4, Constants
  <2> QED BY <2>3, <2>6, <2>7 DEF EntryOK
<1> QED BY <1>1, <1>2

LEMMA TickKeeps ==
    ASSUME IInv, Tick
    PROVE  IInv'
<1>1. /\ \A r \in Requests : pc[r] = "store" => local[r].info.age < CallTime
      /\ cache' = [p \in Paths |-> Older(cache[p])]
      /\ local' = [r \in Requests |->
                     IF pc[r] = "store" THEN [local[r] EXCEPT !.info = Aged(local[r].info)]
                     ELSE local[r]]
      /\ UNCHANGED <<base, pc>> /\ UNCHANGED nextTable
  BY DEF Tick, base
<1>2. nextTable \in Nat
  BY DEF IInv, TablesOK
<1>3. ASSUME NEW p \in Paths
      PROVE  cache'[p] \in Entries \cup {None} /\ EntryOK(cache'[p], nextTable')
  <2>1. cache[p] \in Entries \cup {None} /\ EntryOK(cache[p], nextTable)
    BY DEF IInv, CacheOK
  <2> QED BY <1>1, <1>2, <2>1, OlderOK
<1>4. CacheOK'
  BY <1>1, <1>3 DEF CacheOK
<1>5. ASSUME NEW r \in Requests
      PROVE  local'[r] \in Locals /\ RequestOK(pc'[r], local'[r], nextTable')
  <2>1. local[r] \in Locals /\ RequestOK(pc[r], local[r], nextTable)
    BY DEF IInv, RequestsOK
  <2>2. CASE pc[r] = "store"
    <3> DEFINE info == Aged(local[r].info)
               l == [local[r] EXCEPT !.info = info]
    <3>1. InfoOK(local[r].info, nextTable) /\ local[r].info.age < CallTime
      BY <1>1, <2>1, <2>2 DEF RequestOK
    <3>2. InfoOK(info, nextTable) /\ info.age <= local[r].info.age + 1
      BY <1>2, <3>1, AgedOK
    <3>3. info \in Infos /\ info.age \in Nat /\ local[r].info.age \in Nat
      BY <3>1, <3>2 DEF InfoOK, Infos
    <3>4. info.age <= CallTime
      BY <3>1, <3>2, <3>3, Constants
    <3> HIDE DEF info
    <3>5. /\ l \in Locals /\ l.info = info /\ l.path = local[r].path /\ l.op = local[r].op
          /\ l.used = local[r].used
      BY <2>1, <3>3 DEF Locals
    <3>6. local'[r] = l
      BY <1>1, <2>2 DEF info
    <3> HIDE DEF l
    <3> QED BY <1>1, <2>1, <3>2, <3>4, <3>5, <3>6 DEF RequestOK
  <2>3. CASE pc[r] # "store"
    BY <1>1, <2>1, <2>3
  <2> QED BY <2>2, <2>3
<1>6. RequestsOK'
  BY <1>1, <1>5 DEF IInv, RequestsOK
<1>7. TablesOK'
  BY <1>1 DEF IInv, TablesOK, base, Has
<1> QED BY <1>4, <1>6, <1>7 DEF IInv

LEMMA CrashKeeps ==
    ASSUME IInv, Crash
    PROVE  IInv'
<1>1. /\ cache' = [p \in Paths |-> None] /\ pc' = [r \in Requests |-> "idle"]
      /\ local' = [r \in Requests |-> Blank] /\ UNCHANGED base /\ UNCHANGED nextTable
  BY DEF Crash, Reading, base
<1>2. nextTable \in Nat \ {0}
  BY DEF IInv, TablesOK
<1>3. Blank \in Locals /\ RequestOK("idle", Blank, nextTable) /\ "idle" \in Places
  BY <1>2, BlankTyped DEF Places
<1>4. RequestsOK'
  BY <1>1, <1>3 DEF RequestsOK
<1>5. CacheOK'
  BY <1>1 DEF CacheOK, EntryOK
<1>6. TablesOK'
  BY <1>1 DEF IInv, TablesOK, base, Has
<1> QED BY <1>4, <1>5, <1>6 DEF IInv

LEMMA InitHolds ==
    ASSUME Init
    PROVE  IInv
<1>1. Blank \in Locals /\ RequestOK("idle", Blank, nextTable) /\ "idle" \in Places
  BY BlankTyped DEF Init, Places
<1>2. RequestsOK
  BY <1>1 DEF Init, RequestsOK
<1>3. CacheOK
  BY DEF Init, CacheOK, EntryOK
<1>4. TablesOK
  BY DEF Init, TablesOK
<1> QED BY <1>2, <1>3, <1>4 DEF IInv


-----------------------------------------------------------------------------
(* The theorems of the access to tables *)

\* Every reachable state of the access to tables satisfies the inductive
\* invariant.
THEOREM Inductive == Spec => []IInv
<1>1. Init => IInv
  BY InitHolds
<1>2. IInv /\ [Next]_vars => IInv'
  <2> SUFFICES ASSUME IInv, [Next]_vars PROVE IInv'
    OBVIOUS
  <2>1. CASE \E r \in Requests, p \in Paths, row \in 1 .. MaxRows, b \in Bodies, op \in Ops :
                Start(r, op, p, row, b)
    BY <2>1, StartKeeps
  <2>2. CASE \E r \in Requests : Step(r) \/ Fail(r)
    BY <2>2, FindTableKeeps, ReadFieldsKeeps, StoreKeeps, AnsweredKeeps, ListKeeps,
       CreateKeeps, UpdateKeeps, DeleteKeeps DEF Step
  <2>3. CASE Change
    BY <2>3, CreateTableKeeps, DropTableKeeps, ChangeFieldsKeeps DEF Change
  <2>4. CASE Tick \/ Crash
    BY <2>4, TickKeeps, CrashKeeps
  <2>5. CASE UNCHANGED vars
    BY <2>5 DEF vars, base, IInv, TablesOK, CacheOK, RequestsOK, Has
  <2> QED BY <2>1, <2>2, <2>3, <2>4, <2>5 DEF Next
<1> QED BY <1>1, <1>2, PTL DEF Spec

\* Entries of the cache of tables are what a table once was and expire in their
\* time, and no request is checked against fields that NocoDB gave longer ago
\* than a lifetime and a call, in whatever order answers arrive.
THEOREM AccessIsFresh == Spec => []AccessFresh
<1>1. IInv => AccessFresh
  <2> SUFFICES ASSUME IInv PROVE AccessFresh
    OBVIOUS
  <2>1. ASSUME NEW p \in Paths, cache[p] # None
        PROVE  /\ cache[p].ttl \in 0 .. Lifetime
               /\ cache[p].info.id \in 1 .. nextTable - 1
               /\ cache[p].info.writable \cap cache[p].info.managed = {}
    <3>1. EntryOK(cache[p], nextTable)
      BY DEF IInv, CacheOK
    <3> QED BY <2>1, <3>1, Constants DEF EntryOK, InfoOK, Entries
  <2>2. TypeOK
    BY <2>1 DEF IInv, TablesOK, TypeOK
  <2>3. ServedFresh
    BY LocalTyped DEF ServedFresh
  <2> QED BY <2>2, <2>3 DEF AccessFresh
<1> QED BY <1>1, Inductive, PTL

-----------------------------------------------------------------------------
(* The names of the catalog *)

\* What follows the prefix, with the prefix, is the title again.
LEMMA Prefixed ==
    ASSUME NEW S, NEW s \in Seq(S), NEW t \in Seq(S), IsPrefix(s, t)
    PROVE  s \o SubSeq(t, Len(s) + 1, Len(t)) = t
<1>1. Len(s) <= Len(t) /\ SubSeq(s, 1, Len(s)) = SubSeq(t, 1, Len(s))
  BY DEF IsPrefix
<1> DEFINE u == s \o SubSeq(t, Len(s) + 1, Len(t))
<1>2. \A i \in 1 .. Len(s) : s[i] = t[i]
  <2> SUFFICES ASSUME NEW i \in 1 .. Len(s) PROVE s[i] = t[i]
    OBVIOUS
  <2>1. SubSeq(s, 1, Len(s))[i] = s[i] /\ SubSeq(t, 1, Len(s))[i] = t[i]
    BY <1>1
  <2> QED BY <1>1, <2>1
<1>3. u \in Seq(S) /\ Len(u) = Len(t)
  BY <1>1
<1>4. \A i \in 1 .. Len(t) : u[i] = t[i]
  BY <1>1, <1>2
<1> QED BY <1>3, <1>4

LEMMA NamesResolve ==
    ASSUME IInv, NEW t \in tables, IsPrefix(TablePrefix, t.title)
    PROVE  LET n == SubSeq(t.title, Len(TablePrefix) + 1, Len(t.title))
           IN  getPrefixedTableName(n) = t.title /\ Resolve(tables, n) = {t}
<1> DEFINE n == SubSeq(t.title, Len(TablePrefix) + 1, Len(t.title))
<1>1. t.title \in Seq(STRING) /\ TablePrefix \in Seq(STRING)
  BY RecordAccessAssumption DEF RecordAccessAssumption, IInv, TablesOK, TableSet
<1>2. getPrefixedTableName(n) = t.title
  BY <1>1, Prefixed DEF getPrefixedTableName
<1> HIDE DEF n
<1>3. Entitled(tables, t.title) = {t}
  BY DEF Entitled, IInv, TablesOK
<1>4. Resolve(tables, n) = {t}
  BY <1>2, <1>3 DEF Resolve
<1> QED BY <1>2, <1>4 DEF n

\* Each table in the catalog of tables is reached by the name given there, and
\* no other table has it, whatever the titles and physical names of the others.
THEOREM CatalogLeads == Spec => []CatalogResolves
<1>1. IInv => CatalogResolves
  <2> SUFFICES ASSUME IInv PROVE CatalogResolves
    OBVIOUS
  <2>1. ASSUME NEW x \in listExternalTables(tables)
        PROVE  /\ x.table \in tables /\ getPrefixedTableName(x.name) = x.table.title
               /\ Resolve(tables, x.name) = {x.table}
    <3>1. PICK t \in tables :
             /\ IsPrefix(TablePrefix, t.title)
             /\ x = [table |-> t, name |-> SubSeq(t.title, Len(TablePrefix) + 1, Len(t.title))]
      BY DEF listExternalTables
    <3> QED BY <3>1, NamesResolve
  <2>2. ASSUME NEW x \in listExternalTables(tables), NEW y \in listExternalTables(tables),
               x.name = y.name
        PROVE  x = y
    <3>1. x.table = y.table
      BY <2>1, <2>2
    <3>2. /\ x = [table |-> x.table, name |-> x.name]
          /\ y = [table |-> y.table, name |-> y.name]
      BY DEF listExternalTables
    <3> QED BY <2>2, <3>1, <3>2
  <2> QED BY <2>1, <2>2 DEF CatalogResolves
<1> QED BY <1>1, Inductive, PTL

-----------------------------------------------------------------------------
(* The route cache *)

\* Responses are filed under the URL they answer.
Filed == \A u \in Urls : responses[u] # None => responses[u].of = u

RouteInv == Routes!TypeOK /\ Filed /\ Routes!AnswersFresh /\ Routes!AnswersOwnUrl

LEMMA RouteConstants == Routes!RouteCacheAssumption
BY RecordsAssumption DEF RecordsAssumption

LEMMA IdleRequestTyped ==
    ASSUME Routes!RouteCacheAssumption
    PROVE  /\ Routes!Idle \in [url : Urls \cup {None}, age : 0 .. Routes!Unread]
           /\ 0 \in 0 .. Routes!Unread /\ Routes!Unread \in 0 .. Routes!Unread
BY DEF Routes!RouteCacheAssumption, Routes!Idle, Routes!Unread

\* A step that leaves the cache, typed requests and no answer.
LEMMA RouteQuiet ==
    ASSUME RouteInv, answer' = None, UNCHANGED responses,
           request' \in [Readers -> [url : Urls \cup {None}, age : 0 .. Routes!Unread]]
    PROVE  RouteInv'
BY DEF RouteInv, Routes!TypeOK, Filed, Routes!AnswersFresh, Routes!AnswersOwnUrl

LEMMA RouteInitHolds ==
    ASSUME Routes!RouteCacheAssumption, Routes!Init
    PROVE  RouteInv
BY IdleRequestTyped DEF Routes!Init, RouteInv, Routes!TypeOK, Filed, Routes!AnswersFresh, Routes!AnswersOwnUrl

LEMMA RouteGetKeeps ==
    ASSUME Routes!RouteCacheAssumption, RouteInv, NEW r \in Readers, NEW url \in Urls, Routes!Get(r, url)
    PROVE  RouteInv'
<1>1. CASE responses[url] # None
  <2>1. /\ answer' = [url |-> url, of |-> responses[url].of, age |-> responses[url].age]
        /\ UNCHANGED <<responses, request>>
    BY <1>1 DEF Routes!Get, Routes!key, Routes!Kept, Routes!Answer
  <2>2. responses[url] \in [of : Urls, age : Nat, left : Nat]
    BY <1>1 DEF RouteInv, Routes!TypeOK
  <2>3. responses[url].of = url /\ responses[url].age < TTL + ReadTime
    BY <1>1, <2>2 DEF RouteInv, Routes!TypeOK, Filed, Routes!RouteCacheAssumption
  <2>4. Routes!TypeOK' /\ Filed'
    BY <2>1 DEF RouteInv, Routes!TypeOK, Filed
  <2>5. Routes!AnswersFresh' /\ Routes!AnswersOwnUrl'
    BY <2>1, <2>3 DEF Routes!AnswersFresh, Routes!AnswersOwnUrl
  <2> QED BY <2>4, <2>5 DEF RouteInv
<1>2. CASE responses[url] = None
  <2>1. /\ request' = [request EXCEPT ![r] = [url |-> url, age |-> Routes!Unread]]
        /\ answer' = None /\ UNCHANGED responses
    BY <1>2 DEF Routes!Get, Routes!key
  <2>2. request' \in [Readers -> [url : Urls \cup {None}, age : 0 .. Routes!Unread]]
    BY <2>1, IdleRequestTyped DEF RouteInv, Routes!TypeOK
  <2> QED BY <2>1, <2>2, RouteQuiet
<1> QED BY <1>1, <1>2

LEMMA RouteReadKeeps ==
    ASSUME Routes!RouteCacheAssumption, RouteInv, NEW r \in Readers, Routes!Read(r) \/ Routes!Fail(r)
    PROVE  RouteInv'
<1>1. answer' = None /\ UNCHANGED responses
  BY DEF Routes!Read, Routes!Fail
<1>2. request' \in [Readers -> [url : Urls \cup {None}, age : 0 .. Routes!Unread]]
  BY IdleRequestTyped DEF Routes!Read, Routes!Fail, RouteInv, Routes!TypeOK
<1> QED BY <1>1, <1>2, RouteQuiet

LEMMA RouteRespondKeeps ==
    ASSUME Routes!RouteCacheAssumption, RouteInv, NEW r \in Readers, Routes!Respond(r)
    PROVE  RouteInv'
<1> DEFINE q == request[r]
           e == [of |-> q.url, age |-> q.age, left |-> TTL]
<1>1. q \in [url : Urls \cup {None}, age : 0 .. Routes!Unread] /\ q.url # None /\ q.age # Routes!Unread
  BY DEF Routes!Respond, RouteInv, Routes!TypeOK
<1>2. q.url \in Urls /\ q.age \in 0 .. ReadTime
  BY <1>1 DEF Routes!Unread, Routes!RouteCacheAssumption
<1>3. /\ responses' = [responses EXCEPT ![q.url] = e]
      /\ request' = [request EXCEPT ![r] = Routes!Idle]
      /\ answer' = [url |-> q.url, of |-> q.url, age |-> q.age]
  BY DEF Routes!Respond, Routes!key, Routes!Answer
<1>4. e \in [of : Urls, age : Nat, left : Nat] /\ e.left = TTL /\ e.age = q.age /\ e.of = q.url
  BY <1>2 DEF Routes!RouteCacheAssumption
<1>5. responses'[q.url] = e /\ \A u \in Urls \ {q.url} : responses'[u] = responses[u]
  BY <1>2, <1>3 DEF RouteInv, Routes!TypeOK
<1>6. request' \in [Readers -> [url : Urls \cup {None}, age : 0 .. Routes!Unread]]
  BY <1>3, IdleRequestTyped DEF RouteInv, Routes!TypeOK
<1>7. responses' \in [Urls -> [of : Urls, age : Nat, left : Nat] \cup {None}]
  BY <1>3, <1>4 DEF RouteInv, Routes!TypeOK
<1>8. ASSUME NEW u \in Urls, responses'[u] # None
      PROVE  /\ responses'[u].left \in 1 .. TTL
             /\ responses'[u].age + responses'[u].left <= TTL + ReadTime
             /\ responses'[u].of = u
  <2>1. CASE u = q.url
    BY <1>2, <1>4, <1>5, <2>1 DEF Routes!RouteCacheAssumption
  <2>2. CASE u # q.url
    BY <1>5, <1>8, <2>2 DEF RouteInv, Routes!TypeOK, Filed
  <2> QED BY <2>1, <2>2
<1>9. Routes!AnswersFresh' /\ Routes!AnswersOwnUrl'
  BY <1>2, <1>3 DEF Routes!AnswersFresh, Routes!AnswersOwnUrl, Routes!RouteCacheAssumption
<1> QED BY <1>6, <1>7, <1>8, <1>9 DEF RouteInv, Routes!TypeOK, Filed

\* An entry grows older.
LEMMA EntryAged ==
    ASSUME NEW e \in [of : Urls, age : Nat, left : Nat], e.left \in Nat \ {0}
    PROVE  LET f == Routes!Older(e)
           IN  /\ f.age = e.age + 1 /\ f.left = e.left - 1 /\ f.of = e.of
               /\ f \in [of : Urls, age : Nat, left : Nat]
BY DEF Routes!Older

LEMMA RouteTickKeeps ==
    ASSUME Routes!RouteCacheAssumption, RouteInv, Routes!Tick
    PROVE  RouteInv'
<1>1. request' \in [Readers -> [url : Urls \cup {None}, age : 0 .. Routes!Unread]]
  <2>1. ASSUME NEW r \in Readers
        PROVE  (IF request[r].age < ReadTime THEN [request[r] EXCEPT !.age = @ + 1]
                ELSE request[r]) \in [url : Urls \cup {None}, age : 0 .. Routes!Unread]
    BY DEF RouteInv, Routes!TypeOK, Routes!Unread, Routes!RouteCacheAssumption
  <2> QED BY <2>1 DEF Routes!Tick
<1>2. ASSUME NEW u \in Urls
      PROVE  /\ responses'[u] \in [of : Urls, age : Nat, left : Nat] \cup {None}
             /\ responses'[u] # None => /\ responses'[u].left \in 1 .. TTL
                                    /\ responses'[u].age + responses'[u].left <= TTL + ReadTime
                                    /\ responses'[u].of = u
  <2>1. responses'[u] = IF responses[u] = None \/ responses[u].left = 1 THEN None
                    ELSE Routes!Older(responses[u])
    BY DEF Routes!Tick
  <2>2. CASE responses[u] = None \/ responses[u].left = 1
    BY <2>1, <2>2
  <2>3. CASE ~(responses[u] = None \/ responses[u].left = 1)
    <3>1. /\ responses[u] \in [of : Urls, age : Nat, left : Nat] /\ responses[u].of = u
          /\ responses[u].left \in 1 .. TTL /\ responses[u].left # 1
          /\ responses[u].age + responses[u].left <= TTL + ReadTime
      BY <2>3 DEF RouteInv, Routes!TypeOK, Filed
    <3>2. /\ responses'[u].age = responses[u].age + 1 /\ responses'[u].left = responses[u].left - 1
          /\ responses'[u].of = responses[u].of
          /\ responses'[u] \in [of : Urls, age : Nat, left : Nat]
      <4>1. responses'[u] = Routes!Older(responses[u])
        BY <2>1, <2>3
      <4> QED BY <3>1, <4>1, EntryAged DEF Routes!RouteCacheAssumption
    <3> QED BY <3>1, <3>2 DEF Routes!RouteCacheAssumption
  <2> QED BY <2>2, <2>3
<1>3. responses' \in [Urls -> [of : Urls, age : Nat, left : Nat] \cup {None}]
  BY <1>2 DEF Routes!Tick
<1>4. Routes!AnswersFresh' /\ Routes!AnswersOwnUrl'
  BY DEF Routes!Tick, Routes!AnswersFresh, Routes!AnswersOwnUrl
<1> QED BY <1>1, <1>2, <1>3, <1>4 DEF RouteInv, Routes!TypeOK, Filed

\* Every reachable state of the route cache satisfies its inductive invariant.
THEOREM RouteInductive == Routes!Spec => []RouteInv
<1>1. Routes!Init => RouteInv
  BY RouteInitHolds, RouteConstants
<1>2. RouteInv /\ [Routes!Next]_(Routes!vars) => RouteInv'
  <2> SUFFICES ASSUME RouteInv, [Routes!Next]_(Routes!vars) PROVE RouteInv'
    OBVIOUS
  <2>1. CASE Routes!Next
    BY <2>1, RouteGetKeeps, RouteReadKeeps, RouteRespondKeeps, RouteTickKeeps, RouteConstants
       DEF Routes!Next
  <2>2. CASE UNCHANGED Routes!vars
    BY <2>2 DEF Routes!vars, RouteInv, Routes!TypeOK, Filed, Routes!AnswersFresh,
                Routes!AnswersOwnUrl
  <2> QED BY <2>1, <2>2
<1> QED BY <1>1, <1>2, PTL DEF Routes!Spec

\* What the interceptor answers is a response to the URL, read at most a lifetime
\* and a call ago; its entries expire in their time.
THEOREM RoutesSound == Routes!Spec => []AnswersSound
<1>1. RouteInv => AnswersSound
  BY DEF RouteInv, AnswersSound
<1> QED BY <1>1, RouteInductive, PTL

-----------------------------------------------------------------------------
(* Places in a table *)

\* The place of a row among those of S.
Rank(S, k) == Cardinality({x \in S : x <= k})

\* Rows have places of their own.
LEMMA RanksRise ==
    ASSUME NEW S \in SUBSET Nat, IsFiniteSet(S), NEW k \in S
    PROVE  /\ Cardinality(S) \in Nat /\ Rank(S, k) \in 1 .. Cardinality(S)
           /\ \A l \in S : k < l => Rank(S, k) < Rank(S, l)
<1>1. \A l \in S : /\ IsFiniteSet({x \in S : x <= l}) /\ Cardinality({x \in S : x <= l}) \in Nat
                   /\ Cardinality({x \in S : x <= l}) <= Cardinality(S)
  <2> TAKE l \in S
  <2>1. {x \in S : x <= l} \in SUBSET S
    OBVIOUS
  <2> QED BY <2>1, FS_Subset, FS_CardinalityType
<1>2. Cardinality(S) \in Nat
  BY FS_CardinalityType
<1>3. Rank(S, k) # 0
  <2>1. k \in {x \in S : x <= k}
    OBVIOUS
  <2> QED BY <1>1, <2>1, FS_EmptySet DEF Rank
<1>4. ASSUME NEW l \in S, k < l
      PROVE  Rank(S, k) < Rank(S, l)
  <2> DEFINE A == {x \in S : x <= k}
             B == {x \in S : x <= l}
  <2>1. \A x \in S : x <= k => x <= l
    <3> TAKE x \in S
    <3>1. k \in Nat /\ l \in Nat /\ x \in Nat
      OBVIOUS
    <3> QED BY <1>4, <3>1
  <2>2. l \in B /\ l \notin A
    BY <1>4
  <2>3. A # B
    BY <2>2
  <2>4. IsFiniteSet(B) /\ Cardinality(A) \in Nat /\ Cardinality(B) \in Nat
    BY <1>1
  <2> HIDE DEF A, B
  <2>5. Cardinality(A) <= Cardinality(B) /\ Cardinality(A) # Cardinality(B)
    <3>1. A \in SUBSET B
      BY <2>1 DEF A, B
    <3> QED BY <2>3, <2>4, <3>1, FS_Subset
  <2>6. Cardinality(A) < Cardinality(B)
    BY <2>4, <2>5
  <2> QED BY <2>6 DEF A, B, Rank
<1> QED BY <1>1, <1>2, <1>3, <1>4 DEF Rank

\* The rows one after the other exist: each stands at its place.
LEMMA Ordered ==
    ASSUME NEW S \in SUBSET Nat, IsFiniteSet(S)
    PROVE  /\ Pages!InOrder(S) \in [1 .. Cardinality(S) -> S]
           /\ \A i, j \in 1 .. Cardinality(S) : i < j => Pages!InOrder(S)[i] < Pages!InOrder(S)[j]
<1> DEFINE n == Cardinality(S)
           r == [k \in S |-> Rank(S, k)]
           s == [i \in 1 .. n |-> CHOOSE k \in S : r[k] = i]
           R(q) == q \in [1 .. n -> S] /\ \A i, j \in DOMAIN q : i < j => q[i] < q[j]
<1>1. n \in Nat
  BY FS_CardinalityType
<1>2. \A k \in S : r[k] \in 1 .. n /\ \A l \in S : k < l => r[k] < r[l]
  BY RanksRise
<1> HIDE DEF r
<1>3. r \in Injection(S, 1 .. n)
  <2>1. r \in [S -> 1 .. n]
    BY <1>2 DEF r
  <2>2. \A k, l \in S : r[k] = r[l] => k = l
    <3> SUFFICES ASSUME NEW k \in S, NEW l \in S, r[k] = r[l], k # l PROVE FALSE
      OBVIOUS
    <3>1. k \in Nat /\ l \in Nat
      OBVIOUS
    <3>2. k < l \/ l < k
      BY <3>1
    <3>3. r[k] \in 1 .. n /\ r[l] \in 1 .. n /\ (k < l => r[k] < r[l]) /\ (l < k => r[l] < r[k])
      BY <1>2
    <3> QED BY <1>1, <3>2, <3>3
  <2> QED BY <2>1, <2>2 DEF Injection, IsInjective
<1>4. IsFiniteSet(1 .. n) /\ Cardinality(1 .. n) = n
  BY <1>1, FS_Interval
<1>5. r \in Surjection(S, 1 .. n)
  BY <1>3, <1>4, FS_Injection
<1>6. \A i \in 1 .. n : \E k \in S : r[k] = i
  BY <1>5 DEF Surjection
<1>7. s \in [1 .. n -> S] /\ \A i \in 1 .. n : r[s[i]] = i
  BY <1>6
<1> HIDE DEF s
<1>8. R(s)
  <2>1. DOMAIN s = 1 .. n
    BY <1>7
  <2>2. ASSUME NEW i \in 1 .. n, NEW j \in 1 .. n, i < j PROVE s[i] < s[j]
    <3>1. s[i] \in S /\ s[j] \in S /\ r[s[i]] = i /\ r[s[j]] = j
      BY <1>7
    <3>2. s[i] \in Nat /\ s[j] \in Nat
      BY <3>1
    <3>3. s[j] < s[i] => r[s[j]] < r[s[i]]
      BY <1>2, <3>1
    <3>4. s[i] # s[j]
      BY <2>2, <3>1
    <3> QED BY <1>1, <2>2, <3>1, <3>2, <3>3, <3>4
  <2> QED BY <1>7, <2>1, <2>2
<1>9. Pages!InOrder(S) = CHOOSE q : R(q)
  BY DEF Pages!InOrder, Pages!Cardinality, Cardinality
<1>10. R(Pages!InOrder(S))
  <2> HIDE DEF R
  <2> QED BY <1>8, <1>9
<1> QED BY <1>10

\* Each row stands at its place.
LEMMA Stands ==
    ASSUME NEW S \in SUBSET Nat, IsFiniteSet(S)
    PROVE  /\ \A i \in 1 .. Cardinality(S) : Rank(S, Pages!InOrder(S)[i]) = i
           /\ \A k \in S : Pages!InOrder(S)[Rank(S, k)] = k
<1> DEFINE n == Cardinality(S)
           s == Pages!InOrder(S)
<1>1. n \in Nat
  BY FS_CardinalityType
<1>2. s \in [1 .. n -> S] /\ \A i, j \in 1 .. n : i < j => s[i] < s[j]
  BY Ordered
<1> HIDE DEF s, n
<1>3. \A i, j \in 1 .. n : /\ s[i] \in Nat /\ (s[i] = s[j] => i = j)
                          /\ (s[j] <= s[i] => j <= i)
  <2> TAKE i, j \in 1 .. n
  <2>0. s[i] \in S /\ s[j] \in S
    BY <1>2
  <2>1. s[i] \in Nat /\ s[j] \in Nat
    BY <2>0
  <2>2. i \in Nat /\ j \in Nat
    BY <1>1
  <2>3. i < j \/ i = j \/ j < i
    BY <2>2
  <2> QED BY <1>2, <2>1, <2>2, <2>3
<1>4. s \in Surjection(1 .. n, S)
  <2>1. s \in Injection(1 .. n, S)
    BY <1>2, <1>3 DEF Injection, IsInjective
  <2>2. Cardinality(1 .. n) = Cardinality(S)
    BY <1>1, FS_Interval DEF n
  <2> QED BY <2>1, <2>2, FS_Injection
<1>5. \A k \in S : \E i \in 1 .. n : s[i] = k
  BY <1>4 DEF Surjection
<1>6. ASSUME NEW i \in 1 .. n
      PROVE  Rank(S, s[i]) = i
  <2> DEFINE T == {x \in S : x <= s[i]}
             f == [j \in 1 .. i |-> s[j]]
  <2>0. i \in Nat /\ 1 .. i \subseteq 1 .. n
    BY <1>1
  <2>1. \A j \in 1 .. i : s[j] \in T
    <3> TAKE j \in 1 .. i
    <3>1. j \in 1 .. n /\ j \in Nat /\ (j < i \/ j = i)
      BY <2>0
    <3>2. s[j] \in S /\ s[j] \in Nat /\ s[i] \in Nat
      BY <1>2, <1>3, <3>1
    <3> QED BY <1>2, <3>1, <3>2
  <2>2. \A k \in T : \E j \in 1 .. i : s[j] = k
    <3> TAKE k \in T
    <3>1. PICK j \in 1 .. n : s[j] = k
      BY <1>5
    <3>2. j <= i /\ j \in Nat
      BY <1>1, <1>3, <3>1
    <3> QED BY <2>0, <3>1, <3>2
  <2>3. f \in [1 .. i -> T] /\ \A j \in 1 .. i : f[j] = s[j]
    BY <2>1
  <2> HIDE DEF f, T
  <2>4. f \in Bijection(1 .. i, T)
    BY <1>3, <2>0, <2>2, <2>3 DEF Bijection, Injection, Surjection, IsInjective
  <2>5. Cardinality(T) = i
    BY <2>0, <2>4, FS_CountingElements DEF ExistsBijection
  <2> QED BY <2>5 DEF T, Rank
<1>7. ASSUME NEW k \in S
      PROVE  s[Rank(S, k)] = k
  BY <1>5, <1>6
<1> QED BY <1>6, <1>7 DEF s, n

-----------------------------------------------------------------------------
(* Pages *)

\* The smaller of two numbers.
LEMMA Smaller ==
    ASSUME NEW a \in Nat, NEW b \in Nat
    PROVE  Pages!Min({a, b}) = IF a <= b THEN a ELSE b
<1>1. \E x \in {a, b} : \A y \in {a, b} : x <= y
  BY a <= b \/ b <= a
<1>2. Pages!Min({a, b}) \in {a, b} /\ \A y \in {a, b} : Pages!Min({a, b}) <= y
  BY <1>1 DEF Pages!Min
<1> QED BY <1>2

\* The rows of S that stand after o and up to m.
Between(S, o, m) == {k \in S : o < Rank(S, k) /\ Rank(S, k) <= m}

\* A page holds the rows at its places, each once.
LEMMA PageHolds ==
    ASSUME listed \in SUBSET Nat, IsFiniteSet(listed), NEW limit \in Nat, NEW offset \in Nat
    PROVE  LET p == Pages!list(limit, offset) IN
           /\ p \in Seq(listed)
           /\ Pages!Range(p) = Between(listed, offset, offset + limit)
           /\ \A i, j \in DOMAIN p : p[i] = p[j] => i = j
           /\ Len(p) < limit => \A k \in listed : Rank(listed, k) <= offset + limit
           /\ limit # 0 => (p = <<>> <=> offset >= Cardinality(listed))
<1> DEFINE n == Cardinality(listed)
           s == Pages!InOrder(listed)
           last == Pages!Min({offset + limit, Len(s)})
           first == Pages!Min({offset, last})
           p == SubSeq(s, first + 1, last)
<1>1. n \in Nat /\ s \in [1 .. n -> listed]
  BY FS_CardinalityType, Ordered
<1>2. /\ \A i \in 1 .. n : Rank(listed, s[i]) = i
      /\ \A k \in listed : s[Rank(listed, k)] = k /\ Rank(listed, k) \in 1 .. n
  BY Stands, RanksRise
<1> HIDE DEF s, n
<1>3. s \in Seq(listed) /\ Len(s) = n
  BY <1>1
<1>4. last = IF offset + limit <= n THEN offset + limit ELSE n
  BY <1>1, <1>3, Smaller
<1>5. last \in Nat /\ last <= n /\ last <= offset + limit
  BY <1>1, <1>4
<1> HIDE DEF last
<1>6. first = IF offset <= last THEN offset ELSE last
  BY <1>5, Smaller
<1>7. first \in Nat /\ first <= last
  BY <1>5, <1>6
<1> HIDE DEF first
<1>8. /\ p \in Seq(listed) /\ Len(p) = last - first
      /\ \A i \in 1 .. last - first : p[i] = s[first + i]
  BY <1>1, <1>3, <1>5, <1>7
<1>9. DOMAIN p = 1 .. last - first /\ last - first \in Nat
  BY <1>5, <1>7, <1>8
<1> HIDE DEF p
<1>10. \A i \in 1 .. last - first : /\ first + i \in 1 .. n /\ p[i] \in listed
                                   /\ Rank(listed, p[i]) = first + i
  <2> TAKE i \in 1 .. last - first
  <2>1. first + i \in 1 .. n
    BY <1>1, <1>5, <1>7
  <2>2. p[i] = s[first + i]
    BY <1>8
  <2> QED BY <1>1, <1>2, <2>1, <2>2
<1>11. Pages!Range(p) = Between(listed, offset, offset + limit)
  <2>1. \A i \in 1 .. last - first : p[i] \in Between(listed, offset, offset + limit)
    <3> TAKE i \in 1 .. last - first
    <3>1. offset < first + i /\ first + i <= offset + limit
      BY <1>5, <1>6, <1>7
    <3> QED BY <1>10, <3>1 DEF Between
  <2>2. ASSUME NEW k \in Between(listed, offset, offset + limit)
        PROVE  \E i \in 1 .. last - first : p[i] = k
    <3> DEFINE i == Rank(listed, k) - first
    <3>1. /\ k \in listed /\ Rank(listed, k) \in 1 .. n
          /\ offset < Rank(listed, k) /\ Rank(listed, k) <= offset + limit
      BY <1>2, <2>2 DEF Between
    <3>2. i \in 1 .. last - first /\ first + i = Rank(listed, k)
      BY <1>1, <1>4, <1>5, <1>6, <1>7, <3>1
    <3> QED BY <1>2, <1>8, <3>1, <3>2
  <2> QED BY <1>9, <2>1, <2>2 DEF Pages!Range
<1>12. \A i, j \in DOMAIN p : p[i] = p[j] => i = j
  <2> TAKE i, j \in DOMAIN p
  <2>1. i \in Nat /\ j \in Nat
    BY <1>9
  <2> QED BY <1>7, <1>9, <1>10, <2>1
<1>13. Len(p) < limit => \A k \in listed : Rank(listed, k) <= offset + limit
  <2> SUFFICES ASSUME Len(p) < limit, NEW k \in listed
               PROVE  Rank(listed, k) <= offset + limit
    OBVIOUS
  <2>1. Rank(listed, k) \in 1 .. n
    BY <1>2
  <2>2. n <= offset + limit
    BY <1>1, <1>4, <1>6, <1>7, <1>8
  <2> QED BY <1>1, <2>1, <2>2
<1>14. limit # 0 => (p = <<>> <=> offset >= n)
  <2>1. p = <<>> <=> last - first = 0
    BY <1>8, <1>9
  <2> QED BY <1>1, <1>4, <1>6, <2>1
<1>15. Pages!list(limit, offset) = p
  BY DEF Pages!list, p, first, last, s
<1> QED BY <1>8, <1>11, <1>12, <1>13, <1>14, <1>15 DEF n

-----------------------------------------------------------------------------
(* Rows that come and go *)

\* A deletion moves the rows after it one place ahead.
LEMMA RankWithout ==
    ASSUME NEW S \in SUBSET Nat, IsFiniteSet(S), NEW d \in S, NEW k \in S \ {d}
    PROVE  Rank(S \ {d}, k) = IF d <= k THEN Rank(S, k) - 1 ELSE Rank(S, k)
<1> DEFINE A == {x \in S : x <= k}
<1>1. {x \in S \ {d} : x <= k} = A \ {d}
  OBVIOUS
<1>2. d \in A <=> d <= k
  OBVIOUS
<1>3. IsFiniteSet(A)
  <2>1. A \in SUBSET S
    OBVIOUS
  <2> QED BY <2>1, FS_Subset
<1>4. Cardinality(A \ {d}) = IF d \in A THEN Cardinality(A) - 1 ELSE Cardinality(A)
  <2> HIDE DEF A
  <2> QED BY <1>3, FS_RemoveElement
<1>5. Rank(S, k) = Cardinality(A) /\ Rank(S \ {d}, k) = Cardinality(A \ {d})
  BY <1>1 DEF Rank
<1> HIDE DEF A
<1> QED BY <1>2, <1>4, <1>5

\* An insertion moves them one place back.
LEMMA RankWith ==
    ASSUME NEW S \in SUBSET Nat, IsFiniteSet(S), NEW d \in Nat \ S, NEW k \in S
    PROVE  Rank(S \cup {d}, k) = IF d <= k THEN Rank(S, k) + 1 ELSE Rank(S, k)
<1> DEFINE T == S \cup {d}
<1>1. T \in SUBSET Nat /\ IsFiniteSet(T) /\ d \in T /\ k \in T \ {d} /\ T \ {d} = S
  BY FS_AddElement
<1>2. Rank(T, k) \in Nat /\ Cardinality(T) \in Nat
  BY <1>1, RanksRise
<1> HIDE DEF T
<1>3. Rank(T \ {d}, k) = IF d <= k THEN Rank(T, k) - 1 ELSE Rank(T, k)
  BY <1>1, RankWithout
<1>4. Rank(S, k) = IF d <= k THEN Rank(T, k) - 1 ELSE Rank(T, k)
  BY <1>1, <1>3
<1>5. Rank(T, k) = IF d <= k THEN Rank(S, k) + 1 ELSE Rank(S, k)
  BY <1>2, <1>4
<1> QED BY <1>5 DEF T

\* A set that has at most one element more.
LEMMA OneMore ==
    ASSUME NEW A, NEW B, IsFiniteSet(B), \A x, y \in A \ B : x = y
    PROVE  IsFiniteSet(A) /\ Cardinality(A) <= Cardinality(B) + 1
<1>1. CASE A \ B = {}
  <2>1. A \in SUBSET B
    BY <1>1
  <2> QED BY <2>1, FS_Subset, FS_CardinalityType
<1>2. CASE A \ B # {}
  <2>1. PICK x \in A \ B : TRUE
    BY <1>2
  <2>2. A \in SUBSET (B \cup {x})
    BY <2>1
  <2>3. IsFiniteSet(B \cup {x}) /\ Cardinality(B \cup {x}) = Cardinality(B) + 1
    BY <2>1, FS_AddElement
  <2>4. IsFiniteSet(A) /\ Cardinality(A) <= Cardinality(B \cup {x})
    BY <2>2, <2>3, FS_Subset
  <2> QED BY <2>3, <2>4
<1> QED BY <1>1, <1>2

\* Rows of A at places up to o that were not got: they will not be read any more.
Missed(S, A, G, o) == {k \in A : Rank(S, k) <= o /\ k \notin G}
\* Rows at places after o that were got: they will be read again.
Again(S, G, o) == {k \in S : Rank(S, k) > o /\ k \in G}

\* Both are some of the rows.
LEMMA SomeRows ==
    ASSUME NEW S \in SUBSET Nat, IsFiniteSet(S), NEW A \in SUBSET S, NEW G, NEW o
    PROVE  /\ IsFiniteSet(Missed(S, A, G, o)) /\ Cardinality(Missed(S, A, G, o)) \in Nat
           /\ IsFiniteSet(Again(S, G, o)) /\ Cardinality(Again(S, G, o)) \in Nat
<1>1. Missed(S, A, G, o) \in SUBSET S /\ Again(S, G, o) \in SUBSET S
  BY DEF Missed, Again
<1> QED BY <1>1, FS_Subset, FS_CardinalityType

\* Two rows do not stand at one place.
LEMMA OnePlace ==
    ASSUME NEW S \in SUBSET Nat, IsFiniteSet(S), NEW k \in S, NEW l \in S,
           Rank(S, k) = Rank(S, l)
    PROVE  k = l
<1>1. k \in Nat /\ l \in Nat /\ Cardinality(S) \in Nat
  BY FS_CardinalityType
<1>2. k < l \/ l < k \/ k = l
  BY <1>1
<1>3. Rank(S, k) \in Nat /\ (k < l => Rank(S, k) < Rank(S, l)) /\ (l < k => Rank(S, l) < Rank(S, k))
  BY RanksRise
<1> QED BY <1>2, <1>3

\* A deletion makes the reader miss at most one row more.
LEMMA MissedByDeletion ==
    ASSUME NEW S \in SUBSET Nat, IsFiniteSet(S), NEW A \in SUBSET S, NEW G, NEW o \in Nat,
           NEW d \in S
    PROVE  /\ Cardinality(Missed(S \ {d}, A \ {d}, G, o)) <= Cardinality(Missed(S, A, G, o)) + 1
           /\ Cardinality(Again(S \ {d}, G, o)) <= Cardinality(Again(S, G, o))
<1> DEFINE M == Missed(S, A, G, o)
           N == Missed(S \ {d}, A \ {d}, G, o)
<1>1. \A k \in S \ {d} :
        /\ Rank(S, k) \in Nat /\ Rank(S \ {d}, k) <= Rank(S, k)
        /\ Rank(S, k) <= Rank(S \ {d}, k) + 1
  <2> TAKE k \in S \ {d}
  <2>1. Rank(S, k) \in Nat /\ Cardinality(S) \in Nat
    BY RanksRise
  <2> QED BY <2>1, RankWithout
<1>2. \A k \in N \ M : k \in S /\ Rank(S, k) = o + 1
  <2> TAKE k \in N \ M
  <2>1. k \in A \ {d} /\ Rank(S \ {d}, k) <= o /\ k \notin G /\ ~(Rank(S, k) <= o)
    BY DEF Missed
  <2>2. Rank(S, k) \in Nat /\ Rank(S \ {d}, k) \in Nat
    <3>1. IsFiniteSet(S \ {d}) /\ S \ {d} \in SUBSET Nat /\ k \in S \ {d}
      BY <2>1, FS_RemoveElement
    <3> QED BY <1>1, <3>1, RanksRise, FS_CardinalityType
  <2> QED BY <1>1, <2>1, <2>2
<1>3. \A k, l \in N \ M : k = l
  <2> TAKE k, l \in N \ M
  <2>1. k \in S /\ l \in S /\ Rank(S, k) = o + 1 /\ Rank(S, l) = o + 1
    BY <1>2
  <2> HIDE DEF M, N
  <2> QED BY <2>1, OnePlace
<1>4. IsFiniteSet(M) /\ IsFiniteSet(Again(S, G, o))
  BY SomeRows
<1>5. Again(S \ {d}, G, o) \in SUBSET Again(S, G, o)
  <2> SUFFICES ASSUME NEW k \in Again(S \ {d}, G, o) PROVE k \in Again(S, G, o)
    OBVIOUS
  <2>1. k \in S \ {d} /\ Rank(S \ {d}, k) > o /\ k \in G
    BY DEF Again
  <2>2. Rank(S, k) \in Nat /\ Rank(S \ {d}, k) \in Nat
    <3>1. IsFiniteSet(S \ {d}) /\ S \ {d} \in SUBSET Nat /\ k \in S \ {d}
      BY <2>1, FS_RemoveElement
    <3> QED BY <1>1, <3>1, RanksRise, FS_CardinalityType
  <2>3. Rank(S, k) > o
    BY <1>1, <2>1, <2>2
  <2> QED BY <2>1, <2>3 DEF Again
<1> HIDE DEF M, N
<1>6. Cardinality(N) <= Cardinality(M) + 1
  BY <1>3, <1>4, OneMore
<1>7. Cardinality(Again(S \ {d}, G, o)) <= Cardinality(Again(S, G, o))
  BY <1>4, <1>5, FS_Subset
<1> QED BY <1>6, <1>7 DEF M, N

\* An insertion before other rows makes it read at most one row more again, and
\* miss none; one after all others changes nothing.
LEMMA AgainByInsertion ==
    ASSUME NEW S \in SUBSET Nat, IsFiniteSet(S), NEW A \in SUBSET S, NEW G, NEW o \in Nat,
           NEW d \in Nat \ S, d \notin G
    PROVE  /\ Cardinality(Missed(S \cup {d}, A, G, o)) <= Cardinality(Missed(S, A, G, o))
           /\ Cardinality(Again(S \cup {d}, G, o)) <=
                Cardinality(Again(S, G, o)) + IF \E x \in S : x > d THEN 1 ELSE 0
<1> DEFINE M == Again(S, G, o)
           N == Again(S \cup {d}, G, o)
<1>0. IsFiniteSet(S \cup {d}) /\ S \cup {d} \in SUBSET Nat
  BY FS_AddElement
<1>1. \A k \in S : /\ Rank(S, k) \in Nat /\ Rank(S \cup {d}, k) \in Nat
                   /\ Rank(S \cup {d}, k) = IF d <= k THEN Rank(S, k) + 1 ELSE Rank(S, k)
  <2> TAKE k \in S
  <2>1. Rank(S, k) \in Nat /\ Cardinality(S) \in Nat
    BY RanksRise
  <2> QED BY <2>1, RankWith
<1>2. Missed(S \cup {d}, A, G, o) \in SUBSET Missed(S, A, G, o)
  <2> SUFFICES ASSUME NEW k \in Missed(S \cup {d}, A, G, o) PROVE k \in Missed(S, A, G, o)
    OBVIOUS
  <2>1. k \in A /\ k \in S /\ Rank(S \cup {d}, k) <= o /\ k \notin G
    BY DEF Missed
  <2>2. /\ Rank(S, k) \in Nat /\ Rank(S \cup {d}, k) \in Nat
        /\ Rank(S, k) <= Rank(S \cup {d}, k)
    <3>1. /\ Rank(S, k) \in Nat
          /\ Rank(S \cup {d}, k) = Rank(S, k) + 1 \/ Rank(S \cup {d}, k) = Rank(S, k)
      BY <1>1, <2>1
    <3> QED BY <3>1
  <2>3. Rank(S, k) <= o
    BY <2>1, <2>2
  <2> QED BY <2>1, <2>3 DEF Missed
<1>3. \A k \in N \ M : k \in S /\ Rank(S, k) = o /\ d <= k
  <2> TAKE k \in N \ M
  <2>1. k \in S /\ Rank(S \cup {d}, k) > o /\ k \in G /\ ~(Rank(S, k) > o)
    BY DEF Again
  <2> QED BY <1>1, <2>1
<1>4. IsFiniteSet(M) /\ Cardinality(M) \in Nat /\ IsFiniteSet(Missed(S, A, G, o))
  BY SomeRows
<1>5. Cardinality(N) <= Cardinality(M) + IF \E x \in S : x > d THEN 1 ELSE 0
  <2>1. CASE \E x \in S : x > d
    <3>1. \A k, l \in N \ M : k = l
      <4> TAKE k, l \in N \ M
      <4>1. k \in S /\ l \in S /\ Rank(S, k) = o /\ Rank(S, l) = o
        BY <1>3
      <4> HIDE DEF M, N
      <4> QED BY <4>1, OnePlace
    <3> HIDE DEF M, N
    <3> QED BY <1>4, <2>1, <3>1, OneMore
  <2>2. CASE ~\E x \in S : x > d
    <3>1. ASSUME NEW k \in N \ M PROVE FALSE
      <4>1. k \in S /\ d <= k /\ k \in Nat /\ k # d
        BY <1>3
      <4>2. k > d
        BY <4>1
      <4> QED BY <2>2, <4>1, <4>2
    <3>2. N \in SUBSET M
      BY <3>1
    <3> HIDE DEF M, N
    <3>3. Cardinality(N) <= Cardinality(M) /\ IsFiniteSet(N)
      BY <1>4, <3>2, FS_Subset
    <3> QED BY <1>4, <2>2, <3>3, FS_CardinalityType
  <2> QED BY <2>1, <2>2
<1>6. Cardinality(Missed(S \cup {d}, A, G, o)) <= Cardinality(Missed(S, A, G, o))
  BY <1>2, <1>4, FS_Subset
<1> QED BY <1>5, <1>6 DEF M, N

-----------------------------------------------------------------------------
(* The reading of a page *)

\* What is read next to what is got, in numbers of rows.
LEMMA NextRows ==
    ASSUME NEW S \in SUBSET Nat, IsFiniteSet(S), NEW A \in SUBSET S, NEW G, IsFiniteSet(G),
           NEW o \in Nat, NEW m \in Nat, o <= m
    PROVE  LET Q == Between(S, o, m) IN
           /\ Cardinality(Missed(S, A, G \cup Q, m)) <= Cardinality(Missed(S, A, G, o))
           /\ Cardinality(Q) - Cardinality(G \cup Q) + Cardinality(Again(S, G \cup Q, m))
                <= Cardinality(Again(S, G, o)) - Cardinality(G)
<1> DEFINE Q == Between(S, o, m)
           B == Again(S, G, o)
           C == Again(S, G \cup Q, m)
<1>1. \A k \in S : Rank(S, k) \in Nat
  <2> TAKE k \in S
  <2>1. Rank(S, k) \in 1 .. Cardinality(S) /\ Cardinality(S) \in Nat
    BY RanksRise
  <2> QED BY <2>1
<1>2. Missed(S, A, G \cup Q, m) \in SUBSET Missed(S, A, G, o)
  <2> SUFFICES ASSUME NEW k \in Missed(S, A, G \cup Q, m) PROVE k \in Missed(S, A, G, o)
    OBVIOUS
  <2>1. k \in A /\ k \in S /\ Rank(S, k) <= m /\ k \notin G /\ k \notin Q
    BY DEF Missed
  <2>2. Rank(S, k) \in Nat /\ ~(o < Rank(S, k))
    BY <1>1, <2>1 DEF Between
  <2>3. Rank(S, k) <= o
    BY <2>2
  <2> QED BY <2>1, <2>3 DEF Missed
<1>3. IsFiniteSet(B) /\ IsFiniteSet(Missed(S, A, G, o)) /\ Q \in SUBSET S
  BY SomeRows DEF Between
<1>4. C \in SUBSET (B \ (G \cap Q))
  <2> SUFFICES ASSUME NEW k \in C PROVE k \in B /\ k \notin Q
    OBVIOUS
  <2>1. k \in S /\ Rank(S, k) > m /\ k \in G \cup Q
    BY DEF Again
  <2>2. Rank(S, k) \in Nat
    BY <1>1, <2>1
  <2>3. k \notin Q
    BY <2>1, <2>2 DEF Between
  <2>4. Rank(S, k) > o
    BY <2>1, <2>2
  <2> QED BY <2>1, <2>3, <2>4 DEF Again
<1>5. G \cap Q \in SUBSET B
  <2> SUFFICES ASSUME NEW k \in G \cap Q PROVE k \in B
    OBVIOUS
  <2>1. k \in S /\ k \in G /\ o < Rank(S, k)
    BY DEF Between
  <2>2. Rank(S, k) > o
    BY <1>1, <2>1
  <2> QED BY <2>1, <2>2 DEF Again
<1>6. IsFiniteSet(Q)
  BY <1>3, FS_Subset
<1> HIDE DEF Q, B, C
<1>7. /\ Cardinality(G \cup Q) = Cardinality(G) + Cardinality(Q) - Cardinality(G \cap Q)
      /\ IsFiniteSet(G \cup Q) /\ IsFiniteSet(G \cap Q)
  BY <1>6, FS_Union, FS_Intersection
<1>8. B \cap (G \cap Q) = G \cap Q
  BY <1>5
<1>9. /\ IsFiniteSet(B \ (G \cap Q))
      /\ Cardinality(B \ (G \cap Q)) = Cardinality(B) - Cardinality(G \cap Q)
  <2> DEFINE J == G \cap Q
  <2>1. B \cap J = J
    BY <1>8
  <2> HIDE DEF J
  <2>2. IsFiniteSet(B \ J) /\ Cardinality(B \ J) = Cardinality(B) - Cardinality(B \cap J)
    BY <1>3, FS_Difference
  <2> QED BY <2>1, <2>2 DEF J
<1>10. IsFiniteSet(C) /\ Cardinality(C) <= Cardinality(B \ (G \cap Q))
  BY <1>4, <1>9, FS_Subset
<1>11. /\ Cardinality(G) \in Nat /\ Cardinality(Q) \in Nat /\ Cardinality(G \cap Q) \in Nat
       /\ Cardinality(B) \in Nat /\ Cardinality(C) \in Nat
  BY <1>3, <1>6, <1>7, <1>10, FS_CardinalityType
<1>12. Cardinality(Q) - Cardinality(G \cup Q) + Cardinality(C) <= Cardinality(B) - Cardinality(G)
  BY <1>7, <1>9, <1>10, <1>11
<1>13. Cardinality(Missed(S, A, G \cup Q, m)) <= Cardinality(Missed(S, A, G, o))
  BY <1>2, <1>3, FS_Subset
<1> QED BY <1>12, <1>13 DEF Q, B, C

\* One list after another.
LEMMA Joined ==
    ASSUME NEW T, NEW s \in Seq(T), NEW t \in Seq(T)
    PROVE  /\ s \o t \in Seq(T) /\ Len(s \o t) = Len(s) + Len(t)
           /\ Pages!Range(s \o t) = Pages!Range(s) \cup Pages!Range(t)
<1>1. /\ s \o t \in Seq(T) /\ Len(s \o t) = Len(s) + Len(t) /\ DOMAIN (s \o t) = 1 .. Len(s) + Len(t)
      /\ \A i \in 1 .. Len(s) + Len(t) :
             (s \o t)[i] = IF i <= Len(s) THEN s[i] ELSE t[i - Len(s)]
  OBVIOUS
<1>2. Len(s) \in Nat /\ Len(t) \in Nat /\ DOMAIN s = 1 .. Len(s) /\ DOMAIN t = 1 .. Len(t)
  OBVIOUS
<1> DEFINE u == s \o t
<1> HIDE DEF u
<1>3. \A i \in 1 .. Len(s) + Len(t) : u[i] \in Pages!Range(s) \cup Pages!Range(t)
  <2> TAKE i \in 1 .. Len(s) + Len(t)
  <2>1. CASE i <= Len(s)
    <3>1. i \in 1 .. Len(s) /\ u[i] = s[i]
      BY <1>1, <1>2, <2>1 DEF u
    <3> QED BY <1>2, <3>1 DEF Pages!Range
  <2>2. CASE ~(i <= Len(s))
    <3>1. i - Len(s) \in 1 .. Len(t) /\ u[i] = t[i - Len(s)]
      BY <1>1, <1>2, <2>2 DEF u
    <3> QED BY <1>2, <3>1 DEF Pages!Range
  <2> QED BY <2>1, <2>2
<1>4. \A i \in 1 .. Len(s) : s[i] \in Pages!Range(u)
  <2> TAKE i \in 1 .. Len(s)
  <2>1. i \in 1 .. Len(s) + Len(t) /\ i <= Len(s)
    BY <1>2
  <2>2. u[i] = s[i] /\ i \in DOMAIN u
    BY <1>1, <2>1 DEF u
  <2> QED BY <2>2 DEF Pages!Range
<1>5. \A i \in 1 .. Len(t) : t[i] \in Pages!Range(u)
  <2> TAKE i \in 1 .. Len(t)
  <2>1. /\ Len(s) + i \in 1 .. Len(s) + Len(t) /\ ~(Len(s) + i <= Len(s))
        /\ Len(s) + i - Len(s) = i
    BY <1>2
  <2>2. u[Len(s) + i] = t[i] /\ Len(s) + i \in DOMAIN u
    BY <1>1, <2>1 DEF u
  <2> QED BY <2>2 DEF Pages!Range
<1>6. Pages!Range(u) = Pages!Range(s) \cup Pages!Range(t)
  <2>1. DOMAIN u = 1 .. Len(s) + Len(t)
    BY <1>1 DEF u
  <2>2. \A x \in Pages!Range(u) : x \in Pages!Range(s) \cup Pages!Range(t)
    BY <1>3, <2>1 DEF Pages!Range
  <2>3. \A x \in Pages!Range(s) \cup Pages!Range(t) : x \in Pages!Range(u)
    BY <1>2, <1>4, <1>5 DEF Pages!Range
  <2> QED BY <2>2, <2>3
<1> QED BY <1>1, <1>6 DEF u

\* What a list holds, no more than it is long; and as many if each is there once.
LEMMA Held ==
    ASSUME NEW T, NEW s \in Seq(T)
    PROVE  /\ IsFiniteSet(Pages!Range(s)) /\ Cardinality(Pages!Range(s)) \in Nat
           /\ Pages!Range(s) \subseteq T /\ Len(s) \in Nat
           /\ (\A i, j \in DOMAIN s : s[i] = s[j] => i = j) => Cardinality(Pages!Range(s)) = Len(s)
<1> DEFINE n == Len(s)
           G == Pages!Range(s)
<1>1. n \in Nat /\ DOMAIN s = 1 .. n /\ s \in [1 .. n -> T]
  OBVIOUS
<1>2. s \in [1 .. n -> G] /\ (\A x \in G : \E i \in 1 .. n : s[i] = x) /\ G \subseteq T
  BY <1>1 DEF Pages!Range
<1>3. s \in Surjection(1 .. n, G)
  BY <1>2 DEF Surjection
<1>4. IsFiniteSet(1 .. n)
  BY <1>1, FS_Interval
<1> HIDE DEF G, n
<1>5. IsFiniteSet(G) /\ Cardinality(G) \in Nat
  BY <1>3, <1>4, FS_Surjection, FS_CardinalityType
<1>6. ASSUME \A i, j \in DOMAIN s : s[i] = s[j] => i = j
      PROVE  Cardinality(G) = n
  <2>1. s \in Bijection(1 .. n, G)
    BY <1>1, <1>2, <1>3, <1>6 DEF Bijection, Injection, IsInjective
  <2> QED BY <1>1, <2>1, FS_CountingElements DEF ExistsBijection
<1> QED BY <1>1, <1>2, <1>5, <1>6 DEF G, n

-----------------------------------------------------------------------------
(* Numbers of pages *)

\* A product grows with its first factor.
LEMMA Times ==
    ASSUME NEW a \in Nat, NEW b \in Nat, NEW t \in Nat, a <= b
    PROVE  a * t <= b * t /\ a * t \in Nat /\ b * t \in Nat
<1> DEFINE c == b - a
<1>1. b = a + c /\ c \in Nat
  OBVIOUS
<1>2. b * t = a * t + c * t /\ c * t \in Nat /\ a * t \in Nat
  BY <1>1
<1> QED BY <1>2

\* Division rounds down.
LEMMA Divided ==
    ASSUME NEW m \in Nat, NEW t \in Nat \ {0}
    PROVE  m \div t \in Nat /\ (m \div t) * t <= m /\ m < (m \div t) * t + t
<1>1. m = t * (m \div t) + (m % t) /\ (m % t) \in 0 .. t - 1 /\ m \div t \in Int
  OBVIOUS
<1>2. m \div t \in Nat
  OBVIOUS
<1>3. t * (m \div t) = (m \div t) * t
  BY <1>1
<1> QED BY <1>1, <1>2, <1>3

\* The pages up to the page count are those that begin before the end.
LEMMA PageCount ==
    ASSUME NEW n \in Nat, NEW t \in Nat \ {0}, NEW p \in Nat \ {0}
    PROVE  LET q == (n + t - 1) \div t IN
           /\ q \in Nat /\ (p <= q <=> (p - 1) * t < n) /\ (p < q <=> p * t < n)
           /\ (p - 1) * t \in Nat /\ p * t = (p - 1) * t + t
<1> DEFINE m == n + t - 1
           q == m \div t
<1>1. m \in Nat
  OBVIOUS
<1> HIDE DEF m
<1>2. q \in Nat /\ q * t <= m /\ m < q * t + t
  BY <1>1, Divided
<1> HIDE DEF q
<1>3. q * t - t < n /\ n <= q * t /\ q * t \in Nat
  <2>1. q * t \in Nat
    BY <1>2
  <2> QED BY <1>2, <2>1 DEF m
<1>4. (p - 1) * t \in Nat /\ p * t \in Nat /\ p * t = (p - 1) * t + t /\ p - 1 \in Nat
  OBVIOUS
<1>5. ASSUME p <= q PROVE (p - 1) * t < n
  <2>1. p * t <= q * t
    BY <1>2, <1>5, Times
  <2> QED BY <1>3, <1>4, <2>1
<1>6. ASSUME ~(p <= q) PROVE ~((p - 1) * t < n)
  <2>1. q <= p - 1
    BY <1>2, <1>6
  <2>2. q * t <= (p - 1) * t
    BY <1>2, <1>4, <2>1, Times
  <2> QED BY <1>3, <1>4, <2>2
<1>7. ASSUME p < q PROVE p * t < n
  <2>1. p + 1 <= q /\ p + 1 \in Nat
    BY <1>2, <1>7
  <2>2. (p + 1) * t <= q * t
    BY <1>2, <2>1, Times
  <2>3. (p + 1) * t = p * t + t
    OBVIOUS
  <2> QED BY <1>3, <1>4, <2>2, <2>3
<1>8. ASSUME ~(p < q) PROVE ~(p * t < n)
  <2>1. q <= p
    BY <1>2, <1>8
  <2>2. q * t <= p * t
    BY <1>2, <2>1, Times
  <2> QED BY <1>3, <1>4, <2>2
<1> QED BY <1>2, <1>4, <1>5, <1>6, <1>7, <1>8 DEF q, m

\* The metadata of a table that is read while nothing changes.
LEMMA MetaFits ==
    ASSUME listed \in SUBSET Nat, IsFiniteSet(listed),
           NEW page \in Nat \ {0}, NEW take \in Nat \ {0}
    PROVE  LET meta == Pages!PageMeta(page, take, Cardinality(listed)) IN
           /\ \A p \in 1 .. Cardinality(listed) + 1 :
                 p <= meta.pageCount <=> Pages!list(take, Pages!skip(p, take)) # <<>>
           /\ meta.hasNextPage <=> \E k \in listed :
                 \A p \in 1 .. page : k \notin Pages!Range(Pages!list(take, Pages!skip(p, take)))
<1> DEFINE n == Cardinality(listed)
           meta == Pages!PageMeta(page, take, n)
           q == (n + take - 1) \div take
<1>0. n \in Nat /\ take \in Nat /\ take # 0
  BY FS_CardinalityType
<1>1. meta.pageCount = q /\ meta.hasNextPage = (page < q)
  BY DEF Pages!PageMeta
<1>2. \A p \in Nat \ {0} : /\ Pages!skip(p, take) = (p - 1) * take /\ (p - 1) * take \in Nat
                           /\ (p <= q <=> (p - 1) * take < n) /\ (p < q <=> p * take < n)
                           /\ p * take = (p - 1) * take + take
  BY <1>0, PageCount DEF Pages!skip
<1> HIDE DEF meta, q
<1>3. ASSUME NEW p \in Nat \ {0}
      PROVE  /\ Pages!list(take, Pages!skip(p, take)) = <<>> <=> (p - 1) * take >= n
             /\ Pages!Range(Pages!list(take, Pages!skip(p, take)))
                   = Between(listed, (p - 1) * take, p * take)
  <2> DEFINE o == (p - 1) * take
  <2>1. Pages!skip(p, take) = o /\ o \in Nat /\ p * take = o + take
    BY <1>2
  <2> HIDE DEF o
  <2>2. /\ Pages!Range(Pages!list(take, o)) = Between(listed, o, o + take)
        /\ Pages!list(take, o) = <<>> <=> o >= n
    BY <1>0, <2>1, PageHolds
  <2> QED BY <2>1, <2>2 DEF o
<1>4. ASSUME NEW p \in 1 .. n + 1
      PROVE  p <= q <=> Pages!list(take, Pages!skip(p, take)) # <<>>
  <2>1. p \in Nat \ {0}
    BY <1>0
  <2>2. (p - 1) * take \in Nat /\ (p <= q <=> (p - 1) * take < n)
    BY <1>2, <2>1
  <2>3. Pages!list(take, Pages!skip(p, take)) = <<>> <=> (p - 1) * take >= n
    BY <1>3, <2>1
  <2> QED BY <1>0, <2>2, <2>3
<1>5. \A k \in listed : Rank(listed, k) \in 1 .. n
  BY RanksRise
<1>6. ASSUME page < q
      PROVE  \E k \in listed :
               \A p \in 1 .. page : k \notin Pages!Range(Pages!list(take, Pages!skip(p, take)))
  <2> DEFINE k == Pages!InOrder(listed)[n]
  <2>1. page * take < n /\ page * take \in Nat
    BY <1>2, <1>6
  <2>2. n \in 1 .. n
    BY <1>0, <2>1
  <2>3. k \in listed /\ Rank(listed, k) = n
    BY <2>2, Ordered, Stands
  <2>4. ASSUME NEW p \in 1 .. page
        PROVE  k \notin Pages!Range(Pages!list(take, Pages!skip(p, take)))
    <3>1. p \in Nat \ {0} /\ p <= page
      OBVIOUS
    <3>2. p * take <= page * take /\ p * take \in Nat
      BY <1>0, <3>1, Times
    <3>3. ~(Rank(listed, k) <= p * take)
      BY <1>0, <2>1, <2>3, <3>2
    <3> QED BY <1>3, <3>1, <3>3 DEF Between
  <2> QED BY <2>3, <2>4
<1>7. ASSUME ~(page < q), NEW k \in listed
      PROVE  \E p \in 1 .. page : k \in Pages!Range(Pages!list(take, Pages!skip(p, take)))
  <2> DEFINE r == Rank(listed, k)
             p == (r + take - 1) \div take
  <2>1. r \in 1 .. n /\ r \in Nat \ {0} /\ ~(page * take < n) /\ page * take \in Nat
    BY <1>0, <1>2, <1>5, <1>7
  <2> HIDE DEF r
  <2>2. r <= page * take
    BY <1>0, <2>1
  <2>3. p \in Nat /\ \A x \in Nat \ {0} : (x <= p <=> (x - 1) * take < r) /\ (x < p <=> x * take < r)
    BY <2>1, PageCount
  <2>4. p \in Nat \ {0}
    <3>1. (1 - 1) * take < r
      BY <2>1
    <3>2. 1 <= p <=> (1 - 1) * take < r
      BY <2>3
    <3>3. 1 <= p /\ p \in Nat
      BY <2>3, <3>1, <3>2
    <3> HIDE DEF p
    <3> QED BY <3>3
  <2> HIDE DEF p
  <2>5. (p - 1) * take < r /\ ~(p * take < r)
    BY <2>3, <2>4
  <2>6. p <= page
    <3>1. ~(page < p)
      BY <2>1, <2>2, <2>3
    <3> QED BY <2>4, <3>1
  <2>7. k \in Between(listed, (p - 1) * take, p * take)
    <3>1. p * take \in Nat
      BY <2>4
    <3>2. r <= p * take
      BY <2>1, <2>5, <3>1
    <3> QED BY <2>5, <3>2 DEF Between, r
  <2>8. p \in 1 .. page
    BY <2>4, <2>6
  <2> QED BY <1>3, <2>4, <2>7, <2>8
<1> QED BY <1>1, <1>4, <1>6, <1>7 DEF meta, n

-----------------------------------------------------------------------------
(* The inductive invariant of the reading of pages *)

Got(l) == Pages!Range(l.got)

\* What the reader knows at each of its calls.
ReadingFits(p, l, ids, rs) ==
    /\ l = [op |-> l.op, page |-> l.page, take |-> l.take, offset |-> l.offset, got |-> l.got,
            meta |-> l.meta, always |-> l.always, deleted |-> l.deleted, shifted |-> l.shifted,
            steady |-> l.steady]
    /\ l.page \in Nat \ {0} /\ l.take \in Nat \ {0} /\ l.offset \in Nat
    /\ l.deleted \in Nat /\ l.shifted \in Nat /\ l.steady \in BOOLEAN
    /\ l.got \in Seq(ids) /\ l.always \subseteq rs
    /\ p = "page" => l.op = "listAll"
    /\ p \in {"list", "count", "roles"} => l.op # "listAll"

\* A listing under way has no more rows behind it than were deleted, and no more
\* of what it has got before it, or twice, than were inserted.
ListingFits(p, l, rs) ==
    l.op = "listAll" =>
      /\ p = "page" =>
           /\ Cardinality(Missed(rs, l.always, Got(l), l.offset)) <= l.deleted
           /\ Len(l.got) - Cardinality(Got(l)) + Cardinality(Again(rs, Got(l), l.offset))
                <= l.shifted
      /\ p = "done" => /\ Cardinality(l.always \ Got(l)) <= l.deleted
                       /\ Len(l.got) - Cardinality(Got(l)) <= l.shifted

\* The metadata are those of the table, unless it has changed.
MetaMade(p, l, rs) ==
    p \in {"roles", "done"} /\ l.op # "listAll" /\ l.steady =>
        l.meta = Pages!PageMeta(l.page, l.take, Cardinality(rs))

RowsTyped ==
    /\ listed \subseteq born /\ roles \subseteq born /\ born \subseteq Keys
    /\ reader \in {"idle", "page", "list", "count", "roles", "done"}

PagesInv ==
    RowsTyped /\ ReadingFits(reader, reading, born, listed) /\ ListingFits(reader, reading, listed)
    /\ MetaMade(reader, reading, listed)

-----------------------------------------------------------------------------
(* Steps of the reader *)

\* Rows are numbers, and finitely many.
LEMMA KeysAreNumbers ==
    ASSUME RowsTyped
    PROVE  /\ Keys \subseteq Nat /\ PageSize \in Nat \ {0} /\ PageTakes \cup PageNumbers \subseteq Nat \ {0}
           /\ listed \in SUBSET Nat /\ born \in SUBSET Nat /\ IsFiniteSet(listed) /\ IsFiniteSet(born)
<1>1. Keys \subseteq Nat /\ IsFiniteSet(Keys) /\ PageSize \in Nat \ {0} /\ PageTakes \cup PageNumbers \subseteq Nat \ {0}
  BY RecordsAssumption DEF Pages!PagingAssumption, Pages!IsFiniteSet, IsFiniteSet
<1>2. listed \in SUBSET Keys /\ born \in SUBSET Keys
  BY DEF RowsTyped
<1>3. IsFiniteSet(listed) /\ IsFiniteSet(born)
  BY <1>1, <1>2, FS_Subset
<1> QED BY <1>1, <1>2, <1>3

\* Nothing is held by the empty list.
LEMMA EmptyHolds ==
    /\ Pages!Range(<<>>) = {} /\ Len(<<>>) = 0 /\ Cardinality({}) = 0
    /\ \A T : <<>> \in Seq(T)
<1>1. Pages!Range(<<>>) = {}
  BY DEF Pages!Range
<1> QED BY <1>1, FS_EmptySet

\* What is read next repeats no more than it takes from what is read again.
LEMMA Balance ==
    ASSUME NEW a \in Nat, NEW b \in Nat, NEW c \in Nat, NEW d \in Nat, NEW e \in Nat,
           NEW q \in Nat, NEW s \in Nat, q - d + e <= b - c, a - c + b <= s
    PROVE  (a + q) - d + e <= s
OBVIOUS

\* A list of members of A is one of members of B.
LEMMA Widened ==
    ASSUME NEW A, NEW B, A \subseteq B
    PROVE  /\ \A s \in Seq(A) : s \in Seq(B)
           /\ \A n \in Nat : \A f \in [1 .. n -> A] : f \in Seq(B)
<1>1. ASSUME NEW n \in Nat, NEW f \in [1 .. n -> A] PROVE f \in Seq(B)
  <2>1. f \in [1 .. n -> B]
    OBVIOUS
  <2> QED BY <2>1
<1>2. ASSUME NEW s \in Seq(A) PROVE s \in Seq(B)
  <2>1. Len(s) \in Nat /\ s \in [1 .. Len(s) -> A]
    OBVIOUS
  <2> QED BY <1>1, <2>1
<1> QED BY <1>1, <1>2

\* The reader knows nothing to begin with.
LEMMA BlankFits ==
    /\ ReadingFits("idle", Pages!Blank, born, listed)
    /\ Pages!Blank.op = None
<1> QED BY DEF ReadingFits, Pages!Blank

\* Nothing has been read, nor is being read.
LEMMA NothingRead ==
    ASSUME RowsTyped, reader = "idle", reading = Pages!Blank
    PROVE  PagesInv
<1>1. ReadingFits("idle", Pages!Blank, born, listed)
  BY BlankFits
<1> QED BY <1>1 DEF PagesInv, ListingFits, MetaMade

\* The invariant holds at first.
LEMMA PagesBegin ==
    ASSUME Pages!Init PROVE PagesInv
<1>1. RowsTyped /\ reader = "idle" /\ reading = Pages!Blank
  BY DEF Pages!Init, RowsTyped
<1> QED BY <1>1, NothingRead

\* A listing begins with nothing behind it and all rows before it.
LEMMA BeginKeeps ==
    ASSUME PagesInv, NEW op \in {"listAll", "findMany", "getUserRoles"}, NEW page \in Nat \ {0},
           NEW take \in Nat \ {0}, Pages!Begin(op, page, take)
    PROVE  PagesInv'
<1> DEFINE k == reading'
           o == IF op = "listAll" THEN 0 ELSE Pages!skip(page, take)
<1>1. /\ listed' = listed /\ born' = born /\ roles' = roles
      /\ reader' = IF op = "listAll" THEN "page" ELSE "list"
      /\ k = [Pages!Blank EXCEPT !.op = op, !.page = page, !.take = take, !.offset = o,
                                 !.always = listed]
  BY DEF Pages!Begin, Pages!base
<1>2. o \in Nat
  <2>1. (page - 1) * take \in Nat
    OBVIOUS
  <2> QED BY <2>1 DEF Pages!skip
<1> HIDE DEF o
<1>3. k = [op |-> op, page |-> page, take |-> take, offset |-> o, got |-> <<>>, meta |-> None,
           always |-> listed, deleted |-> 0, shifted |-> 0, steady |-> TRUE]
  BY <1>1 DEF Pages!Blank
<1> HIDE DEF k
<1>4. /\ k.op = op /\ k.page = page /\ k.take = take /\ k.offset = o /\ k.got = <<>>
      /\ k.meta = None /\ k.always = listed /\ k.deleted = 0 /\ k.shifted = 0 /\ k.steady = TRUE
  BY <1>3
<1>5. <<>> \in Seq(born)
  BY EmptyHolds
<1>6. RowsTyped'
  BY <1>1 DEF PagesInv, RowsTyped
<1>7. ReadingFits(reader', k, born', listed')
  <2>1. /\ reader' = "page" => op = "listAll"
        /\ reader' \in {"list", "count", "roles"} => op # "listAll"
    BY <1>1
  <2>2. k = [op |-> k.op, page |-> k.page, take |-> k.take, offset |-> k.offset, got |-> k.got,
             meta |-> k.meta, always |-> k.always, deleted |-> k.deleted,
             shifted |-> k.shifted, steady |-> k.steady]
    BY <1>3
  <2>3. /\ k.page \in Nat \ {0} /\ k.take \in Nat \ {0} /\ k.offset \in Nat
        /\ k.deleted \in Nat /\ k.shifted \in Nat /\ k.steady \in BOOLEAN
    <3>1. k.page \in Nat \ {0} /\ k.take \in Nat \ {0}
      BY <1>4
    <3>2. k.offset \in Nat
      BY <1>2, <1>4
    <3>3. k.deleted \in Nat /\ k.shifted \in Nat
      BY <1>4
    <3>4. k.steady \in BOOLEAN
      BY <1>4
    <3> QED BY <3>1, <3>2, <3>3, <3>4
  <2>4. k.got \in Seq(born') /\ k.always \subseteq listed' /\ k.op = op
    BY <1>1, <1>4, <1>5
  <2> QED BY <2>1, <2>2, <2>3, <2>4 DEF ReadingFits
<1>8. ListingFits(reader', k, listed')
  <2>1. CASE op = "listAll"
    <3>1. RowsTyped
      BY DEF PagesInv
    <3>2. Pages!Range(k.got) = {} /\ Len(k.got) = 0 /\ Cardinality({}) = 0
      BY <1>4, EmptyHolds
    <3>3. o = 0
      BY <2>1 DEF o
    <3>4. Missed(listed, listed, {}, 0) = {} /\ Again(listed, {}, 0) = {}
      <4>1. \A x \in listed : ~(Rank(listed, x) <= 0)
        <5> TAKE x \in listed
        <5>1. Rank(listed, x) \in 1 .. Cardinality(listed) /\ Cardinality(listed) \in Nat
          BY <3>1, KeysAreNumbers, RanksRise
        <5> QED BY <5>1
      <4> QED BY <4>1 DEF Missed, Again
    <3>5. reader' = "page"
      BY <1>1, <2>1
    <3>6. Got(k) = {} /\ k.always = listed' /\ k.offset = 0 /\ k.deleted = 0 /\ k.shifted = 0
      BY <1>1, <1>4, <3>2, <3>3 DEF Got
    <3>7. /\ Cardinality(Missed(listed', k.always, Got(k), k.offset)) <= k.deleted
          /\ Len(k.got) - Cardinality(Got(k)) + Cardinality(Again(listed', Got(k), k.offset))
               <= k.shifted
      <4>1. /\ Missed(listed', k.always, Got(k), k.offset) = {}
            /\ Again(listed', Got(k), k.offset) = {}
        BY <1>1, <3>4, <3>6
      <4>2. /\ Cardinality(Missed(listed', k.always, Got(k), k.offset)) = 0
            /\ Cardinality(Again(listed', Got(k), k.offset)) = 0
        BY <3>2, <4>1
      <4>3. Len(k.got) = 0 /\ Cardinality(Got(k)) = 0
        BY <3>2, <3>6
      <4>4. k.deleted = 0 /\ k.shifted = 0
        BY <1>4
      <4> QED BY <4>2, <4>3, <4>4
    <3> QED BY <3>5, <3>7 DEF ListingFits
  <2>2. CASE op # "listAll"
    BY <1>4, <2>2 DEF ListingFits
  <2> QED BY <2>1, <2>2
<1>9. MetaMade(reader', k, listed')
  BY <1>1 DEF MetaMade
<1> QED BY <1>6, <1>7, <1>8, <1>9 DEF PagesInv, k

\* A page moves rows from those before the listing to those it has got.
LEMMA ReadPageKeeps ==
    ASSUME PagesInv, Pages!ReadPage
    PROVE  PagesInv'
<1> DEFINE p == Pages!list(PageSize, reading.offset)
           k == reading'
           o == reading.offset
           G == Got(reading)
           Q == Pages!Range(p)
<1>0. RowsTyped /\ ReadingFits(reader, reading, born, listed) /\ ListingFits(reader, reading, listed)
  BY DEF PagesInv
<1>1. /\ listed' = listed /\ born' = born /\ roles' = roles /\ reader = "page"
      /\ reader' = IF Len(p) < PageSize THEN "done" ELSE "page"
      /\ k = [reading EXCEPT !.got = reading.got \o p, !.offset = o + PageSize]
  BY DEF Pages!ReadPage, Pages!Advance, Pages!base
<1>2. /\ reading.op = "listAll" /\ reading.got \in Seq(born) /\ o \in Nat /\ reading.always \subseteq listed
      /\ Cardinality(Missed(listed, reading.always, G, o)) <= reading.deleted
      /\ Len(reading.got) - Cardinality(G) + Cardinality(Again(listed, G, o)) <= reading.shifted
      /\ reading.deleted \in Nat /\ reading.shifted \in Nat
  BY <1>0, <1>1 DEF ReadingFits, ListingFits
<1>3. /\ PageSize \in Nat \ {0} /\ listed \in SUBSET Nat /\ born \in SUBSET Nat
      /\ IsFiniteSet(listed) /\ IsFiniteSet(born) /\ listed \subseteq born
  BY <1>0, KeysAreNumbers DEF RowsTyped
<1>4. /\ p \in Seq(listed) /\ Q = Between(listed, o, o + PageSize)
      /\ \A i, j \in DOMAIN p : p[i] = p[j] => i = j
      /\ Len(p) < PageSize => \A x \in listed : Rank(listed, x) <= o + PageSize
  BY <1>2, <1>3, PageHolds
<1> HIDE DEF p, k, o
<1>5. /\ k.op = reading.op /\ k.page = reading.page /\ k.take = reading.take
      /\ k.offset = o + PageSize /\ k.got = reading.got \o p /\ k.meta = reading.meta
      /\ k.always = reading.always /\ k.deleted = reading.deleted /\ k.shifted = reading.shifted
      /\ k.steady = reading.steady
      /\ k = [op |-> k.op, page |-> k.page, take |-> k.take, offset |-> k.offset, got |-> k.got,
              meta |-> k.meta, always |-> k.always, deleted |-> k.deleted,
              shifted |-> k.shifted, steady |-> k.steady]
  BY <1>0, <1>1 DEF ReadingFits
<1>6. p \in Seq(born)
  BY <1>3, <1>4, Widened
<1>7. /\ k.got \in Seq(born) /\ Len(k.got) = Len(reading.got) + Len(p) /\ Got(k) = G \cup Q
  BY <1>2, <1>5, <1>6, Joined DEF Got
<1>8. /\ Cardinality(Q) = Len(p) /\ IsFiniteSet(Q) /\ IsFiniteSet(G) /\ Cardinality(G) \in Nat
      /\ Len(reading.got) \in Nat /\ Len(p) \in Nat
  BY <1>2, <1>4, Held DEF Got
<1>9. o + PageSize \in Nat /\ o <= o + PageSize
  BY <1>2, <1>3
<1>10. /\ Cardinality(Missed(listed, k.always, G \cup Q, o + PageSize))
            <= Cardinality(Missed(listed, k.always, G, o))
       /\ Cardinality(Q) - Cardinality(G \cup Q) + Cardinality(Again(listed, G \cup Q, o + PageSize))
            <= Cardinality(Again(listed, G, o)) - Cardinality(G)
  <2> HIDE DEF G, Q
  <2>1. k.always \in SUBSET listed
    BY <1>2, <1>5
  <2> QED BY <1>2, <1>3, <1>4, <1>8, <1>9, <2>1, NextRows
<1>11. /\ Cardinality(Missed(listed, k.always, Got(k), k.offset)) \in Nat
       /\ Cardinality(Missed(listed, k.always, G, o)) \in Nat
       /\ Cardinality(Again(listed, Got(k), k.offset)) \in Nat
       /\ Cardinality(Again(listed, G, o)) \in Nat
  <2>1. k.always \in SUBSET listed
    BY <1>2, <1>5
  <2> QED BY <1>3, <2>1, SomeRows
<1>12. Cardinality(Got(k)) \in Nat
  BY <1>7, Held DEF Got
<1> HIDE DEF G, Q
<1>13. Cardinality(Missed(listed, k.always, Got(k), k.offset)) <= k.deleted
  BY <1>2, <1>5, <1>7, <1>10, <1>11
<1>14. Len(k.got) - Cardinality(Got(k)) + Cardinality(Again(listed, Got(k), k.offset)) <= k.shifted
  <2> DEFINE a == Len(reading.got)
             b == Cardinality(Again(listed, G, o))
             c == Cardinality(G)
             d == Cardinality(Got(k))
             e == Cardinality(Again(listed, Got(k), k.offset))
             q == Cardinality(Q)
             t == reading.shifted
  <2>1. a \in Nat /\ b \in Nat /\ c \in Nat /\ d \in Nat /\ e \in Nat /\ q \in Nat /\ t \in Nat
    BY <1>2, <1>8, <1>11, <1>12
  <2>2. q - d + e <= b - c
    BY <1>5, <1>7, <1>10
  <2>3. a - c + b <= t
    BY <1>2
  <2>4. Len(k.got) = a + q /\ k.shifted = t
    BY <1>5, <1>7, <1>8
  <2> HIDE DEF a, b, c, q, t
  <2>5. (a + q) - d + e <= t
    <3> HIDE DEF d, e
    <3> QED BY <2>1, <2>2, <2>3, Balance
  <2> QED BY <2>4, <2>5
<1>15. Len(p) < PageSize => k.always \ Got(k) = Missed(listed, k.always, Got(k), k.offset)
  BY <1>2, <1>4, <1>5 DEF Missed
<1>16. Len(k.got) - Cardinality(Got(k)) <= k.shifted
  <2> DEFINE a == Len(k.got)
             d == Cardinality(Got(k))
             e == Cardinality(Again(listed, Got(k), k.offset))
             t == k.shifted
  <2>1. a \in Nat /\ d \in Nat /\ e \in Nat /\ t \in Nat /\ a - d + e <= t
    BY <1>2, <1>5, <1>7, <1>8, <1>11, <1>12, <1>14
  <2> HIDE DEF a, d, e, t
  <2>2. a - d <= t
    BY <2>1
  <2> QED BY <2>2 DEF a, d, t
<1>17. ReadingFits(reader', k, born', listed')
  <2>1. reader' \in {"page", "done"}
    BY <1>1
  <2> QED BY <1>0, <1>1, <1>2, <1>5, <1>7, <1>9, <2>1 DEF ReadingFits
<1>18. ListingFits(reader', k, listed')
  <2>1. CASE Len(p) < PageSize
    <3>1. reader' = "done"
      BY <1>1, <2>1
    <3> QED BY <1>1, <1>13, <1>15, <1>16, <2>1, <3>1 DEF ListingFits, Got
  <2>2. CASE ~(Len(p) < PageSize)
    <3>1. reader' = "page"
      BY <1>1, <2>2
    <3> QED BY <1>1, <1>13, <1>14, <3>1 DEF ListingFits, Got
  <2> QED BY <2>1, <2>2
<1>19. RowsTyped' /\ MetaMade(reader', k, listed')
  BY <1>0, <1>1, <1>2, <1>5 DEF RowsTyped, MetaMade
<1> QED BY <1>17, <1>18, <1>19 DEF PagesInv, k

\* The page of a client is read,
LEMMA ReadListKeeps ==
    ASSUME PagesInv, Pages!ReadList
    PROVE  PagesInv'
<1> DEFINE p == Pages!list(reading.take, reading.offset)
           k == reading'
<1>0. RowsTyped /\ ReadingFits(reader, reading, born, listed)
  BY DEF PagesInv
<1>1. /\ listed' = listed /\ born' = born /\ roles' = roles /\ reader = "list"
      /\ reader' = "count" /\ k = [reading EXCEPT !.got = p]
  BY DEF Pages!ReadList, Pages!base
<1>2. /\ listed \in SUBSET Nat /\ IsFiniteSet(listed) /\ listed \subseteq born
      /\ reading.take \in Nat /\ reading.offset \in Nat
  BY <1>0, KeysAreNumbers DEF RowsTyped, ReadingFits
<1>3. p \in Seq(born)
  <2>1. p \in Seq(listed)
    BY <1>2, PageHolds
  <2> QED BY <1>2, <2>1, Widened
<1> HIDE DEF p, k
<1>4. /\ k.op = reading.op /\ k.page = reading.page /\ k.take = reading.take
      /\ k.offset = reading.offset /\ k.got = p /\ k.meta = reading.meta
      /\ k.always = reading.always /\ k.deleted = reading.deleted /\ k.shifted = reading.shifted
      /\ k.steady = reading.steady
      /\ k = [op |-> k.op, page |-> k.page, take |-> k.take, offset |-> k.offset, got |-> k.got,
              meta |-> k.meta, always |-> k.always, deleted |-> k.deleted,
              shifted |-> k.shifted, steady |-> k.steady]
  BY <1>0, <1>1 DEF ReadingFits
<1>5. ReadingFits(reader', k, born', listed')
  BY <1>0, <1>1, <1>3, <1>4 DEF ReadingFits
<1>6. RowsTyped' /\ ListingFits(reader', k, listed') /\ MetaMade(reader', k, listed')
  BY <1>0, <1>1, <1>4 DEF RowsTyped, ListingFits, MetaMade
<1> QED BY <1>5, <1>6 DEF PagesInv, k

\* then counted,
LEMMA CountKeeps ==
    ASSUME PagesInv, Pages!Count
    PROVE  PagesInv'
<1> DEFINE m == Pages!PageMeta(reading.page, reading.take, Cardinality(listed))
           k == reading'
<1>0. RowsTyped /\ ReadingFits(reader, reading, born, listed)
  BY DEF PagesInv
<1>1. /\ listed' = listed /\ born' = born /\ roles' = roles /\ reader = "count"
      /\ reader' \in {"roles", "done"} /\ k = [reading EXCEPT !.meta = m]
  BY DEF Pages!Count, Pages!base, Pages!Cardinality, Cardinality
<1>2. reading.op # "listAll"
  BY <1>0, <1>1 DEF ReadingFits
<1> HIDE DEF m, k
<1>4. /\ k.op = reading.op /\ k.page = reading.page /\ k.take = reading.take
      /\ k.offset = reading.offset /\ k.got = reading.got /\ k.meta = m
      /\ k.always = reading.always /\ k.deleted = reading.deleted /\ k.shifted = reading.shifted
      /\ k.steady = reading.steady
      /\ k = [op |-> k.op, page |-> k.page, take |-> k.take, offset |-> k.offset, got |-> k.got,
              meta |-> k.meta, always |-> k.always, deleted |-> k.deleted,
              shifted |-> k.shifted, steady |-> k.steady]
  BY <1>0, <1>1 DEF ReadingFits
<1>5. ReadingFits(reader', k, born', listed')
  BY <1>0, <1>1, <1>2, <1>4 DEF ReadingFits
<1>6. RowsTyped' /\ ListingFits(reader', k, listed')
  BY <1>0, <1>1, <1>2, <1>4 DEF RowsTyped, ListingFits
<1>7. MetaMade(reader', k, listed')
  <2>1. k.meta = Pages!PageMeta(k.page, k.take, Cardinality(listed'))
    BY <1>1, <1>4 DEF m
  <2> QED BY <2>1 DEF MetaMade
<1> QED BY <1>5, <1>6, <1>7 DEF PagesInv, k

\* and its roles looked up.
LEMMA LoadRolesKeeps ==
    ASSUME PagesInv, Pages!LoadRoles
    PROVE  PagesInv'
<1> DEFINE T == {i \in DOMAIN reading.got : reading.got[i] \in roles}
           places == Pages!InOrder(T)
           g == [i \in DOMAIN places |-> reading.got[places[i]]]
           k == reading'
<1>0. RowsTyped /\ ReadingFits(reader, reading, born, listed) /\ MetaMade(reader, reading, listed)
  BY DEF PagesInv
<1>1. /\ listed' = listed /\ born' = born /\ roles' = roles /\ reader = "roles"
      /\ reader' = "done" /\ k = [reading EXCEPT !.got = g]
  BY DEF Pages!LoadRoles, Pages!base
<1>2. reading.op # "listAll" /\ reading.got \in Seq(born)
  BY <1>0, <1>1 DEF ReadingFits
<1>3. g \in Seq(born)
  <2> DEFINE n == Cardinality(T)
             m == Len(reading.got)
  <2>1. m \in Nat /\ DOMAIN reading.got = 1 .. m /\ \A i \in 1 .. m : reading.got[i] \in born
    BY <1>2
  <2>2. T \in SUBSET (1 .. m) /\ T \in SUBSET Nat /\ IsFiniteSet(T)
    <3>1. T \in SUBSET (1 .. m) /\ IsFiniteSet(1 .. m)
      BY <2>1, FS_Interval
    <3> HIDE DEF T, m
    <3>2. T \in SUBSET Nat
      BY <2>1, <3>1
    <3>3. IsFiniteSet(T)
      BY <3>1, FS_Subset
    <3> QED BY <3>1, <3>2, <3>3
  <2> HIDE DEF T, m
  <2>3. places \in [1 .. n -> T] /\ n \in Nat
    BY <2>2, Ordered, FS_CardinalityType
  <2> HIDE DEF places, n
  <2>4. g \in [1 .. n -> born]
    BY <2>1, <2>2, <2>3
  <2> HIDE DEF g
  <2> QED BY <2>3, <2>4, Widened
<1> HIDE DEF g, k
<1>4. /\ k.op = reading.op /\ k.page = reading.page /\ k.take = reading.take
      /\ k.offset = reading.offset /\ k.got = g /\ k.meta = reading.meta
      /\ k.always = reading.always /\ k.deleted = reading.deleted /\ k.shifted = reading.shifted
      /\ k.steady = reading.steady
      /\ k = [op |-> k.op, page |-> k.page, take |-> k.take, offset |-> k.offset, got |-> k.got,
              meta |-> k.meta, always |-> k.always, deleted |-> k.deleted,
              shifted |-> k.shifted, steady |-> k.steady]
  BY <1>0, <1>1 DEF ReadingFits
<1>5. ReadingFits(reader', k, born', listed')
  BY <1>0, <1>1, <1>3, <1>4 DEF ReadingFits
<1>6. RowsTyped' /\ ListingFits(reader', k, listed')
  BY <1>0, <1>1, <1>2, <1>4 DEF RowsTyped, ListingFits
<1>7. MetaMade(reader', k, listed')
  <2>1. k.steady => k.meta = Pages!PageMeta(k.page, k.take, Cardinality(listed'))
    BY <1>0, <1>1, <1>2, <1>4 DEF MetaMade
  <2> QED BY <2>1 DEF MetaMade
<1> QED BY <1>5, <1>6, <1>7 DEF PagesInv, k

\* An operation that ends leaves nothing.
LEMMA StopKeeps ==
    ASSUME PagesInv, Pages!Fail \/ Pages!Finish
    PROVE  PagesInv'
<1>1. /\ listed' = listed /\ born' = born /\ roles' = roles /\ reader' = "idle"
      /\ reading' = Pages!Blank
  BY DEF Pages!Fail, Pages!Finish, Pages!base
<1>2. RowsTyped'
  BY <1>1 DEF PagesInv, RowsTyped
<1>3. ReadingFits("idle", Pages!Blank, born, listed) /\ Pages!Blank.op = None
  BY BlankFits
<1>4. ReadingFits(reader', reading', born', listed')
  BY <1>1, <1>3
<1>5. ListingFits(reader', reading', listed') /\ MetaMade(reader', reading', listed')
  BY <1>1 DEF ListingFits, MetaMade
<1> QED BY <1>2, <1>4, <1>5 DEF PagesInv

-----------------------------------------------------------------------------
(* Steps of the others *)

\* A new row is behind the listing, or pushes one row back before it.
LEMMA RowInserted ==
    ASSUME PagesInv, NEW d \in Keys, Pages!Insert(d)
    PROVE  PagesInv'
<1> DEFINE k == reading'
           x == IF \E r \in listed : r > d THEN 1 ELSE 0
           t == IF \E r \in listed : r > d THEN reading.shifted + 1 ELSE reading.shifted
           A == reading.always
           G == Got(reading)
           o == reading.offset
<1>0. RowsTyped /\ ReadingFits(reader, reading, born, listed) /\ ListingFits(reader, reading, listed)
  BY DEF PagesInv
<1>1. /\ d \notin born /\ listed' = listed \cup {d} /\ born' = born \cup {d}
      /\ roles' = roles \cup {d} /\ reader' = reader
      /\ k = [reading EXCEPT !.steady = FALSE, !.shifted = t]
  BY DEF Pages!Insert
<1>2. /\ reading.shifted \in Nat /\ t \in Nat /\ x \in Nat /\ t = reading.shifted + x
  BY <1>0 DEF ReadingFits
<1> HIDE DEF k, x, t
<1>3. /\ k.op = reading.op /\ k.page = reading.page /\ k.take = reading.take
      /\ k.offset = reading.offset /\ k.got = reading.got /\ k.meta = reading.meta
      /\ k.always = reading.always /\ k.deleted = reading.deleted /\ k.shifted = t
      /\ k.steady = FALSE
      /\ k = [op |-> k.op, page |-> k.page, take |-> k.take, offset |-> k.offset, got |-> k.got,
              meta |-> k.meta, always |-> k.always, deleted |-> k.deleted,
              shifted |-> k.shifted, steady |-> k.steady]
  BY <1>0, <1>1 DEF ReadingFits
<1>4. RowsTyped'
  <2>1. listed' \subseteq born' /\ roles' \subseteq born' /\ born' \subseteq Keys
    BY <1>0, <1>1 DEF RowsTyped
  <2> QED BY <1>0, <1>1, <2>1 DEF RowsTyped
<1>5. ReadingFits(reader', k, born', listed')
  <2>1. k.got \in Seq(born') /\ k.always \subseteq listed'
    <3>1. reading.got \in Seq(born) /\ born \subseteq born' /\ reading.always \subseteq listed
      BY <1>0, <1>1 DEF ReadingFits
    <3> QED BY <1>1, <1>3, <3>1, Widened
  <2>2. /\ k.page \in Nat \ {0} /\ k.take \in Nat \ {0} /\ k.offset \in Nat
        /\ k.deleted \in Nat /\ k.steady \in BOOLEAN
        /\ reader' = "page" => k.op = "listAll"
        /\ reader' \in {"list", "count", "roles"} => k.op # "listAll"
    BY <1>0, <1>1, <1>3 DEF ReadingFits
  <2>3. k.shifted \in Nat
    BY <1>2, <1>3
  <2> QED BY <1>3, <2>1, <2>2, <2>3 DEF ReadingFits
<1>6. ListingFits(reader', k, listed')
  <2> SUFFICES ASSUME reading.op = "listAll" PROVE ListingFits(reader', k, listed')
    BY <1>3 DEF ListingFits
  <2>1. /\ listed \in SUBSET Nat /\ IsFiniteSet(listed) /\ A \in SUBSET listed /\ o \in Nat
        /\ reading.got \in Seq(born) /\ reading.deleted \in Nat /\ d \in Nat \ listed
    BY <1>0, <1>1, KeysAreNumbers DEF ReadingFits, RowsTyped
  <2>2. G \subseteq born /\ d \notin G /\ Cardinality(G) \in Nat /\ Len(reading.got) \in Nat
    BY <1>1, <2>1, Held DEF Got
  <2> DEFINE ma == Cardinality(Missed(listed, A, G, o))
             mb == Cardinality(Missed(listed \cup {d}, A, G, o))
             aa == Cardinality(Again(listed, G, o))
             ab == Cardinality(Again(listed \cup {d}, G, o))
             n == Len(reading.got)
             g == Cardinality(G)
  <2>3. Got(k) = G
    BY <1>3 DEF Got
  <2>4. CASE reader = "page"
    <3>1. ma <= reading.deleted /\ n - g + aa <= reading.shifted
      BY <1>0, <2>4 DEF ListingFits
    <3>2. mb <= ma /\ ab <= aa + x
      <4> HIDE DEF A, G, o
      <4> QED BY <2>1, <2>2, AgainByInsertion DEF x
    <3>3. ma \in Nat /\ mb \in Nat /\ aa \in Nat /\ ab \in Nat
      <4>1. IsFiniteSet(listed \cup {d}) /\ listed \cup {d} \in SUBSET Nat /\ A \in SUBSET (listed \cup {d})
        BY <2>1, FS_AddElement
      <4> HIDE DEF A, G, o
      <4> QED BY <2>1, <4>1, SomeRows
    <3>4. n \in Nat /\ g \in Nat
      BY <2>2
    <3>5. mb <= reading.deleted /\ n - g + ab <= t
      <4> HIDE DEF ma, mb, aa, ab, n, g
      <4> QED BY <1>2, <2>1, <3>1, <3>2, <3>3, <3>4
    <3>6. /\ Cardinality(Missed(listed', k.always, Got(k), k.offset)) <= k.deleted
          /\ Len(k.got) - Cardinality(Got(k)) + Cardinality(Again(listed', Got(k), k.offset)) <= k.shifted
      BY <1>1, <1>3, <2>3, <3>5
    <3> QED BY <1>1, <2>4, <3>6 DEF ListingFits
  <2>5. CASE reader = "done"
    <3>1. Cardinality(A \ G) <= reading.deleted /\ n - g <= reading.shifted
      BY <1>0, <2>5 DEF ListingFits
    <3>2. n - g <= t
      <4>1. n \in Nat /\ g \in Nat
        BY <2>2
      <4> HIDE DEF n, g
      <4> QED BY <1>2, <3>1, <4>1
    <3>3. Cardinality(k.always \ Got(k)) <= k.deleted /\ Len(k.got) - Cardinality(Got(k)) <= k.shifted
      BY <1>3, <2>3, <3>1, <3>2
    <3> QED BY <1>1, <2>5, <3>3 DEF ListingFits
  <2>6. CASE reader \notin {"page", "done"}
    BY <1>1, <2>6 DEF ListingFits
  <2> QED BY <2>4, <2>5, <2>6
<1>7. MetaMade(reader', k, listed')
  BY <1>3 DEF MetaMade
<1> QED BY <1>4, <1>5, <1>6, <1>7 DEF PagesInv, k

\* A deleted row pulls one row behind the listing that it has not got.
LEMMA RowDeleted ==
    ASSUME PagesInv, NEW d \in Keys, Pages!Delete(d)
    PROVE  PagesInv'
<1> DEFINE k == reading'
           t == reading.deleted + 1
           A == reading.always
           B == reading.always \ {d}
           G == Got(reading)
           o == reading.offset
<1>0. RowsTyped /\ ReadingFits(reader, reading, born, listed) /\ ListingFits(reader, reading, listed)
  BY DEF PagesInv
<1>1. /\ d \in listed /\ listed' = listed \ {d} /\ born' = born /\ roles' = roles
      /\ reader' = reader
      /\ k = [reading EXCEPT !.steady = FALSE, !.always = B, !.deleted = t]
  BY DEF Pages!Delete
<1>2. reading.deleted \in Nat /\ t \in Nat /\ t = reading.deleted + 1
  BY <1>0 DEF ReadingFits
<1> HIDE DEF k, t, B
<1>3. /\ k.op = reading.op /\ k.page = reading.page /\ k.take = reading.take
      /\ k.offset = reading.offset /\ k.got = reading.got /\ k.meta = reading.meta
      /\ k.always = B /\ k.deleted = t /\ k.shifted = reading.shifted
      /\ k.steady = FALSE
      /\ k = [op |-> k.op, page |-> k.page, take |-> k.take, offset |-> k.offset, got |-> k.got,
              meta |-> k.meta, always |-> k.always, deleted |-> k.deleted,
              shifted |-> k.shifted, steady |-> k.steady]
  BY <1>0, <1>1 DEF ReadingFits
<1>4. RowsTyped'
  <2>1. listed' \subseteq born' /\ roles' \subseteq born' /\ born' \subseteq Keys
    BY <1>0, <1>1 DEF RowsTyped
  <2> QED BY <1>0, <1>1, <2>1 DEF RowsTyped
<1>5. ReadingFits(reader', k, born', listed')
  <2>1. k.got \in Seq(born') /\ k.always \subseteq listed'
    BY <1>0, <1>1, <1>3 DEF ReadingFits, B
  <2>2. /\ k.page \in Nat \ {0} /\ k.take \in Nat \ {0} /\ k.offset \in Nat
        /\ k.shifted \in Nat /\ k.steady \in BOOLEAN
        /\ reader' = "page" => k.op = "listAll"
        /\ reader' \in {"list", "count", "roles"} => k.op # "listAll"
    BY <1>0, <1>1, <1>3 DEF ReadingFits
  <2>3. k.deleted \in Nat
    BY <1>2, <1>3
  <2> QED BY <1>3, <2>1, <2>2, <2>3 DEF ReadingFits
<1>6. ListingFits(reader', k, listed')
  <2> SUFFICES ASSUME reading.op = "listAll" PROVE ListingFits(reader', k, listed')
    BY <1>3 DEF ListingFits
  <2>1. /\ listed \in SUBSET Nat /\ IsFiniteSet(listed) /\ A \in SUBSET listed /\ o \in Nat
        /\ reading.got \in Seq(born) /\ reading.shifted \in Nat
    BY <1>0, KeysAreNumbers DEF ReadingFits
  <2>2. Cardinality(G) \in Nat /\ Len(reading.got) \in Nat
    BY <2>1, Held DEF Got
  <2> DEFINE ma == Cardinality(Missed(listed, A, G, o))
             mb == Cardinality(Missed(listed \ {d}, A \ {d}, G, o))
             aa == Cardinality(Again(listed, G, o))
             ab == Cardinality(Again(listed \ {d}, G, o))
             n == Len(reading.got)
             g == Cardinality(G)
  <2>3. Got(k) = G
    BY <1>3 DEF Got
  <2>4. CASE reader = "page"
    <3>1. ma <= reading.deleted /\ n - g + aa <= reading.shifted
      BY <1>0, <2>4 DEF ListingFits
    <3>2. mb <= ma + 1 /\ ab <= aa
      <4> HIDE DEF A, G, o
      <4> QED BY <1>1, <2>1, MissedByDeletion
    <3>3. ma \in Nat /\ mb \in Nat /\ aa \in Nat /\ ab \in Nat
      <4>1. /\ IsFiniteSet(listed \ {d}) /\ listed \ {d} \in SUBSET Nat
            /\ A \ {d} \in SUBSET (listed \ {d})
        BY <2>1, FS_RemoveElement
      <4> HIDE DEF A, G, o
      <4> QED BY <2>1, <4>1, SomeRows
    <3>4. n \in Nat /\ g \in Nat
      BY <2>2
    <3>5. mb <= t /\ n - g + ab <= reading.shifted
      <4> HIDE DEF ma, mb, aa, ab, n, g
      <4> QED BY <1>2, <2>1, <3>1, <3>2, <3>3, <3>4
    <3>6. /\ Cardinality(Missed(listed', k.always, Got(k), k.offset)) <= k.deleted
          /\ Len(k.got) - Cardinality(Got(k)) + Cardinality(Again(listed', Got(k), k.offset)) <= k.shifted
      BY <1>1, <1>3, <2>3, <3>5 DEF B
    <3> QED BY <1>1, <2>4, <3>6 DEF ListingFits
  <2>5. CASE reader = "done"
    <3>1. Cardinality(A \ G) <= reading.deleted /\ n - g <= reading.shifted
      BY <1>0, <2>5 DEF ListingFits
    <3>2. Cardinality(B \ G) <= Cardinality(A \ G) /\ Cardinality(B \ G) \in Nat /\ Cardinality(A \ G) \in Nat
      <4>1. A \ G \in SUBSET listed /\ B \ G \in SUBSET (A \ G)
        BY <2>1 DEF B
      <4> HIDE DEF A, G
      <4> QED BY <2>1, <4>1, FS_Subset, FS_CardinalityType
    <3>3. Cardinality(B \ G) <= t
      BY <1>2, <3>1, <3>2
    <3>4. Cardinality(k.always \ Got(k)) <= k.deleted /\ Len(k.got) - Cardinality(Got(k)) <= k.shifted
      BY <1>3, <2>3, <3>1, <3>3
    <3> QED BY <1>1, <2>5, <3>4 DEF ListingFits
  <2>6. CASE reader \notin {"page", "done"}
    BY <1>1, <2>6 DEF ListingFits
  <2> QED BY <2>4, <2>5, <2>6
<1>7. MetaMade(reader', k, listed')
  BY <1>3 DEF MetaMade
<1> QED BY <1>4, <1>5, <1>6, <1>7 DEF PagesInv, k

\* The reader looks roles up once it has its rows.
LEMMA RoleDeleted ==
    ASSUME PagesInv, NEW d \in Keys, Pages!DeleteRole(d)
    PROVE  PagesInv'
<1> DEFINE k == reading'
<1>0. RowsTyped /\ ReadingFits(reader, reading, born, listed) /\ ListingFits(reader, reading, listed)
  BY DEF PagesInv
<1>1. /\ listed' = listed /\ born' = born /\ roles' = roles \ {d} /\ reader' = reader
      /\ k = [reading EXCEPT !.steady = FALSE]
  BY DEF Pages!DeleteRole
<1> HIDE DEF k
<1>2. /\ k.op = reading.op /\ k.page = reading.page /\ k.take = reading.take
      /\ k.offset = reading.offset /\ k.got = reading.got /\ k.meta = reading.meta
      /\ k.always = reading.always /\ k.deleted = reading.deleted /\ k.shifted = reading.shifted
      /\ k.steady = FALSE
      /\ k = [op |-> k.op, page |-> k.page, take |-> k.take, offset |-> k.offset, got |-> k.got,
              meta |-> k.meta, always |-> k.always, deleted |-> k.deleted,
              shifted |-> k.shifted, steady |-> k.steady]
  BY <1>0, <1>1 DEF ReadingFits
<1>3. RowsTyped'
  BY <1>0, <1>1 DEF RowsTyped
<1>4. ReadingFits(reader', k, born', listed')
  BY <1>0, <1>1, <1>2 DEF ReadingFits
<1>5. ListingFits(reader', k, listed')
  <2>1. Got(k) = Got(reading)
    BY <1>2 DEF Got
  <2> QED BY <1>0, <1>1, <1>2, <2>1 DEF ListingFits
<1>6. MetaMade(reader', k, listed')
  BY <1>2 DEF MetaMade
<1> QED BY <1>3, <1>4, <1>5, <1>6 DEF PagesInv, k

-----------------------------------------------------------------------------
(* The theorem *)

\* The invariant is inductive.
LEMMA PagesInductive == Pages!Spec => []PagesInv
<1>1. Pages!Init => PagesInv
  BY PagesBegin
<1>2. PagesInv /\ [Pages!Next]_(Pages!vars) => PagesInv'
  <2> SUFFICES ASSUME PagesInv, [Pages!Next]_(Pages!vars) PROVE PagesInv'
    OBVIOUS
  <2>1. CASE Pages!Operation
    <3>0. PageTakes \cup PageNumbers \subseteq Nat \ {0}
      BY KeysAreNumbers DEF PagesInv
    <3>1. CASE Pages!Begin("listAll", 1, 1)
      BY <3>1, BeginKeeps
    <3>2. ASSUME NEW op \in {"findMany", "getUserRoles"}, NEW page \in PageNumbers,
                 NEW take \in PageTakes, Pages!Begin(op, page, take)
          PROVE  PagesInv'
      <4>1. page \in Nat \ {0} /\ take \in Nat \ {0} /\ op \in {"listAll", "findMany", "getUserRoles"}
        BY <3>0
      <4> QED BY <3>2, <4>1, BeginKeeps
    <3> QED BY <2>1, <3>1, <3>2 DEF Pages!Operation
  <2>2. CASE Pages!Reader
    BY <2>2, ReadPageKeeps, ReadListKeeps, CountKeeps, LoadRolesKeeps, StopKeeps DEF Pages!Reader
  <2>3. CASE Pages!Others
    <3>1. PICK d \in Keys : Pages!Insert(d) \/ Pages!Delete(d) \/ Pages!DeleteRole(d)
      BY <2>3 DEF Pages!Others
    <3> QED BY <3>1, RowInserted, RowDeleted, RoleDeleted
  <2>4. CASE UNCHANGED Pages!vars
    <3>1. /\ listed' = listed /\ born' = born /\ roles' = roles /\ reader' = reader
          /\ reading' = reading
      BY <2>4 DEF Pages!vars, Pages!base
    <3>2. RowsTyped /\ ReadingFits(reader, reading, born, listed)
          /\ ListingFits(reader, reading, listed) /\ MetaMade(reader, reading, listed)
      BY DEF PagesInv
    <3>3. RowsTyped'
      BY <3>1, <3>2 DEF RowsTyped
    <3>4. /\ ReadingFits(reader', reading', born', listed')
          /\ ListingFits(reader', reading', listed') /\ MetaMade(reader', reading', listed')
      BY <3>1, <3>2
    <3> QED BY <3>3, <3>4 DEF PagesInv
  <2> QED BY <2>1, <2>2, <2>3, <2>4 DEF Pages!Next
<1> QED BY <1>1, <1>2, PTL DEF Pages!Spec

\* What the pages of a table hold in every state, from the invariant.
LEMMA PagesBounded ==
    ASSUME PagesInv PROVE ListingsBounded
<1>0. RowsTyped /\ ReadingFits(reader, reading, born, listed) /\ ListingFits(reader, reading, listed)
      /\ MetaMade(reader, reading, listed)
  BY DEF PagesInv
<1>1. Pages!TypeOK
  <2>1. reading.got \in Seq(born) /\ born \subseteq Keys
    BY <1>0 DEF ReadingFits, RowsTyped
  <2>2. reading.got \in Seq(Keys)
    BY <2>1, Widened
  <2> QED BY <1>0, <2>2 DEF Pages!TypeOK, ReadingFits, RowsTyped
<1>2. Pages!MissesOnlyForDeletions /\ Pages!RepeatsOnlyForInsertions
  BY <1>0 DEF Pages!MissesOnlyForDeletions, Pages!RepeatsOnlyForInsertions, ListingFits, Got,
              Pages!Cardinality, Cardinality
<1>3. Pages!MetaOfSteadyTable
  <2> SUFFICES ASSUME reader = "done", reading.op # "listAll", reading.steady
      PROVE  /\ \A p \in 1 .. Cardinality(listed) + 1 :
                   p <= reading.meta.pageCount
                     <=> Pages!list(reading.take, Pages!skip(p, reading.take)) # <<>>
             /\ reading.meta.hasNextPage <=> \E k \in listed : \A p \in 1 .. reading.page :
                   k \notin Pages!Range(Pages!list(reading.take, Pages!skip(p, reading.take)))
    BY DEF Pages!MetaOfSteadyTable, Pages!Cardinality, Cardinality
  <2>1. reading.meta = Pages!PageMeta(reading.page, reading.take, Cardinality(listed))
    BY <1>0 DEF MetaMade
  <2>2. /\ listed \in SUBSET Nat /\ IsFiniteSet(listed)
        /\ reading.page \in Nat \ {0} /\ reading.take \in Nat \ {0}
    BY <1>0, KeysAreNumbers DEF ReadingFits
  <2> DEFINE m == reading.meta
             g == reading.page
             t == reading.take
  <2>3. g \in Nat \ {0} /\ t \in Nat \ {0} /\ m = Pages!PageMeta(g, t, Cardinality(listed))
    BY <2>1, <2>2
  <2> HIDE DEF m, g, t
  <2>4. /\ \A p \in 1 .. Cardinality(listed) + 1 :
              p <= m.pageCount <=> Pages!list(t, Pages!skip(p, t)) # <<>>
        /\ m.hasNextPage <=> \E k \in listed :
              \A p \in 1 .. g : k \notin Pages!Range(Pages!list(t, Pages!skip(p, t)))
    BY <2>2, <2>3, MetaFits
  <2> QED BY <2>4 DEF m, g, t
<1> QED BY <1>1, <1>2, <1>3 DEF ListingsBounded

\* The bounds hold however the steps of the reader and of the others interleave.
THEOREM ListingsHold == Pages!Spec => []ListingsBounded
BY PagesInductive, PagesBounded, PTL
=============================================================================
