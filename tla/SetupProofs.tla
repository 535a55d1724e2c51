---------------------------- MODULE SetupProofs ----------------------------
(***************************************************************************)
(* Proofs about Setup.  Of the start of the middleware: for any tables and *)
(* fields, any contents at the first start, and any number of crashes, lost*)
(* answers and late writes, a start that reports success has left nothing  *)
(* out, repeats no seed, and never touches a table of the old schema.  Of  *)
(* the setup script of the example: a run without failures completes what  *)
(* earlier runs have left, and sample rows with unique columns come once.  *)
(***************************************************************************)
EXTENDS Setup, FiniteSetTheorems, SequenceTheorems, TLAPS

RowsIn(P, role, n) == {p \in P : p.role = role /\ p.table = n}
Rows(role, n) == RowsIn(perms, role, n)

\* A write that processes send while S are the tables and A the admin roles: no
\* field for a table of the old schema, no permission of an unknown role.
WriteOK(w, A, S) ==
    \/ \E n \in Names : w = TableWrite(n)
    \/ \E n \in Names : \E f \in Fields[n] :
          w = FieldWrite(n, f) /\ (n \in DOMAIN S => ~S[n].legacy)
    \/ w = RoleWrite
    \/ \E role \in A, n \in Names : w = GrantWrite(role, n)
    \/ w.kind = "regrant" /\ w.id \in Nat /\ w = RegrantWrite(w.id)

\* What NocoDB holds, and what may still arrive there.
DataOK ==
    /\ DOMAIN schema \subseteq Names
    /\ \A n \in DOMAIN schema :
          schema[n] \in Table /\ (schema[n].legacy => n \in WithLegacy)
    /\ nextId \in Nat
    /\ IsFiniteSet(admins) /\ \A role \in admins : role \in Nat /\ role < nextId
    /\ IsFiniteSet(perms)
    /\ perms \subseteq [id : Nat, role : Nat, table : Names, full : BOOLEAN]
    /\ \A p \in perms : p.role \in admins
    /\ \A w \in late : WriteOK(w, admins, schema)
    /\ arrived \in Nat
    /\ SeedsNotRepeated

Tabling == {"findTable", "createTable", "checkLegacy", "readFields", "createColumn"}

\* Where the starting process is, and what it has found out: fields are added to
\* no table of the old schema, and what it is about to seed is not there but for
\* what arrived late.
ProcessOK ==
    /\ pc \in {"down", "started", "stopped"} \cup Tabling \cup Seeding
    /\ at \in DOMAIN Definitions
    /\ pc \in {"findRoles", "findPermissions", "findAdmin", "createRole"} => at = 1
    /\ pc = "createColumn" => todo # {} /\ todo \subseteq Fields[Current]
    /\ pc \in {"readFields", "createColumn"} /\ Current \in DOMAIN schema
          => ~schema[Current].legacy
    /\ pc \in {"findGrant", "writePermission"} => admin \in admins
    /\ existing \in Nat \cup {None}
    /\ pc = "createRole" => Cardinality(admins) <= arrived
    /\ pc = "writePermission" /\ existing = None
          => Cardinality(Rows(admin, Current)) <= arrived
    /\ faults \in 0 .. MaxFaults /\ clean \in BOOLEAN

\* How far a start has come in which nothing has failed.
CleanOK ==
    /\ pc \in Tabling => \A i \in 1 .. at - 1 : Ready(Definitions[i])
    /\ pc = "createColumn" => Current \in DOMAIN schema /\ Missing(Current) \subseteq todo
    /\ pc \in Seeding \cup {"started"} => \A n \in Names : Ready(n)
    /\ pc \in {"findGrant", "writePermission"} =>
          \A i \in 1 .. at - 1 : Admitted(admin, Definitions[i])
    /\ pc = "writePermission" /\ existing # None =>
          \E p \in Rows(admin, Current) : p.id = existing
    /\ pc = "started" => \E role \in admins : \A n \in Names : Admitted(role, n)

\* The inductive invariant.  StartSafe is not inductive: it says nothing of a
\* start under way, nor of the writes that are still to arrive.
IInv == DataOK /\ ProcessOK /\ (clean => CleanOK)

-----------------------------------------------------------------------------
(* What a write that takes effect may do, to the tables and to the rows. *)

GrowSchema ==
    /\ DOMAIN schema \subseteq DOMAIN schema' /\ DOMAIN schema' \subseteq Names
    /\ \A n \in DOMAIN schema' :
          /\ schema'[n] \in Table
          /\ schema'[n].legacy => n \in DOMAIN schema /\ schema[n].legacy
          /\ n \notin DOMAIN schema => Missing(n)' = {}
    /\ \A n \in DOMAIN schema :
          /\ schema[n].fields \subseteq schema'[n].fields
          /\ schema[n].legacy => schema'[n] = schema[n]

GrowRows(w) ==
    /\ nextId' \in Nat
    /\ admins \subseteq admins' /\ IsFiniteSet(admins')
    /\ \A role \in admins' : role \in Nat /\ role < nextId'
    /\ Cardinality(admins') <= Cardinality(admins) + IF w = RoleWrite THEN 1 ELSE 0
    /\ IsFiniteSet(perms')
    /\ perms' \subseteq [id : Nat, role : Nat, table : Names, full : BOOLEAN]
    /\ \A p \in perms' : p.role \in admins'
    /\ \A role, n :
          Cardinality(Rows(role, n)')
             <= Cardinality(Rows(role, n)) + IF w = GrantWrite(role, n) THEN 1 ELSE 0
    /\ \A p \in perms : \E q \in perms' :
          /\ q.id = p.id /\ q.role = p.role /\ q.table = p.table
          /\ p.full => q.full

-----------------------------------------------------------------------------
(* The writes. *)

LEMMA ApplyTable ==
    ASSUME NEW n, Apply(TableWrite(n))
    PROVE  /\ n \notin DOMAIN schema
           /\ schema' = [m \in DOMAIN schema \cup {n} |->
                 IF m = n THEN [fields |-> Fields[n], legacy |-> FALSE] ELSE schema[m]]
           /\ UNCHANGED <<admins, perms, nextId>>
    BY DEF Apply, Applicable, TableWrite

LEMMA ApplyField ==
    ASSUME NEW n, NEW f, Apply(FieldWrite(n, f))
    PROVE  /\ n \in DOMAIN schema
           /\ schema' = [schema EXCEPT ![n].fields = schema[n].fields \cup {f}]
           /\ UNCHANGED <<admins, perms, nextId>>
    BY DEF Apply, Applicable, FieldWrite

LEMMA ApplyRole ==
    ASSUME Apply(RoleWrite)
    PROVE  /\ admins' = admins \cup {nextId}
           /\ nextId' = nextId + 1
           /\ UNCHANGED <<schema, perms>>
    BY DEF Apply, Applicable, RoleWrite

LEMMA ApplyGrant ==
    ASSUME NEW role, NEW n, Apply(GrantWrite(role, n))
    PROVE  /\ perms' = perms \cup
                {[id |-> nextId, role |-> role, table |-> n, full |-> TRUE]}
           /\ nextId' = nextId + 1
           /\ UNCHANGED <<schema, admins>>
    BY DEF Apply, Applicable, GrantWrite

LEMMA ApplyRegrant ==
    ASSUME NEW id, Apply(RegrantWrite(id))
    PROVE  /\ perms' = {IF p.id = id THEN [p EXCEPT !.full = TRUE] ELSE p : p \in perms}
           /\ UNCHANGED <<schema, admins, nextId>>
    BY DEF Apply, Applicable, RegrantWrite

-----------------------------------------------------------------------------
(* Counting rows. *)

LEMMA RowsFinite ==
    ASSUME NEW P, IsFiniteSet(P), NEW role, NEW n
    PROVE  IsFiniteSet(RowsIn(P, role, n)) /\ Cardinality(RowsIn(P, role, n)) \in Nat
<1>1. RowsIn(P, role, n) \subseteq P  BY DEF RowsIn
<1>   QED  BY <1>1, FS_Subset, FS_CardinalityType

\* Rewriting rows, but for the role and the table they name, adds none.
LEMMA RewrittenRows ==
    ASSUME NEW P, IsFiniteSet(P), NEW Q, NEW f \in [P -> Q],
           \A q \in Q : \E p \in P : f[p] = q,
           \A p \in P : f[p].role = p.role /\ f[p].table = p.table
    PROVE  /\ IsFiniteSet(Q)
           /\ \A role, n : Cardinality(RowsIn(Q, role, n)) <= Cardinality(RowsIn(P, role, n))
<1>1. IsFiniteSet(Q)
  <2>1. f \in Surjection(P, Q)  BY DEF Surjection
  <2>   QED  BY <2>1, FS_Surjection
<1>2. ASSUME NEW role, NEW n
      PROVE  Cardinality(RowsIn(Q, role, n)) <= Cardinality(RowsIn(P, role, n))
  <2> DEFINE p1 == RowsIn(P, role, n)
             q1 == RowsIn(Q, role, n)
             g == [p \in p1 |-> f[p]]
  <2>1. p1 \subseteq P  BY DEF RowsIn
  <2>2. IsFiniteSet(p1)  BY RowsFinite
  <2>3. \A p \in p1 : f[p] \in q1  BY DEF RowsIn
  <2>4. \A q \in q1 : \E p \in p1 : f[p] = q  BY DEF RowsIn
  <2>5. g \in [p1 -> q1] /\ \A q \in q1 : \E p \in p1 : g[p] = q  BY <2>3, <2>4
  <2>6. g \in Surjection(p1, q1)  BY <2>5 DEF Surjection
  <2>   HIDE DEF p1, q1, g
  <2>7. Cardinality(q1) <= Cardinality(p1)  BY <2>2, <2>6, FS_Surjection
  <2>   QED  BY <2>7 DEF p1, q1
<1>   QED  BY <1>1, <1>2

\* A new row counts for the role and the table it names, and for no others.
LEMMA AddedRow ==
    ASSUME NEW P, IsFiniteSet(P), NEW row
    PROVE  /\ IsFiniteSet(P \cup {row})
           /\ Cardinality(RowsIn(P \cup {row}, row.role, row.table))
                 <= Cardinality(RowsIn(P, row.role, row.table)) + 1
           /\ \A role, n : role # row.role \/ n # row.table =>
                 Cardinality(RowsIn(P \cup {row}, role, n)) = Cardinality(RowsIn(P, role, n))
<1>1. IsFiniteSet(P \cup {row})  BY FS_AddElement
<1>2. RowsIn(P \cup {row}, row.role, row.table) = RowsIn(P, row.role, row.table) \cup {row}
      BY DEF RowsIn
<1>3. /\ IsFiniteSet(RowsIn(P, row.role, row.table))
      /\ Cardinality(RowsIn(P, row.role, row.table)) \in Nat
      BY RowsFinite
<1>4. \A role, n : role # row.role \/ n # row.table =>
            RowsIn(P \cup {row}, role, n) = RowsIn(P, role, n)
      BY DEF RowsIn
<1>5. Cardinality(RowsIn(P, row.role, row.table) \cup {row})
         <= Cardinality(RowsIn(P, row.role, row.table)) + 1
  <2> DEFINE rows == RowsIn(P, row.role, row.table)
  <2>1. IsFiniteSet(rows) /\ Cardinality(rows) \in Nat  BY <1>3
  <2>   HIDE DEF rows
  <2>2. Cardinality(rows \cup {row}) =
           IF row \in rows THEN Cardinality(rows) ELSE Cardinality(rows) + 1
        BY <2>1, FS_AddElement
  <2>3. Cardinality(rows \cup {row}) <= Cardinality(rows) + 1
        BY <2>1, <2>2
  <2>   QED  BY <2>3 DEF rows
<1>   QED  BY <1>1, <1>2, <1>4, <1>5

-----------------------------------------------------------------------------
(* Writes take nothing away. *)

LEMMA TableGrows ==
    ASSUME InitAssumption, DataOK, NEW n \in Names, Apply(TableWrite(n))
    PROVE  GrowSchema
<1>1. /\ n \notin DOMAIN schema
      /\ schema' = [m \in DOMAIN schema \cup {n} |->
            IF m = n THEN [fields |-> Fields[n], legacy |-> FALSE] ELSE schema[m]]
      BY ApplyTable
<1>2. DOMAIN schema' = DOMAIN schema \cup {n}  BY <1>1
<1>3. schema'[n] = [fields |-> Fields[n], legacy |-> FALSE]  BY <1>1
<1>4. \A m \in DOMAIN schema : schema'[m] = schema[m]  BY <1>1
<1>5. schema'[n] \in Table /\ ~schema'[n].legacy  BY <1>3 DEF Table
<1>6. Missing(n)' = {}  BY <1>3 DEF Missing
<1>   QED  BY <1>1, <1>2, <1>4, <1>5, <1>6 DEF GrowSchema, DataOK

LEMMA FieldGrows ==
    ASSUME InitAssumption, DataOK, NEW n \in Names, NEW f \in Fields[n],
           n \in DOMAIN schema => ~schema[n].legacy, Apply(FieldWrite(n, f))
    PROVE  GrowSchema
<1>1. /\ n \in DOMAIN schema
      /\ schema' = [schema EXCEPT ![n].fields = schema[n].fields \cup {f}]
      BY ApplyField
<1>2. \A m \in DOMAIN schema : schema[m] \in Table  BY DEF DataOK
<1>3. DOMAIN schema' = DOMAIN schema  BY <1>1
<1>4. schema'[n] = [schema[n] EXCEPT !.fields = schema[n].fields \cup {f}]  BY <1>1
<1>5. \A m \in DOMAIN schema : m # n => schema'[m] = schema[m]  BY <1>1
<1>6. schema'[n].fields = schema[n].fields \cup {f}  BY <1>1, <1>2, <1>4 DEF Table
<1>7. schema'[n].legacy = schema[n].legacy  BY <1>1, <1>2, <1>4 DEF Table
<1>8. schema'[n] \in Table
  <2>1. schema[n].fields \cup {f} \in SUBSET UNION {Fields[m] : m \in Names}
        BY <1>1, <1>2 DEF Table
  <2>   QED  BY <2>1, <1>1, <1>2, <1>4 DEF Table
<1>9. ~schema[n].legacy  BY <1>1
<1>   QED  BY <1>1, <1>2, <1>3, <1>5, <1>6, <1>7, <1>8, <1>9 DEF GrowSchema, DataOK

LEMMA SameSchema ==
    ASSUME InitAssumption, DataOK, UNCHANGED schema
    PROVE  GrowSchema
    BY DEF GrowSchema, DataOK

LEMMA RoleGrows ==
    ASSUME InitAssumption, DataOK, Apply(RoleWrite)
    PROVE  GrowSchema /\ GrowRows(RoleWrite)
<1>1. admins' = admins \cup {nextId} /\ nextId' = nextId + 1 /\ UNCHANGED <<schema, perms>>
      BY ApplyRole
<1>2. /\ nextId \in Nat /\ IsFiniteSet(admins)
      /\ \A role \in admins : role \in Nat /\ role < nextId
      BY DEF DataOK
<1>3. IsFiniteSet(admins') /\ Cardinality(admins') <= Cardinality(admins) + 1
  <2>1. Cardinality(admins) \in Nat  BY <1>2, FS_CardinalityType
  <2>2. /\ IsFiniteSet(admins \cup {nextId})
        /\ Cardinality(admins \cup {nextId}) =
              IF nextId \in admins THEN Cardinality(admins) ELSE Cardinality(admins) + 1
        BY <1>2, FS_AddElement
  <2>   QED  BY <1>1, <2>1, <2>2
<1>4. \A role \in admins' : role \in Nat /\ role < nextId'  BY <1>1, <1>2
<1>5. ASSUME NEW role, NEW n
      PROVE  Cardinality(Rows(role, n)') <=
                Cardinality(Rows(role, n)) + IF RoleWrite = GrantWrite(role, n) THEN 1 ELSE 0
  <2>1. Rows(role, n)' = Rows(role, n)  BY <1>1 DEF Rows, RowsIn
  <2>2. Cardinality(Rows(role, n)) \in Nat  BY RowsFinite DEF Rows, DataOK
  <2>   QED  BY <2>1, <2>2
<1>6. GrowSchema  BY <1>1, SameSchema
<1>   QED  BY <1>1, <1>2, <1>3, <1>4, <1>5, <1>6 DEF GrowRows, DataOK

LEMMA GrantGrows ==
    ASSUME InitAssumption, DataOK, NEW role \in admins, NEW n \in Names,
           Apply(GrantWrite(role, n))
    PROVE  GrowSchema /\ GrowRows(GrantWrite(role, n))
<1> DEFINE row == [id |-> nextId, role |-> role, table |-> n, full |-> TRUE]
<1>1. perms' = perms \cup {row} /\ nextId' = nextId + 1 /\ UNCHANGED <<schema, admins>>
      BY ApplyGrant
<1>2. /\ nextId \in Nat /\ IsFiniteSet(admins) /\ IsFiniteSet(perms)
      /\ \A r \in admins : r \in Nat /\ r < nextId
      BY DEF DataOK
<1>3. row \in [id : Nat, role : Nat, table : Names, full : BOOLEAN]  BY <1>2
<1>4. row.role = role /\ row.table = n  OBVIOUS
<1>   HIDE DEF row
<1>5. /\ IsFiniteSet(perms')
      /\ Cardinality(RowsIn(perms', role, n)) <= Cardinality(RowsIn(perms, role, n)) + 1
      /\ \A r, m : r # role \/ m # n =>
            Cardinality(RowsIn(perms', r, m)) = Cardinality(RowsIn(perms, r, m))
  <2>1. /\ IsFiniteSet(perms \cup {row})
        /\ Cardinality(RowsIn(perms \cup {row}, row.role, row.table))
              <= Cardinality(RowsIn(perms, row.role, row.table)) + 1
        /\ \A r, m : r # row.role \/ m # row.table =>
              Cardinality(RowsIn(perms \cup {row}, r, m)) = Cardinality(RowsIn(perms, r, m))
        BY <1>2, AddedRow
  <2>   QED  BY <1>1, <1>4, <2>1
<1>6. ASSUME NEW r, NEW m
      PROVE  Cardinality(Rows(r, m)') <=
                Cardinality(Rows(r, m)) + IF GrantWrite(role, n) = GrantWrite(r, m) THEN 1 ELSE 0
  <2>1. Cardinality(RowsIn(perms, r, m)) \in Nat  BY <1>2, RowsFinite
  <2>2. Rows(r, m)' = RowsIn(perms', r, m)  BY DEF Rows
  <2>3. CASE r = role /\ m = n  BY <2>2, <2>3, <1>5 DEF Rows
  <2>4. CASE r # role \/ m # n
    <3>1. Cardinality(RowsIn(perms', r, m)) = Cardinality(RowsIn(perms, r, m))  BY <2>4, <1>5
    <3>   QED  BY <3>1, <2>1, <2>2 DEF Rows
  <2>   QED  BY <2>3, <2>4
<1>7. Cardinality(admins) \in Nat  BY <1>2, FS_CardinalityType
<1>8. GrowSchema  BY <1>1, SameSchema
<1>9. /\ nextId' \in Nat /\ admins' = admins
      /\ \A r \in admins' : r \in Nat /\ r < nextId'
      BY <1>1, <1>2
<1>10. /\ perms' \subseteq [id : Nat, role : Nat, table : Names, full : BOOLEAN]
       /\ \A p \in perms' : p.role \in admins'
       /\ perms \subseteq perms'
       BY <1>1, <1>3, <1>4 DEF DataOK
<1>11. Cardinality(admins') <=
          Cardinality(admins) + IF GrantWrite(role, n) = RoleWrite THEN 1 ELSE 0
       BY <1>7, <1>9
<1>   QED  BY <1>2, <1>5, <1>6, <1>8, <1>9, <1>10, <1>11 DEF GrowRows

LEMMA RegrantGrows ==
    ASSUME InitAssumption, DataOK, NEW id \in Nat, Apply(RegrantWrite(id))
    PROVE  GrowSchema /\ GrowRows(RegrantWrite(id))
<1> DEFINE f == [p \in perms |-> IF p.id = id THEN [p EXCEPT !.full = TRUE] ELSE p]
           Row == [id : Nat, role : Nat, table : Names, full : BOOLEAN]
<1>1. perms' = {f[p] : p \in perms} /\ UNCHANGED <<schema, admins, nextId>>
      BY ApplyRegrant
<1>2. perms \subseteq Row /\ IsFiniteSet(perms) /\ \A p \in perms : p.role \in admins
      BY DEF DataOK
<1>3. \A p \in perms : /\ f[p] \in Row /\ f[p].id = p.id
                       /\ f[p].role = p.role /\ f[p].table = p.table
                       /\ p.full => f[p].full
      BY <1>2
<1>4. /\ f \in [perms -> perms'] /\ \A q \in perms' : \E p \in perms : f[p] = q
      BY <1>1
<1>   HIDE DEF f
<1>5. /\ IsFiniteSet(perms')
      /\ \A role, n :
            Cardinality(RowsIn(perms', role, n)) <= Cardinality(RowsIn(perms, role, n))
  <2>1. \A p \in perms : f[p].role = p.role /\ f[p].table = p.table  BY <1>3
  <2>2. IsFiniteSet(perms)  BY <1>2
  <2>   QED  BY <1>4, <2>1, <2>2, RewrittenRows
<1>6. ASSUME NEW role, NEW n
      PROVE  Cardinality(Rows(role, n)') <=
                Cardinality(Rows(role, n)) + IF RegrantWrite(id) = GrantWrite(role, n) THEN 1 ELSE 0
  <2>1. RegrantWrite(id) # GrantWrite(role, n)  BY DEF RegrantWrite, GrantWrite
  <2>2. Cardinality(RowsIn(perms, role, n)) \in Nat  BY <1>2, RowsFinite
  <2>3. Cardinality(RowsIn(perms', role, n)) \in Nat  BY <1>5, RowsFinite
  <2>4. Rows(role, n)' = RowsIn(perms', role, n)  BY DEF Rows
  <2>   QED  BY <1>5, <2>1, <2>2, <2>3, <2>4 DEF Rows
<1>7. GrowSchema  BY <1>1, SameSchema
<1>8. /\ nextId' \in Nat /\ admins' = admins /\ IsFiniteSet(admins)
      /\ Cardinality(admins) \in Nat
      /\ \A r \in admins' : r \in Nat /\ r < nextId'
      BY <1>1, FS_CardinalityType DEF DataOK
<1>9. perms' \subseteq Row /\ \A p \in perms' : p.role \in admins'
      BY <1>1, <1>2, <1>3, <1>8
<1>10. \A p \in perms : f[p] \in perms'  BY <1>1
<1>   QED  BY <1>3, <1>5, <1>6, <1>7, <1>8, <1>9, <1>10 DEF GrowRows

LEMMA SameRows ==
    ASSUME DataOK, UNCHANGED <<admins, perms, nextId>>, NEW w
    PROVE  GrowRows(w)
<1>1. Cardinality(admins) \in Nat  BY FS_CardinalityType DEF DataOK
<1>2. ASSUME NEW role, NEW n
      PROVE  /\ Cardinality(Rows(role, n)) \in Nat
             /\ Cardinality(Rows(role, n)') = Cardinality(Rows(role, n))
  <2>1. Rows(role, n)' = Rows(role, n)  BY DEF Rows, RowsIn
  <2>2. Cardinality(Rows(role, n)) \in Nat  BY RowsFinite DEF Rows, DataOK
  <2>   QED  BY <2>1, <2>2
<1>3. \A role, n : Cardinality(Rows(role, n)')
             <= Cardinality(Rows(role, n)) + IF w = GrantWrite(role, n) THEN 1 ELSE 0
      BY <1>2
<1>4. Cardinality(admins') <= Cardinality(admins) + IF w = RoleWrite THEN 1 ELSE 0
      BY <1>1
<1>   QED  BY <1>3, <1>4 DEF GrowRows, DataOK

\* Whatever process sends it, a write that takes effect takes nothing away.
LEMMA WriteGrows ==
    ASSUME InitAssumption, DataOK, NEW w, WriteOK(w, admins, schema), Apply(w)
    PROVE  GrowSchema /\ GrowRows(w)
<1>1. ASSUME NEW n \in Names, w = TableWrite(n)  PROVE GrowSchema /\ GrowRows(w)
  <2>1. Apply(TableWrite(n))  BY <1>1
  <2>2. UNCHANGED <<admins, perms, nextId>>  BY <2>1, ApplyTable
  <2>   QED  BY <2>1, <2>2, TableGrows, SameRows
<1>2. ASSUME NEW n \in Names, NEW f \in Fields[n], w = FieldWrite(n, f),
             n \in DOMAIN schema => ~schema[n].legacy
      PROVE  GrowSchema /\ GrowRows(w)
  <2>1. Apply(FieldWrite(n, f))  BY <1>2
  <2>2. UNCHANGED <<admins, perms, nextId>>  BY <2>1, ApplyField
  <2>   QED  BY <1>2, <2>1, <2>2, FieldGrows, SameRows
<1>3. CASE w = RoleWrite  BY <1>3, RoleGrows
<1>4. ASSUME NEW role \in admins, NEW n \in Names, w = GrantWrite(role, n)
      PROVE  GrowSchema /\ GrowRows(w)
  <2>1. Apply(GrantWrite(role, n))  BY <1>4
  <2>2. GrowSchema /\ GrowRows(GrantWrite(role, n))  BY <2>1, GrantGrows
  <2>   QED  BY <1>4, <2>2
<1>5. ASSUME NEW id \in Nat, w = RegrantWrite(id)  PROVE GrowSchema /\ GrowRows(w)
  <2>1. Apply(RegrantWrite(id))  BY <1>5
  <2>2. GrowSchema /\ GrowRows(RegrantWrite(id))  BY <2>1, RegrantGrows
  <2>   QED  BY <1>5, <2>2
<1>   QED  BY <1>1, <1>2, <1>3, <1>4, <1>5 DEF WriteOK

-----------------------------------------------------------------------------
(* The data stay in order. *)

\* There is room for the row that w adds: SeedsNotRepeated holds with one more.
Room(w) ==
    /\ w = RoleWrite => Cardinality(admins) <= arrived
    /\ \A role, n : w = GrantWrite(role, n) => Cardinality(Rows(role, n)) <= arrived

LEMMA WriteStaysOK ==
    ASSUME NEW v, WriteOK(v, admins, schema), GrowSchema, admins \subseteq admins'
    PROVE  WriteOK(v, admins', schema')
<1>1. ASSUME NEW n \in Names, NEW f \in Fields[n], v = FieldWrite(n, f),
             n \in DOMAIN schema => ~schema[n].legacy
      PROVE  WriteOK(v, admins', schema')
  <2>1. n \in DOMAIN schema' => ~schema'[n].legacy  BY <1>1 DEF GrowSchema
  <2>   QED  BY <1>1, <2>1 DEF WriteOK
<1>   QED  BY <1>1 DEF WriteOK

LEMMA NoRowsOfOthers ==
    ASSUME DataOK, NEW role, role \notin admins, NEW n
    PROVE  Cardinality(Rows(role, n)) = 0
<1>1. Rows(role, n) = {}  BY DEF Rows, RowsIn, DataOK
<1>   QED  BY <1>1, FS_EmptySet

LEMMA WriteData ==
    ASSUME InitAssumption, DataOK, NEW w, WriteOK(w, admins, schema), Apply(w),
           late' \subseteq late,
           arrived' = arrived + 1 \/ (arrived' = arrived /\ Room(w))
    PROVE  DataOK'
<1>1. GrowSchema /\ GrowRows(w)  BY WriteGrows
<1>2. /\ arrived \in Nat /\ arrived' \in Nat
      /\ Cardinality(admins) \in Nat /\ Cardinality(admins) <= 1 + arrived
      BY FS_CardinalityType DEF DataOK, SeedsNotRepeated
<1>3. Cardinality(admins') \in Nat /\ IsFiniteSet(perms')
      BY <1>1, FS_CardinalityType DEF GrowRows
<1>4. Cardinality(admins') <= 1 + arrived'
  <2>1. Cardinality(admins') <= Cardinality(admins) + 1  BY <1>1, <1>2, <1>3 DEF GrowRows
  <2>2. w # RoleWrite => Cardinality(admins') <= Cardinality(admins)
        BY <1>1, <1>2, <1>3 DEF GrowRows
  <2>   QED  BY <1>2, <1>3, <2>1, <2>2 DEF Room
<1>5. ASSUME NEW role \in admins', NEW n \in Names
      PROVE  Cardinality(Rows(role, n)') <= 1 + arrived'
  <2>1. Cardinality(Rows(role, n)) \in Nat  BY RowsFinite DEF Rows, DataOK
  <2>2. Cardinality(Rows(role, n)') \in Nat  BY <1>3, RowsFinite DEF Rows
  <2>3. Cardinality(Rows(role, n)') <= Cardinality(Rows(role, n)) + 1
        BY <1>1, <2>1, <2>2 DEF GrowRows
  <2>4. w # GrantWrite(role, n) =>
           Cardinality(Rows(role, n)') <= Cardinality(Rows(role, n))
        BY <1>1, <2>1, <2>2 DEF GrowRows
  <2>5. CASE role \in admins
    <3>1. Cardinality(Rows(role, n)) <= 1 + arrived
          BY <2>5 DEF DataOK, SeedsNotRepeated, Rows, RowsIn
    <3>2. w = GrantWrite(role, n) /\ Room(w) => Cardinality(Rows(role, n)) <= arrived
          BY DEF Room
    <3>   QED  BY <1>2, <2>1, <2>2, <2>3, <2>4, <3>1, <3>2
  <2>6. CASE role \notin admins
    <3>1. Cardinality(Rows(role, n)) = 0  BY <2>6, NoRowsOfOthers
    <3>   QED  BY <1>2, <2>2, <2>3, <3>1
  <2>   QED  BY <2>5, <2>6
<1>6. SeedsNotRepeated'  BY <1>4, <1>5 DEF SeedsNotRepeated, Rows, RowsIn
<1>7. \A v \in late' : WriteOK(v, admins', schema')
      BY <1>1, WriteStaysOK DEF DataOK, GrowRows
<1>8. /\ DOMAIN schema' \subseteq Names
      /\ \A n \in DOMAIN schema' :
            schema'[n] \in Table /\ (schema'[n].legacy => n \in WithLegacy)
      BY <1>1 DEF GrowSchema, DataOK
<1>9. /\ nextId' \in Nat /\ IsFiniteSet(admins')
      /\ \A role \in admins' : role \in Nat /\ role < nextId'
      /\ perms' \subseteq [id : Nat, role : Nat, table : Names, full : BOOLEAN]
      /\ \A p \in perms' : p.role \in admins'
      BY <1>1 DEF GrowRows
<1>   QED  BY <1>2, <1>3, <1>6, <1>7, <1>8, <1>9 DEF DataOK

LEMMA QuietData ==
    ASSUME DataOK, UNCHANGED <<data, arrived>>,
           \A w \in late' : w \in late \/ WriteOK(w, admins, schema)
    PROVE  DataOK'
<1>1. SeedsNotRepeated'  BY DEF SeedsNotRepeated, DataOK, data
<1>2. \A w \in late' : WriteOK(w, admins', schema')  BY DEF DataOK, data
<1>   QED  BY <1>1, <1>2 DEF DataOK, data

LEMMA DeleteData ==
    ASSUME InitAssumption, DataOK, NEW n \in DOMAIN schema, DeleteTable(n)
    PROVE  DataOK'
<1>1. /\ schema' = [m \in DOMAIN schema \ {n} |-> schema[m]]
      /\ perms' = (IF n = PermissionsTable THEN {} ELSE perms)
      /\ UNCHANGED <<admins, nextId, late, arrived>>
      BY DEF DeleteTable
<1>2. perms' \subseteq perms /\ IsFiniteSet(perms')
      BY <1>1, FS_Subset DEF DataOK
<1>3. /\ DOMAIN schema' \subseteq DOMAIN schema
      /\ \A m \in DOMAIN schema' : schema'[m] = schema[m]
      BY <1>1
<1>4. \A w \in late' : WriteOK(w, admins', schema')
  <2> SUFFICES ASSUME NEW w \in late  PROVE WriteOK(w, admins, schema')
      BY <1>1
  <2>1. WriteOK(w, admins, schema)  BY DEF DataOK
  <2>2. ASSUME NEW m \in Names, NEW f \in Fields[m], w = FieldWrite(m, f),
               m \in DOMAIN schema => ~schema[m].legacy
        PROVE  WriteOK(w, admins, schema')
    <3>1. m \in DOMAIN schema' => ~schema'[m].legacy  BY <1>3, <2>2
    <3>   QED  BY <2>2, <3>1 DEF WriteOK
  <2>   QED  BY <2>1, <2>2 DEF WriteOK
<1>5. ASSUME NEW role \in admins, NEW m \in Names
      PROVE  Cardinality(Rows(role, m)') <= 1 + arrived
  <2>1. Rows(role, m)' \subseteq Rows(role, m)  BY <1>2 DEF Rows, RowsIn
  <2>2. IsFiniteSet(Rows(role, m)) /\ Cardinality(Rows(role, m)) \in Nat
        BY RowsFinite DEF Rows, DataOK
  <2>3. IsFiniteSet(Rows(role, m)') /\ Cardinality(Rows(role, m)') \in Nat
        BY <1>2, RowsFinite DEF Rows
  <2>4. Cardinality(Rows(role, m)') <= Cardinality(Rows(role, m))
        BY <2>1, <2>2, FS_Subset
  <2>5. Cardinality(Rows(role, m)) <= 1 + arrived
        BY DEF DataOK, SeedsNotRepeated, Rows, RowsIn
  <2>6. arrived \in Nat  BY DEF DataOK
  <2>   QED  BY <2>2, <2>3, <2>4, <2>5, <2>6
<1>6. SeedsNotRepeated'
      BY <1>1, <1>5 DEF SeedsNotRepeated, DataOK, Rows, RowsIn
<1>   QED  BY <1>1, <1>2, <1>3, <1>4, <1>6 DEF DataOK

LEMMA ReduceData ==
    ASSUME InitAssumption, DataOK, Reduce
    PROVE  DataOK'
<1> DEFINE Row == [id : Nat, role : Nat, table : Names, full : BOOLEAN]
<1>1. UNCHANGED <<schema, admins, nextId, late, arrived>>  BY DEF Reduce
<1>2. PICK p \in perms : perms' = (perms \ {p}) \cup {[p EXCEPT !.full = FALSE]}
      BY DEF Reduce
<1>3. perms \subseteq Row /\ IsFiniteSet(perms) /\ \A q \in perms : q.role \in admins
      BY DEF DataOK
<1> DEFINE f == [q \in perms |-> IF q = p THEN [p EXCEPT !.full = FALSE] ELSE q]
<1>4. /\ f \in [perms -> perms'] /\ \A q \in perms' : \E r \in perms : f[r] = q
      BY <1>2
<1>5. \A q \in perms : f[q] \in Row /\ f[q].role = q.role /\ f[q].table = q.table
      BY <1>3
<1>   HIDE DEF f
<1>6. /\ IsFiniteSet(perms')
      /\ \A role, n :
            Cardinality(RowsIn(perms', role, n)) <= Cardinality(RowsIn(perms, role, n))
  <2>1. \A q \in perms : f[q].role = q.role /\ f[q].table = q.table  BY <1>5
  <2>2. IsFiniteSet(perms)  BY <1>3
  <2>   QED  BY <1>4, <2>1, <2>2, RewrittenRows
<1>7. perms' \subseteq Row /\ \A q \in perms' : q.role \in admins'
      BY <1>1, <1>3, <1>4, <1>5
<1>8. ASSUME NEW role \in admins, NEW m \in Names
      PROVE  Cardinality(Rows(role, m)') <= 1 + arrived
  <2>1. Cardinality(RowsIn(perms, role, m)) \in Nat  BY <1>3, RowsFinite
  <2>2. Cardinality(RowsIn(perms', role, m)) \in Nat  BY <1>6, RowsFinite
  <2>3. Rows(role, m)' = RowsIn(perms', role, m)  BY DEF Rows
  <2>4. Cardinality(RowsIn(perms, role, m)) <= 1 + arrived
        BY DEF DataOK, SeedsNotRepeated, RowsIn
  <2>5. arrived \in Nat  BY DEF DataOK
  <2>   QED  BY <1>6, <2>1, <2>2, <2>3, <2>4, <2>5
<1>9. SeedsNotRepeated'
      BY <1>1, <1>8 DEF SeedsNotRepeated, DataOK, Rows, RowsIn
<1>   QED  BY <1>1, <1>6, <1>7, <1>9 DEF DataOK

\* What the starting process sends is a write that NocoDB has room for.
LEMMA SentOK ==
    ASSUME InitAssumption, DataOK, ProcessOK, NEW w \in Sent
    PROVE  WriteOK(w, admins, schema) /\ Room(w)
<1>1. Current \in Names  BY DEF Current, Names, ProcessOK
<1>2. pc \in {"createTable", "createColumn", "createRole", "writePermission"}
      BY DEF Sent
<1>3. CASE pc = "createTable"
  <2>1. w = TableWrite(Current)  BY <1>3 DEF Sent
  <2>2. WriteOK(w, admins, schema)  BY <1>1, <2>1 DEF WriteOK
  <2>3. w # RoleWrite /\ \A role, n : w # GrantWrite(role, n)
        BY <2>1 DEF TableWrite, RoleWrite, GrantWrite
  <2>   QED  BY <2>2, <2>3 DEF Room
<1>4. CASE pc = "createColumn"
  <2>1. PICK f \in todo : w = FieldWrite(Current, f)  BY <1>4 DEF Sent
  <2>2. f \in Fields[Current] /\ (Current \in DOMAIN schema => ~schema[Current].legacy)
        BY <1>4 DEF ProcessOK
  <2>3. WriteOK(w, admins, schema)  BY <1>1, <2>1, <2>2 DEF WriteOK
  <2>4. w # RoleWrite /\ \A role, n : w # GrantWrite(role, n)
        BY <2>1 DEF FieldWrite, RoleWrite, GrantWrite
  <2>   QED  BY <2>3, <2>4 DEF Room
<1>5. CASE pc = "createRole"
  <2>1. w = RoleWrite  BY <1>5 DEF Sent
  <2>2. Cardinality(admins) <= arrived  BY <1>5 DEF ProcessOK
  <2>3. \A role, n : w # GrantWrite(role, n)  BY <2>1 DEF RoleWrite, GrantWrite
  <2>   QED  BY <2>1, <2>2, <2>3 DEF Room, WriteOK
<1>6. CASE pc = "writePermission"
  <2>1. w = IF existing = None THEN GrantWrite(admin, Current) ELSE RegrantWrite(existing)
        BY <1>6 DEF Sent
  <2>2. admin \in admins /\ existing \in Nat \cup {None}  BY <1>6 DEF ProcessOK
  <2>3. CASE existing = None
    <3>1. w = GrantWrite(admin, Current)  BY <2>1, <2>3
    <3>2. w # RoleWrite  BY <3>1 DEF RoleWrite, GrantWrite
    <3>3. Cardinality(Rows(admin, Current)) <= arrived  BY <1>6, <2>3 DEF ProcessOK
    <3>4. \A role, n : w = GrantWrite(role, n) => role = admin /\ n = Current
          BY <3>1 DEF GrantWrite
    <3>   QED  BY <1>1, <2>2, <3>1, <3>2, <3>3, <3>4 DEF WriteOK, Room
  <2>4. CASE existing # None
    <3>1. w = RegrantWrite(existing) /\ existing \in Nat  BY <2>1, <2>2, <2>4
    <3>2. w.kind = "regrant" /\ w.id = existing  BY <3>1 DEF RegrantWrite
    <3>3. w # RoleWrite /\ \A role, n : w # GrantWrite(role, n)
          BY <3>1 DEF RegrantWrite, RoleWrite, GrantWrite
    <3>   QED  BY <3>1, <3>2, <3>3 DEF WriteOK, Room
  <2>   QED  BY <2>3, <2>4
<1>   QED  BY <1>2, <1>3, <1>4, <1>5, <1>6

-----------------------------------------------------------------------------
(* What a start has completed stays so, and so does what it has found out. *)

LEMMA ReadyStays ==
    ASSUME GrowSchema, NEW n \in Names, Ready(n)
    PROVE  Ready(n)'
    BY DEF GrowSchema, Ready, Missing

LEMMA AdmittedStays ==
    ASSUME NEW w, GrowRows(w), NEW role, NEW n, Admitted(role, n)
    PROVE  Admitted(role, n)'
<1>1. PICK p \in perms : p.role = role /\ p.table = n /\ p.full  BY DEF Admitted
<1>2. PICK q \in perms' : q.role = p.role /\ q.table = p.table /\ (p.full => q.full)
      BY DEF GrowRows
<1>   QED  BY <1>1, <1>2 DEF Admitted

LEMMA SameData ==
    ASSUME UNCHANGED data
    PROVE  /\ \A n : Ready(n)' = Ready(n)
           /\ \A role, n : Admitted(role, n)' = Admitted(role, n)
           /\ \A role, n : Rows(role, n)' = Rows(role, n)
    BY DEF data, Ready, Missing, Admitted, Rows, RowsIn

LEMMA FaultOK ==
    ASSUME InitAssumption, ProcessOK, Fault
    PROVE  faults' \in 0 .. MaxFaults /\ UNCHANGED <<late, arrived>>
    BY DEF InitAssumption, ProcessOK, Fault

LEMMA Positions ==
    ASSUME InitAssumption
    PROVE  /\ Len(Definitions) \in Nat \ {0}
           /\ DOMAIN Definitions = 1 .. Len(Definitions)
           /\ \A i \in 1 .. Len(Definitions) : Definitions[i] \in Names
           /\ \A n \in Names : \E i \in 1 .. Len(Definitions) : Definitions[i] = n
    BY DEF InitAssumption, Names

LEMMA EarlierStay ==
    ASSUME InitAssumption, ProcessOK, GrowSchema,
           \A i \in 1 .. at - 1 : Ready(Definitions[i])
    PROVE  \A i \in 1 .. at - 1 : Ready(Definitions[i])'
<1> SUFFICES ASSUME NEW i \in 1 .. at - 1  PROVE Ready(Definitions[i])'
    OBVIOUS
<1>1. at \in 1 .. Len(Definitions) /\ Len(Definitions) \in Nat \ {0}
      BY Positions DEF ProcessOK
<1>2. Definitions[i] \in Names  BY <1>1, Positions
<1>3. Ready(Definitions[i])  OBVIOUS
<1>   QED  BY <1>2, <1>3, ReadyStays

LEMMA UpToHere ==
    ASSUME InitAssumption, ProcessOK, NEW n, n = Current, Ready(n)',
           \A i \in 1 .. at - 1 : Ready(Definitions[i])'
    PROVE  \A i \in 1 .. at : Ready(Definitions[i])'
<1> SUFFICES ASSUME NEW i \in 1 .. at  PROVE Ready(Definitions[i])'
    OBVIOUS
<1>1. at \in Nat  BY Positions DEF ProcessOK
<1>2. CASE i \in 1 .. at - 1  BY <1>2
<1>3. CASE i = at
  <2>1. Definitions[i] = n  BY <1>3 DEF Current
  <2>   QED  BY <2>1
<1>   QED  BY <1>1, <1>2, <1>3

LEMMA NextTableProcess ==
    ASSUME InitAssumption, ProcessOK, NextTable,
           faults' \in 0 .. MaxFaults, clean' \in BOOLEAN
    PROVE  ProcessOK'
<1>1. at \in 1 .. Len(Definitions) /\ Len(Definitions) \in Nat \ {0}
      BY Positions DEF ProcessOK
<1>2. at' \in 1 .. Len(Definitions)  BY <1>1 DEF NextTable
<1>3. pc' = "findTable" \/ (pc' = "findRoles" /\ at' = 1)
      BY DEF NextTable, Goto
<1>4. at' \in DOMAIN Definitions  BY <1>2, Positions
<1>5. existing' \in Nat \cup {None}  BY DEF NextTable, ProcessOK
<1>   QED  BY <1>3, <1>4, <1>5 DEF ProcessOK, Tabling, Seeding

LEMMA NextTableClean ==
    ASSUME InitAssumption, ProcessOK, NextTable,
           \A i \in 1 .. at : Ready(Definitions[i])'
    PROVE  CleanOK'
<1>1. at \in 1 .. Len(Definitions) /\ Len(Definitions) \in Nat \ {0}
      BY Positions DEF ProcessOK
<1>2. CASE at = Len(Definitions)
  <2>1. pc' = "findRoles"  BY <1>2 DEF NextTable, Goto
  <2>2. \A n \in Names : Ready(n)'  BY <1>2, Positions
  <2>   QED  BY <2>1, <2>2 DEF CleanOK, Tabling, Seeding
<1>3. CASE at # Len(Definitions)
  <2>1. pc' = "findTable" /\ at' = at + 1  BY <1>3 DEF NextTable, Goto
  <2>2. \A i \in 1 .. at' - 1 : Ready(Definitions[i])'  BY <1>1, <2>1
  <2>   QED  BY <2>1, <2>2 DEF CleanOK, Tabling, Seeding
<1>   QED  BY <1>2, <1>3

-----------------------------------------------------------------------------
(* The steps that walk over the tables. *)

LEMMA FindTableStep ==
    ASSUME InitAssumption, IInv, FindTable
    PROVE  IInv'
<1>1. UNCHANGED <<data, locals, late, faults, arrived, clean>>  BY DEF FindTable, Stay
<1>2. DataOK'  BY <1>1, QuietData DEF IInv
<1>3. pc = "findTable" /\ pc' \in {"createTable", "checkLegacy", "readFields"}
      BY DEF FindTable, Goto
<1>4. pc' = "readFields" => (Current \in DOMAIN schema => ~schema[Current].legacy)
      BY DEF FindTable, Goto, IInv, DataOK
<1>5. ProcessOK'
      BY <1>1, <1>3, <1>4 DEF IInv, ProcessOK, locals, data, Current, Tabling, Seeding
<1>6. clean' => CleanOK'
  <2>1. \A n : Ready(n)' = Ready(n)  BY <1>1, SameData
  <2>   QED  BY <1>1, <1>3, <2>1 DEF IInv, CleanOK, locals, Tabling, Seeding
<1>   QED  BY <1>2, <1>5, <1>6 DEF IInv

LEMMA CheckLegacyStep ==
    ASSUME InitAssumption, IInv, CheckLegacy
    PROVE  IInv'
<1>1. UNCHANGED <<data, locals, late, faults, arrived, clean>>  BY DEF CheckLegacy, Stay
<1>2. DataOK'  BY <1>1, QuietData DEF IInv
<1>3. pc = "checkLegacy" /\ pc' \in {"stopped", "readFields"}
      BY DEF CheckLegacy, Goto
<1>4. pc' = "readFields" => ~schema[Current].legacy
      BY DEF CheckLegacy, Goto
<1>5. ProcessOK'
      BY <1>1, <1>3, <1>4 DEF IInv, ProcessOK, locals, data, Current, Tabling, Seeding
<1>6. clean' => CleanOK'
  <2>1. \A n : Ready(n)' = Ready(n)  BY <1>1, SameData
  <2>   QED  BY <1>1, <1>3, <2>1 DEF IInv, CleanOK, locals, Tabling, Seeding
<1>   QED  BY <1>2, <1>5, <1>6 DEF IInv

LEMMA CreateTableStep ==
    ASSUME InitAssumption, IInv, CreateTable
    PROVE  IInv'
<1>1. /\ pc = "createTable" /\ Apply(TableWrite(Current)) /\ NextTable
      /\ UNCHANGED <<late, faults, arrived, clean>>
      BY DEF CreateTable, Stay
<1>2. TableWrite(Current) \in Sent  BY <1>1 DEF Sent
<1>3. WriteOK(TableWrite(Current), admins, schema) /\ Room(TableWrite(Current))
      BY <1>2, SentOK DEF IInv
<1>4. DataOK'  BY <1>1, <1>3, WriteData DEF IInv
<1>5. ProcessOK'  BY <1>1, NextTableProcess DEF IInv, ProcessOK
<1>6. ASSUME clean  PROVE CleanOK'
  <2>1. \A i \in 1 .. at - 1 : Ready(Definitions[i])
        BY <1>1, <1>6 DEF IInv, CleanOK, Tabling
  <2>2. GrowSchema  BY <1>1, <1>3, WriteGrows DEF IInv
  <2>3. \A i \in 1 .. at - 1 : Ready(Definitions[i])'  BY <2>1, <2>2, EarlierStay DEF IInv
  <2>4. PICK n : n = Current  OBVIOUS
  <2>5. Apply(TableWrite(n))  BY <1>1, <2>4
  <2>6. Ready(n)'
    <3>1. n \notin DOMAIN schema /\ n \in DOMAIN schema'
      <4>1. /\ n \notin DOMAIN schema
            /\ schema' = [m \in DOMAIN schema \cup {n} |->
                  IF m = n THEN [fields |-> Fields[n], legacy |-> FALSE] ELSE schema[m]]
            BY <2>5, ApplyTable
      <4>   QED  BY <4>1
    <3>2. Missing(n)' = {} /\ ~schema'[n].legacy  BY <2>2, <3>1 DEF GrowSchema
    <3>   QED  BY <3>1, <3>2 DEF Ready
  <2>7. \A i \in 1 .. at : Ready(Definitions[i])'
        BY <2>3, <2>4, <2>6, UpToHere DEF IInv
  <2>   QED  BY <1>1, <2>7, NextTableClean DEF IInv
<1>   QED  BY <1>1, <1>4, <1>5, <1>6 DEF IInv

LEMMA FailCreateTableStep ==
    ASSUME InitAssumption, IInv, FailCreateTable
    PROVE  IInv'
<1>1. /\ pc = "createTable" /\ pc' = "started" /\ clean' = FALSE
      /\ Apply(TableWrite(Current)) \/ UNCHANGED data
      /\ UNCHANGED locals
      BY DEF FailCreateTable, Goto, Swallow
<1>2. faults' \in 0 .. MaxFaults /\ UNCHANGED <<late, arrived>>
      BY FaultOK DEF IInv, FailCreateTable, Swallow
<1>3. DataOK'
  <2>1. TableWrite(Current) \in Sent  BY <1>1 DEF Sent
  <2>2. WriteOK(TableWrite(Current), admins, schema) /\ Room(TableWrite(Current))
        BY <2>1, SentOK DEF IInv
  <2>3. CASE Apply(TableWrite(Current))  BY <1>2, <2>2, <2>3, WriteData DEF IInv
  <2>4. CASE UNCHANGED data  BY <1>2, <2>4, QuietData DEF IInv
  <2>   QED  BY <1>1, <2>3, <2>4
<1>4. ProcessOK'  BY <1>1, <1>2 DEF IInv, ProcessOK, locals, Tabling, Seeding
<1>   QED  BY <1>1, <1>3, <1>4 DEF IInv

\* Both ways of leaving readFields with nothing to add.
LEMMA ReadFieldsStep ==
    ASSUME InitAssumption, IInv, ReadFields
    PROVE  IInv'
<1>1. /\ pc = "readFields" /\ Current \in DOMAIN schema
      /\ UNCHANGED <<data, late, faults, arrived, clean>>
      BY DEF ReadFields, Stay
<1>2. DataOK'  BY <1>1, QuietData DEF IInv
<1>3. ~schema[Current].legacy  BY <1>1 DEF IInv, ProcessOK
<1>4. GrowSchema  BY <1>1, SameSchema DEF IInv, data
<1>5. CASE Missing(Current) = {} /\ NextTable
  <2>1. ProcessOK'  BY <1>1, <1>5, NextTableProcess DEF IInv, ProcessOK
  <2>2. ASSUME clean  PROVE CleanOK'
    <3>1. PICK n : n = Current  OBVIOUS
    <3>2. Ready(n)  BY <1>1, <1>3, <1>5, <3>1 DEF Ready
    <3>3. Ready(n)'  BY <1>1, <3>2, SameData
    <3>4. \A i \in 1 .. at - 1 : Ready(Definitions[i])'
          BY <1>1, <1>4, <2>2, EarlierStay DEF IInv, CleanOK, Tabling
    <3>5. \A i \in 1 .. at : Ready(Definitions[i])'
          BY <3>1, <3>3, <3>4, UpToHere DEF IInv
    <3>   QED  BY <1>5, <3>5, NextTableClean DEF IInv
  <2>   QED  BY <1>1, <1>2, <2>1, <2>2 DEF IInv
<1>6. CASE /\ Missing(Current) # {} /\ todo' = Missing(Current) /\ pc' = "createColumn"
           /\ UNCHANGED <<at, admin, existing>>
  <2>1. Current' = Current  BY <1>6 DEF Current
  <2>2. todo' # {} /\ todo' \subseteq Fields[Current]  BY <1>6 DEF Missing
  <2>3. ProcessOK'
        BY <1>1, <1>3, <1>6, <2>1, <2>2 DEF IInv, ProcessOK, data, Tabling, Seeding
  <2>4. ASSUME clean  PROVE CleanOK'
    <3>1. \A i \in 1 .. at - 1 : Ready(Definitions[i])'
          BY <1>1, <1>4, <2>4, EarlierStay DEF IInv, CleanOK, Tabling
    <3>2. Current' \in DOMAIN schema' /\ Missing(Current)' \subseteq todo'
          BY <1>1, <1>6, <2>1 DEF Missing, data
    <3>   QED  BY <1>6, <3>1, <3>2 DEF CleanOK, Tabling, Seeding
  <2>   QED  BY <1>1, <1>2, <2>3, <2>4 DEF IInv
<1>   QED  BY <1>5, <1>6 DEF ReadFields, Goto

LEMMA FailReadFieldsStep ==
    ASSUME InitAssumption, IInv, FailReadFields
    PROVE  IInv'
<1>1. NextTable /\ Fault /\ clean' = FALSE /\ UNCHANGED data
      BY DEF FailReadFields, Swallow
<1>2. faults' \in 0 .. MaxFaults /\ UNCHANGED <<late, arrived>>
      BY <1>1, FaultOK DEF IInv
<1>3. DataOK'  BY <1>1, <1>2, QuietData DEF IInv
<1>4. ProcessOK'  BY <1>1, <1>2, NextTableProcess DEF IInv
<1>   QED  BY <1>1, <1>3, <1>4 DEF IInv

LEMMA AfterColumnProcess ==
    ASSUME InitAssumption, ProcessOK, GrowSchema, NEW f \in todo,
           pc = "createColumn", AfterColumn(f),
           Current \in DOMAIN schema' => ~schema'[Current].legacy,
           faults' \in 0 .. MaxFaults, clean' \in BOOLEAN
    PROVE  ProcessOK'
<1>1. CASE NextTable  BY <1>1, NextTableProcess
<1>2. CASE todo # {f} /\ todo' = todo \ {f} /\ UNCHANGED <<pc, at, admin, existing>>
  <2>1. todo' # {}  BY <1>2
  <2>2. Current' = Current  BY <1>2 DEF Current
  <2>   QED  BY <1>2, <2>1, <2>2 DEF ProcessOK, Tabling, Seeding
<1>   QED  BY <1>1, <1>2 DEF AfterColumn

LEMMA CreateColumnStep ==
    ASSUME InitAssumption, IInv, NEW f \in todo, CreateColumn(f)
    PROVE  IInv'
<1>1. PICK n : n = Current  OBVIOUS
<1>2. /\ pc = "createColumn" /\ Apply(FieldWrite(n, f)) /\ AfterColumn(f)
      /\ UNCHANGED <<late, faults, arrived, clean>>
      BY <1>1 DEF CreateColumn, Stay
<1>3. WriteOK(FieldWrite(n, f), admins, schema) /\ Room(FieldWrite(n, f))
  <2>1. FieldWrite(n, f) \in Sent  BY <1>1, <1>2 DEF Sent
  <2>   QED  BY <2>1, SentOK DEF IInv
<1>4. DataOK'  BY <1>2, <1>3, WriteData DEF IInv
<1>5. GrowSchema  BY <1>2, <1>3, WriteGrows DEF IInv
<1>6. /\ n \in DOMAIN schema
      /\ schema' = [schema EXCEPT ![n].fields = schema[n].fields \cup {f}]
      BY <1>2, ApplyField
<1>7. n \in DOMAIN schema' /\ ~schema'[n].legacy
      BY <1>1, <1>2, <1>5, <1>6 DEF GrowSchema, IInv, ProcessOK
<1>8. ProcessOK'
      BY <1>1, <1>2, <1>5, <1>7, AfterColumnProcess DEF IInv, ProcessOK
<1>9. ASSUME clean  PROVE CleanOK'
  <2>1. \A i \in 1 .. at - 1 : Ready(Definitions[i])'
        BY <1>2, <1>5, <1>9, EarlierStay DEF IInv, CleanOK, Tabling
  <2>2. Missing(n) \subseteq todo  BY <1>1, <1>2, <1>9 DEF IInv, CleanOK
  <2>3. schema'[n].fields = schema[n].fields \cup {f}
    <3>1. schema[n] \in Table  BY <1>6 DEF IInv, DataOK
    <3>2. schema'[n] = [schema[n] EXCEPT !.fields = schema[n].fields \cup {f}]  BY <1>6
    <3>   QED  BY <3>1, <3>2 DEF Table
  <2>4. Missing(n)' \subseteq todo \ {f}  BY <2>2, <2>3 DEF Missing
  <2>5. CASE todo = {f} /\ NextTable
    <3>1. Ready(n)'  BY <1>7, <2>4, <2>5 DEF Ready
    <3>2. \A i \in 1 .. at : Ready(Definitions[i])'
          BY <1>1, <2>1, <3>1, UpToHere DEF IInv
    <3>   QED  BY <2>5, <3>2, NextTableClean DEF IInv
  <2>6. CASE todo' = todo \ {f} /\ UNCHANGED <<pc, at, admin, existing>>
    <3>1. Current' = n  BY <1>1, <2>6 DEF Current
    <3>2. \A i \in 1 .. at' - 1 : Ready(Definitions[i])'  BY <2>1, <2>6
    <3>3. Missing(Current)' \subseteq todo'  BY <2>4, <2>6, <3>1 DEF Missing
    <3>   QED  BY <1>2, <1>7, <2>6, <3>1, <3>2, <3>3 DEF CleanOK, Tabling, Seeding
  <2>   QED  BY <1>2, <2>5, <2>6 DEF AfterColumn
<1>   QED  BY <1>2, <1>4, <1>8, <1>9 DEF IInv

LEMMA FailCreateColumnStep ==
    ASSUME InitAssumption, IInv, NEW f \in todo, FailCreateColumn(f)
    PROVE  IInv'
<1>1. PICK n : n = Current  OBVIOUS
<1>2. /\ pc = "createColumn" /\ AfterColumn(f) /\ Fault /\ clean' = FALSE
      /\ Apply(FieldWrite(n, f)) \/ UNCHANGED data
      BY <1>1 DEF FailCreateColumn, Swallow
<1>3. faults' \in 0 .. MaxFaults /\ UNCHANGED <<late, arrived>>
      BY <1>2, FaultOK DEF IInv
<1>4. DataOK' /\ GrowSchema
  <2>1. FieldWrite(n, f) \in Sent  BY <1>1, <1>2 DEF Sent
  <2>2. WriteOK(FieldWrite(n, f), admins, schema) /\ Room(FieldWrite(n, f))
        BY <2>1, SentOK DEF IInv
  <2>3. CASE Apply(FieldWrite(n, f))
        BY <1>3, <2>2, <2>3, WriteData, WriteGrows DEF IInv
  <2>4. CASE UNCHANGED data
    <3>1. DataOK'  BY <1>3, <2>4, QuietData DEF IInv
    <3>2. GrowSchema  BY <2>4, SameSchema DEF IInv, data
    <3>   QED  BY <3>1, <3>2
  <2>   QED  BY <1>2, <2>3, <2>4
<1>5. Current \in DOMAIN schema' => ~schema'[Current].legacy
      BY <1>2, <1>4 DEF GrowSchema, IInv, ProcessOK
<1>6. ProcessOK'  BY <1>2, <1>3, <1>4, <1>5, AfterColumnProcess DEF IInv
<1>   QED  BY <1>2, <1>4, <1>6 DEF IInv

-----------------------------------------------------------------------------
(* The steps that seed the admin role and its permissions. *)

LEMMA FindSeedTableStep ==
    ASSUME InitAssumption, IInv, FindSeedTable
    PROVE  IInv'
<1>1. /\ pc \in {"findRoles", "findPermissions"}
      /\ pc' \in {"findPermissions", "findAdmin", "started"}
      /\ pc' = "started" => clean' = FALSE
      /\ UNCHANGED <<data, locals, late, faults, arrived>>
      /\ clean' = clean \/ clean' = FALSE
      BY DEF FindSeedTable, Goto, Stay
<1>2. DataOK'  BY <1>1, QuietData DEF IInv
<1>3. ProcessOK'
      BY <1>1 DEF IInv, ProcessOK, locals, Tabling, Seeding
<1>4. clean' => CleanOK'
  <2>1. \A n : Ready(n)' = Ready(n)  BY <1>1, SameData
  <2>   QED  BY <1>1, <2>1 DEF IInv, CleanOK, Tabling, Seeding
<1>   QED  BY <1>2, <1>3, <1>4 DEF IInv

LEMMA FindAdminStep ==
    ASSUME InitAssumption, IInv, FindAdmin
    PROVE  IInv'
<1>1. /\ pc = "findAdmin"
      /\ \/ admins = {} /\ pc' = "createRole" /\ admin' = admin
         \/ \E r \in admins : admin' = r /\ pc' = "findGrant"
      /\ UNCHANGED <<data, at, todo, existing, late, faults, arrived, clean>>
      BY DEF FindAdmin, Goto, Stay
<1>2. DataOK'  BY <1>1, QuietData DEF IInv
<1>3. at = 1  BY <1>1 DEF IInv, ProcessOK
<1>4. pc' = "createRole" => Cardinality(admins') <= arrived'
  <2>1. pc' = "createRole" => admins' = {}  BY <1>1 DEF data
  <2>2. admins' = {} => Cardinality(admins') = 0  BY FS_EmptySet
  <2>3. arrived' \in Nat  BY <1>2 DEF DataOK
  <2>   QED  BY <2>1, <2>2, <2>3
<1>5. ProcessOK'
      BY <1>1, <1>3, <1>4 DEF IInv, ProcessOK, data, Tabling, Seeding
<1>6. clean' => CleanOK'
  <2>1. \A n : Ready(n)' = Ready(n)  BY <1>1, SameData
  <2>2. \A i \in 1 .. at' - 1 : FALSE  BY <1>1, <1>3
  <2>   QED  BY <1>1, <2>1, <2>2 DEF IInv, CleanOK, Tabling, Seeding
<1>   QED  BY <1>2, <1>5, <1>6 DEF IInv

LEMMA CreateRoleStep ==
    ASSUME InitAssumption, IInv, CreateRole
    PROVE  IInv'
<1>1. /\ pc = "createRole" /\ pc' = "findGrant" /\ admin' = nextId
      /\ Apply(RoleWrite)
      /\ UNCHANGED <<at, todo, existing, late, faults, arrived, clean>>
      BY DEF CreateRole, Goto, Stay
<1>2. WriteOK(RoleWrite, admins, schema) /\ Room(RoleWrite)
  <2>1. RoleWrite \in Sent  BY <1>1 DEF Sent
  <2>   QED  BY <2>1, SentOK DEF IInv
<1>3. DataOK'  BY <1>1, <1>2, WriteData DEF IInv
<1>4. admins' = admins \cup {nextId} /\ UNCHANGED schema  BY <1>1, ApplyRole
<1>5. at = 1  BY <1>1 DEF IInv, ProcessOK
<1>6. ProcessOK'
      BY <1>1, <1>4 DEF IInv, ProcessOK, Tabling, Seeding
<1>7. clean' => CleanOK'
  <2>1. \A n : Ready(n)' = Ready(n)  BY <1>4 DEF Ready, Missing
  <2>2. \A i \in 1 .. at' - 1 : FALSE  BY <1>1, <1>5
  <2>   QED  BY <1>1, <2>1, <2>2 DEF IInv, CleanOK, Tabling, Seeding
<1>   QED  BY <1>3, <1>6, <1>7 DEF IInv

LEMMA FindGrantStep ==
    ASSUME InitAssumption, IInv, FindGrant
    PROVE  IInv'
<1>1. /\ pc = "findGrant" /\ pc' = "writePermission"
      /\ UNCHANGED <<data, at, todo, admin, late, faults, arrived, clean>>
      BY DEF FindGrant, Goto, Stay
<1>2. \/ Rows(admin, Current) = {} /\ existing' = None
      \/ \E p \in Rows(admin, Current) : existing' = p.id
      BY DEF FindGrant, Rows, RowsIn
<1>3. DataOK'  BY <1>1, QuietData DEF IInv
<1>4. Current' = Current /\ Rows(admin, Current)' = Rows(admin, Current)
      BY <1>1 DEF Current, Rows, RowsIn, data
<1>5. \A p \in Rows(admin, Current) : p.id \in Nat
      BY DEF IInv, DataOK, Rows, RowsIn
<1>6. existing' \in Nat \cup {None}  BY <1>2, <1>5
<1>7. existing' = None => Cardinality(Rows(admin, Current)') <= arrived'
  <2>1. None \notin Nat  BY DEF InitAssumption
  <2>2. existing' = None => Rows(admin, Current)' = {}  BY <1>2, <1>4, <1>5, <2>1
  <2>3. Rows(admin, Current)' = {} => Cardinality(Rows(admin, Current)') = 0
        BY FS_EmptySet
  <2>4. arrived' \in Nat  BY <1>3 DEF DataOK
  <2>   QED  BY <2>2, <2>3, <2>4
<1>8. ProcessOK'
      BY <1>1, <1>6, <1>7 DEF IInv, ProcessOK, data, Tabling, Seeding
<1>9. ASSUME clean  PROVE CleanOK'
  <2>1. \A n : Ready(n)' = Ready(n)  BY <1>1, SameData
  <2>2. \A role, n : Admitted(role, n)' = Admitted(role, n)  BY <1>1, SameData
  <2>3. \A i \in 1 .. at - 1 : Admitted(admin, Definitions[i])
        BY <1>1, <1>9 DEF IInv, CleanOK
  <2>4. \A i \in 1 .. at' - 1 : Admitted(admin, Definitions[i])'
    <3> SUFFICES ASSUME NEW i \in 1 .. at - 1
                 PROVE  Admitted(admin, Definitions[i])'
        BY <1>1
    <3>1. Admitted(admin, Definitions[i])  BY <2>3
    <3>   QED  BY <1>1, <3>1 DEF Admitted, data
  <2>5. existing' # None => \E p \in Rows(admin, Current)' : p.id = existing'
        BY <1>2, <1>4
  <2>6. \A n \in Names : Ready(n)'
        BY <1>1, <1>9, <2>1 DEF IInv, CleanOK, Seeding
  <2>   QED  BY <1>1, <2>4, <2>5, <2>6 DEF CleanOK, Tabling, Seeding
<1>   QED  BY <1>1, <1>3, <1>8, <1>9 DEF IInv

\* The permission written is in place, created or raised to all rights.
LEMMA WrittenAdmits ==
    ASSUME InitAssumption, IInv, clean, pc = "writePermission",
           NEW w \in Sent, Apply(w), NEW n, n = Current, NEW role, role = admin
    PROVE  Admitted(role, n)'
<1>1. w = IF existing = None THEN GrantWrite(role, n) ELSE RegrantWrite(existing)
      BY DEF Sent
<1>2. CASE existing = None
  <2>1. Apply(GrantWrite(role, n))  BY <1>1, <1>2
  <2>2. [id |-> nextId, role |-> role, table |-> n, full |-> TRUE] \in perms'
        BY <2>1, ApplyGrant
  <2>   QED  BY <2>2 DEF Admitted
<1>3. CASE existing # None
  <2>1. Apply(RegrantWrite(existing))  BY <1>1, <1>3
  <2>2. PICK p \in Rows(role, n) : p.id = existing
        BY <1>3 DEF IInv, CleanOK
  <2>3. p \in perms /\ p.role = role /\ p.table = n  BY DEF Rows, RowsIn
  <2>4. p \in [id : Nat, role : Nat, table : Names, full : BOOLEAN]
        BY <2>3 DEF IInv, DataOK
  <2>5. [p EXCEPT !.full = TRUE] \in perms'  BY <2>1, <2>2, <2>3, ApplyRegrant
  <2>6. /\ [p EXCEPT !.full = TRUE].role = role
        /\ [p EXCEPT !.full = TRUE].table = n
        /\ [p EXCEPT !.full = TRUE].full
        BY <2>3, <2>4
  <2>   QED  BY <2>5, <2>6 DEF Admitted
<1>   QED  BY <1>2, <1>3

LEMMA WritePermissionStep ==
    ASSUME InitAssumption, IInv, WritePermission
    PROVE  IInv'
<1>1. /\ pc = "writePermission" /\ existing' = None
      /\ \E w \in Sent : Apply(w)
      /\ \/ at = Len(Definitions) /\ pc' = "started" /\ UNCHANGED at
         \/ at # Len(Definitions) /\ pc' = "findGrant" /\ at' = at + 1
      /\ UNCHANGED <<todo, admin, late, faults, arrived, clean>>
      BY DEF WritePermission, Goto, Stay
<1>2. PICK w \in Sent : Apply(w)  BY <1>1
<1>3. WriteOK(w, admins, schema) /\ Room(w)  BY SentOK DEF IInv
<1>4. DataOK'  BY <1>1, <1>2, <1>3, WriteData DEF IInv
<1>5. GrowSchema /\ GrowRows(w)  BY <1>2, <1>3, WriteGrows DEF IInv
<1>6. /\ at \in 1 .. Len(Definitions) /\ Len(Definitions) \in Nat \ {0}
      /\ at' \in DOMAIN Definitions
  <2>1. at \in 1 .. Len(Definitions) /\ Len(Definitions) \in Nat \ {0}
        BY Positions DEF IInv, ProcessOK
  <2>2. at' \in 1 .. Len(Definitions)  BY <1>1, <2>1
  <2>   QED  BY <2>1, <2>2, Positions
<1>7. ProcessOK'
  <2>1. admins \subseteq admins'  BY <1>5 DEF GrowRows
  <2>   QED  BY <1>1, <1>6, <2>1 DEF IInv, ProcessOK, Tabling, Seeding
<1>8. ASSUME clean  PROVE CleanOK'
  <2>1. \A n \in Names : Ready(n)'
        BY <1>1, <1>5, <1>8, ReadyStays DEF IInv, CleanOK, Seeding
  <2>2. PICK role : role = admin  OBVIOUS
  <2>3. PICK n : n = Current  OBVIOUS
  <2>4. Admitted(role, n)'  BY <1>1, <1>2, <1>8, <2>2, <2>3, WrittenAdmits
  <2>5. ASSUME NEW i \in 1 .. at  PROVE Admitted(role, Definitions[i])'
    <3>1. CASE i = at
      <4>1. Definitions[i] = n  BY <2>3, <3>1 DEF Current
      <4>   QED  BY <2>4, <4>1
    <3>2. CASE i \in 1 .. at - 1
      <4>1. Admitted(role, Definitions[i])  BY <1>1, <1>8, <2>2, <3>2 DEF IInv, CleanOK
      <4>   QED  BY <1>5, <4>1, AdmittedStays
    <3>   QED  BY <1>6, <3>1, <3>2
  <2>6. CASE at = Len(Definitions) /\ pc' = "started"
    <3>1. role \in admins'  BY <1>1, <1>5, <2>2 DEF GrowRows, IInv, ProcessOK
    <3>2. \A m \in Names : Admitted(role, m)'  BY <2>5, <2>6, Positions
    <3>   QED  BY <2>1, <2>6, <3>1, <3>2 DEF CleanOK, Tabling, Seeding
  <2>7. CASE pc' = "findGrant" /\ at' = at + 1
    <3>1. admin' = role  BY <1>1, <2>2
    <3>2. \A i \in 1 .. at' - 1 : Admitted(role, Definitions[i])'
          BY <1>6, <2>5, <2>7
    <3>3. \A i \in 1 .. at' - 1 : Admitted(admin, Definitions[i])'
          BY <3>1, <3>2 DEF Admitted
    <3>   QED  BY <2>1, <2>7, <3>3 DEF CleanOK, Tabling, Seeding
  <2>   QED  BY <1>1, <2>6, <2>7
<1>   QED  BY <1>1, <1>4, <1>7, <1>8 DEF IInv

LEMMA FailSeedingStep ==
    ASSUME InitAssumption, IInv, FailSeeding
    PROVE  IInv'
<1>1. /\ pc' = "started" /\ Fault /\ clean' = FALSE /\ UNCHANGED locals
      /\ UNCHANGED data \/ \E w \in Sent : Apply(w)
      BY DEF FailSeeding, Swallow, Goto
<1>2. faults' \in 0 .. MaxFaults /\ UNCHANGED <<late, arrived>>
      BY <1>1, FaultOK DEF IInv
<1>3. DataOK'
  <2>1. CASE UNCHANGED data  BY <1>2, <2>1, QuietData DEF IInv
  <2>2. ASSUME NEW w \in Sent, Apply(w)  PROVE DataOK'
    <3>1. WriteOK(w, admins, schema) /\ Room(w)  BY SentOK DEF IInv
    <3>   QED  BY <1>2, <2>2, <3>1, WriteData DEF IInv
  <2>   QED  BY <1>1, <2>1, <2>2
<1>4. ProcessOK'  BY <1>1, <1>2 DEF IInv, ProcessOK, locals, Tabling, Seeding
<1>   QED  BY <1>1, <1>3, <1>4 DEF IInv

-----------------------------------------------------------------------------
(* The steps of the world around the starting process. *)

LEMMA FailStartupStep ==
    ASSUME InitAssumption, IInv, FailStartup
    PROVE  IInv'
<1>1. pc' = "stopped" /\ Fault /\ UNCHANGED <<data, locals, clean>>
      BY DEF FailStartup, Goto
<1>2. faults' \in 0 .. MaxFaults /\ UNCHANGED <<late, arrived>>
      BY <1>1, FaultOK DEF IInv
<1>3. DataOK'  BY <1>1, <1>2, QuietData DEF IInv
<1>4. ProcessOK'  BY <1>1, <1>2 DEF IInv, ProcessOK, locals, Tabling, Seeding
<1>5. clean' => CleanOK'  BY <1>1 DEF CleanOK, Tabling, Seeding
<1>   QED  BY <1>3, <1>4, <1>5 DEF IInv

LEMMA StartStep ==
    ASSUME InitAssumption, IInv, Start
    PROVE  IInv'
<1>1. /\ pc' = "findTable" /\ at' = 1 /\ existing' = None /\ clean' = TRUE
      /\ UNCHANGED <<data, late, faults, arrived>>
      BY DEF Start, Goto
<1>2. DataOK'  BY <1>1, QuietData DEF IInv
<1>3. at' \in DOMAIN Definitions  BY <1>1, Positions
<1>4. ProcessOK'  BY <1>1, <1>3 DEF IInv, ProcessOK, Tabling, Seeding
<1>5. \A i \in 1 .. at' - 1 : FALSE  BY <1>1
<1>6. CleanOK'  BY <1>1, <1>5 DEF CleanOK, Tabling, Seeding
<1>   QED  BY <1>2, <1>4, <1>6 DEF IInv

LEMMA DownStep ==
    ASSUME InitAssumption, IInv, Shutdown \/ Crash
    PROVE  IInv'
<1>1. pc' = "down" /\ UNCHANGED <<data, locals, arrived, clean>>
      BY DEF Shutdown, Crash, Goto
<1>2. faults' \in 0 .. MaxFaults
      BY DEF Shutdown, Crash, IInv, ProcessOK, InitAssumption
<1>3. \A w \in late' : w \in late \/ w \in Sent  BY DEF Shutdown, Crash
<1>4. \A w \in late' : w \in late \/ WriteOK(w, admins, schema)
      BY <1>3, SentOK DEF IInv
<1>5. DataOK'  BY <1>1, <1>4, QuietData DEF IInv
<1>6. ProcessOK'  BY <1>1, <1>2 DEF IInv, ProcessOK, locals, Tabling, Seeding
<1>7. clean' => CleanOK'  BY <1>1 DEF CleanOK, Tabling, Seeding
<1>   QED  BY <1>5, <1>6, <1>7 DEF IInv

LEMMA SameIInv ==
    ASSUME IInv, late' \subseteq late, UNCHANGED <<data, pc, locals, faults, arrived, clean>>
    PROVE  IInv'
<1>1. DataOK'  BY QuietData DEF IInv
<1>2. ProcessOK'
      BY DEF IInv, ProcessOK, locals, data, Current, Rows, RowsIn
<1>3. clean' => CleanOK'
      BY DEF IInv, CleanOK, locals, data, Current, Rows, RowsIn, Ready, Missing, Admitted
<1>   QED  BY <1>1, <1>2, <1>3 DEF IInv

LEMMA ArriveStep ==
    ASSUME InitAssumption, IInv, NEW w \in late, Arrive(w)
    PROVE  IInv'
<1>1. /\ late' \subseteq late /\ UNCHANGED <<pc, locals, faults, clean>>
      /\ \/ Apply(w) /\ arrived' = arrived + 1
         \/ UNCHANGED <<data, arrived>>
      BY DEF Arrive
<1>2. CASE UNCHANGED <<data, arrived>>  BY <1>1, <1>2, SameIInv
<1>3. CASE Apply(w) /\ arrived' = arrived + 1
  <2>1. WriteOK(w, admins, schema)  BY DEF IInv, DataOK
  <2>2. DataOK'  BY <1>1, <1>3, <2>1, WriteData DEF IInv
  <2>3. GrowSchema /\ GrowRows(w)  BY <1>3, <2>1, WriteGrows DEF IInv
  <2>4. /\ IsFiniteSet(admins) /\ IsFiniteSet(admins')
        /\ IsFiniteSet(perms) /\ IsFiniteSet(perms') /\ arrived \in Nat
        BY <2>2 DEF IInv, DataOK
  <2>5. Current' = Current  BY <1>1 DEF Current, locals
  <2>6. pc' = "createRole" => Cardinality(admins') <= arrived'
    <3>1. Cardinality(admins) \in Nat /\ Cardinality(admins') \in Nat
          BY <2>4, FS_CardinalityType
    <3>2. Cardinality(admins') <= Cardinality(admins) + 1  BY <2>3, <3>1 DEF GrowRows
    <3>3. pc' = "createRole" => Cardinality(admins) <= arrived
          BY <1>1 DEF IInv, ProcessOK
    <3>   QED  BY <1>3, <2>4, <3>1, <3>2, <3>3
  <2>7. pc' = "writePermission" /\ existing' = None
           => Cardinality(Rows(admin, Current)') <= arrived'
    <3>1. PICK role, n : role = admin /\ n = Current  OBVIOUS
    <3>2. Cardinality(Rows(role, n)) \in Nat /\ Cardinality(Rows(role, n)') \in Nat
          BY <2>4, RowsFinite DEF Rows
    <3>3. Cardinality(Rows(role, n)') <= Cardinality(Rows(role, n)) + 1
          BY <2>3, <3>2 DEF GrowRows
    <3>4. pc' = "writePermission" /\ existing' = None
             => Cardinality(Rows(role, n)) <= arrived
          BY <1>1, <3>1 DEF IInv, ProcessOK, locals
    <3>5. Rows(admin, Current)' = Rows(role, n)'
          BY <1>1, <2>5, <3>1 DEF Rows, RowsIn, locals
    <3>   QED  BY <1>3, <2>4, <3>2, <3>3, <3>4, <3>5
  <2>8. pc \in {"readFields", "createColumn"} /\ Current \in DOMAIN schema'
           => ~schema'[Current].legacy
        BY <2>3 DEF IInv, ProcessOK, GrowSchema
  <2>9. admins \subseteq admins'  BY <2>3 DEF GrowRows
  <2>10. ProcessOK'
        BY <1>1, <2>5, <2>6, <2>7, <2>8, <2>9 DEF IInv, ProcessOK, locals
  <2>11. ASSUME clean  PROVE CleanOK'
    <3>1. CleanOK  BY <2>11 DEF IInv
    <3>2. pc \in Tabling => \A i \in 1 .. at - 1 : Ready(Definitions[i])'
          BY <2>3, <3>1, EarlierStay DEF IInv, CleanOK
    <3>3. pc = "createColumn" => Current \in DOMAIN schema' /\ Missing(Current)' \subseteq todo
          BY <2>3, <2>5, <3>1 DEF CleanOK, GrowSchema, Missing
    <3>4. pc \in Seeding \cup {"started"} => \A n \in Names : Ready(n)'
          BY <2>3, <3>1, ReadyStays DEF CleanOK
    <3>5. PICK role, m : role = admin /\ m = Current  OBVIOUS
    <3>6. pc \in {"findGrant", "writePermission"} =>
             \A i \in 1 .. at - 1 : Admitted(role, Definitions[i])'
      <4> SUFFICES ASSUME pc \in {"findGrant", "writePermission"}, NEW i \in 1 .. at - 1
                   PROVE  Admitted(role, Definitions[i])'
          OBVIOUS
      <4>1. Admitted(role, Definitions[i])  BY <3>1, <3>5 DEF CleanOK
      <4>   QED  BY <2>3, <4>1, AdmittedStays
    <3>7. pc = "writePermission" /\ existing # None =>
             \E q \in Rows(role, m)' : q.id = existing
      <4> SUFFICES ASSUME pc = "writePermission", existing # None
                   PROVE  \E q \in Rows(role, m)' : q.id = existing
          OBVIOUS
      <4>1. PICK p \in Rows(role, m) : p.id = existing  BY <3>1, <3>5 DEF CleanOK
      <4>2. p \in perms /\ p.role = role /\ p.table = m  BY DEF Rows, RowsIn
      <4>3. PICK q \in perms' : q.id = p.id /\ q.role = p.role /\ q.table = p.table
            BY <2>3, <4>2 DEF GrowRows
      <4>   QED  BY <4>1, <4>2, <4>3 DEF Rows, RowsIn
    <3>8. pc = "started" => \E r \in admins' : \A n \in Names : Admitted(r, n)'
      <4> SUFFICES ASSUME pc = "started"
                   PROVE  \E r \in admins' : \A n \in Names : Admitted(r, n)'
          OBVIOUS
      <4>1. PICK r \in admins : \A n \in Names : Admitted(r, n)  BY <3>1 DEF CleanOK
      <4>2. \A n \in Names : Admitted(r, n)'  BY <2>3, <4>1, AdmittedStays
      <4>   QED  BY <2>9, <4>2
    <3>9. pc' = pc /\ at' = at /\ todo' = todo /\ existing' = existing /\ admin' = role
          BY <1>1, <3>5 DEF locals
    <3>10. \A i \in 1 .. at - 1 :
              Admitted(role, Definitions[i])' => Admitted(admin, Definitions[i])'
          BY <3>9 DEF Admitted
    <3>11. Rows(admin, Current)' = Rows(role, m)'
          BY <2>5, <3>5, <3>9 DEF Rows, RowsIn
    <3>12. pc' \in {"findGrant", "writePermission"} =>
              \A i \in 1 .. at' - 1 : Admitted(admin, Definitions[i])'
          BY <3>6, <3>9, <3>10
    <3>13. pc' = "writePermission" /\ existing' # None =>
              \E p \in Rows(admin, Current)' : p.id = existing'
          BY <3>7, <3>9, <3>11
    <3>   QED  BY <2>5, <3>2, <3>3, <3>4, <3>8, <3>9, <3>12, <3>13 DEF CleanOK
  <2>   QED  BY <1>1, <2>2, <2>10, <2>11 DEF IInv
<1>   QED  BY <1>1, <1>2, <1>3

LEMMA DeleteTableStep ==
    ASSUME InitAssumption, IInv, NEW n \in DOMAIN schema, DeleteTable(n)
    PROVE  IInv'
<1>1. /\ schema' = [m \in DOMAIN schema \ {n} |-> schema[m]]
      /\ perms' = (IF n = PermissionsTable THEN {} ELSE perms)
      /\ clean' = FALSE
      /\ UNCHANGED <<admins, nextId, pc, locals, late, arrived>>
      BY DEF DeleteTable
<1>2. DataOK'  BY DeleteData DEF IInv
<1>3. faults' \in 0 .. MaxFaults
  <2>1. schema[n].legacy \/ faults < MaxFaults  BY DEF DeleteTable
  <2>2. faults' = IF schema[n].legacy THEN faults ELSE faults + 1  BY DEF DeleteTable
  <2>   QED  BY <2>1, <2>2 DEF IInv, ProcessOK, InitAssumption
<1>4. Current' = Current  BY <1>1 DEF Current, locals
<1>5. pc' \in {"readFields", "createColumn"} /\ Current' \in DOMAIN schema'
         => ~schema'[Current'].legacy
      BY <1>1, <1>4 DEF IInv, ProcessOK
<1>6. pc' = "writePermission" /\ existing' = None
         => Cardinality(Rows(admin, Current)') <= arrived'
  <2>1. perms' \subseteq perms /\ admin' = admin /\ existing' = existing
        BY <1>1 DEF locals
  <2>2. Rows(admin, Current)' \subseteq Rows(admin, Current)
        BY <1>4, <2>1 DEF Rows, RowsIn
  <2>3. IsFiniteSet(Rows(admin, Current)) /\ Cardinality(Rows(admin, Current)) \in Nat
        BY RowsFinite DEF Rows, IInv, DataOK
  <2>4. IsFiniteSet(Rows(admin, Current)') /\ Cardinality(Rows(admin, Current)') \in Nat
        BY <2>2, <2>3, FS_Subset, FS_CardinalityType
  <2>5. Cardinality(Rows(admin, Current)') <= Cardinality(Rows(admin, Current))
        BY <2>2, <2>3, FS_Subset
  <2>6. arrived \in Nat  BY DEF IInv, DataOK
  <2>   QED  BY <1>1, <2>1, <2>3, <2>4, <2>5, <2>6 DEF IInv, ProcessOK
<1>7. ProcessOK'
      BY <1>1, <1>3, <1>4, <1>5, <1>6 DEF IInv, ProcessOK, locals
<1>   QED  BY <1>1, <1>2, <1>7 DEF IInv

LEMMA ReduceStep ==
    ASSUME InitAssumption, IInv, Reduce
    PROVE  IInv'
<1>1. /\ pc = "started" /\ faults' \in 0 .. MaxFaults /\ clean' = FALSE
      /\ UNCHANGED <<schema, admins, nextId, pc, locals, late, arrived>>
      BY DEF Reduce, IInv, ProcessOK, InitAssumption
<1>2. DataOK'  BY ReduceData DEF IInv
<1>3. ProcessOK'  BY <1>1 DEF IInv, ProcessOK, locals, Tabling, Seeding
<1>   QED  BY <1>1, <1>2, <1>3 DEF IInv

-----------------------------------------------------------------------------
(* The theorems. *)

LEMMA InitIInv == ASSUME InitAssumption, Init PROVE IInv
<1>1. /\ admins = {} /\ perms = {} /\ nextId = 1 /\ late = {} /\ arrived = 0
      /\ pc = "down" /\ at = 1 /\ existing = None /\ faults = 0 /\ clean = TRUE
      BY DEF Init
<1>2. /\ DOMAIN schema \subseteq Names
      /\ \A n \in DOMAIN schema : schema[n] \in Table /\ (schema[n].legacy => n \in WithLegacy)
      BY DEF Init, InitAssumption
<1>3. SeedsNotRepeated
  <2>1. Cardinality(admins) = 0  BY <1>1, FS_EmptySet
  <2>   QED  BY <1>1, <2>1 DEF SeedsNotRepeated
<1>4. IsFiniteSet(admins) /\ IsFiniteSet(perms)  BY <1>1, FS_EmptySet
<1>5. DataOK  BY <1>1, <1>2, <1>3, <1>4 DEF DataOK
<1>6. at \in DOMAIN Definitions  BY <1>1, Positions
<1>7. ProcessOK  BY <1>1, <1>6 DEF ProcessOK, Tabling, Seeding, InitAssumption
<1>8. CleanOK  BY <1>1 DEF CleanOK, Tabling, Seeding
<1>   QED  BY <1>5, <1>7, <1>8 DEF IInv

LEMMA NextIInv == ASSUME InitAssumption, IInv, [Next]_vars PROVE IInv'
<1>1. CASE Proceed
  <2>1. CASE FindTable  BY <2>1, FindTableStep
  <2>2. CASE CreateTable  BY <2>2, CreateTableStep
  <2>3. CASE CheckLegacy  BY <2>3, CheckLegacyStep
  <2>4. CASE ReadFields  BY <2>4, ReadFieldsStep
  <2>5. ASSUME NEW f \in todo, CreateColumn(f)  PROVE IInv'
        BY <2>5, CreateColumnStep
  <2>6. ASSUME NEW f \in todo, FailCreateColumn(f)  PROVE IInv'
        BY <2>6, FailCreateColumnStep
  <2>7. CASE FindSeedTable  BY <2>7, FindSeedTableStep
  <2>8. CASE FindAdmin  BY <2>8, FindAdminStep
  <2>9. CASE CreateRole  BY <2>9, CreateRoleStep
  <2>10. CASE FindGrant  BY <2>10, FindGrantStep
  <2>11. CASE WritePermission  BY <2>11, WritePermissionStep
  <2>12. CASE FailCreateTable  BY <2>12, FailCreateTableStep
  <2>13. CASE FailStartup  BY <2>13, FailStartupStep
  <2>14. CASE FailReadFields  BY <2>14, FailReadFieldsStep
  <2>15. CASE FailSeeding  BY <2>15, FailSeedingStep
  <2>   QED  BY <1>1, <2>1, <2>2, <2>3, <2>4, <2>5, <2>6, <2>7, <2>8, <2>9, <2>10,
                <2>11, <2>12, <2>13, <2>14, <2>15 DEF Proceed
<1>2. CASE Start  BY <1>2, StartStep
<1>3. CASE Shutdown \/ Crash  BY <1>3, DownStep
<1>4. CASE Reduce  BY <1>4, ReduceStep
<1>5. ASSUME NEW w \in late, Arrive(w)  PROVE IInv'  BY <1>5, ArriveStep
<1>6. ASSUME NEW n \in DOMAIN schema, DeleteTable(n)  PROVE IInv'
      BY <1>6, DeleteTableStep
<1>7. CASE UNCHANGED vars  BY <1>7, SameIInv DEF vars
<1>   QED  BY <1>1, <1>2, <1>3, <1>4, <1>5, <1>6, <1>7 DEF Next, Environment

\* The inductive invariant holds: what NocoDB holds, and what may still arrive
\* there, is in order, and a start in which nothing failed is as far as it
\* believes.
THEOREM Inductive == Spec => []IInv
<1>1. Init => IInv  BY InitAssumption, InitIInv
<1>2. IInv /\ [Next]_vars => IInv'  BY InitAssumption, NextIInv
<1>   QED  BY <1>1, <1>2, PTL DEF Spec

LEMMA IInvSafe == ASSUME InitAssumption, IInv PROVE StartSafe
<1>1. TypeOK
  <2>1. admins \subseteq 0 .. nextId  BY DEF IInv, DataOK
  <2>2. perms \subseteq [id : Nat, role : Nat, table : Names, full : BOOLEAN]
        BY DEF IInv, DataOK
  <2>3. DOMAIN schema \subseteq Names /\ (\A n \in DOMAIN schema : schema[n] \in Table)
        /\ nextId \in Nat /\ arrived \in Nat
        BY DEF IInv, DataOK
  <2>   QED  BY <2>1, <2>2, <2>3 DEF TypeOK, IInv, ProcessOK, Tabling
<1>2. CleanStartCompletes  BY DEF CleanStartCompletes, Complete, IInv, CleanOK
<1>3. SeedsNotRepeated  BY DEF IInv, DataOK
<1>   QED  BY <1>1, <1>2, <1>3 DEF StartSafe

\* onModuleInit: whatever the schema found, the crashes, the lost answers and the
\* writes that arrive late, a start that reports success and swallowed no error
\* has left nothing out, and no seed is there twice but for a late write.
THEOREM StartIsSafe == Spec => []StartSafe
<1>1. IInv => StartSafe  BY InitAssumption, IInvSafe
<1>   QED  BY <1>1, Inductive, PTL

LEMMA StepLeavesLegacy ==
    ASSUME InitAssumption, IInv, [Next]_vars,
           NEW m \in DOMAIN schema \cap DOMAIN schema', schema[m].legacy
    PROVE  schema'[m] = schema[m]
<1>1. ASSUME NEW w, WriteOK(w, admins, schema), Apply(w)  PROVE schema'[m] = schema[m]
  <2>1. GrowSchema  BY <1>1, WriteGrows DEF IInv
  <2>   QED  BY <2>1 DEF GrowSchema
<1>2. ASSUME NEW w \in Sent, Apply(w)  PROVE schema'[m] = schema[m]
  <2>1. WriteOK(w, admins, schema)  BY SentOK DEF IInv
  <2>   QED  BY <1>1, <1>2, <2>1
<1>3. CASE Proceed
  <2>1. CASE CreateTable \/ FailCreateTable
    <3>1. pc = "createTable" /\ (Apply(TableWrite(Current)) \/ UNCHANGED data)
          BY <2>1 DEF CreateTable, FailCreateTable
    <3>2. TableWrite(Current) \in Sent  BY <3>1 DEF Sent
    <3>   QED  BY <1>2, <3>1, <3>2 DEF data
  <2>2. ASSUME NEW f \in todo, CreateColumn(f) \/ FailCreateColumn(f)
        PROVE  schema'[m] = schema[m]
    <3>1. pc = "createColumn" /\ (Apply(FieldWrite(Current, f)) \/ UNCHANGED data)
          BY <2>2 DEF CreateColumn, FailCreateColumn
    <3>2. FieldWrite(Current, f) \in Sent  BY <3>1 DEF Sent
    <3>   QED  BY <1>2, <3>1, <3>2 DEF data
  <2>3. CASE CreateRole
    <3>1. UNCHANGED schema  BY <2>3, ApplyRole DEF CreateRole
    <3>   QED  BY <3>1
  <2>4. CASE WritePermission \/ FailSeeding
    <3>1. UNCHANGED data \/ \E w \in Sent : Apply(w)
          BY <2>4 DEF WritePermission, FailSeeding
    <3>   QED  BY <1>2, <3>1 DEF data
  <2>5. CASE \/ FindTable \/ CheckLegacy \/ ReadFields \/ FindSeedTable \/ FindAdmin
             \/ FindGrant \/ FailStartup \/ FailReadFields
    <3>1. UNCHANGED data
          BY <2>5 DEF FindTable, CheckLegacy, ReadFields, FindSeedTable, FindAdmin,
                      FindGrant, FailStartup, FailReadFields
    <3>   QED  BY <3>1 DEF data
  <2>   QED  BY <1>3, <2>1, <2>2, <2>3, <2>4, <2>5 DEF Proceed
<1>4. ASSUME NEW w \in late, Arrive(w)  PROVE schema'[m] = schema[m]
  <2>1. WriteOK(w, admins, schema)  BY DEF IInv, DataOK
  <2>2. Apply(w) \/ UNCHANGED data  BY <1>4 DEF Arrive
  <2>   QED  BY <1>1, <2>1, <2>2 DEF data
<1>5. ASSUME NEW n \in DOMAIN schema, DeleteTable(n)  PROVE schema'[m] = schema[m]
  <2>1. schema' = [k \in DOMAIN schema \ {n} |-> schema[k]]  BY <1>5 DEF DeleteTable
  <2>   QED  BY <2>1
<1>6. CASE Start \/ Shutdown \/ Crash \/ Reduce \/ UNCHANGED vars
  <2>1. UNCHANGED schema  BY <1>6 DEF Start, Shutdown, Crash, Reduce, vars, data
  <2>   QED  BY <2>1
<1>   QED  BY <1>3, <1>4, <1>5, <1>6 DEF Next, Environment

\* assertNoLegacyLinkFields guards every write: no start, and no write of a dead
\* one that arrives late, changes a table of the old schema.
THEOREM LegacyStays == Spec => LegacyUntouched
<1> DEFINE Left == \A n \in DOMAIN schema \cap DOMAIN schema' :
                      schema[n].legacy => schema'[n] = schema[n]
<1>1. IInv /\ [Next]_vars => [Left]_vars  BY InitAssumption, StepLeavesLegacy
<1>   QED  BY <1>1, Inductive, PTL DEF Spec, LegacyUntouched

-----------------------------------------------------------------------------
(* The setup script of the example *)

LEMMA ScriptConstants ==
    /\ ExampleTables \in Seq(Example!Names) /\ WithUnique \subseteq Example!Names
    /\ MaxCopies \in Nat \ {0}
BY SetupAssumption DEF SetupAssumption, Example!ExampleSetupAssumption

\* The database comes first, then the tables, then their rows.
LEMMA ScriptShape ==
    LET N == Len(ExampleTables)
        s == Example!Script
    IN  /\ N \in Nat /\ s \in Seq([kind : {"database", "table", "rows"}, table : Example!Names \cup {ExampleTables[1]}])
        /\ Len(s) = 1 + N + N
        /\ s[1] = Example!Step("database", ExampleTables[1])
        /\ \A i \in 1 .. N : /\ s[1 + i] = Example!Step("table", ExampleTables[i])
                             /\ s[1 + N + i] = Example!Step("rows", ExampleTables[i])
<1> DEFINE N == Len(ExampleTables)
           S == [kind : {"database", "table", "rows"}, table : Example!Names \cup {ExampleTables[1]}]
           a == <<Example!Step("database", ExampleTables[1])>>
           b == [i \in DOMAIN ExampleTables |-> Example!Step("table", ExampleTables[i])]
           c == [i \in DOMAIN ExampleTables |-> Example!Step("rows", ExampleTables[i])]
<1>1. N \in Nat /\ DOMAIN ExampleTables = 1 .. N /\ \A i \in 1 .. N : ExampleTables[i] \in Example!Names
  BY ScriptConstants
<1>2. a \in Seq(S) /\ Len(a) = 1 /\ a[1] = Example!Step("database", ExampleTables[1])
  BY DEF Example!Step
<1>3. b \in Seq(S) /\ Len(b) = N /\ \A i \in 1 .. N : b[i] = Example!Step("table", ExampleTables[i])
  BY <1>1 DEF Example!Step
<1>4. c \in Seq(S) /\ Len(c) = N /\ \A i \in 1 .. N : c[i] = Example!Step("rows", ExampleTables[i])
  BY <1>1 DEF Example!Step
<1>5. Example!Script = a \o b \o c
  BY DEF Example!Script
<1> HIDE DEF a, b, c, S, N
<1> DEFINE d == a \o b
<1>6. /\ d \in Seq(S) /\ Len(d) = Len(a) + Len(b)
      /\ \A i \in 1 .. Len(a) + Len(b) : d[i] = IF i <= Len(a) THEN a[i] ELSE b[i - Len(a)]
  <2>1. a \in Seq(S) /\ b \in Seq(S)
    BY <1>2, <1>3
  <2> QED BY <2>1, ConcatProperties
<1> HIDE DEF d
<1>7. /\ d \o c \in Seq(S) /\ Len(d \o c) = Len(d) + Len(c)
      /\ \A i \in 1 .. Len(d) + Len(c) : (d \o c)[i] = IF i <= Len(d) THEN d[i] ELSE c[i - Len(d)]
  <2>1. d \in Seq(S) /\ c \in Seq(S)
    BY <1>4, <1>6
  <2> QED BY <2>1, ConcatProperties
<1>8. Len(d) = 1 + N /\ d[1] = a[1] /\ \A i \in 1 .. N : d[1 + i] = b[i]
  <2>1. Len(d) = 1 + N /\ d[1] = a[1]
    BY <1>1, <1>2, <1>3, <1>6
  <2>2. ASSUME NEW i \in 1 .. N PROVE d[1 + i] = b[i]
    <3>1. 1 + i \in 1 .. 1 + N /\ ~(1 + i <= 1) /\ (1 + i) - 1 = i
      BY <1>1
    <3> QED BY <1>2, <1>3, <1>6, <3>1
  <2> QED BY <2>1, <2>2
<1>9. /\ Len(d \o c) = 1 + N + N /\ (d \o c)[1] = d[1]
      /\ \A i \in 1 .. N : (d \o c)[1 + i] = d[1 + i] /\ (d \o c)[1 + N + i] = c[i]
  <2>1. Len(d \o c) = 1 + N + N /\ (d \o c)[1] = d[1]
    BY <1>1, <1>4, <1>7, <1>8
  <2>2. ASSUME NEW i \in 1 .. N
        PROVE  (d \o c)[1 + i] = d[1 + i] /\ (d \o c)[1 + N + i] = c[i]
    <3>1. /\ 1 + i \in 1 .. 1 + N + N /\ 1 + i <= 1 + N
          /\ 1 + N + i \in 1 .. 1 + N + N /\ ~(1 + N + i <= 1 + N) /\ (1 + N + i) - (1 + N) = i
      BY <1>1
    <3>2. (d \o c)[1 + i] = d[1 + i]
      BY <1>4, <1>7, <1>8, <3>1
    <3>3. (d \o c)[1 + N + i] = c[(1 + N + i) - (1 + N)]
      BY <1>4, <1>7, <1>8, <3>1
    <3> QED BY <3>1, <3>2, <3>3
  <2> QED BY <2>1, <2>2
<1> QED BY <1>1, <1>2, <1>3, <1>4, <1>5, <1>7, <1>8, <1>9 DEF S, N, d

\* What a call of the script is for is there.
FulfilledBy(step, d, t, c) ==
    /\ step.kind = "database" => d
    /\ step.kind = "table" => step.table \in t
    /\ step.kind = "rows" => c[step.table] > 0
Fulfilled(step) == FulfilledBy(step, database, tables, copies)

Remaining(k) == SubSeq(Example!Script, k + 1, Len(Example!Script))

\* As long as no call of the run has failed, what the calls made so far are for is
\* there; a call that is refused asks for what an earlier run has made.
ScriptOK ==
    /\ database \in BOOLEAN /\ tables \subseteq Example!Names
    /\ copies \in [Example!Names -> Nat]
    /\ Example!SampleOnce
    /\ status = "running" =>
          \E k \in 0 .. Len(Example!Script) - 1 :
             /\ script = Remaining(k)
             /\ ~failed => \A j \in 1 .. k : Fulfilled(Example!Script[j])
    /\ Example!RerunCompletes

\* Where the script is, and that what it has called for so far is there.
At(k) == script = Remaining(k) /\ (~failed => \A j \in 1 .. k : Fulfilled(Example!Script[j]))

\* What remains begins with the next call.
LEMMA NextCall ==
    ASSUME NEW k \in 0 .. Len(Example!Script) - 1
    PROVE  /\ Head(Remaining(k)) = Example!Script[k + 1]
           /\ Tail(Remaining(k)) = Remaining(k + 1)
           /\ Remaining(k + 1) = <<>> <=> k + 1 = Len(Example!Script)
<1> DEFINE s == Example!Script
           S == [kind : {"database", "table", "rows"}, table : Example!Names \cup {ExampleTables[1]}]
<1>1. s \in Seq(S) /\ Len(s) \in Nat
  BY ScriptShape
<1> HIDE DEF s, S
<1>2. k \in 0 .. Len(s) - 1
  BY DEF s
<1> DEFINE m == k + 1
           l == Len(s)
<1>3. m \in 1 .. Len(s) /\ l \in m .. Len(s)
  BY <1>1, <1>2
<1>4. Head(SubSeq(s, m, l)) = s[m] /\ Tail(SubSeq(s, m, l)) = SubSeq(s, m + 1, l)
  <2> HIDE DEF m, l
  <2> QED BY <1>1, <1>3, HeadTailOfSubSeq
<1>5. SubSeq(s, m + 1, l) = <<>> <=> m = l
  <2>1. CASE m = l
    <3>1. m + 1 \in Int /\ l \in Int /\ l < m + 1
      BY <1>3, <2>1
    <3> QED BY <2>1, <3>1, SubSeqEmpty
  <2>2. CASE m # l
    <3>1. m + 1 \in Int /\ l \in Int /\ m + 1 <= l /\ \A i \in m + 1 .. l : s[i] \in S
      BY <1>1, <1>3, <2>2, ElementOfSeq
    <3>2. Len(SubSeq(s, m + 1, l)) = l - (m + 1) + 1
      <4> HIDE DEF m, l
      <4> QED BY <3>1, SubSeqProperties
    <3>3. Len(SubSeq(s, m + 1, l)) # 0
      <4>1. l - (m + 1) + 1 # 0
        BY <1>1, <1>3, <2>2
      <4> QED BY <3>2, <4>1
    <3>4. Len(<<>>) = 0
      BY EmptySeq
    <3>5. SubSeq(s, m + 1, l) # <<>>
      <4> HIDE DEF m, l
      <4> QED BY <3>3, <3>4
    <3> QED BY <2>2, <3>5
  <2> QED BY <2>1, <2>2
<1> QED BY <1>4, <1>5 DEF Remaining, s

\* A call of the script that is refused asks for what is there.
LEMMA RefusedIsThere ==
    ASSUME ScriptOK, NEW k \in 0 .. Len(Example!Script) - 1,
           \A j \in 1 .. k : Fulfilled(Example!Script[j]),
           ~Example!Possible(Example!Script[k + 1])
    PROVE  Fulfilled(Example!Script[k + 1])
<1> DEFINE N == Len(ExampleTables)
           s == Example!Script
           h == s[k + 1]
<1>1. /\ N \in Nat /\ Len(s) = 1 + N + N /\ s[1] = Example!Step("database", ExampleTables[1])
      /\ \A i \in 1 .. N : /\ s[1 + i] = Example!Step("table", ExampleTables[i])
                           /\ s[1 + N + i] = Example!Step("rows", ExampleTables[i])
  BY ScriptShape
<1>2. \A i \in 1 .. N : ExampleTables[i] \in Example!Names
  BY ScriptConstants
<1>3. \A j \in 1 .. k : Fulfilled(s[j])
  OBVIOUS
<1>4. ~Example!Possible(h)
  OBVIOUS
<1> HIDE DEF N, s, h
<1>5. k \in Nat /\ k < 1 + N + N
  BY <1>1 DEF s
<1>6. k >= 1 => database
  <2>1. k >= 1 => Fulfilled(s[1])
    BY <1>3, <1>5
  <2> QED BY <2>1, <1>1 DEF Fulfilled, FulfilledBy, Example!Step
<1>7. CASE k = 0
  <2>1. h.kind = "database"
    BY <1>1, <1>7 DEF h, Example!Step
  <2> QED BY <1>4, <2>1 DEF Example!Possible, Fulfilled, FulfilledBy, h, s
<1>8. CASE k \in 1 .. N
  <2>1. h = Example!Step("table", ExampleTables[k])
    <3>1. k + 1 = 1 + k
      BY <1>5
    <3> QED BY <1>1, <1>8, <3>1 DEF h
  <2>2. h.kind = "table"
    BY <2>1 DEF Example!Step
  <2>3. ~(database /\ h.table \notin tables)
    BY <1>4, <2>2 DEF Example!Possible
  <2>4. h.table \in tables
    BY <1>6, <1>8, <2>3
  <2> QED BY <2>2, <2>4 DEF Fulfilled, FulfilledBy, h, s
<1>9. CASE k > N
  <2> DEFINE i == k - N
  <2>1. i \in 1 .. N /\ k + 1 = 1 + N + i /\ 1 + i \in 1 .. k
    BY <1>1, <1>5, <1>9
  <2> HIDE DEF i
  <2>2. h = Example!Step("rows", ExampleTables[i])
    BY <1>1, <2>1 DEF h
  <2>3. h.kind = "rows" /\ h.table = ExampleTables[i] /\ h.table \in Example!Names
    BY <1>2, <2>1, <2>2 DEF Example!Step
  <2>4. Fulfilled(s[1 + i])
    BY <1>3, <2>1
  <2>5. h.table \in tables
    <3>1. s[1 + i] = Example!Step("table", ExampleTables[i])
      BY <1>1, <2>1
    <3>2. s[1 + i].kind = "table" /\ s[1 + i].table = ExampleTables[i]
      BY <3>1 DEF Example!Step
    <3> QED BY <2>3, <2>4, <3>2 DEF Fulfilled, FulfilledBy
  <2>6. copies[h.table] # 0
    BY <1>4, <2>3, <2>5 DEF Example!Possible
  <2>7. copies[h.table] \in Nat
    BY <2>3 DEF ScriptOK
  <2> QED BY <2>3, <2>6, <2>7 DEF Fulfilled, FulfilledBy, h, s
<1> QED BY <1>1, <1>5, <1>7, <1>8, <1>9

\* When all calls are made and none has failed, all is there.
LEMMA AllFulfilled ==
    ASSUME NEW d, NEW t, NEW c, t \subseteq Example!Names,
           \A j \in 1 .. Len(Example!Script) : FulfilledBy(Example!Script[j], d, t, c)
    PROVE  d /\ t = Example!Names /\ \A n \in Example!Names : c[n] > 0
<1> DEFINE N == Len(ExampleTables)
           s == Example!Script
<1>1. /\ N \in Nat /\ Len(s) = 1 + N + N /\ s[1] = Example!Step("database", ExampleTables[1])
      /\ \A i \in 1 .. N : /\ s[1 + i] = Example!Step("table", ExampleTables[i])
                           /\ s[1 + N + i] = Example!Step("rows", ExampleTables[i])
  BY ScriptShape
<1>2. \A j \in 1 .. 1 + N + N : FulfilledBy(s[j], d, t, c)
  BY <1>1
<1>3. DOMAIN ExampleTables = 1 .. N
  BY ScriptConstants
<1> HIDE DEF N, s
<1>4. d
  <2>1. FulfilledBy(s[1], d, t, c)
    BY <1>1, <1>2
  <2> QED BY <1>1, <2>1 DEF FulfilledBy, Example!Step
<1>5. ASSUME NEW i \in 1 .. N
      PROVE  ExampleTables[i] \in t /\ c[ExampleTables[i]] > 0
  <2>1. FulfilledBy(s[1 + i], d, t, c) /\ FulfilledBy(s[1 + N + i], d, t, c)
    BY <1>1, <1>2
  <2>2. /\ FulfilledBy(Example!Step("table", ExampleTables[i]), d, t, c)
        /\ FulfilledBy(Example!Step("rows", ExampleTables[i]), d, t, c)
    BY <1>1, <2>1
  <2> QED BY <2>2 DEF FulfilledBy, Example!Step
<1>6. \A n \in Example!Names : n \in t /\ c[n] > 0
  BY <1>3, <1>5 DEF Example!Names
<1> QED BY <1>4, <1>6 DEF Example!AllThere, ScriptOK

\* What a call makes is typed, and rows with unique columns are there once; what
\* was there before stays.
LEMMA EffectKeeps ==
    ASSUME ScriptOK, NEW step, step.table \in Example!Names \/ step.kind = "database",
           step.kind \in {"database", "table", "rows"},
           Example!Possible(step), Example!Effect(step)
    PROVE  /\ database' \in BOOLEAN /\ tables' \subseteq Example!Names
           /\ copies' \in [Example!Names -> Nat] /\ Example!SampleOnce'
           /\ \A s : s.table \in Example!Names \/ s.kind # "rows" =>
                 (Fulfilled(s) => Fulfilled(s)')
           /\ Fulfilled(step)'
<1>1. database' = (database \/ step.kind = "database")
  BY DEF Example!Effect
<1>2. tables' = tables \cup (IF step.kind = "table" THEN {step.table} ELSE {})
  BY DEF Example!Effect
<1>3. copies' = IF step.kind = "rows" THEN [copies EXCEPT ![step.table] = copies[step.table] + 1]
                ELSE copies
  BY DEF Example!Effect
<1>4. copies \in [Example!Names -> Nat] /\ tables \subseteq Example!Names /\ database \in BOOLEAN
  BY DEF ScriptOK
<1>5. \A t \in WithUnique : copies[t] <= 1
  BY DEF ScriptOK, Example!SampleOnce
<1>6. WithUnique \subseteq Example!Names
  BY ScriptConstants
<1>7. database' \in BOOLEAN /\ (database => database')
  BY <1>1
<1>8. tables' \subseteq Example!Names /\ tables \subseteq tables'
  BY <1>2, <1>4
<1>9. copies' \in [Example!Names -> Nat]
  BY <1>3, <1>4
<1>10. \A t \in Example!Names : copies[t] > 0 => copies'[t] > 0
  BY <1>3, <1>4
<1>11. \A t \in WithUnique : copies'[t] <= 1
  <2>1. step.kind = "rows" /\ step.table \in WithUnique => copies[step.table] = 0
    BY DEF Example!Possible
  <2> QED BY <1>3, <1>4, <1>5, <1>6, <2>1
<1>12. /\ step.kind = "database" => database'
       /\ step.kind = "table" => step.table \in tables'
       /\ step.kind = "rows" => copies'[step.table] > 0
  <2>1. CASE step.kind = "database"
    BY <1>1, <2>1
  <2>2. CASE step.kind = "table"
    BY <1>2, <2>2
  <2>3. CASE step.kind = "rows"
    <3>1. step.table \in Example!Names
      BY <2>3
    <3>2. copies' = [copies EXCEPT ![step.table] = copies[step.table] + 1]
      BY <1>3, <2>3
    <3>3. copies'[step.table] = copies[step.table] + 1 /\ copies[step.table] \in Nat
      BY <1>4, <3>1, <3>2
    <3> QED BY <2>3, <3>3
  <2> QED BY <2>1, <2>2, <2>3
<1> QED BY <1>7, <1>8, <1>9, <1>10, <1>11, <1>12 DEF Fulfilled, FulfilledBy, Example!SampleOnce

\* After a call, the next one is to be made, or the script has completed.
LEMMA GoesOn ==
    ASSUME ScriptOK, status = "running", NEW k \in 0 .. Len(Example!Script) - 1,
           script = Remaining(k), Example!Goes(Tail(script)),
           database' \in BOOLEAN, tables' \subseteq Example!Names,
           copies' \in [Example!Names -> Nat], Example!SampleOnce',
           ~failed' => \A j \in 1 .. k + 1 : Fulfilled(Example!Script[j])'
    PROVE  ScriptOK'
<1> DEFINE L == Len(Example!Script)
<1>1. L \in Nat /\ k \in Nat /\ k < L
  BY ScriptShape
<1>2. /\ Tail(script) = Remaining(k + 1)
      /\ Remaining(k + 1) = <<>> <=> k + 1 = L
  BY NextCall
<1>3. /\ script' = Remaining(k + 1)
      /\ status' = IF k + 1 = L THEN "completed" ELSE "running"
  BY <1>2 DEF Example!Goes
<1>4. ASSUME status' = "running"
      PROVE  \E i \in 0 .. L - 1 :
                /\ script' = Remaining(i)
                /\ ~failed' => \A j \in 1 .. i : Fulfilled(Example!Script[j])'
  <2>1. k + 1 \in 0 .. L - 1
    BY <1>1, <1>3, <1>4
  <2> QED BY <1>3, <2>1
<1>5. ASSUME status' = "completed", ~failed'
      PROVE  Example!AllThere'
  <2>1. k + 1 = L
    BY <1>3, <1>5
  <2>2. \A j \in 1 .. L : Fulfilled(Example!Script[j])'
    BY <1>5, <2>1
  <2>3. \A j \in 1 .. L : FulfilledBy(Example!Script[j], database', tables', copies')
    BY <2>2 DEF Fulfilled
  <2> QED BY <2>3, AllFulfilled DEF Example!AllThere
<1> QED BY <1>4, <1>5 DEF ScriptOK, Example!RerunCompletes, Remaining

LEMMA ScriptStarts ==
    ASSUME ScriptOK, Example!Start
    PROVE  ScriptOK'
<1> DEFINE L == Len(Example!Script)
<1>1. L \in Nat /\ L > 0
  BY ScriptShape
<1>2. /\ status' = "running" /\ script' = Example!Script /\ UNCHANGED <<database, tables, copies>>
  BY DEF Example!Start
<1>3. Example!Script = Remaining(0)
  BY ScriptShape, SubSeqFull DEF Remaining
<1>4. 0 \in 0 .. L - 1 /\ \A j \in 1 .. 0 : FALSE
  BY <1>1
<1>5. \E i \in 0 .. L - 1 :
         /\ script' = Remaining(i)
         /\ ~failed' => \A j \in 1 .. i : Fulfilled(Example!Script[j])'
  BY <1>2, <1>3, <1>4
<1> QED BY <1>2, <1>5 DEF ScriptOK, Example!SampleOnce, Example!RerunCompletes, Remaining

\* A call of the script has a kind, and but for the first one a table of its own.
LEMMA CallTyped ==
    ASSUME NEW j \in 1 .. Len(Example!Script)
    PROVE  LET step == Example!Script[j]
           IN  /\ step.kind \in {"database", "table", "rows"}
               /\ step.table \in Example!Names \/ step.kind = "database"
<1> DEFINE N == Len(ExampleTables)
           s == Example!Script
<1>1. /\ N \in Nat /\ Len(s) = 1 + N + N /\ s[1] = Example!Step("database", ExampleTables[1])
      /\ \A i \in 1 .. N : /\ s[1 + i] = Example!Step("table", ExampleTables[i])
                           /\ s[1 + N + i] = Example!Step("rows", ExampleTables[i])
  BY ScriptShape
<1>2. \A i \in 1 .. N : ExampleTables[i] \in Example!Names
  BY ScriptConstants
<1>3. j \in 1 .. Len(s)
  OBVIOUS
<1> HIDE DEF N, s
<1>4. CASE j = 1
  <2>1. s[j].kind = "database"
    BY <1>1, <1>4 DEF Example!Step
  <2> QED BY <2>1 DEF s
<1>5. CASE j \in 2 .. 1 + N
  <2>1. PICK i \in 1 .. N : j = 1 + i
    <3>1. j - 1 \in 1 .. N /\ j = 1 + (j - 1)
      BY <1>1, <1>5
    <3> QED BY <3>1
  <2>2. s[j] = Example!Step("table", ExampleTables[i])
    BY <1>1, <2>1
  <2>3. s[j].kind = "table" /\ s[j].table \in Example!Names
    BY <1>2, <2>1, <2>2 DEF Example!Step
  <2> QED BY <2>3 DEF s
<1>6. CASE j > 1 + N
  <2>1. PICK i \in 1 .. N : j = 1 + N + i
    <3>1. j - (1 + N) \in 1 .. N /\ j = 1 + N + (j - (1 + N))
      BY <1>1, <1>3, <1>6
    <3> QED BY <3>1
  <2>2. s[j] = Example!Step("rows", ExampleTables[i])
    BY <1>1, <2>1
  <2>3. s[j].kind = "rows" /\ s[j].table \in Example!Names
    BY <1>2, <2>1, <2>2 DEF Example!Step
  <2> QED BY <2>3 DEF s
<1> QED BY <1>1, <1>3, <1>4, <1>5, <1>6

\* What is there stays, and the call just made adds its own.
LEMMA OneMoreFulfilled ==
    ASSUME NEW k \in 0 .. Len(Example!Script) - 1,
           \A j \in 1 .. k : Fulfilled(Example!Script[j]),
           \A s : s.table \in Example!Names \/ s.kind # "rows" =>
              (Fulfilled(s) => Fulfilled(s)'),
           Fulfilled(Example!Script[k + 1])'
    PROVE  \A j \in 1 .. k + 1 : Fulfilled(Example!Script[j])'
<1> SUFFICES ASSUME NEW j \in 1 .. k + 1 PROVE Fulfilled(Example!Script[j])'
  OBVIOUS
<1>1. k \in Nat /\ k < Len(Example!Script) /\ Len(Example!Script) \in Nat
  BY ScriptShape
<1>2. CASE j = k + 1
  BY <1>2
<1>3. CASE j \in 1 .. k
  <2>1. j \in 1 .. Len(Example!Script)
    BY <1>1, <1>3
  <2>2. Example!Script[j].table \in Example!Names \/ Example!Script[j].kind # "rows"
    BY <2>1, CallTyped
  <2> QED BY <1>3, <2>2
<1> QED BY <1>1, <1>2, <1>3

LEMMA ScriptSteps ==
    ASSUME ScriptOK, Example!Done \/ Example!Refused \/ Example!Fail
    PROVE  ScriptOK'
<1> DEFINE L == Len(Example!Script)
<1>1. status = "running"
  BY DEF Example!Done, Example!Refused, Example!Fail
<1>2. PICK k \in 0 .. L - 1 :
         /\ script = Remaining(k)
         /\ ~failed => \A j \in 1 .. k : Fulfilled(Example!Script[j])
  BY <1>1 DEF ScriptOK
<1> DEFINE h == Example!Script[k + 1]
<1>3. Head(script) = h
  BY <1>2, NextCall
<1>4. /\ h.kind \in {"database", "table", "rows"}
      /\ h.table \in Example!Names \/ h.kind = "database"
  <2>1. k + 1 \in 1 .. L
    BY ScriptShape
  <2> QED BY <2>1, CallTyped
<1> HIDE DEF h
<1>5. Example!Goes(Tail(script))
  BY DEF Example!Done, Example!Refused, Example!Fail, Example!AfterRefusal
<1>6. CASE Example!Possible(h) /\ Example!Effect(h)
  <2>1. /\ database' \in BOOLEAN /\ tables' \subseteq Example!Names
        /\ copies' \in [Example!Names -> Nat] /\ Example!SampleOnce'
        /\ \A s : s.table \in Example!Names \/ s.kind # "rows" =>
              (Fulfilled(s) => Fulfilled(s)')
        /\ Fulfilled(h)'
    BY <1>4, <1>6, EffectKeeps
  <2>2. ~failed' => ~failed
    BY DEF Example!Done, Example!Refused, Example!Fail
  <2>3. ~failed' => \A j \in 1 .. k + 1 : Fulfilled(Example!Script[j])'
    BY <1>2, <2>1, <2>2, OneMoreFulfilled DEF h
  <2> QED BY <1>1, <1>2, <1>5, <2>1, <2>3, GoesOn
<1>7. CASE UNCHANGED <<database, tables, copies>>
  <2>1. /\ database' \in BOOLEAN /\ tables' \subseteq Example!Names
        /\ copies' \in [Example!Names -> Nat] /\ Example!SampleOnce'
    BY <1>7 DEF ScriptOK, Example!SampleOnce
  <2>2. \A s : Fulfilled(s) => Fulfilled(s)'
    BY <1>7 DEF Fulfilled
  <2>3. ~failed' => ~failed /\ (Fulfilled(h) \/ ~Example!Possible(h))
    <3>1. CASE Example!Done
      <4>1. Example!Possible(h) /\ Example!Effect(h)
        BY <1>3, <3>1 DEF Example!Done
      <4>2. Fulfilled(h)'
        BY <1>4, <4>1, EffectKeeps
      <4> QED BY <1>7, <3>1, <4>2 DEF Fulfilled, Example!Done
    <3>2. CASE Example!Refused
      BY <1>3, <3>2 DEF Example!Refused
    <3>3. CASE Example!Fail
      BY <3>3 DEF Example!Fail
    <3> QED BY <3>1, <3>2, <3>3
  <2>4. ~failed' => Fulfilled(h)
    BY <1>2, <2>3, RefusedIsThere DEF h
  <2>5. ~failed' => \A j \in 1 .. k + 1 : Fulfilled(Example!Script[j])'
    BY <1>2, <2>2, <2>3, <2>4, OneMoreFulfilled DEF h
  <2> QED BY <1>1, <1>2, <1>5, <2>1, <2>5, GoesOn
<1> QED BY <1>3, <1>6, <1>7 DEF Example!Done, Example!Refused, Example!Fail

LEMMA ScriptStops ==
    ASSUME ScriptOK, Example!Stop
    PROVE  ScriptOK'
BY DEF ScriptOK, Example!Stop, Example!SampleOnce, Example!RerunCompletes

LEMMA ScriptInit ==
    ASSUME Example!Init
    PROVE  ScriptOK
<1>1. database = FALSE /\ tables = {} /\ status = "stopped"
  BY DEF Example!Init
<1>2. copies = [t \in Example!Names |-> 0]
  BY DEF Example!Init
<1>3. copies \in [Example!Names -> Nat] /\ \A t \in WithUnique : copies[t] <= 1
  BY <1>2, ScriptConstants
<1> QED BY <1>1, <1>3 DEF ScriptOK, Example!SampleOnce, Example!RerunCompletes

\* A run of the setup script whose calls are all answered completes what earlier
\* runs have left; sample rows with unique columns are inserted once, whatever
\* fails and however often the script is run.
THEOREM SetupIsSafe == Example!Spec => []SetupSafe
<1>1. Example!Init => ScriptOK
  BY ScriptInit
<1>2. ScriptOK /\ [Example!Next]_(Example!vars) => ScriptOK'
  <2> SUFFICES ASSUME ScriptOK, [Example!Next]_(Example!vars) PROVE ScriptOK'
    OBVIOUS
  <2>1. CASE Example!Next
    BY <2>1, ScriptStarts, ScriptSteps, ScriptStops DEF Example!Next
  <2>2. CASE UNCHANGED Example!vars
    BY <2>2 DEF Example!vars, ScriptOK, Example!SampleOnce, Example!RerunCompletes,
                Example!AllThere, Fulfilled
  <2> QED BY <2>1, <2>2
<1>3. ScriptOK => SetupSafe
  BY DEF ScriptOK, SetupSafe
<1> QED BY <1>1, <1>2, <1>3, PTL DEF Example!Spec
=============================================================================
