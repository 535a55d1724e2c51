------------------------------ MODULE Catalog ------------------------------
(***************************************************************************)
(* Names of tables.  A logical name (of the data API and of permissions)    *)
(* and a title in NocoDB are sequences of parts, of which only these        *)
(* matter: the prefix, a blank, a character the name rule forbids, and      *)
(* anything else.  Operators only; RecordAccess has the state.              *)
(***************************************************************************)
EXTENDS Naturals, Sequences, FiniteSets, SequencesExt

CONSTANTS TablePrefix,  \* the parts NOCODB_TABLE_PREFIX adds, perhaps none
          SystemTables, \* logical names of the internal tables
          MaxName,      \* bound of the name rule on the length
          None          \* no value

Forbidden == "/"
Space == " "

\* isValidTableName, the one rule for logical names.
isValidTableName(n) ==
    /\ Len(n) \in 1 .. MaxName
    /\ Forbidden \notin Range(n)
    /\ Head(n) # Space /\ Last(n) # Space

getPrefixedTableName(n) == TablePrefix \o n

\* What find returns: the first match; NocoDB does not say in which order the
\* tables are listed, but their titles are unique.
Entitled(tables, title) == {t \in tables : t.title = title}
Physical(tables, name) == {t \in tables : t.physical = name}

\* A slip: the physical name is looked at first.
ResolvePhysical(tables, n) ==
    LET name == getPrefixedTableName(n) IN
    IF Physical(tables, name) # {} THEN Physical(tables, name)
    ELSE IF Entitled(tables, name) # {} THEN Entitled(tables, name) ELSE {None}

\* getTableByName: the tables it may return.
Resolve(tables, n) ==
    LET name == getPrefixedTableName(n) IN
    IF Entitled(tables, name) # {} THEN Entitled(tables, name)
    ELSE IF Physical(tables, name) # {} THEN Physical(tables, name) ELSE {None}

\* listExternalTables, as pairs of table and logical name.
listExternalTables(tables) ==
    {[table |-> t, name |-> SubSeq(t.title, Len(TablePrefix) + 1, Len(t.title))] :
        t \in {x \in tables :
                 /\ IsPrefix(TablePrefix, x.title)
                 /\ LET n == SubSeq(x.title, Len(TablePrefix) + 1, Len(x.title)) IN
                    n \notin SystemTables /\ isValidTableName(n)}}
=============================================================================
