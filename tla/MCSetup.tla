------------------------------ MODULE MCSetup ------------------------------
(* A behaviour is one of the start of the middleware or of the setup script. *)
EXTENDS Setup

VARIABLE program

exampleVars == <<database, tables, copies, script, status, failed>>

MCExampleTables == <<"authors", "books", "users", "favorites">>
MCDefinitions == <<"users", "roles", "table_permissions">>
MCFields == [n \in Names |-> IF n = "users" THEN {"username", "email"}
                             ELSE IF n = "roles" THEN {"role_name"} ELSE {"role_id"}]
T(fs, l) == [fields |-> fs, legacy |-> l]
\* An empty base, one of an older version, one of version 0.7.
MCSchemas ==
    { [n \in {} |-> T({}, FALSE)],
      [n \in {"users", "roles"} |-> T({}, FALSE)],
      [n \in {"users", "table_permissions"} |-> T({}, n = "table_permissions")] }

MCInit == Init /\ Example!Init /\ program \in {"middleware", "example"}
MCNext ==
    /\ UNCHANGED program
    /\ \/ program = "middleware" /\ Next /\ UNCHANGED exampleVars
       \/ program = "example" /\ Example!Next /\ UNCHANGED vars
MCSpec == MCInit /\ [][MCNext]_<<program, vars, exampleVars>> /\ Fairness
=============================================================================
