----------------------------- MODULE MCRecords -----------------------------
(* A behaviour is one of the parts of Records, chosen in Init.  The access   *)
(* has three scenarios: the catalog, with one request; one table and two     *)
(* requests; and fewer calls, where the liveness of the cache is checked.    *)
EXTENDS Records

VARIABLES part

MCTablePrefix == <<"p">>
MCSystemTables == {<<"users">>}
\* A user table, an internal one, and names that must not get through.
MCPaths == {<<"t">>, <<"users">>, <<"t", "/">>, <<" ">>}
\* With and without the prefix, internal, forbidden, and one title that is the
\* physical name of another table.
MCTitles == {<<"t">>, <<"p", "t">>, <<"p", "users">>, <<"p">>, <<"p", "t", " ">>,
             <<"p", "p", "t">>}
MCBodies == {{}, {"id"}, {"a"}}

routeVars == <<responses, request, answer>>
pageVars == <<listed, born, roles, reader, reading>>

MCInit ==
    /\ Init /\ Routes!Init /\ Pages!Init
    /\ part \in {"routes", "catalog", "records", "settling", "pages"}
    /\ part # "pages" => listed = {}

\* One request, and tables of all names, whose fields stay.
Naming ==
    \/ \E p \in Paths : Start(1, "read", p, 1, {})
    \/ Step(1) \/ Fail(1)
    \/ Change /\ \A t \in tables' : t.writable = {} /\ t.managed = {"a"}

\* Two requests and one table; one of the requests makes records.  Where time
\* shows that the cache settles, the other does so as well.
Calls == IF part = "settling" THEN {"create"} ELSE Ops
Inputs == IF part = "settling" THEN {{"a"}} ELSE Bodies
Record ==
    /\ \/ \E op \in Calls, b \in Inputs : Start(1, op, <<"t">>, 1, b)
       \/ Start(2, "create", <<"t">>, 1, {"a"})
       \/ \E r \in Requests : Step(r) \/ Fail(r)
       \/ CreateTable(<<"p", "t">>, <<"p", "t">>)
       \/ \E t \in tables : \/ DropTable(t)
                            \/ \E w, m \in SUBSET {"a"} : ChangeFields(t, w, m)
       \/ Tick \/ Crash
    /\ nextTable' <= 2

MCNext ==
    /\ UNCHANGED part
    /\ \/ part = "routes" /\ Routes!Next /\ UNCHANGED <<vars, pageVars>>
       \/ part = "catalog" /\ Naming /\ UNCHANGED <<routeVars, pageVars>>
       \/ part \in {"records", "settling"} /\ Record /\ UNCHANGED <<routeVars, pageVars>>
       \/ part = "pages" /\ Pages!Next /\ UNCHANGED <<routeVars, vars>>
MCSpec ==
    /\ MCInit /\ [][MCNext]_<<part, vars, routeVars, pageVars>>
    /\ WF_vars(part = "settling" /\ Tick)
    /\ \A r \in Requests : WF_vars(part = "settling" /\ (Step(r) \/ Fail(r)))
    /\ WF_pageVars(part = "pages" /\ Pages!Reader)

\* When changes of the tables are over, what the cache serves comes to be what
\* the tables are; and listAll ends, though every full page is followed by
\* another call.
Settles ==
    /\ part = "settling" => CacheSettles
    /\ part = "pages" => Pages!ListingEnds
=============================================================================
