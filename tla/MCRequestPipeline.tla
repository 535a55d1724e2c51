------------------------- MODULE MCRequestPipeline -------------------------
(* Scenarios, one chosen in Init for the whole behaviour: "rights", one      *)
(* request on every route with every token; "addresses", two requests of    *)
(* many addresses; "answers", two requests while rights change, of which    *)
(* liveness is checked.                                                     *)
EXTENDS RequestPipeline

VARIABLE scenario

MCToken(valid, user, roles, scope) ==
    [valid |-> valid, user |-> user, roles |-> roles, scope |-> scope]
Plain == MCToken(TRUE, 1, {}, {})
\* A user with no rights of its own, one with a scope, an administrator.
MCTokens ==
    {Plain, MCToken(TRUE, 1, {"admin"}, {[table |-> "*", action |-> "*"]}),
     MCToken(TRUE, 1, {}, {[table |-> "t", action |-> "read"]}),
     MCToken(TRUE, None, {}, {}), MCToken(FALSE, 1, {}, {})}

MCRoute(guard, table, method) == [guard |-> guard, table |-> table, method |-> method]
Public == MCRoute("public", None, "GET")
Patch == MCRoute("table", "t", "PATCH")
\* One route of each guard, and the data API with what its guard tells apart.
MCRoutes ==
    {Public, MCRoute("roles", None, "POST"), MCRoute("jwt", None, "GET"),
     MCRoute("permissions", "roles", "GET"),
     MCRoute("table", "t", "GET"), Patch, MCRoute("table", "t", "HEAD"),
     MCRoute("table", "users", "GET"), MCRoute("table", Malformed, "GET")}
MCGrants == {<<1, "t", "read">>, <<1, "t", "update">>, <<1, "roles", "read">>}

MCAddress(form, net, host) == [form |-> form, net |-> net, host |-> host]
Here == MCAddress("v4", 1, 1)
\* One client by IPv4 in both forms, and a network of IPv6 with two hosts.
MCAddresses == {Here, MCAddress("mapped", 1, 1), MCAddress("v6", 2, 1), MCAddress("v6", 2, 2)}

MCArrive ==
    \/ /\ scenario = "rights"
       /\ \E route \in Routes, token \in Tokens : Arrive(1, route, token, Here)
    \/ /\ scenario = "addresses"
       /\ \E r \in Requests, a \in Addresses : Arrive(r, Public, Plain, a)
    \/ /\ scenario = "answers"
       /\ \E r \in Requests, route \in {Public, Patch} : Arrive(r, route, Plain, Here)

MCChange ==
    \/ scenario = "rights" /\ Change
    \/ /\ scenario = "answers"
       /\ \/ \E s \in {"active", "inactive", "missing"} : ChangeStatus(1, s)
          \/ LET p == <<1, "t", "update">> IN Grant(p) \/ Revoke(p) \/ Known(p)

MCInit == Init /\ scenario \in {"rights", "addresses", "answers"}
MCNext ==
    /\ \/ MCArrive \/ MCChange
       \/ \E r \in Requests : Step(r)
       \/ \E k \in Keys : Elapse(k)
    /\ UNCHANGED <<provider, scenario>>
MCSpec ==
    /\ MCInit /\ [][MCNext]_<<vars, scenario>>
    /\ \A r \in Requests : WF_vars(scenario = "answers" /\ Step(r) /\ UNCHANGED provider)

\* Every request is answered.
RequestsAnswered == scenario = "answers" => Answered
=============================================================================
