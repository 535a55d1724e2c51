-------------------------- MODULE RequestPipeline --------------------------
(***************************************************************************)
(* The way of a request through the middleware, in the order of             *)
(* configureApp and of NestJS: rate limiter, NocoDbContextMiddleware,       *)
(* JwtAuthGuard with JwtStrategy, the guard of the controller, handler.     *)
(*                                                                          *)
(* pc of a request: "arrived", "routed", "authenticating" (NocoDB reads the *)
(* user), "authenticated", "deciding" (its permissions are loaded),         *)
(* "handling" and "idle" (answered).  Users and grants change meanwhile.    *)
(***************************************************************************)
EXTENDS Naturals, FiniteSets

CONSTANTS
    Requests,
    Users,
    Addresses,   \* [form : {"v4", "mapped", "v6"}, net, host]
    Tokens,      \* [valid, user (or None: no usable sub), roles, scope]
    Routes,      \* [guard, table, method]: the requests that are made
    Providers,   \* the values AUTH_PROVIDER may have
    IpMax, UserMax, AdminMax, \* requests per window
    MaxHits,     \* bound above each limit, at which hits stay
    Grants,      \* <<user, table, action>> that may be granted
    None

ASSUME PipelineAssumption ==
    /\ {IpMax, UserMax, AdminMax, MaxHits} \subseteq Nat /\ IpMax < MaxHits
    /\ \A t \in Tokens : t.user \in Users \cup {None}
    /\ None \notin Users /\ None # "ok"

SystemTables == {"users", "roles", "user_roles", "table_permissions"}
Malformed == "/"

VARIABLES
    provider, \* AUTH_PROVIDER
    req,    \* the requests
    hits,   \* the store of the limiters: requests of each key in its window
    status, \* users in NocoDB: "active", "inactive" or "missing"
    recent, \* grants that stood at some time within a cache lifetime
    steady, \* grants that stood all that time
    passed  \* history: requests each client had let through in its window

vars == <<provider, req, hits, status, recent, steady, passed>>

-----------------------------------------------------------------------------
(* Keys of the limiters *)

\* A slip: IPv4-mapped addresses are not made IPv4.
clientIpKeyMapped(a) ==
    IF a.form = "v6" THEN <<"v6", a.net>> ELSE <<a.form, a.net, a.host>>

\* IPv4-mapped addresses count as IPv4, IPv6 ones are grouped by network.
clientIpKey(a) ==
    IF a.form = "v6" THEN <<"v6", a.net>> ELSE <<"v4", a.net, a.host>>

userRateLimitKey(q) == IF q.user # None THEN <<"user", q.user>> ELSE clientIpKey(q.address)

\* The client an address belongs to, and its requests.
SameClient(a, b) ==
    a.net = b.net /\ (a.form = "v6" <=> b.form = "v6") /\ (a.form # "v6" => a.host = b.host)
Client(a) == {b \in Addresses : SameClient(a, b)}

Keys == {<<"user", u>> : u \in Users} \cup {clientIpKey(a) : a \in Addresses}
Clients == {Client(a) : a \in Addresses}

-----------------------------------------------------------------------------
(* What is entitled to what *)

METHOD_ACTIONS(method) ==
    CASE method = "GET" -> "read" [] method = "POST" -> "create"
      [] method = "PATCH" -> "update" [] method = "DELETE" -> "delete"
      [] OTHER -> None

\* What the handler of a method does; Express answers HEAD with that of GET.
Does(method) == IF method = "HEAD" THEN "read" ELSE METHOD_ACTIONS(method)

\* Scopes are [table, action], either of them perhaps "*".
hasScopePermission(scope, table, action) ==
    \E s \in scope : s.table \in {table, "*"} /\ s.action \in {action, "*"}

Permission(u, route) == <<u, route.table, Does(route.method)>>

\* The authority a request needs by its route, from its token or from NocoDB.
Bears(token, route) ==
    CASE route.guard = "roles" -> "admin" \in token.roles
      [] route.guard \in {"permissions", "table"} ->
            hasScopePermission(token.scope, route.table, Does(route.method))
      [] OTHER -> TRUE

-----------------------------------------------------------------------------
Idle == [pc |-> "idle", route |-> None, token |-> None, address |-> None, user |-> None,
         header |-> None, answer |-> None, active |-> FALSE, granted |-> FALSE]

Is(r, pc) == req[r].pc = pc
To(r, pc) == req' = [req EXCEPT ![r].pc = pc]

\* AllExceptionsFilter and NestJS: any exception becomes one answer.
Answer(r, answer) == req' = [req EXCEPT ![r].pc = "idle", ![r].answer = answer]

World == UNCHANGED <<status, recent, steady>>

Arrive(r, route, token, a) ==
    /\ Is(r, "idle")
    /\ req' = [req EXCEPT ![r] = [Idle EXCEPT
                  !.pc = "arrived", !.route = route, !.token = token, !.address = a,
                  !.active = token.user # None /\ status[token.user] = "active",
                  !.granted = Permission(token.user, route) \in recent]]
    /\ UNCHANGED <<hits, passed>> /\ World

Max(q) ==
    IF q.user = None THEN IpMax
    ELSE IF "admin" \in q.token.roles THEN AdminMax ELSE UserMax

\* A slip: a request over its limit is tried again, and not answered.
LimitRetried(r) ==
    /\ Is(r, "arrived")
    /\ LET k == userRateLimitKey(req[r]) IN
       /\ hits' = [hits EXCEPT ![k] = IF @ < MaxHits THEN @ + 1 ELSE @]
       /\ IF hits'[k] > Max(req[r])
          THEN UNCHANGED <<req, passed>>
          ELSE /\ To(r, "routed")
               /\ passed' = [passed EXCEPT ![Client(req[r].address)] = @ + 1]
    /\ World

\* RateLimitMiddleware.use: the limiter of the user, if there is one by now,
\* else that of the address.
Limit(r) ==
    /\ Is(r, "arrived")
    /\ LET k == userRateLimitKey(req[r]) IN
       /\ hits' = [hits EXCEPT ![k] = IF @ < MaxHits THEN @ + 1 ELSE @]
       /\ IF hits'[k] > Max(req[r])
          THEN Answer(r, "429") /\ UNCHANGED passed
          ELSE /\ To(r, "routed")
               /\ passed' = [passed EXCEPT ![Client(req[r].address)] = @ + 1]
    /\ World

\* The window of a key ends.
Elapse(k) ==
    /\ hits[k] > 0
    /\ hits' = [hits EXCEPT ![k] = 0]
    /\ passed' = [c \in Clients |-> IF \E a \in c : clientIpKey(a) = k THEN 0 ELSE passed[c]]
    /\ UNCHANGED req /\ World

\* NocoDbContextMiddleware sets its headers, then JwtAuthGuard lets public
\* routes through and checks the signature of the token of the others.
Route(r) ==
    /\ Is(r, "routed")
    /\ LET q == [req[r] EXCEPT !.header = req[r].user] IN
       req' = [req EXCEPT ![r] =
          IF q.route.guard = "public" THEN [q EXCEPT !.pc = "handling"]
          ELSE IF ~q.token.valid \/ q.token.user = None
               THEN [q EXCEPT !.pc = "idle", !.answer = "401"]
          ELSE [q EXCEPT !.pc = "authenticating"]]
    /\ UNCHANGED <<hits, passed>> /\ World

\* A slip: an inactive user is let in.
validateAny(r) ==
    /\ Is(r, "authenticating")
    /\ LET u == req[r].token.user IN
       IF provider = "external"
       THEN /\ status' = [status EXCEPT ![u] = IF @ = "missing" THEN "active" ELSE @]
            /\ req' = [req EXCEPT ![r].pc = "authenticated", ![r].user = u]
       ELSE /\ UNCHANGED status
            /\ IF status[u] # "missing"
               THEN req' = [req EXCEPT ![r].pc = "authenticated", ![r].user = u]
               ELSE Answer(r, "401")
    /\ UNCHANGED <<hits, passed, recent, steady>>

\* A slip: the user is not attached to the request.
validateUnattached(r) ==
    /\ Is(r, "authenticating")
    /\ IF status[req[r].token.user] = "active" THEN To(r, "authenticated") ELSE Answer(r, "401")
    /\ UNCHANGED <<hits, passed>> /\ World

\* JwtStrategy.validate: the user is read, or of an external identity created
\* when there is none (Provisioning has the steps), and must be active.
validate(r) ==
    /\ Is(r, "authenticating")
    /\ LET u == req[r].token.user
           found == IF provider = "external" /\ status[u] = "missing" THEN "active" ELSE status[u] IN
       /\ status' = [status EXCEPT ![u] = found]
       /\ req' = [q \in Requests |->
             IF q = r
             THEN IF found = "active"
                  THEN [req[r] EXCEPT !.pc = "authenticated", !.user = u, !.active = TRUE]
                  ELSE [req[r] EXCEPT !.pc = "idle", !.answer = "401"]
             ELSE [req[q] EXCEPT !.active = @ \/ (/\ req[q].pc # "idle"
                                                  /\ req[q].token.user = u
                                                  /\ found = "active")]]
    /\ UNCHANGED <<hits, passed, recent, steady>>

\* A slip: system tables are not looked for.
ClosedToMalformed(route) == route.guard = "table" /\ route.table = Malformed

\* What TablePermissionsGuard does not let through whatever the rights, and what
\* is refused; RolesGuard goes by the token.
Closed(route) == route.guard = "table" /\ route.table \in SystemTables \cup {Malformed}
Refused(q) ==
    \/ q.route.guard = "table" /\ METHOD_ACTIONS(q.route.method) = None
    \/ q.route.guard = "roles" /\ "admin" \notin q.token.roles

\* The guard of the controller as far as it needs no permissions: PermissionsGuard
\* and TablePermissionsGuard go by the scope of the token first.
Guard(r) ==
    /\ Is(r, "authenticated")
    /\ LET q == req[r] IN
       \/ Closed(q.route) /\ Answer(r, "404")
       \/ ~Closed(q.route) /\ Refused(q) /\ Answer(r, "403")
       \/ ~Closed(q.route) /\ ~Refused(q) /\ Bears(q.token, q.route) /\ To(r, "handling")
       \/ ~Closed(q.route) /\ ~Refused(q) /\ ~Bears(q.token, q.route) /\ To(r, "deciding")
    /\ UNCHANGED <<hits, passed>> /\ World

\* canUserPerformAction: as of some moment of the cache lifetime (this is what
\* PermissionsCache and Rbac are about).
Decide(r) ==
    /\ Is(r, "deciding")
    /\ LET p == Permission(req[r].user, req[r].route) IN
       \/ p \in recent /\ To(r, "handling")
       \/ p \notin steady /\ Answer(r, "403")
    /\ UNCHANGED <<hits, passed>> /\ World

Handle(r) ==
    /\ Is(r, "handling")
    /\ Answer(r, "ok")
    /\ UNCHANGED <<hits, passed>> /\ World

\* NocoDB fails, or is asked for a record that is not there.
Fail(r) ==
    /\ \E pc \in {"authenticating", "deciding", "handling"} : Is(r, pc)
    /\ Answer(r, "error")
    /\ UNCHANGED <<hits, passed>> /\ World

-----------------------------------------------------------------------------
(* Users and grants change, in NocoDB or by other requests. *)

ChangeStatus(u, s) ==
    /\ s # status[u]
    /\ status' = [status EXCEPT ![u] = s]
    /\ req' = [q \in Requests |-> [req[q] EXCEPT !.active =
                  @ \/ (req[q].pc # "idle" /\ req[q].token.user = u /\ s = "active")]]
    /\ UNCHANGED <<hits, passed, recent, steady>>

Grant(p) ==
    /\ p \notin recent
    /\ recent' = recent \cup {p}
    /\ req' = [q \in Requests |-> [req[q] EXCEPT !.granted =
                  @ \/ (req[q].pc # "idle" /\ Permission(req[q].token.user, req[q].route) = p)]]
    /\ UNCHANGED <<hits, passed, status, steady>>

Revoke(p) ==
    /\ p \in steady
    /\ steady' = steady \ {p}
    /\ UNCHANGED <<req, hits, passed, status, recent>>

\* A cache lifetime after the last change of p, whichever way it was, it is
\* known everywhere.
Known(p) ==
    /\ p \in recent \ steady
    /\ \/ recent' = recent \ {p} /\ UNCHANGED steady
       \/ steady' = steady \cup {p} /\ UNCHANGED recent
    /\ UNCHANGED <<req, hits, passed, status>>

-----------------------------------------------------------------------------
Init ==
    /\ provider \in Providers /\ req = [r \in Requests |-> Idle]
    /\ hits = [k \in Keys |-> 0] /\ passed = [c \in Clients |-> 0]
    /\ status \in [Users -> {"active", "missing"}]
    /\ recent = {} /\ steady = {}

Step(r) == Limit(r) \/ Route(r) \/ validate(r) \/ Guard(r) \/ Decide(r) \/ Handle(r) \/ Fail(r)

Change ==
    \/ \E u \in Users, s \in {"active", "inactive", "missing"} : ChangeStatus(u, s)
    \/ \E p \in Grants : Grant(p) \/ Revoke(p) \/ Known(p)

Next ==
    /\ \/ \E r \in Requests :
             \/ \E route \in Routes, token \in Tokens, a \in Addresses : Arrive(r, route, token, a)
             \/ Step(r)
       \/ \E k \in Keys : Elapse(k)
       \/ Change
    /\ UNCHANGED provider

Spec == Init /\ [][Next]_vars

\* The event loop runs each request on, and NocoDB answers or fails.
FairSpec == Spec /\ \A r \in Requests : WF_vars(Step(r) /\ UNCHANGED provider)

-----------------------------------------------------------------------------
(* Properties. *)

\* A request has a user once JwtStrategy let it in, and keys count requests.
TypeOK ==
    /\ \A r \in Requests :
          /\ req[r].user \in {None} \cup Users
          /\ req[r].pc \in {"authenticated", "deciding"} =>
                req[r].user # None /\ req[r].user = req[r].token.user
    /\ hits \in [Keys -> 0 .. MaxHits]
    /\ status \in [Users -> {"active", "inactive", "missing"}]
    /\ steady \subseteq recent /\ recent \subseteq Grants

\* Whatever changes while it is under way, a request that is served had a valid
\* token of a user who was active at some time since it arrived, and the right
\* its handler uses: by the token, or granted within a cache lifetime.
ServedEntitled ==
    \A r \in Requests :
        req[r].answer = "ok" /\ req[r].route.guard # "public" =>
            /\ req[r].token.valid /\ req[r].active
            /\ Bears(req[r].token, req[r].route) \/ req[r].granted

\* The data API serves no system table, whatever scopes and grants name it.
SystemTablesClosed ==
    \A r \in Requests :
        req[r].answer = "ok" /\ req[r].route.guard = "table" =>
            req[r].route.table \notin SystemTables

\* A request is answered by its handler only to a user it is for, and only about
\* tables that are not the middleware's own.
ServedRightly == TypeOK /\ ServedEntitled /\ SystemTablesClosed

\* No client gets more requests through in a window than its limit, however
\* many addresses of its network and forms of them it has.
ClientsLimited == \A c \in Clients : passed[c] <= IpMax

\* Every request is answered.
Answered == \A r \in Requests : req[r].pc # "idle" ~> req[r].pc = "idle"

\* app.setup.ts: the limiter runs with req.user available, so users have their
\* own limit (violated: the addresses of users are what is limited).
UsersHaveTheirLimit ==
    \A r \in Requests :
        req[r].answer = "429" /\ req[r].token.valid => req[r].token.user = None
            \/ hits[<<"user", req[r].token.user>>] > UserMax

\* nocodb-context.middleware.ts: JwtAuthGuard has run and attached the user
\* (violated: middleware runs before every guard).
ContextHasUser ==
    \A r \in Requests :
        req[r].answer = "ok" /\ req[r].route.guard # "public" => req[r].header # None
=============================================================================
