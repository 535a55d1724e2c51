----------------------- MODULE RequestPipelineProofs -----------------------
(***************************************************************************)
(* Proofs about RequestPipeline, for any number of requests, users, routes, *)
(* tokens and addresses: who is served is entitled to it, system tables     *)
(* stay closed to the data API, and no client exceeds its limit.            *)
(***************************************************************************)
EXTENDS RequestPipeline, TLAPS

Places == {"idle", "arrived", "routed", "authenticating", "authenticated", "deciding",
           "handling"}
Requested ==
    [pc : Places, route : Routes \cup {None}, token : Tokens \cup {None},
     address : Addresses \cup {None}, user : Users \cup {None}, header : Users \cup {None},
     answer : {None, "ok", "401", "403", "404", "429", "error"},
     active : BOOLEAN, granted : BOOLEAN]

\* Under way, a request has its route, token and address and no answer.
Begun(q) ==
    q.pc # "idle" => /\ q.route \in Routes /\ q.token \in Tokens /\ q.address \in Addresses
                     /\ q.answer = None

\* A right that stands is known to have stood since the request arrived.
Noticed(q, R) ==
    q.pc # "idle" /\ Permission(q.token.user, q.route) \in R => q.granted

\* Only JwtStrategy sets the user, and only of a valid token.
Authenticated(q) ==
    /\ q.pc \in {"arrived", "routed", "authenticating"} => q.user = None
    /\ q.pc \in {"authenticating", "authenticated", "deciding"} =>
          q.token.valid /\ q.token.user \in Users /\ q.route.guard # "public"
    /\ q.pc \in {"authenticated", "deciding"} => q.user = q.token.user /\ q.active

Reached(q) == q.pc = "handling" \/ q.answer = "ok"

\* What the handler does not look at any more.
Entitled(q) ==
    /\ Reached(q) /\ q.route.guard # "public" =>
          /\ q.token.valid /\ q.active
          /\ Bears(q.token, q.route) \/ q.granted
    /\ Reached(q) \/ q.pc = "deciding" =>
          (q.route.guard = "table" => q.route.table \notin SystemTables)

RequestOK(q, R) ==
    q \in Requested /\ Begun(q) /\ Noticed(q, R) /\ Authenticated(q) /\ Entitled(q)

RequestsOK ==
    /\ req \in [Requests -> Requested]
    /\ \A r \in Requests : RequestOK(req[r], recent)

WorldOK ==
    /\ status \in [Users -> {"active", "inactive", "missing"}]
    /\ steady \subseteq recent /\ recent \subseteq Grants

\* A client has got through no more often than its key counts.
CountsOK ==
    /\ hits \in [Keys -> 0 .. MaxHits]
    /\ passed \in [Clients -> Nat]
    /\ \A a \in Addresses : passed[Client(a)] <= hits[clientIpKey(a)]
    /\ ClientsLimited

IInv == RequestsOK /\ WorldOK /\ CountsOK

-----------------------------------------------------------------------------
(* Requests *)

\* A request that ends with an answer other than "ok" asks for nothing.
LEMMA AnsweredOK ==
    ASSUME NEW q \in Requested, NEW R, NEW a \in {"401", "403", "404", "429", "error"},
           NEW u \in Users \cup {None},
           PipelineAssumption
    PROVE  RequestOK([q EXCEPT !.pc = "idle", !.header = u, !.answer = a], R)
<1>1. [q EXCEPT !.pc = "idle", !.header = u, !.answer = a] \in Requested
  BY DEF Requested, Places
<1> QED
  BY <1>1 DEF RequestOK, Begun, Noticed, Authenticated, Entitled, Reached, Requested

\* That its user is active, or its right stands, harms no request.
LEMMA Sighted ==
    ASSUME NEW q \in Requested, NEW R, RequestOK(q, R), NEW b \in BOOLEAN
    PROVE  /\ RequestOK([q EXCEPT !.active = q.active \/ b], R)
           /\ RequestOK([q EXCEPT !.granted = q.granted \/ b], R)
<1> DEFINE act == [q EXCEPT !.active = q.active \/ b]
           gra == [q EXCEPT !.granted = q.granted \/ b]
<1>1. q.active \in BOOLEAN /\ q.granted \in BOOLEAN
  BY DEF Requested
<1>2. act \in Requested /\ gra \in Requested
  BY <1>1 DEF Requested
<1>3. /\ act.pc = q.pc /\ act.route = q.route /\ act.token = q.token
      /\ act.address = q.address /\ act.answer = q.answer /\ act.user = q.user
      /\ act.granted = q.granted /\ (q.active => act.active)
  BY <1>1 DEF Requested
<1>4. /\ gra.pc = q.pc /\ gra.route = q.route /\ gra.token = q.token
      /\ gra.address = q.address /\ gra.answer = q.answer /\ gra.user = q.user
      /\ gra.active = q.active /\ (q.granted => gra.granted)
  BY <1>1 DEF Requested
<1> HIDE DEF act, gra
<1>5. RequestOK(act, R)
  BY <1>2, <1>3 DEF RequestOK, Begun, Noticed, Authenticated, Entitled, Reached
<1>6. RequestOK(gra, R)
  BY <1>2, <1>4 DEF RequestOK, Begun, Noticed, Authenticated, Entitled, Reached
<1> QED BY <1>5, <1>6 DEF act, gra

\* It suffices to look at the request that goes on, if the rights stay or fall.
LEMMA OneMoves ==
    ASSUME RequestsOK, NEW r \in Requests, NEW q, RequestOK(q, recent),
           req' = [req EXCEPT ![r] = q], recent' \subseteq recent
    PROVE  RequestsOK'
<1>1. q \in Requested
  BY DEF RequestOK
<1>2. req' \in [Requests -> Requested]
  BY <1>1 DEF RequestsOK
<1>3. ASSUME NEW p \in Requests PROVE RequestOK(req'[p], recent)
  BY <1>3 DEF RequestsOK
<1>4. ASSUME NEW p \in Requests PROVE RequestOK(req'[p], recent')
  BY <1>3, <1>4 DEF RequestOK, Noticed
<1> QED BY <1>2, <1>4 DEF RequestsOK

LEMMA AnswerKeeps ==
    ASSUME RequestsOK, NEW r \in Requests, PipelineAssumption,
           NEW a \in {"401", "403", "404", "429", "error"},
           Answer(r, a), recent' \subseteq recent
    PROVE  RequestsOK'
<1> DEFINE q == [req[r] EXCEPT !.pc = "idle", !.header = req[r].header, !.answer = a]
<1>1. req[r] \in Requested /\ req[r].header \in Users \cup {None}
  BY DEF RequestsOK, Requested
<1>2. RequestOK(q, recent)
  BY <1>1, AnsweredOK
<1>3. q = [req[r] EXCEPT !.pc = "idle", !.answer = a]
  BY <1>1 DEF Requested
<1>4. req' = [req EXCEPT ![r] = q]
  BY <1>1, <1>3 DEF Answer, RequestsOK
<1> HIDE DEF q
<1> QED BY <1>2, <1>4, OneMoves

\* A request that goes on to p is well there.
LEMMA ToKeeps ==
    ASSUME RequestsOK, NEW r \in Requests, NEW p \in Places, To(r, p),
           RequestOK([req[r] EXCEPT !.pc = p], recent), recent' \subseteq recent
    PROVE  RequestsOK'
<1>1. req' = [req EXCEPT ![r] = [req[r] EXCEPT !.pc = p]]
  BY DEF To, RequestsOK
<1> QED BY <1>1, OneMoves

LEMMA InitOK == Init => RequestsOK /\ WorldOK /\ CountsOK /\ TypeOK
<1> SUFFICES ASSUME Init PROVE RequestsOK /\ WorldOK /\ CountsOK /\ TypeOK
  OBVIOUS
<1>1. Idle \in Requested /\ Idle.pc = "idle" /\ Idle.answer # "ok"
  BY PipelineAssumption DEF Idle, Requested, Places
<1>2. RequestOK(Idle, recent)
  BY <1>1 DEF RequestOK, Begun, Noticed, Authenticated, Entitled, Reached
<1>3. RequestsOK
  BY <1>1, <1>2 DEF Init, RequestsOK
<1>4. WorldOK
  BY DEF Init, WorldOK
<1>5. \A a \in Addresses : clientIpKey(a) \in Keys /\ Client(a) \in Clients
  BY DEF Keys, Clients
<1>6. CountsOK
  BY <1>5, PipelineAssumption DEF Init, CountsOK, ClientsLimited
<1>7. TypeOK
  BY <1>1, <1>3, <1>4, <1>6 DEF Init, TypeOK, WorldOK, CountsOK, RequestsOK, Requested
<1> QED BY <1>3, <1>4, <1>6, <1>7

LEMMA ArriveOK ==
    ASSUME RequestsOK, NEW r \in Requests, NEW route \in Routes, NEW token \in Tokens,
           NEW a \in Addresses, Arrive(r, route, token, a), PipelineAssumption
    PROVE  RequestsOK'
<1> DEFINE A == token.user # None /\ status[token.user] = "active"
           G == Permission(token.user, route) \in recent
           q == [Idle EXCEPT !.pc = "arrived", !.route = route, !.token = token,
                             !.address = a, !.active = A, !.granted = G]
<1>0. A \in BOOLEAN /\ G \in BOOLEAN
  OBVIOUS
<1>1. /\ q.pc = "arrived" /\ q.route = route /\ q.token = token /\ q.address = a
      /\ q.user = None /\ q.header = None /\ q.answer = None
      /\ q.granted = (Permission(token.user, route) \in recent)
  BY DEF Idle
<1>2. q \in Requested
  <2> HIDE DEF A, G
  <2> QED BY <1>0 DEF Idle, Requested, Places
<1>3. req' = [req EXCEPT ![r] = q] /\ recent' = recent
  BY DEF Arrive, World
<1> HIDE DEF q, A, G
<1>4. RequestOK(q, recent)
  BY <1>1, <1>2, PipelineAssumption
     DEF RequestOK, Begun, Noticed, Authenticated, Entitled, Reached
<1> QED BY <1>3, <1>4, OneMoves

LEMMA RouteOK ==
    ASSUME RequestsOK, NEW r \in Requests, Route(r), PipelineAssumption
    PROVE  RequestsOK'
<1>0. RequestOK(req[r], recent) /\ req[r] \in Requested /\ req[r].pc = "routed"
  BY DEF RequestsOK, Route, Is
<1>1. req[r].header \in Users \cup {None} /\ req[r].user \in Users \cup {None}
  BY <1>0 DEF Requested
<1> DEFINE q == [req[r] EXCEPT !.header = req[r].user]
           n == IF q.route.guard = "public" THEN [q EXCEPT !.pc = "handling"]
                ELSE IF ~q.token.valid \/ q.token.user = None
                THEN [q EXCEPT !.pc = "idle", !.answer = "401"]
                ELSE [q EXCEPT !.pc = "authenticating"]
<1>2. req' = [req EXCEPT ![r] = n] /\ recent' = recent
  BY DEF Route, World
<1>3. RequestOK(n, recent)
  <2>1. CASE req[r].route.guard = "public"
    <3>1. n = [req[r] EXCEPT !.header = req[r].user, !.pc = "handling"]
      BY <2>1, <1>0 DEF Requested
    <3>2. n \in Requested
      BY <3>1, <1>0, <1>1 DEF Requested, Places
    <3>3. /\ n.pc = "handling" /\ n.answer = None /\ n.route = req[r].route
          /\ n.token = req[r].token /\ n.address = req[r].address
          /\ n.granted = req[r].granted /\ n.active = req[r].active
      BY <3>1, <1>0 DEF Requested, RequestOK, Begun
    <3> HIDE DEF n
    <3> QED
      BY <2>1, <3>2, <3>3, <1>0, PipelineAssumption
         DEF RequestOK, Begun, Noticed, Authenticated, Entitled, Reached
  <2>2. CASE req[r].route.guard # "public" /\ (~req[r].token.valid \/ req[r].token.user = None)
    <3>1. n = [req[r] EXCEPT !.pc = "idle", !.header = req[r].user, !.answer = "401"]
      BY <2>2, <1>0 DEF Requested
    <3> HIDE DEF n
    <3> QED BY <3>1, <1>0, <1>1, AnsweredOK, PipelineAssumption
  <2>3. CASE req[r].route.guard # "public" /\ req[r].token.valid /\ req[r].token.user # None
    <3>1. n = [req[r] EXCEPT !.header = req[r].user, !.pc = "authenticating"]
      BY <2>3, <1>0 DEF Requested
    <3>2. n \in Requested
      BY <3>1, <1>0, <1>1 DEF Requested, Places
    <3>3. /\ n.pc = "authenticating" /\ n.answer = None /\ n.route = req[r].route
          /\ n.token = req[r].token /\ n.address = req[r].address /\ n.user = req[r].user
          /\ n.granted = req[r].granted /\ n.active = req[r].active
      BY <3>1, <1>0 DEF Requested, RequestOK, Begun
    <3> HIDE DEF n
    <3>4. n.token.user \in Users
      BY <2>3, <3>3, <1>0, PipelineAssumption DEF RequestOK, Begun
    <3> QED
      BY <2>3, <3>2, <3>3, <3>4, <1>0, PipelineAssumption
         DEF RequestOK, Begun, Noticed, Authenticated, Entitled, Reached
  <2> HIDE DEF n
  <2> QED BY <2>1, <2>2, <2>3
<1> HIDE DEF n
<1> QED BY <1>2, <1>3, OneMoves

\* Others may notice that the user is active.
LEMMA validateOK ==
    ASSUME RequestsOK, WorldOK, NEW r \in Requests, validate(r), PipelineAssumption
    PROVE  RequestsOK' /\ WorldOK'
<1>0. /\ RequestOK(req[r], recent) /\ req[r] \in Requested
      /\ req[r].pc = "authenticating" /\ req[r].token.user \in Users
  BY DEF RequestsOK, validate, Is, RequestOK, Authenticated
<1> DEFINE u == req[r].token.user
           found == IF provider = "external" /\ status[u] = "missing" THEN "active"
                    ELSE status[u]
           let == [req[r] EXCEPT !.pc = "authenticated", !.user = u, !.active = TRUE]
           no == [req[r] EXCEPT !.pc = "idle", !.answer = "401"]
           seen(q) == [req[q] EXCEPT !.active = @ \/ (/\ req[q].pc # "idle"
                                                     /\ req[q].token.user = u
                                                     /\ found = "active")]
<1>1. /\ status' = [status EXCEPT ![u] = found]
      /\ req' = [q \in Requests |->
             IF q = r THEN IF found = "active" THEN let ELSE no ELSE seen(q)]
      /\ UNCHANGED <<recent, steady>>
  BY DEF validate
<1>2. WorldOK'
  <2>1. found \in {"active", "inactive", "missing"}
    BY <1>0 DEF WorldOK
  <2> HIDE DEF u, found
  <2> QED BY <1>1, <2>1 DEF WorldOK
<1>3. RequestOK(let, recent)
  <2>1. let \in Requested
    BY <1>0 DEF Requested, Places
  <2>2. /\ let.pc = "authenticated" /\ let.user = u /\ let.active = TRUE
        /\ let.route = req[r].route /\ let.token = req[r].token
        /\ let.address = req[r].address /\ let.answer = req[r].answer
        /\ let.granted = req[r].granted
    BY <1>0 DEF Requested
  <2> HIDE DEF let
  <2> QED
    BY <2>1, <2>2, <1>0, PipelineAssumption
       DEF RequestOK, Begun, Noticed, Authenticated, Entitled, Reached
<1>4. RequestOK(no, recent)
  <2>1. req[r].header \in Users \cup {None}
    BY <1>0 DEF Requested
  <2>2. no = [req[r] EXCEPT !.pc = "idle", !.header = req[r].header, !.answer = "401"]
    BY <1>0 DEF Requested
  <2> HIDE DEF no
  <2> QED BY <1>0, <2>1, <2>2, AnsweredOK, PipelineAssumption
<1>5. ASSUME NEW p \in Requests PROVE RequestOK(seen(p), recent)
  <2>1. req[p] \in Requested /\ RequestOK(req[p], recent)
    BY <1>5 DEF RequestsOK
  <2>2. PICK b \in BOOLEAN : seen(p) = [req[p] EXCEPT !.active = req[p].active \/ b]
    OBVIOUS
  <2> HIDE DEF seen
  <2> QED BY <2>1, <2>2, Sighted
<1> HIDE DEF let, no, seen, found, u
<1>6. \A p \in Requests : RequestOK(req'[p], recent')
  BY <1>1, <1>3, <1>4, <1>5
<1>7. req' \in [Requests -> Requested]
  BY <1>1, <1>3, <1>4, <1>5 DEF RequestOK
<1> QED BY <1>2, <1>6, <1>7 DEF RequestsOK

\* The guards let on who bears what the route asks for, and never about a
\* system table.
LEMMA GuardOK ==
    ASSUME RequestsOK, NEW r \in Requests, Guard(r), PipelineAssumption
    PROVE  RequestsOK'
<1>0. /\ RequestOK(req[r], recent) /\ req[r] \in Requested
      /\ req[r].pc = "authenticated" /\ recent' \subseteq recent
  BY DEF RequestsOK, Guard, Is, World
<1> DEFINE q == req[r]
           closed == q.route.guard = "table" /\ q.route.table \in SystemTables
<1>1. \/ \E a \in {"403", "404"} : Answer(r, a)
      \/ To(r, "handling") /\ Bears(q.token, q.route) /\ ~closed
      \/ To(r, "deciding") /\ ~closed
  BY DEF Guard, Closed
<1>2. CASE \E a \in {"403", "404"} : Answer(r, a)
  BY <1>0, <1>2, AnswerKeeps, PipelineAssumption
<1>3. ASSUME NEW p \in {"handling", "deciding"}, To(r, p), ~closed,
             p = "handling" => Bears(q.token, q.route)
      PROVE  RequestsOK'
  <2> DEFINE n == [q EXCEPT !.pc = p]
  <2>1. n \in Requested
    BY <1>0 DEF Requested, Places
  <2>2. /\ n.pc = p /\ n.answer = q.answer /\ n.route = q.route /\ n.token = q.token
        /\ n.address = q.address /\ n.user = q.user /\ n.granted = q.granted
        /\ n.active = q.active
    BY <1>0 DEF Requested
  <2> HIDE DEF n
  <2>3. RequestOK(n, recent)
    BY <2>1, <2>2, <1>0, <1>3, PipelineAssumption
       DEF RequestOK, Begun, Noticed, Authenticated, Entitled, Reached
  <2> QED BY <2>3, <1>0, <1>3, ToKeeps DEF n, Places
<1> QED BY <1>1, <1>2, <1>3

\* Permissions are decided on those that stood since the request arrived.
LEMMA DecideOK ==
    ASSUME RequestsOK, NEW r \in Requests, Decide(r), PipelineAssumption
    PROVE  RequestsOK'
<1>0. /\ RequestOK(req[r], recent) /\ req[r] \in Requested
      /\ req[r].pc = "deciding" /\ recent' \subseteq recent
  BY DEF RequestsOK, Decide, Is, World
<1> DEFINE q == req[r]
<1>1. \/ Answer(r, "403")
      \/ To(r, "handling") /\ Permission(q.user, q.route) \in recent
  BY DEF Decide
<1>2. CASE Answer(r, "403")
  BY <1>0, <1>2, AnswerKeeps, PipelineAssumption
<1>3. CASE To(r, "handling") /\ Permission(q.user, q.route) \in recent
  <2> DEFINE n == [q EXCEPT !.pc = "handling"]
  <2>1. n \in Requested
    BY <1>0 DEF Requested, Places
  <2>2. /\ n.pc = "handling" /\ n.answer = q.answer /\ n.route = q.route
        /\ n.token = q.token /\ n.address = q.address /\ n.user = q.user
        /\ n.granted = q.granted /\ n.active = q.active
    BY <1>0 DEF Requested
  <2>3. q.user = q.token.user /\ q.granted
    BY <1>0, <1>3 DEF RequestOK, Authenticated, Noticed
  <2> HIDE DEF n
  <2>4. RequestOK(n, recent)
    BY <2>1, <2>2, <2>3, <1>0, PipelineAssumption
       DEF RequestOK, Begun, Noticed, Authenticated, Entitled, Reached
  <2> QED BY <2>4, <1>0, <1>3, ToKeeps DEF n, Places
<1> QED BY <1>1, <1>2, <1>3

LEMMA HandleOK ==
    ASSUME RequestsOK, NEW r \in Requests, Handle(r), PipelineAssumption
    PROVE  RequestsOK'
<1>0. /\ RequestOK(req[r], recent) /\ req[r] \in Requested
      /\ req[r].pc = "handling" /\ recent' \subseteq recent
  BY DEF RequestsOK, Handle, Is, World
<1> DEFINE n == [req[r] EXCEPT !.pc = "idle", !.answer = "ok"]
<1>1. n \in Requested
  BY <1>0 DEF Requested, Places
<1>2. /\ n.pc = "idle" /\ n.answer = "ok" /\ n.route = req[r].route
      /\ n.token = req[r].token /\ n.granted = req[r].granted /\ n.active = req[r].active
  BY <1>0 DEF Requested
<1>3. req' = [req EXCEPT ![r] = n]
  BY <1>0 DEF Handle, Answer, RequestsOK
<1> HIDE DEF n
<1>4. RequestOK(n, recent)
  BY <1>1, <1>2, <1>0 DEF RequestOK, Begun, Noticed, Authenticated, Entitled, Reached
<1> QED BY <1>0, <1>3, <1>4, OneMoves

LEMMA LimitOK ==
    ASSUME RequestsOK, NEW r \in Requests, Limit(r), PipelineAssumption
    PROVE  RequestsOK'
<1>0. /\ RequestOK(req[r], recent) /\ req[r] \in Requested
      /\ req[r].pc = "arrived" /\ recent' \subseteq recent
  BY DEF RequestsOK, Limit, Is, World
<1>1. CASE Answer(r, "429")
  BY <1>0, <1>1, AnswerKeeps, PipelineAssumption
<1>2. CASE To(r, "routed")
  <2> DEFINE n == [req[r] EXCEPT !.pc = "routed"]
  <2>1. n \in Requested
    BY <1>0 DEF Requested, Places
  <2>2. /\ n.pc = "routed" /\ n.answer = req[r].answer /\ n.route = req[r].route
        /\ n.token = req[r].token /\ n.address = req[r].address /\ n.user = req[r].user
        /\ n.granted = req[r].granted /\ n.active = req[r].active
    BY <1>0 DEF Requested
  <2> HIDE DEF n
  <2>3. RequestOK(n, recent)
    BY <2>1, <2>2, <1>0, PipelineAssumption
       DEF RequestOK, Begun, Noticed, Authenticated, Entitled, Reached
  <2> QED BY <2>3, <1>0, <1>2, ToKeeps DEF n, Places
<1> QED BY <1>1, <1>2 DEF Limit

\* A request that is under way notices that its user becomes active.
LEMMA StatusOK ==
    ASSUME RequestsOK, WorldOK, NEW u \in Users, NEW s \in {"active", "inactive", "missing"},
           ChangeStatus(u, s)
    PROVE  RequestsOK' /\ WorldOK'
<1> DEFINE seen(q) == [req[q] EXCEPT !.active =
                         @ \/ (req[q].pc # "idle" /\ req[q].token.user = u /\ s = "active")]
<1>1. req' = [q \in Requests |-> seen(q)] /\ UNCHANGED <<recent, steady>>
  BY DEF ChangeStatus
<1>2. WorldOK'
  BY DEF ChangeStatus, WorldOK
<1>3. ASSUME NEW p \in Requests PROVE RequestOK(seen(p), recent)
  <2>1. req[p] \in Requested /\ RequestOK(req[p], recent)
    BY <1>3 DEF RequestsOK
  <2>2. PICK b \in BOOLEAN : seen(p) = [req[p] EXCEPT !.active = req[p].active \/ b]
    OBVIOUS
  <2> HIDE DEF seen
  <2> QED BY <2>1, <2>2, Sighted
<1> HIDE DEF seen
<1>4. req' \in [Requests -> Requested] /\ \A p \in Requests : RequestOK(req'[p], recent')
  BY <1>1, <1>3 DEF RequestOK
<1> QED BY <1>2, <1>4 DEF RequestsOK

\* A request that is under way notices that its right is granted.
LEMMA GrantOK ==
    ASSUME RequestsOK, WorldOK, NEW p \in Grants, Grant(p)
    PROVE  RequestsOK' /\ WorldOK'
<1> DEFINE noticed(q) == req[q].pc # "idle" /\ Permission(req[q].token.user, req[q].route) = p
           seen(q) == [req[q] EXCEPT !.granted =
               @ \/ (req[q].pc # "idle" /\ Permission(req[q].token.user, req[q].route) = p)]
<1>1. req' = [q \in Requests |-> seen(q)] /\ recent' = recent \cup {p}
  BY DEF Grant
<1>2. WorldOK'
  BY DEF Grant, WorldOK
<1>3. ASSUME NEW q \in Requests PROVE RequestOK(seen(q), recent')
  <2>1. req[q] \in Requested /\ RequestOK(req[q], recent) /\ req[q].granted \in BOOLEAN
    BY <1>3 DEF RequestsOK, Requested
  <2>2. PICK b \in BOOLEAN : /\ seen(q) = [req[q] EXCEPT !.granted = req[q].granted \/ b]
                             /\ b = noticed(q)
    OBVIOUS
  <2>3. RequestOK(seen(q), recent)
    <3> HIDE DEF seen, noticed
    <3> QED BY <2>1, <2>2, Sighted
  <2>4. /\ seen(q).pc = req[q].pc /\ seen(q).route = req[q].route
        /\ seen(q).token = req[q].token /\ seen(q).granted = (req[q].granted \/ b)
    <3> HIDE DEF seen, noticed
    <3> QED BY <2>1, <2>2 DEF Requested
  <2>5. Noticed(seen(q), recent')
    <3>1. b \/ (seen(q).pc # "idle" => Permission(seen(q).token.user, seen(q).route) # p)
      BY <2>2, <2>4
    <3> HIDE DEF seen, noticed
    <3> QED BY <1>1, <2>3, <2>4, <3>1 DEF RequestOK, Noticed
  <2> HIDE DEF seen, noticed
  <2> QED BY <2>3, <2>5 DEF RequestOK
<1> HIDE DEF seen, noticed
<1>4. req' \in [Requests -> Requested] /\ \A q \in Requests : RequestOK(req'[q], recent')
  BY <1>1, <1>3 DEF RequestOK
<1> QED BY <1>2, <1>4 DEF RequestsOK

LEMMA RightsOK ==
    ASSUME RequestsOK, WorldOK, NEW p \in Grants, Revoke(p) \/ Known(p)
    PROVE  RequestsOK' /\ WorldOK'
<1>1. req' = req /\ status' = status /\ recent' \subseteq recent
  BY DEF Revoke, Known
<1>2. WorldOK'
  BY DEF Revoke, Known, WorldOK
<1>3. RequestsOK'
  BY <1>1 DEF RequestsOK, RequestOK, Noticed
<1> QED BY <1>2, <1>3

-----------------------------------------------------------------------------
(* Counts *)

\* The addresses of a client share a key, and each belongs to its client.
LEMMA KeysAgree ==
    ASSUME NEW a \in Addresses, NEW b \in Addresses
    PROVE  /\ a \in Client(a) /\ Client(a) \in Clients /\ clientIpKey(a) \in Keys
           /\ Client(a) = Client(b) => clientIpKey(a) = clientIpKey(b)
<1>1. a \in Client(a) /\ b \in Client(b)
  BY DEF Client, SameClient
<1>2. b \in Client(a) => clientIpKey(a) = clientIpKey(b)
  BY DEF Client, SameClient, clientIpKey
<1> QED BY <1>1, <1>2 DEF Clients, Keys

\* A request is counted at the key of its client before it is let through.
LEMMA LimitCounts ==
    ASSUME RequestsOK, CountsOK, NEW r \in Requests, Limit(r), PipelineAssumption
    PROVE  CountsOK'
<1> DEFINE a == req[r].address
           k == clientIpKey(a)
<1>1. a \in Addresses /\ req[r].user = None
  BY DEF RequestsOK, RequestOK, Begun, Authenticated, Limit, Is
<1>2. userRateLimitKey(req[r]) = k /\ Max(req[r]) = IpMax
  BY <1>1 DEF userRateLimitKey, Max
<1>3. k \in Keys /\ Client(a) \in Clients
  BY <1>1, KeysAgree
<1>4. hits' = [hits EXCEPT ![k] = IF hits[k] < MaxHits THEN hits[k] + 1 ELSE hits[k]]
  BY <1>2 DEF Limit
<1>5. \/ passed' = passed
      \/ hits'[k] <= IpMax /\ passed' = [passed EXCEPT ![Client(a)] = passed[Client(a)] + 1]
  <2>1. hits'[k] \in 0 .. MaxHits
    BY <1>3, <1>4, PipelineAssumption DEF CountsOK
  <2>2. \/ hits'[k] > IpMax /\ passed' = passed
        \/ ~(hits'[k] > IpMax) /\ passed' = [passed EXCEPT ![Client(a)] = passed[Client(a)] + 1]
    BY <1>2 DEF Limit
  <2> QED BY <2>1, <2>2, PipelineAssumption
<1> HIDE DEF k
<1>6. hits' \in [Keys -> 0 .. MaxHits]
  BY <1>3, <1>4, PipelineAssumption DEF CountsOK
<1>7. passed' \in [Clients -> Nat]
  BY <1>3, <1>5 DEF CountsOK
<1>8. ASSUME NEW b \in Addresses PROVE passed'[Client(b)] <= hits'[clientIpKey(b)]
  <2>1. clientIpKey(b) \in Keys /\ Client(b) \in Clients
    BY <1>8, KeysAgree
  <2>2. passed[Client(b)] <= hits[clientIpKey(b)] /\ hits[clientIpKey(b)] \in 0 .. MaxHits
    BY <1>8, <2>1 DEF CountsOK
  <2>3. hits[clientIpKey(b)] <= hits'[clientIpKey(b)]
    BY <1>3, <1>4, <2>1, <2>2, PipelineAssumption DEF CountsOK
  <2>4. CASE passed'[Client(b)] = passed[Client(b)]
    BY <1>6, <2>1, <2>2, <2>3, <2>4, PipelineAssumption DEF CountsOK
  <2>5. CASE passed'[Client(b)] # passed[Client(b)]
    <3>1. Client(b) = Client(a) /\ hits'[k] <= IpMax
          /\ passed'[Client(b)] = passed[Client(b)] + 1
      BY <1>3, <1>5, <2>1, <2>5 DEF CountsOK
    <3>2. clientIpKey(b) = k
      BY <1>1, <1>8, <3>1, KeysAgree DEF k
    <3>3. hits'[k] = hits[k] + 1
      BY <1>3, <1>4, <3>1, PipelineAssumption DEF CountsOK
    <3> QED BY <2>1, <2>2, <3>1, <3>2, <3>3 DEF CountsOK
  <2> QED BY <2>4, <2>5
<1>9. ASSUME NEW c \in Clients PROVE passed'[c] <= IpMax
  <2>1. passed[c] <= IpMax /\ passed[c] \in Nat
    BY DEF CountsOK, ClientsLimited
  <2>2. CASE passed'[c] # passed[c]
    <3>1. c = Client(a) /\ hits'[k] <= IpMax
      BY <1>3, <1>5, <2>2 DEF CountsOK
    <3>2. passed'[c] <= hits'[k]
      BY <1>1, <1>8, <3>1 DEF k
    <3> QED BY <1>3, <1>6, <1>7, <3>1, <3>2, PipelineAssumption
  <2> QED BY <2>1, <2>2
<1> QED BY <1>6, <1>7, <1>8, <1>9 DEF CountsOK, ClientsLimited

\* With the window of a key that of its clients ends.
LEMMA ElapseCounts ==
    ASSUME CountsOK, NEW k \in Keys, Elapse(k), PipelineAssumption
    PROVE  CountsOK'
<1>1. hits' = [hits EXCEPT ![k] = 0] /\ hits' \in [Keys -> 0 .. MaxHits]
  BY PipelineAssumption DEF Elapse, CountsOK
<1>2. \A c \in Clients : passed'[c] \in {0, passed[c]}
  BY DEF Elapse
<1>3. passed' \in [Clients -> Nat] /\ ClientsLimited'
  <2>1. passed' \in [Clients -> Nat]
    BY DEF Elapse, CountsOK
  <2> QED BY <1>2, <2>1, PipelineAssumption DEF CountsOK, ClientsLimited
<1>4. ASSUME NEW a \in Addresses PROVE passed'[Client(a)] <= hits'[clientIpKey(a)]
  <2>1. a \in Client(a) /\ clientIpKey(a) \in Keys /\ Client(a) \in Clients
    BY <1>4, KeysAgree
  <2>2. CASE clientIpKey(a) = k
    <3>1. passed'[Client(a)] = 0
      BY <2>1, <2>2 DEF Elapse
    <3> QED BY <1>1, <2>1, <3>1
  <2>3. CASE clientIpKey(a) # k
    <3>1. hits'[clientIpKey(a)] = hits[clientIpKey(a)]
      BY <1>1, <2>1, <2>3 DEF CountsOK
    <3> QED BY <1>1, <1>2, <2>1, <3>1 DEF CountsOK
  <2> QED BY <2>2, <2>3
<1> QED BY <1>1, <1>3, <1>4 DEF CountsOK

-----------------------------------------------------------------------------
(* Steps *)

LEMMA StepOK ==
    ASSUME IInv, NEW r \in Requests, Step(r), PipelineAssumption
    PROVE  IInv'
<1> USE DEF IInv
<1>1. CASE Limit(r)
  <2>1. WorldOK'
    BY <1>1 DEF Limit, World, WorldOK
  <2> QED BY <1>1, <2>1, LimitOK, LimitCounts
<1>2. ASSUME UNCHANGED <<hits, passed>> PROVE CountsOK'
  BY <1>2 DEF CountsOK, ClientsLimited
<1>3. ASSUME World PROVE WorldOK'
  BY <1>3 DEF World, WorldOK
<1>4. CASE Route(r)
  BY <1>2, <1>3, <1>4, RouteOK DEF Route
<1>5. CASE validate(r)
  BY <1>2, <1>5, validateOK DEF validate
<1>6. CASE Guard(r)
  BY <1>2, <1>3, <1>6, GuardOK DEF Guard
<1>7. CASE Decide(r)
  BY <1>2, <1>3, <1>7, DecideOK DEF Decide
<1>8. CASE Handle(r)
  BY <1>2, <1>3, <1>8, HandleOK DEF Handle
<1>9. CASE Fail(r)
  <2>1. Answer(r, "error") /\ World
    BY <1>9 DEF Fail
  <2>2. RequestsOK'
    BY <2>1, AnswerKeeps DEF World
  <2> QED BY <1>2, <1>3, <1>9, <2>1, <2>2 DEF Fail
<1> QED BY <1>1, <1>4, <1>5, <1>6, <1>7, <1>8, <1>9 DEF Step

LEMMA NextOK ==
    ASSUME IInv, [Next]_vars, PipelineAssumption
    PROVE  IInv'
<1> USE DEF IInv
<1>1. ASSUME UNCHANGED <<hits, passed>> PROVE CountsOK'
  BY <1>1 DEF CountsOK, ClientsLimited
<1>2. ASSUME NEW r \in Requests, NEW route \in Routes, NEW token \in Tokens,
             NEW a \in Addresses, Arrive(r, route, token, a)
      PROVE  IInv'
  <2>1. WorldOK'
    BY <1>2 DEF Arrive, World, WorldOK
  <2> QED BY <1>1, <1>2, <2>1, ArriveOK DEF Arrive
<1>3. ASSUME NEW k \in Keys, Elapse(k) PROVE IInv'
  <2>1. RequestsOK' /\ WorldOK'
    BY <1>3 DEF Elapse, World, RequestsOK, WorldOK
  <2> QED BY <1>3, <2>1, ElapseCounts
<1>4. ASSUME NEW u \in Users, NEW s \in {"active", "inactive", "missing"}, ChangeStatus(u, s)
      PROVE  IInv'
  BY <1>1, <1>4, StatusOK DEF ChangeStatus
<1>5. ASSUME NEW p \in Grants, Grant(p) \/ Revoke(p) \/ Known(p) PROVE IInv'
  BY <1>1, <1>5, GrantOK, RightsOK DEF Grant, Revoke, Known
<1>6. CASE UNCHANGED vars
  BY <1>6 DEF vars, RequestsOK, WorldOK, CountsOK, ClientsLimited
<1> QED BY <1>2, <1>3, <1>4, <1>5, <1>6, StepOK DEF Next, Change

\* What holds of each request and of each client, in every state: this is what
\* the theorems below are read off.
THEOREM Inductive == Spec => []IInv
<1>1. Init => IInv
  BY InitOK DEF IInv
<1>2. IInv /\ [Next]_vars => IInv'
  BY NextOK, PipelineAssumption
<1> QED BY <1>1, <1>2, PTL DEF Spec

\* The way of a request through limiter, JwtStrategy and guard ends in the
\* handler only if its token is valid, its user was active and the right the
\* handler uses stood meanwhile, and never with a system table.
THEOREM Served == Spec => []ServedRightly
<1>1. IInv => TypeOK
  <2> SUFFICES ASSUME IInv PROVE TypeOK
    OBVIOUS
  <2>1. ASSUME NEW r \in Requests
        PROVE  /\ req[r].user \in {None} \cup Users
               /\ req[r].pc \in {"authenticated", "deciding"} =>
                     req[r].user # None /\ req[r].user = req[r].token.user
    BY <2>1, PipelineAssumption DEF IInv, RequestsOK, RequestOK, Requested, Authenticated
  <2> QED BY <2>1 DEF IInv, WorldOK, CountsOK, TypeOK
<1>2. IInv => ServedEntitled /\ SystemTablesClosed
  BY DEF IInv, RequestsOK, RequestOK, Entitled, Reached, ServedEntitled, SystemTablesClosed
<1>3. IInv => ServedRightly
  BY <1>1, <1>2 DEF ServedRightly
<1> QED BY <1>3, Inductive, PTL

\* The limiter, which counts every request at the key of its client before it
\* lets it through, lets no client exceed its limit in a window.
THEOREM LimitsHold == Spec => []ClientsLimited
<1>1. IInv => ClientsLimited
  BY DEF IInv, CountsOK
<1> QED BY <1>1, Inductive, PTL
=============================================================================
