------------------------ MODULE ProvisioningProofs ------------------------
(***************************************************************************)
(* Proofs about Provisioning, for any requests, tokens, bodies and roles:   *)
(* the tables stay whole, roles are left out by interruptions only, who was *)
(* deactivated is not admitted, and identities are unique as long as        *)
(* requests come one at a time.                                             *)
(***************************************************************************)
EXTENDS Provisioning, TLAPS

Claims == {Normalize(t) : t \in Tokens}
Ids == {u.id : u \in users}
RoleNames == UNION {d.roles : d \in LocalUsers}
UserIds == (1 .. MaxUsers) \cup {t.number : t \in Tokens} \cup {None}

Identifying == {"findSubject", "findEmail", "updateUser", "linkUser", "createIdentity"}
Creating == {"findUsername", "findUserEmail", "createUser"}
Assigning == {"findRole", "findAssignment", "assign"}
Bootstrapping == {"findName", "findMail", "findAdmin", "createAdmin"}
Promoting == {"findAdminRole", "assignAdmin"}
Places ==
    {"idle", "readUser", "setStatus"} \cup Identifying \cup Creating \cup Assigning
    \cup Bootstrapping \cup Promoting

Locals ==
    [arg : Claims \cup LocalUsers \cup Admins \cup BOOLEAN \cup {None},
     first : Rows \cup {None}, second : Rows \cup {None}, user : UserIds,
     todo : SUBSET RoleNames, role : RoleNames \cup {None},
     result : {None, "admitted", "rejected", "failed", "done"},
     barred : SUBSET (1 .. MaxUsers)]

\* What a request at p has in its locals, when there are rows of the ids I.
Prepared(p, l, I) ==
    /\ p \in Identifying \cup {"readUser"} => l.arg \in Claims
    /\ p \in Creating => l.arg \in LocalUsers
    /\ p \in Bootstrapping => l.arg \in Admins
    /\ p = "setStatus" => l.arg \in BOOLEAN
    /\ l.first # None => l.first.id \in I
    /\ l.second # None => l.second.id \in I
    /\ p = "updateUser" => l.first # None
    /\ p = "linkUser" => l.second # None
    /\ p \in Assigning \cup Promoting => l.user \in I
    /\ p \in {"findAssignment", "assign"} => l.role \in Roles
    /\ p \in Promoting \cup {"createAdmin"} => "admin" \in Roles

\* Who was barred when a request began still is, unless activated since, and
\* no activation of anybody barred (B) is under way.
Guarded(p, l, B) ==
    /\ l.barred \subseteq B
    /\ p = "setStatus" /\ l.arg = TRUE => l.user \notin B
    /\ p # "idle" => l.result = None
    /\ l.result = "admitted" => l.user \notin l.barred

RequestOK(p, l, I, B) == Prepared(p, l, I) /\ Guarded(p, l, B)

RequestsOK ==
    /\ pc \in [Requests -> Places] /\ local \in [Requests -> Locals]
    /\ \A r \in Requests : RequestOK(pc[r], local[r], Ids, barred)

TablesOK ==
    /\ users \subseteq Rows
    /\ nextUser \in 1 .. MaxUsers + 1
    /\ \A u \in users : u.id < nextUser
    /\ \A u, v \in users : u.id = v.id => u = v
    /\ userRoles \subseteq Ids \X Roles
    /\ provider \in {"local", "external"}
    /\ barred \subseteq Ids
    /\ \A u \in users : u.id \in barred => ~u.active

\* Roles that were asked for (a) are assigned (A), cut off, or still to be assigned.
Assigned(a, A) == \A n \in a.roles \cap Roles : <<a.user, n>> \in A
Pending(a, p, l, A) ==
    /\ p \in Assigning /\ l.user = a.user
    /\ \A n \in a.roles \cap Roles :
          <<a.user, n>> \in A \/ n \in l.todo \/ (p # "findRole" /\ n = l.role)
AskedOK ==
    \A a \in asked :
        \/ a.user \in broken \/ Assigned(a, userRoles)
        \/ \E r \in Requests : Pending(a, pc[r], local[r], userRoles)

IInv == TablesOK /\ RequestsOK /\ AskedOK

-----------------------------------------------------------------------------
(* Data *)

LEMMA Typed ==
    ASSUME ProvisioningAssumption
    PROVE  /\ \A c \in Claims : c.subject \in Texts /\ c.email \in Texts /\ c.username \in Texts
           /\ \A c \in Claims : c.number \in UserIds
           /\ \A d \in LocalUsers : /\ d.username \in Texts /\ d.email \in Texts
                                    /\ d.active \in BOOLEAN /\ d.roles \in SUBSET RoleNames
           /\ \A d \in Admins : d.username \in Texts /\ d.email \in Texts
           /\ None \in Texts
<1>1. \A d \in LocalUsers \cup Admins : d.username \in Texts /\ d.email \in Texts
  BY DEF Texts
<1>2. \A t \in Tokens : /\ t.sub \in Texts /\ t.email \in Texts /\ t.preferred \in Texts
                        /\ t.username \in Texts
  BY DEF Texts
<1>3. None \in Texts
  BY DEF Texts
<1>4. ASSUME NEW t \in Tokens
      PROVE  LET c == Normalize(t) IN
             /\ c.subject \in Texts /\ c.email \in Texts /\ c.username \in Texts
             /\ c.number \in UserIds
  BY <1>2, <1>3 DEF Normalize, Coerce, Or, UserIds
<1>5. \A d \in LocalUsers : d.active \in BOOLEAN /\ d.roles \in SUBSET RoleNames
  BY DEF ProvisioningAssumption, RoleNames
<1> QED BY <1>1, <1>3, <1>4, <1>5 DEF Claims

LEMMA RowFound ==
    ASSUME TablesOK, NEW id \in Ids
    PROVE  /\ Row(id) \in users /\ Row(id) \in Rows /\ Row(id).id = id
           /\ \A u \in users : u.id = id => u = Row(id)
BY DEF TablesOK, Row, Ids

\* A new row has an id of its own.
LEMMA Inserted ==
    ASSUME TablesOK, NEW row \in Rows, row.id = nextUser, Insert(row),
           UNCHANGED <<userRoles, provider, barred>>
    PROVE  /\ TablesOK' /\ Ids' = Ids \cup {nextUser} /\ nextUser \notin Ids
           /\ nextUser \in 1 .. MaxUsers
<1>1. nextUser \in 1 .. MaxUsers /\ nextUser \notin Ids
  BY DEF Insert, TablesOK, Ids
<1>2. Ids' = Ids \cup {nextUser}
  BY DEF Insert, Ids
<1>3. \A u \in users' : u.id < nextUser'
  BY <1>1 DEF Insert, TablesOK, Rows
<1>4. \A u, v \in users' : u.id = v.id => u = v
  BY <1>1 DEF Insert, TablesOK, Ids
<1>5. \A u \in users' : u.id \in barred' => ~u.active
  BY <1>1 DEF Insert, TablesOK
<1>6. nextUser' \in 1 .. MaxUsers + 1 /\ users' \subseteq Rows
  BY <1>1, ProvisioningAssumption DEF Insert, TablesOK, ProvisioningAssumption
<1> QED BY <1>1, <1>2, <1>3, <1>4, <1>5, <1>6 DEF TablesOK

\* A row is replaced by one of its id, active only if that is not barred.
LEMMA Replaced ==
    ASSUME TablesOK, NEW id \in Ids, NEW row \in Rows, row.id = id, Replace(id, row),
           UNCHANGED <<userRoles, provider, nextUser>>,
           barred' \subseteq barred \cup {id}, id \in barred' => ~row.active
    PROVE  TablesOK' /\ Ids' = Ids
<1>1. Row(id) \in users /\ Row(id).id = id /\ \A u \in users : u.id = id => u = Row(id)
  BY RowFound
<1>2. \A u \in users' : u = row \/ (u \in users /\ u.id # id)
  BY <1>1 DEF Replace
<1>3. Ids' = Ids
  <2>1. Ids' \subseteq Ids
    BY <1>2 DEF Ids
  <2>2. Ids \subseteq Ids'
    <3> SUFFICES ASSUME NEW u \in users PROVE u.id \in Ids'
      BY DEF Ids
    <3>1. row \in users' /\ (u # Row(id) => u \in users')
      BY DEF Replace
    <3> QED BY <1>1, <3>1 DEF Ids
  <2> QED BY <2>1, <2>2
<1>4. \A u \in users' : u.id < nextUser'
  BY <1>1, <1>2 DEF TablesOK
<1>5. \A u, v \in users' : u.id = v.id => u = v
  BY <1>2 DEF TablesOK
<1>6. \A u \in users' : u.id \in barred' => ~u.active
  BY <1>2 DEF TablesOK
<1>7. users' \subseteq Rows
  BY <1>2 DEF TablesOK
<1> QED BY <1>3, <1>4, <1>5, <1>6, <1>7 DEF TablesOK

-----------------------------------------------------------------------------
(* Requests *)

\* It suffices to look at the request that moves.
LEMMA Moves ==
    ASSUME RequestsOK, NEW r \in Requests, NEW p \in Places, NEW l \in Locals,
           Await(r, p, l), Ids \subseteq Ids', barred' = barred,
           RequestOK(p, l, Ids', barred)
    PROVE  RequestsOK'
<1>1. pc' \in [Requests -> Places] /\ local' \in [Requests -> Locals]
  BY DEF RequestsOK, Await, Goto
<1>2. ASSUME NEW q \in Requests PROVE RequestOK(pc'[q], local'[q], Ids', barred')
  <2>1. CASE q = r
    BY <2>1 DEF RequestsOK, Await, Goto
  <2>2. CASE q # r
    BY <2>2 DEF RequestsOK, Await, Goto, RequestOK, Prepared
  <2> QED BY <2>1, <2>2
<1> QED BY <1>1, <1>2 DEF RequestsOK

Ended(l, result, id) ==
    [Blank EXCEPT !.result = result, !.user = id, !.barred = l.barred]

LEMMA EndedOK ==
    ASSUME ProvisioningAssumption, NEW l \in Locals, NEW id \in UserIds,
           NEW result \in {"admitted", "rejected", "failed", "done"},
           NEW I, NEW B, l.barred \subseteq B, result = "admitted" => id \notin l.barred
    PROVE  Ended(l, result, id) \in Locals /\ RequestOK("idle", Ended(l, result, id), I, B)
<1> DEFINE e == Ended(l, result, id)
<1>1. /\ e.arg = None /\ e.first = None /\ e.second = None /\ e.user = id /\ e.todo = {}
      /\ e.role = None /\ e.result = result /\ e.barred = l.barred
  BY DEF Ended, Blank
<1>2. e \in Locals
  BY DEF Ended, Blank, Locals
<1> HIDE DEF e
<1>3. RequestOK("idle", e, I, B)
  BY <1>1 DEF RequestOK, Prepared, Guarded, Identifying, Creating, Assigning,
              Bootstrapping, Promoting
<1> QED BY <1>2, <1>3 DEF e

LEMMA Ends ==
    ASSUME ProvisioningAssumption, RequestsOK, NEW r \in Requests, NEW id \in UserIds,
           NEW result \in {"admitted", "rejected", "failed", "done"},
           Finish(r, result, id), Ids \subseteq Ids', barred' = barred,
           result = "admitted" => id \notin local[r].barred
    PROVE  RequestsOK'
<1>1. local[r] \in Locals /\ RequestOK(pc[r], local[r], Ids, barred)
  BY DEF RequestsOK
<1>2. local[r].barred \subseteq barred
  BY <1>1 DEF RequestOK, Guarded
<1> DEFINE e == Ended(local[r], result, id)
<1>3. Await(r, "idle", e)
  BY DEF Finish, Ended
<1>4. e \in Locals /\ RequestOK("idle", e, Ids', barred)
  BY <1>1, <1>2, EndedOK
<1> HIDE DEF e
<1> QED BY <1>3, <1>4, Moves DEF Places

\* A request begins: it looks at nothing yet.
Fresh(l, a, s, b) ==
    /\ l \in Locals /\ l.arg = a /\ l.result = s /\ l.barred = b
    /\ l.first = None /\ l.second = None

LEMMA FreshOK ==
    ASSUME ProvisioningAssumption, NEW B \in SUBSET (1 .. MaxUsers),
           NEW a \in Claims \cup LocalUsers \cup Admins, NEW s \in {None, "rejected"}
    PROVE  /\ Fresh([Blank EXCEPT !.arg = a, !.barred = B], a, None, B)
           /\ Fresh([Blank EXCEPT !.arg = a], a, None, {})
           /\ Fresh([Blank EXCEPT !.arg = a, !.result = s], a, s, {})
           /\ Fresh([Blank EXCEPT !.result = "rejected"], None, "rejected", {})
<1>1. Fresh([Blank EXCEPT !.arg = a, !.barred = B], a, None, B)
  BY DEF Fresh, Blank, Locals, UserIds
<1>2. Fresh([Blank EXCEPT !.arg = a], a, None, {})
  BY DEF Fresh, Blank, Locals, UserIds
<1>3. Fresh([Blank EXCEPT !.arg = a, !.result = s], a, s, {})
  BY DEF Fresh, Blank, Locals, UserIds
<1>4. Fresh([Blank EXCEPT !.result = "rejected"], None, "rejected", {})
  BY DEF Fresh, Blank, Locals, UserIds
<1> QED BY <1>1, <1>2, <1>3, <1>4

LEMMA BeginsOK ==
    ASSUME ProvisioningAssumption, NEW I, NEW B, NEW a, NEW b \in SUBSET B,
           NEW s \in {None, "rejected"}, NEW l, Fresh(l, a, s, b)
    PROVE  /\ l \in Locals
           /\ RequestOK("idle", l, I, B)
           /\ s = None /\ a \in Claims => RequestOK("findSubject", l, I, B)
           /\ s = None /\ a \in Claims => RequestOK("readUser", l, I, B)
           /\ s = None /\ a \in LocalUsers => RequestOK("findUsername", l, I, B)
           /\ s = None /\ a \in Admins => RequestOK("findName", l, I, B)
BY DEF Fresh, RequestOK, Prepared, Guarded, Identifying, Creating, Assigning,
       Bootstrapping, Promoting, ProvisioningAssumption

\* Roles that are asked for are looked after by the request that moves, if it
\* did, or by the others as before.
LEMMA AskedKept ==
    ASSUME AskedOK, RequestsOK, NEW r \in Requests, NEW p, NEW l, Await(r, p, l),
           broken \subseteq broken', userRoles \subseteq userRoles',
           \A a \in asked : Pending(a, pc[r], local[r], userRoles) =>
               a.user \in broken' \/ Assigned(a, userRoles') \/ Pending(a, p, l, userRoles'),
           \A a \in asked' \ asked :
               a.user \in broken' \/ Assigned(a, userRoles') \/ Pending(a, p, l, userRoles')
    PROVE  AskedOK'
<1>1. pc'[r] = p /\ local'[r] = l
  BY DEF Await, Goto, RequestsOK
<1>2. ASSUME NEW q \in Requests, q # r PROVE pc'[q] = pc[q] /\ local'[q] = local[q]
  BY <1>2 DEF Await, Goto, RequestsOK
<1>3. ASSUME NEW a \in asked
      PROVE  \/ a.user \in broken' \/ Assigned(a, userRoles')
             \/ \E q \in Requests : Pending(a, pc'[q], local'[q], userRoles')
  <2>1. CASE a.user \in broken \/ Assigned(a, userRoles)
    BY <2>1 DEF Assigned
  <2>2. ASSUME NEW q \in Requests, q # r, Pending(a, pc[q], local[q], userRoles)
        PROVE  Pending(a, pc'[q], local'[q], userRoles')
    BY <1>2, <2>2 DEF Pending
  <2>3. CASE Pending(a, pc[r], local[r], userRoles)
    BY <1>1, <2>3
  <2> QED BY <2>1, <2>2, <2>3 DEF AskedOK
<1> QED BY <1>1, <1>3 DEF AskedOK

LEMMA AskedOthers ==
    ASSUME AskedOK, RequestsOK, NEW r \in Requests, NEW p, NEW l, Await(r, p, l),
           pc[r] \notin Assigning, UNCHANGED <<broken, asked>>, userRoles \subseteq userRoles'
    PROVE  AskedOK'
<1>1. \A a \in asked : ~Pending(a, pc[r], local[r], userRoles)
  BY DEF Pending
<1> QED BY <1>1, AskedKept

\* What steps leave alone that only read.
Same == UNCHANGED <<users, userRoles, nextUser, provider, asked, broken, barred>>

LEMMA GoesOn ==
    ASSUME IInv, NEW r \in Requests, NEW p \in Places, NEW l \in Locals, Await(r, p, l), Same,
           pc[r] \notin Assigning, RequestOK(p, l, Ids, barred)
    PROVE  IInv'
<1>1. Ids' = Ids
  BY DEF Same, Ids
<1>2. TablesOK'
  BY <1>1 DEF IInv, Same, TablesOK
<1>3. RequestsOK'
  BY <1>1, Moves DEF IInv, Same
<1>4. AskedOK'
  BY AskedOthers DEF IInv, Same
<1> QED BY <1>2, <1>3, <1>4 DEF IInv

LEMMA Stops ==
    ASSUME ProvisioningAssumption, IInv, NEW r \in Requests, NEW id \in UserIds,
           NEW result \in {"admitted", "rejected", "failed", "done"}, Same,
           Finish(r, result, id), pc[r] \notin Assigning,
           result = "admitted" => id \notin local[r].barred
    PROVE  IInv'
<1>1. Ids' = Ids
  BY DEF Same, Ids
<1>2. TablesOK'
  BY <1>1 DEF IInv, Same, TablesOK
<1>3. RequestsOK'
  BY <1>1, Ends DEF IInv, Same
<1>4. AskedOK'
  BY AskedOthers DEF IInv, Same, Finish
<1> QED BY <1>2, <1>3, <1>4 DEF IInv

-----------------------------------------------------------------------------
(* Steps *)

\* An activation forgets who was barred; nobody can have been admitted wrongly.
LEMMA StartSetStatusOK ==
    ASSUME ProvisioningAssumption, IInv, NEW r \in Requests, NEW id \in 1 .. MaxUsers,
           NEW flag \in BOOLEAN, StartSetStatus(r, id, flag)
    PROVE  IInv'
<1> DEFINE forget == IF flag THEN {id} ELSE {}
           l == [Blank EXCEPT !.user = id, !.arg = flag]
           k(q) == [local[q] EXCEPT !.barred = @ \ forget]
<1>1. /\ barred' = barred \ forget
      /\ local' = [q \in Requests |-> IF q = r THEN l ELSE k(q)]
      /\ pc' = [pc EXCEPT ![r] = "setStatus"] /\ pc[r] = "idle"
      /\ UNCHANGED <<users, userRoles, nextUser, provider, asked, broken>>
  BY DEF StartSetStatus, Goto, tables
<1>2. Ids' = Ids
  BY <1>1 DEF Ids
<1>3. TablesOK'
  BY <1>1, <1>2 DEF IInv, TablesOK
<1>4. l \in Locals /\ RequestOK("setStatus", l, Ids, barred \ forget)
  <2>1. /\ l.arg = flag /\ l.first = None /\ l.second = None /\ l.user = id /\ l.todo = {}
        /\ l.role = None /\ l.result = None /\ l.barred = {}
    BY DEF Blank
  <2>2. l \in Locals
    BY DEF Blank, Locals, UserIds
  <2>3. flag = TRUE => id \in forget
    OBVIOUS
  <2> HIDE DEF l, forget
  <2> QED
    BY <2>1, <2>2, <2>3, ProvisioningAssumption
       DEF RequestOK, Prepared, Guarded, Identifying, Creating, Assigning,
           Bootstrapping, Promoting, ProvisioningAssumption
<1>5. ASSUME NEW q \in Requests
      PROVE  /\ k(q) \in Locals /\ RequestOK(pc[q], k(q), Ids, barred \ forget)
             /\ k(q).user = local[q].user /\ k(q).todo = local[q].todo
             /\ k(q).role = local[q].role
  <2>1. local[q] \in Locals /\ RequestOK(pc[q], local[q], Ids, barred)
    BY <1>5 DEF IInv, RequestsOK
  <2>2. /\ k(q).arg = local[q].arg /\ k(q).first = local[q].first
        /\ k(q).second = local[q].second /\ k(q).user = local[q].user
        /\ k(q).todo = local[q].todo /\ k(q).role = local[q].role
        /\ k(q).result = local[q].result /\ k(q).barred = local[q].barred \ forget
    BY <2>1 DEF Locals
  <2>3. k(q) \in Locals
    BY <2>1 DEF Locals
  <2> HIDE DEF k, forget
  <2> QED BY <2>1, <2>2, <2>3 DEF RequestOK, Prepared, Guarded
<1> HIDE DEF l, k, forget
<1>6. RequestsOK'
  <2>1. pc' \in [Requests -> Places] /\ local' \in [Requests -> Locals]
    BY <1>1, <1>4, <1>5 DEF IInv, RequestsOK, Places
  <2>2. \A q \in Requests : RequestOK(pc'[q], local'[q], Ids', barred')
    BY <1>1, <1>2, <1>4, <1>5 DEF IInv, RequestsOK
  <2> QED BY <2>1, <2>2 DEF RequestsOK
<1>7. AskedOK'
  <2>1. ASSUME NEW a \in asked, NEW q \in Requests, Pending(a, pc[q], local[q], userRoles)
        PROVE  Pending(a, pc'[q], local'[q], userRoles)
    <3>1. q # r
      BY <1>1, <2>1 DEF Pending, Assigning
    <3>2. pc'[q] = pc[q] /\ local'[q] = k(q)
      BY <1>1, <2>1, <3>1 DEF IInv, RequestsOK
    <3> QED BY <1>5, <2>1, <3>2 DEF Pending
  <2> QED BY <1>1, <2>1 DEF IInv, AskedOK
<1> QED BY <1>3, <1>6, <1>7 DEF IInv

LEMMA CallOK ==
    ASSUME ProvisioningAssumption, IInv, NEW r \in Requests, Call(r)
    PROVE  IInv'
<1>0. barred \in SUBSET (1 .. MaxUsers)
  BY DEF IInv, TablesOK, Ids, Rows
<1>a. barred \in SUBSET barred /\ {} \in SUBSET barred /\ None \in {None, "rejected"}
  OBVIOUS
<1>1. ASSUME NEW op, NEW p \in Places, NEW l \in Locals, Begin(r, op, p, l),
             UNCHANGED barred, RequestOK(p, l, Ids, barred)
      PROVE  IInv'
  <2>1. Same /\ Await(r, p, l) /\ pc[r] \notin Assigning
    BY <1>1 DEF Begin, Same, tables, Assigning
  <2> QED BY <1>1, <2>1, GoesOn
<1>2. ASSUME NEW t \in Tokens, StartValidate(r, t) PROVE IInv'
  <2> DEFINE c == Normalize(t)
  <2>1. c \in Claims
    BY DEF Claims
  <2>2. /\ \/ Begin(r, "validate", "idle", [Blank EXCEPT !.result = "rejected"])
           \/ \E p \in {"findSubject", "readUser"} :
                 Begin(r, "validate", p, [Blank EXCEPT !.arg = c, !.barred = barred])
        /\ UNCHANGED barred
    BY <1>2 DEF StartValidate
  <2> DEFINE l == [Blank EXCEPT !.arg = c, !.barred = barred]
             e == [Blank EXCEPT !.result = "rejected"]
  <2>3. Fresh(l, c, None, barred) /\ Fresh(e, None, "rejected", {})
    BY <1>0, <2>1, FreshOK
  <2> HIDE DEF c, l, e
  <2>4. ASSUME NEW op, Begin(r, op, "idle", e) PROVE IInv'
    <3>1. e \in Locals /\ RequestOK("idle", e, Ids, barred)
      BY <1>a, <2>3, BeginsOK
    <3> QED BY <1>1, <2>2, <2>4, <3>1 DEF Places
  <2>5. ASSUME NEW op, NEW p \in {"findSubject", "readUser"}, Begin(r, op, p, l) PROVE IInv'
    <3>0. /\ l \in Locals /\ RequestOK("findSubject", l, Ids, barred)
          /\ RequestOK("readUser", l, Ids, barred)
      BY <1>a, <2>1, <2>3, BeginsOK
    <3>1. l \in Locals /\ RequestOK(p, l, Ids, barred)
      BY <2>5, <3>0
    <3> QED BY <1>1, <2>2, <2>5, <3>1 DEF Places, Identifying
  <2> QED BY <2>2, <2>4, <2>5 DEF l, e
<1>3. ASSUME NEW d \in LocalUsers, StartLocal(r, d) PROVE IInv'
  <2> DEFINE l == [Blank EXCEPT !.arg = d]
  <2>1. Begin(r, "local", "findUsername", l) /\ UNCHANGED barred
    BY <1>3 DEF StartLocal
  <2>2. Fresh(l, d, None, {})
    BY <1>0, FreshOK
  <2> HIDE DEF l
  <2>3. l \in Locals /\ RequestOK("findUsername", l, Ids, barred)
    BY <1>a, <2>2, BeginsOK
  <2> QED BY <1>1, <2>1, <2>3 DEF Places, Creating
<1>4. ASSUME NEW d \in Admins, NEW ok \in BOOLEAN, StartBootstrap(r, d, ok) PROVE IInv'
  <2> DEFINE s == IF ok THEN None ELSE "rejected"
             p == IF ok THEN "findName" ELSE "idle"
             l == [Blank EXCEPT !.arg = d, !.result = s]
  <2>1. Begin(r, "bootstrap", p, l) /\ UNCHANGED barred
    BY <1>4 DEF StartBootstrap
  <2>2. s \in {None, "rejected"} /\ p \in {"findName", "idle"} /\ (p = "findName" => s = None)
    OBVIOUS
  <2> HIDE DEF s, p
  <2>3. Fresh(l, d, s, {})
    BY <1>0, <2>2, FreshOK
  <2> HIDE DEF l
  <2>4. l \in Locals /\ RequestOK(p, l, Ids, barred)
    <3>1. l \in Locals /\ RequestOK("idle", l, Ids, barred)
      BY <2>2, <2>3, ProvisioningAssumption
         DEF Fresh, RequestOK, Prepared, Guarded, Identifying, Creating, Assigning,
             Bootstrapping, Promoting, ProvisioningAssumption
    <3>2. CASE p = "findName"
      <4>1. s = None
        BY <2>2, <3>2
      <4>2. RequestOK("findName", l, Ids, barred)
        BY <1>a, <2>2, <2>3, <4>1, BeginsOK
      <4> QED BY <3>1, <3>2, <4>2
    <3> QED BY <2>2, <3>1, <3>2
  <2> QED BY <1>1, <2>1, <2>2, <2>4 DEF Places, Bootstrapping
<1> QED BY <1>2, <1>3, <1>4, StartSetStatusOK DEF Call

LEMMA ReadUserOK ==
    ASSUME ProvisioningAssumption, IInv, NEW r \in Requests, ReadUser(r)
    PROVE  IInv'
<1> DEFINE n == local[r].arg.number
           result == IF \E u \in users : u.id = n /\ u.active THEN "admitted" ELSE "rejected"
<1>1. local[r] \in Locals /\ RequestOK(pc[r], local[r], Ids, barred)
  BY DEF IInv, RequestsOK
<1>2. Finish(r, result, n) /\ Same /\ pc[r] = "readUser"
  BY DEF ReadUser, Reading, Same, tables, history
<1>3. local[r].arg \in Claims
  BY <1>1, <1>2 DEF RequestOK, Prepared
<1>4. n \in UserIds
  BY <1>3, Typed
<1>5. result = "admitted" => n \notin local[r].barred
  BY <1>1 DEF RequestOK, Guarded, IInv, TablesOK
<1>6. result \in {"admitted", "rejected", "failed", "done"} /\ pc[r] \notin Assigning
  BY <1>2 DEF Assigning
<1> HIDE DEF result, n
<1> QED BY <1>2, <1>4, <1>5, <1>6, Stops

\* What is looked up is a row, or nothing.
LEMMA LooksUp ==
    ASSUME TablesOK, NEW S \in SUBSET users, NEW u \in Found(S)
    PROVE  u \in Rows \cup {None} /\ (u # None => u \in S /\ u.id \in Ids)
BY DEF TablesOK, Found, Ids

\* The locals of a request, with a row looked up.
LEMMA LooksAt ==
    ASSUME NEW k \in Locals, NEW u \in Rows \cup {None}, NEW l
    PROVE  /\ l = [k EXCEPT !.first = u]
              => /\ l \in Locals /\ l.arg = k.arg /\ l.first = u /\ l.second = k.second
                 /\ l.user = k.user /\ l.result = k.result /\ l.barred = k.barred
           /\ l = [k EXCEPT !.second = u]
              => /\ l \in Locals /\ l.arg = k.arg /\ l.first = k.first /\ l.second = u
                 /\ l.user = k.user /\ l.result = k.result /\ l.barred = k.barred
BY DEF Locals

LEMMA DecideOK ==
    ASSUME ProvisioningAssumption, IInv, NEW r \in Requests,
           pc[r] \in {"findSubject", "findEmail"}, NEW l \in Locals, Decide(r, l), Same,
           l.arg \in Claims, l.result = None, l.barred = local[r].barred,
           l.first # None => l.first.id \in Ids, l.second # None => l.second.id \in Ids
    PROVE  IInv'
<1> DEFINE p == IF l.first # None THEN "updateUser"
                ELSE IF l.second # None THEN "linkUser" ELSE "createIdentity"
<1>1. pc[r] \notin Assigning /\ None \in UserIds
  BY DEF Assigning, UserIds
<1>2. CASE l.first # None /\ l.second # None /\ l.first.id # l.second.id
  <2>1. Finish(r, "rejected", None)
    BY <1>2 DEF Decide
  <2> QED BY <1>1, <2>1, Stops
<1>3. CASE ~(l.first # None /\ l.second # None /\ l.first.id # l.second.id)
  <2>1. Await(r, p, l)
    BY <1>3 DEF Decide
  <2>2. /\ p \in {"updateUser", "linkUser", "createIdentity"}
        /\ p = "updateUser" => l.first # None
        /\ p = "linkUser" => l.second # None
    OBVIOUS
  <2>3. l.barred \subseteq barred
    BY DEF IInv, RequestsOK, RequestOK, Guarded
  <2>4. l.result # "admitted"
    BY ProvisioningAssumption DEF ProvisioningAssumption
  <2> HIDE DEF p
  <2>5. RequestOK(p, l, Ids, barred)
    BY <2>2, <2>3, <2>4 DEF RequestOK, Prepared, Guarded, Identifying, Creating, Assigning,
                          Bootstrapping, Promoting
  <2>6. p \in Places
    BY <2>2 DEF Places, Identifying
  <2> QED BY <1>1, <2>1, <2>5, <2>6, GoesOn
<1> QED BY <1>2, <1>3

LEMMA FindSubjectOK ==
    ASSUME ProvisioningAssumption, IInv, NEW r \in Requests, FindSubject(r)
    PROVE  IInv'
<1> DEFINE c == local[r].arg
           S == {x \in users : x.provider = provider /\ x.subject = c.subject}
<1>1. local[r] \in Locals /\ RequestOK(pc[r], local[r], Ids, barred)
  BY DEF IInv, RequestsOK
<1>2. Same /\ pc[r] = "findSubject" /\ pc[r] \notin Assigning
  BY DEF FindSubject, Reading, Same, tables, history, Assigning
<1>3. /\ c \in Claims /\ local[r].result = None /\ local[r].barred \subseteq barred
      /\ local[r].second # None => local[r].second.id \in Ids
  BY <1>1, <1>2 DEF RequestOK, Prepared, Guarded, Identifying
<1>4. PICK u \in Found(S) :
         LET l == [local[r] EXCEPT !.first = u] IN
         IF c.email # None THEN Await(r, "findEmail", l) ELSE Decide(r, l)
  BY DEF FindSubject
<1>5. u \in Rows \cup {None} /\ (u # None => u.id \in Ids)
  BY LooksUp DEF IInv
<1> DEFINE l == [local[r] EXCEPT !.first = u]
<1>6. /\ l \in Locals /\ l.arg = c /\ l.first = u /\ l.second = local[r].second
      /\ l.result = None /\ l.barred = local[r].barred
  <2>1. local[r] \in Locals /\ u \in Rows \cup {None}
    BY <1>1, <1>5
  <2>2. /\ l \in Locals /\ l.arg = local[r].arg /\ l.first = u /\ l.second = local[r].second
        /\ l.result = local[r].result /\ l.barred = local[r].barred
    BY <2>1, LooksAt
  <2> QED BY <1>3, <2>2
<1>7. Await(r, "findEmail", l) \/ Decide(r, l)
  BY <1>4
<1> HIDE DEF c, l, S
<1>8. CASE Decide(r, l)
  BY <1>2, <1>3, <1>5, <1>6, <1>8, DecideOK
<1>9. CASE Await(r, "findEmail", l)
  <2>1. RequestOK("findEmail", l, Ids, barred)
    BY <1>3, <1>5, <1>6, ProvisioningAssumption
       DEF RequestOK, Prepared, Guarded, Identifying, Creating, Assigning, Bootstrapping,
           Promoting, ProvisioningAssumption
  <2> QED BY <1>2, <1>6, <1>9, <2>1, GoesOn DEF Places, Identifying
<1> QED BY <1>7, <1>8, <1>9

LEMMA FindEmailOK ==
    ASSUME ProvisioningAssumption, IInv, NEW r \in Requests, FindEmail(r)
    PROVE  IInv'
<1>1. local[r] \in Locals /\ RequestOK(pc[r], local[r], Ids, barred)
  BY DEF IInv, RequestsOK
<1>2. Same /\ pc[r] = "findEmail"
  BY DEF FindEmail, Reading, Same, tables, history
<1>3. /\ local[r].arg \in Claims /\ local[r].result = None
      /\ local[r].first # None => local[r].first.id \in Ids
  BY <1>1, <1>2 DEF RequestOK, Prepared, Guarded, Identifying
<1>4. PICK u \in Found(Mailed(local[r].arg.email)) : Decide(r, [local[r] EXCEPT !.second = u])
  BY DEF FindEmail
<1>5. u \in Rows \cup {None} /\ (u # None => u.id \in Ids)
  BY LooksUp DEF IInv, Mailed
<1> DEFINE l == [local[r] EXCEPT !.second = u]
<1>6. /\ l \in Locals /\ l.arg = local[r].arg /\ l.second = u /\ l.first = local[r].first
      /\ l.result = None /\ l.barred = local[r].barred
  BY <1>1, <1>3, <1>5, LooksAt
<1>7. Decide(r, l)
  BY <1>4
<1> HIDE DEF l
<1> QED BY <1>2, <1>3, <1>5, <1>6, <1>7, DecideOK

\* Steps that write rows, and leave alone who is barred and who has what roles.
Wrote == UNCHANGED <<userRoles, asked, broken, barred>> /\ Ids \subseteq Ids' /\ TablesOK'

LEMMA StopsAfter ==
    ASSUME ProvisioningAssumption, IInv, NEW r \in Requests, NEW id \in UserIds,
           NEW result \in {"admitted", "rejected", "failed", "done"}, Wrote,
           Finish(r, result, id), pc[r] \notin Assigning,
           result = "admitted" => id \notin barred
    PROVE  IInv'
<1>1. local[r].barred \subseteq barred
  BY DEF IInv, RequestsOK, RequestOK, Guarded
<1>2. RequestsOK'
  BY <1>1, Ends DEF IInv, Wrote
<1>3. AskedOK'
  BY AskedOthers DEF IInv, Wrote, Finish
<1> QED BY <1>2, <1>3 DEF IInv, Wrote

\* The row of a user, written over; the user stays active or not.
LEMMA Rewrites ==
    ASSUME ProvisioningAssumption, IInv, NEW r \in Requests, NEW id \in Ids, NEW new \in Rows,
           new.id = id, new.active = Row(id).active, Replace(id, new), Resolve(r, new),
           UNCHANGED <<userRoles, provider, nextUser, asked, broken, barred>>,
           pc[r] \notin Assigning
    PROVE  IInv'
<1>1. TablesOK
  BY DEF IInv
<1>2. Row(id) \in users /\ Row(id).id = id
  BY <1>1, RowFound
<1>3. id \in barred => ~new.active
  BY <1>1, <1>2 DEF TablesOK
<1>4. Wrote
  BY <1>1, <1>3, Replaced DEF Wrote
<1> DEFINE result == IF new.active THEN "admitted" ELSE "rejected"
<1>5. Finish(r, result, id)
  BY DEF Resolve
<1>6. result \in {"admitted", "rejected", "failed", "done"} /\ (result = "admitted" => id \notin barred)
  BY <1>3
<1>7. id \in UserIds
  BY <1>1 DEF TablesOK, Ids, Rows, UserIds
<1> HIDE DEF result
<1> QED BY <1>4, <1>5, <1>6, <1>7, StopsAfter

LEMMA UpdateUserOK ==
    ASSUME ProvisioningAssumption, IInv, NEW r \in Requests, UpdateUser(r)
    PROVE  IInv'
<1> DEFINE c == local[r].arg
           old == local[r].first
           new == [Row(old.id) EXCEPT !.email = Or(c.email, old.email),
                                      !.username = Or(c.username, old.username)]
<1>1. local[r] \in Locals /\ RequestOK(pc[r], local[r], Ids, barred) /\ pc[r] = "updateUser"
  BY DEF IInv, RequestsOK, UpdateUser
<1>2. c \in Claims /\ old \in Rows /\ old.id \in Ids
  BY <1>1 DEF RequestOK, Prepared, Identifying, Locals
<1>3. Or(c.email, old.email) \in Texts /\ Or(c.username, old.username) \in Texts
  BY <1>2, Typed DEF Or, Rows
<1>4. Row(old.id) \in Rows /\ Row(old.id).id = old.id
  BY <1>2, RowFound DEF IInv
<1>5. new \in Rows /\ new.id = old.id /\ new.active = Row(old.id).active
  BY <1>3, <1>4 DEF Rows
<1>6. /\ Replace(old.id, new) /\ Resolve(r, new)
      /\ UNCHANGED <<userRoles, provider, nextUser, asked, broken, barred>>
  BY DEF UpdateUser, Unassigned, history
<1>7. pc[r] \notin Assigning
  BY <1>1 DEF Assigning
<1> HIDE DEF new, c, old
<1> QED BY <1>2, <1>5, <1>6, <1>7, Rewrites

LEMMA LinkUserOK ==
    ASSUME ProvisioningAssumption, IInv, NEW r \in Requests, LinkUser(r)
    PROVE  IInv'
<1> DEFINE c == local[r].arg
           old == local[r].second
           new == [Row(old.id) EXCEPT !.provider = provider, !.subject = c.subject,
                                      !.username = Or(c.username, old.username)]
<1>1. local[r] \in Locals /\ RequestOK(pc[r], local[r], Ids, barred) /\ pc[r] = "linkUser"
  BY DEF IInv, RequestsOK, LinkUser
<1>2. c \in Claims /\ old \in Rows /\ old.id \in Ids
  BY <1>1 DEF RequestOK, Prepared, Identifying, Locals
<1>3. /\ c.subject \in Texts /\ Or(c.username, old.username) \in Texts
      /\ provider \in {"local", "external", None}
  BY <1>2, Typed DEF Or, Rows, IInv, TablesOK
<1>4. Row(old.id) \in Rows /\ Row(old.id).id = old.id
  BY <1>2, RowFound DEF IInv
<1>5. new \in Rows /\ new.id = old.id /\ new.active = Row(old.id).active
  BY <1>3, <1>4 DEF Rows
<1>6. /\ Replace(old.id, new) /\ Resolve(r, new)
      /\ UNCHANGED <<userRoles, provider, nextUser, asked, broken, barred>>
  BY DEF LinkUser, Unassigned, history
<1>7. pc[r] \notin Assigning
  BY <1>1 DEF Assigning
<1> HIDE DEF new, c, old
<1> QED BY <1>2, <1>5, <1>6, <1>7, Rewrites

LEMMA CreateIdentityOK ==
    ASSUME ProvisioningAssumption, IInv, NEW r \in Requests, CreateIdentity(r)
    PROVE  IInv'
<1> DEFINE c == local[r].arg
           new == [id |-> nextUser, username |-> Or(c.username, defaultUsername(c)),
                   email |-> c.email, provider |-> provider,
                   subject |-> c.subject, active |-> TRUE]
<1>1. local[r] \in Locals /\ RequestOK(pc[r], local[r], Ids, barred) /\ pc[r] = "createIdentity"
  BY DEF IInv, RequestsOK, CreateIdentity
<1>2. c \in Claims
  BY <1>1 DEF RequestOK, Prepared, Identifying
<1>3. /\ c.subject \in Texts /\ c.email \in Texts
      /\ Or(c.username, defaultUsername(c)) \in Texts
      /\ provider \in {"local", "external", None}
  BY <1>2, Typed DEF Or, defaultUsername, IInv, TablesOK
<1>4. /\ Insert(new) /\ Resolve(r, new) /\ nextUser \in 1 .. MaxUsers
      /\ UNCHANGED <<userRoles, provider, asked, broken, barred>>
  BY DEF CreateIdentity, Unassigned, history, Insert, IInv, TablesOK
<1>5. new \in Rows /\ new.id = nextUser
  BY <1>3, <1>4 DEF Rows
<1>6. Finish(r, "admitted", nextUser)
  BY <1>4 DEF Resolve
<1> HIDE DEF new, c
<1>7. TablesOK' /\ Ids \subseteq Ids' /\ nextUser \notin barred
  BY <1>4, <1>5, Inserted DEF IInv, TablesOK
<1>8. pc[r] \notin Assigning /\ nextUser \in UserIds
  BY <1>1, <1>4 DEF Assigning, UserIds
<1> QED BY <1>4, <1>6, <1>7, <1>8, StopsAfter DEF Wrote

\* What every request has that is under way.
LEMMA UnderWay ==
    ASSUME ProvisioningAssumption, IInv, NEW r \in Requests
    PROVE  /\ local[r] \in Locals /\ RequestOK(pc[r], local[r], Ids, barred)
           /\ local[r].barred \subseteq barred
           /\ pc[r] # "idle" => local[r].result = None
           /\ local[r].result = "admitted" => local[r].user \notin local[r].barred
           /\ local[r].first # None => local[r].first.id \in Ids
           /\ local[r].second # None => local[r].second.id \in Ids
           /\ None \in UserIds /\ Ids \subseteq UserIds
<1>1. local[r] \in Locals /\ RequestOK(pc[r], local[r], Ids, barred)
  BY DEF IInv, RequestsOK
<1>2. None \in UserIds /\ Ids \subseteq UserIds
  BY DEF IInv, TablesOK, Ids, Rows, UserIds
<1> QED BY <1>1, <1>2 DEF RequestOK, Prepared, Guarded

\* A lookup that found nothing, or nothing in the way: the request goes on to
\* the next one with what it has.
LEMMA Proceeds ==
    ASSUME ProvisioningAssumption, IInv, NEW r \in Requests,
           NEW p \in {"findUserEmail", "createUser", "findAdmin", "createAdmin"},
           Await(r, p, local[r]), Same, pc[r] \in Creating \cup Bootstrapping,
           p \in Creating <=> pc[r] \in Creating, p = "createAdmin" => "admin" \in Roles
    PROVE  IInv'
<1>1. /\ local[r] \in Locals /\ RequestOK(pc[r], local[r], Ids, barred)
      /\ local[r].result = None
  BY UnderWay DEF Creating, Bootstrapping
<1>2. RequestOK(p, local[r], Ids, barred)
  BY <1>1, ProvisioningAssumption
     DEF RequestOK, Prepared, Guarded, Identifying, Creating, Assigning, Bootstrapping,
         Promoting, ProvisioningAssumption
<1>3. pc[r] \notin Assigning /\ p \in Places
  BY DEF Assigning, Places, Creating, Bootstrapping
<1> QED BY <1>1, <1>2, <1>3, GoesOn

LEMMA FindUsernameOK ==
    ASSUME ProvisioningAssumption, IInv, NEW r \in Requests, FindUsername(r)
    PROVE  IInv'
<1>1. Same /\ pc[r] = "findUsername"
  BY DEF FindUsername, Reading, Same, tables, history
<1>2. pc[r] \in Creating /\ pc[r] \notin Assigning /\ "findUserEmail" \in Creating
  BY <1>1 DEF Creating, Assigning
<1>3. Finish(r, "rejected", None) \/ Await(r, "findUserEmail", local[r])
  BY DEF FindUsername
<1> QED BY <1>1, <1>2, <1>3, UnderWay, Stops, Proceeds

LEMMA FindUserEmailOK ==
    ASSUME ProvisioningAssumption, IInv, NEW r \in Requests, FindUserEmail(r)
    PROVE  IInv'
<1>1. Same /\ pc[r] = "findUserEmail"
  BY DEF FindUserEmail, Reading, Same, tables, history
<1>2. pc[r] \in Creating /\ pc[r] \notin Assigning /\ "createUser" \in Creating
  BY <1>1 DEF Creating, Assigning
<1>3. Finish(r, "rejected", None) \/ Await(r, "createUser", local[r])
  BY DEF FindUserEmail
<1> QED BY <1>1, <1>2, <1>3, UnderWay, Stops, Proceeds

LEMMA FindMailOK ==
    ASSUME ProvisioningAssumption, IInv, NEW r \in Requests, FindMail(r)
    PROVE  IInv'
<1>1. Same /\ pc[r] = "findMail"
  BY DEF FindMail, Reading, Same, tables, history
<1>2. /\ pc[r] \in Bootstrapping /\ pc[r] \notin Assigning /\ pc[r] \notin Creating
      /\ "findAdmin" \notin Creating
  BY <1>1 DEF Creating, Assigning, Bootstrapping
<1>3. Finish(r, "rejected", None) \/ Await(r, "findAdmin", local[r])
  BY DEF FindMail
<1> QED BY <1>1, <1>2, <1>3, UnderWay, Stops, Proceeds

LEMMA FindNameOK ==
    ASSUME ProvisioningAssumption, IInv, NEW r \in Requests, FindName(r)
    PROVE  IInv'
<1>1. Same /\ pc[r] = "findName" /\ pc[r] \notin Assigning
  BY DEF FindName, Reading, Same, tables, history, Assigning
<1>2. PICK u \in Found(Named(local[r].arg.username)) :
         Await(r, "findMail", [local[r] EXCEPT !.first = u])
  BY DEF FindName
<1>3. u \in Rows \cup {None} /\ (u # None => u.id \in Ids)
  BY LooksUp DEF IInv, Named
<1> DEFINE l == [local[r] EXCEPT !.first = u]
<1>4. /\ local[r] \in Locals /\ RequestOK(pc[r], local[r], Ids, barred)
      /\ local[r].result = None
  BY <1>1, UnderWay
<1>5. /\ l \in Locals /\ l.arg = local[r].arg /\ l.first = u /\ l.second = local[r].second
      /\ l.result = None /\ l.barred = local[r].barred
  BY <1>3, <1>4, LooksAt
<1>6. Await(r, "findMail", l)
  BY <1>2
<1> HIDE DEF l
<1>7. RequestOK("findMail", l, Ids, barred)
  BY <1>1, <1>3, <1>4, <1>5, ProvisioningAssumption
     DEF RequestOK, Prepared, Guarded, Identifying, Creating, Assigning, Bootstrapping,
         Promoting, ProvisioningAssumption
<1> QED BY <1>1, <1>5, <1>6, <1>7, GoesOn DEF Places, Bootstrapping

\* The locals of a request that takes a user on.
LEMMA TakesOn ==
    ASSUME NEW l \in Locals, NEW id \in UserIds
    PROVE  LET k == [l EXCEPT !.user = id] IN
           /\ k \in Locals /\ k.arg = l.arg /\ k.first = l.first /\ k.second = l.second
           /\ k.user = id /\ k.todo = l.todo /\ k.role = l.role
           /\ k.result = l.result /\ k.barred = l.barred
BY DEF Locals

LEMMA FindAdminOK ==
    ASSUME ProvisioningAssumption, IInv, NEW r \in Requests, FindAdmin(r)
    PROVE  IInv'
<1>1. Same /\ pc[r] = "findAdmin"
  BY DEF FindAdmin, Reading, Same, tables, history
<1>2. /\ pc[r] \in Bootstrapping /\ pc[r] \notin Assigning /\ pc[r] \notin Creating
      /\ "createAdmin" \notin Creating
  BY <1>1 DEF Creating, Assigning, Bootstrapping
<1> DEFINE l == [local[r] EXCEPT !.user = local[r].first.id]
<1>3. \/ Finish(r, "failed", None)
      \/ "admin" \in Roles /\ Await(r, "createAdmin", local[r])
      \/ "admin" \in Roles /\ local[r].first # None /\ Await(r, "findAdminRole", l)
  BY DEF FindAdmin
<1>4. CASE Finish(r, "failed", None)
  BY <1>1, <1>2, <1>4, UnderWay, Stops
<1>5. CASE "admin" \in Roles /\ Await(r, "createAdmin", local[r])
  BY <1>1, <1>2, <1>5, Proceeds
<1>6. CASE "admin" \in Roles /\ local[r].first # None /\ Await(r, "findAdminRole", l)
  <2>1. /\ local[r] \in Locals /\ RequestOK(pc[r], local[r], Ids, barred)
        /\ local[r].result = None /\ local[r].first.id \in Ids
        /\ local[r].first.id \in UserIds
    BY <1>1, <1>6, UnderWay
  <2>2. /\ l \in Locals /\ l.arg = local[r].arg /\ l.first = local[r].first
        /\ l.second = local[r].second /\ l.user = local[r].first.id
        /\ l.result = None /\ l.barred = local[r].barred
    BY <2>1, TakesOn
  <2> HIDE DEF l
  <2>3. RequestOK("findAdminRole", l, Ids, barred)
    BY <1>6, <2>1, <2>2, ProvisioningAssumption
       DEF RequestOK, Prepared, Guarded, Identifying, Creating, Assigning, Bootstrapping,
           Promoting, ProvisioningAssumption
  <2> QED BY <1>1, <1>2, <1>6, <2>2, <2>3, GoesOn DEF Places, Promoting
<1> QED BY <1>3, <1>4, <1>5, <1>6

LEMMA FindAdminRoleOK ==
    ASSUME ProvisioningAssumption, IInv, NEW r \in Requests, FindAdminRole(r)
    PROVE  IInv'
<1>1. Same /\ pc[r] = "findAdminRole" /\ pc[r] \notin Assigning
  BY DEF FindAdminRole, Same, tables, Promoted, Assigning
<1>2. /\ local[r] \in Locals /\ RequestOK(pc[r], local[r], Ids, barred)
      /\ local[r].result = None /\ local[r].user \in Ids /\ local[r].user \in UserIds
  BY <1>1, UnderWay DEF RequestOK, Prepared, Promoting
<1>3. CASE Finish(r, "done", local[r].user)
  <2>1. "done" # "admitted"
    OBVIOUS
  <2> QED BY <1>1, <1>2, <1>3, <2>1, Stops
<1>4. CASE Await(r, "assignAdmin", local[r])
  <2>1. RequestOK("assignAdmin", local[r], Ids, barred)
    BY <1>1, <1>2 DEF RequestOK, Prepared, Guarded, Identifying, Creating, Assigning,
                      Bootstrapping, Promoting
  <2> QED BY <1>1, <1>2, <1>4, <2>1, GoesOn DEF Places, Promoting
<1> QED BY <1>3, <1>4 DEF FindAdminRole, Promoted

LEMMA CreateAdminOK ==
    ASSUME ProvisioningAssumption, IInv, NEW r \in Requests, CreateAdmin(r)
    PROVE  IInv'
<1> DEFINE d == local[r].arg
           new == [id |-> nextUser, username |-> d.username, email |-> d.email,
                   provider |-> None, subject |-> None, active |-> TRUE]
           l == [local[r] EXCEPT !.user = nextUser]
<1>1. pc[r] = "createAdmin" /\ pc[r] \notin Assigning
  BY DEF CreateAdmin, Assigning
<1>2. /\ local[r] \in Locals /\ RequestOK(pc[r], local[r], Ids, barred)
      /\ local[r].result = None /\ local[r].barred \subseteq barred
      /\ d \in Admins /\ "admin" \in Roles
  BY <1>1, UnderWay DEF RequestOK, Prepared, Bootstrapping
<1>3. /\ Insert(new) /\ Await(r, "assignAdmin", l)
      /\ UNCHANGED <<userRoles, provider, asked, broken, barred>>
  BY DEF CreateAdmin, Unassigned, history
<1>4. nextUser \in 1 .. MaxUsers
  BY <1>3, Inserted DEF Insert, IInv, TablesOK
<1>5. new \in Rows /\ new.id = nextUser
  BY <1>2, <1>4, Typed DEF Rows
<1>6. nextUser \in UserIds
  BY <1>4 DEF UserIds
<1>7. /\ l \in Locals /\ l.arg = d /\ l.first = local[r].first /\ l.second = local[r].second
      /\ l.user = nextUser /\ l.result = None /\ l.barred = local[r].barred
  BY <1>2, <1>6, TakesOn
<1> HIDE DEF new, l
<1>8. TablesOK' /\ Ids' = Ids \cup {nextUser}
  BY <1>3, <1>5, Inserted DEF IInv
<1>9. RequestOK("assignAdmin", l, Ids', barred)
  BY <1>1, <1>2, <1>7, <1>8, ProvisioningAssumption
     DEF RequestOK, Prepared, Guarded, Identifying, Creating, Assigning, Bootstrapping,
         Promoting, ProvisioningAssumption
<1>10. RequestsOK'
  BY <1>3, <1>7, <1>8, <1>9, Moves DEF IInv, Places, Promoting
<1>11. AskedOK'
  BY <1>1, <1>3, AskedOthers DEF IInv
<1> QED BY <1>8, <1>10, <1>11 DEF IInv

LEMMA AssignAdminOK ==
    ASSUME ProvisioningAssumption, IInv, NEW r \in Requests, AssignAdmin(r)
    PROVE  IInv'
<1>1. /\ pc[r] = "assignAdmin" /\ pc[r] \notin Assigning
      /\ userRoles' = userRoles \cup {<<local[r].user, "admin">>}
      /\ Finish(r, "done", local[r].user) /\ "done" # "admitted"
      /\ UNCHANGED <<users, nextUser, provider, asked, broken, barred>>
  BY DEF AssignAdmin, Assigning, Promoted
<1>2. /\ local[r].user \in Ids /\ "admin" \in Roles /\ local[r].user \in UserIds
  BY <1>1, UnderWay DEF RequestOK, Prepared, Promoting
<1>3. Ids' = Ids
  BY <1>1 DEF Ids
<1>4. TablesOK'
  BY <1>1, <1>2, <1>3 DEF IInv, TablesOK
<1>5. RequestsOK'
  BY <1>1, <1>2, <1>3, Ends DEF IInv
<1>6. AskedOK'
  BY <1>1, AskedOthers DEF IInv, Finish
<1> QED BY <1>4, <1>5, <1>6 DEF IInv

\* One role after another: the request keeps those that are left in its locals.
LEMMA NextRoleOK ==
    ASSUME ProvisioningAssumption, IInv, NEW r \in Requests, NEW l \in Locals, NextRole(r, l),
           TablesOK', Ids \subseteq Ids', UNCHANGED <<broken, barred>>,
           userRoles \subseteq userRoles', l.user \in Ids', l.result = None,
           l.barred \subseteq barred,
           l.first # None => l.first.id \in Ids', l.second # None => l.second.id \in Ids',
           \A a \in asked' :
               Pending(a, pc[r], local[r], userRoles) \/ a \notin asked =>
                  /\ l.user = a.user
                  /\ \A n \in a.roles \cap Roles : <<a.user, n>> \in userRoles' \/ n \in l.todo,
           asked \subseteq asked'
    PROVE  IInv'
<1>1. l.user \in UserIds
  BY DEF Locals
<1>2. CASE l.todo = {}
  <2> DEFINE e == Ended(local[r], "done", l.user)
  <2>1. Finish(r, "done", l.user) /\ "done" # "admitted"
    BY <1>2 DEF NextRole
  <2>2. RequestsOK'
    BY <1>1, <2>1, Ends DEF IInv
  <2>3. Await(r, "idle", e)
    BY <2>1 DEF Finish, Ended
  <2>4. \A a \in asked' :
           Pending(a, pc[r], local[r], userRoles) \/ a \notin asked => Assigned(a, userRoles')
    BY <1>2 DEF Assigned
  <2> HIDE DEF e
  <2>5. AskedOK'
    BY <2>3, <2>4, AskedKept DEF IInv
  <2> QED BY <2>2, <2>5 DEF IInv
<1>3. CASE l.todo # {}
  <2>1. Await(r, "findRole", l)
    BY <1>3 DEF NextRole
  <2>2. RequestOK("findRole", l, Ids', barred)
    BY ProvisioningAssumption
       DEF RequestOK, Prepared, Guarded, Identifying, Creating, Assigning, Bootstrapping,
           Promoting, ProvisioningAssumption
  <2>3. RequestsOK'
    BY <2>1, <2>2, Moves DEF IInv, Places, Assigning
  <2>4. \A a \in asked' :
           Pending(a, pc[r], local[r], userRoles) \/ a \notin asked =>
              Pending(a, "findRole", l, userRoles')
    BY DEF Pending, Assigning
  <2>5. AskedOK'
    BY <2>1, <2>4, AskedKept DEF IInv
  <2> QED BY <2>3, <2>5 DEF IInv
<1> QED BY <1>2, <1>3

\* The row of a local user who is created.
LEMMA LocalRow ==
    ASSUME ProvisioningAssumption, IInv, NEW d \in LocalUsers, nextUser <= MaxUsers
    PROVE  LET new == [id |-> nextUser, username |-> d.username, email |-> d.email,
                       provider |-> "local", subject |-> d.email, active |-> d.active]
           IN  new \in Rows /\ new.id = nextUser /\ nextUser \in UserIds
<1>1. nextUser \in 1 .. MaxUsers /\ nextUser \in UserIds
  BY DEF IInv, TablesOK, UserIds
<1>2. d.username \in Texts /\ d.email \in Texts /\ d.active \in BOOLEAN
  BY Typed
<1> DEFINE A == d.active
<1> HIDE DEF A
<1>3. [id |-> nextUser, username |-> d.username, email |-> d.email,
       provider |-> "local", subject |-> d.email, active |-> A] \in Rows
  BY <1>1, <1>2 DEF Rows, A
<1> QED BY <1>1, <1>3 DEF A

LEMMA CreateUserOK ==
    ASSUME ProvisioningAssumption, IInv, NEW r \in Requests, CreateUser(r)
    PROVE  IInv'
<1> DEFINE d == local[r].arg
           new == [id |-> nextUser, username |-> d.username, email |-> d.email,
                   provider |-> "local", subject |-> d.email, active |-> d.active]
           l == [local[r] EXCEPT !.user = nextUser, !.todo = d.roles]
<1>1. pc[r] = "createUser" /\ pc[r] \notin Assigning
  BY DEF CreateUser, Assigning
<1>2. /\ local[r] \in Locals /\ local[r].result = None /\ local[r].barred \subseteq barred
      /\ local[r].first # None => local[r].first.id \in Ids
      /\ local[r].second # None => local[r].second.id \in Ids
      /\ d \in LocalUsers
  BY <1>1, UnderWay DEF RequestOK, Prepared, Creating
<1>3. /\ Insert(new) /\ NextRole(r, l) /\ nextUser <= MaxUsers
      /\ asked' = asked \cup {[user |-> nextUser, roles |-> d.roles]}
      /\ UNCHANGED <<userRoles, provider, broken, barred>>
  BY DEF CreateUser, Insert
<1>4. new \in Rows /\ new.id = nextUser /\ nextUser \in UserIds
  BY <1>2, <1>3, LocalRow
<1>5. d.roles \in SUBSET RoleNames
  BY <1>2, Typed
<1>6. /\ l \in Locals /\ l.user = nextUser /\ l.todo = d.roles /\ l.result = None
      /\ l.barred = local[r].barred /\ l.first = local[r].first /\ l.second = local[r].second
  BY <1>2, <1>4, <1>5 DEF Locals
<1> HIDE DEF new, l
<1>7. TablesOK' /\ Ids' = Ids \cup {nextUser}
  BY <1>3, <1>4, Inserted DEF IInv
<1>8. \A a \in asked' :
         Pending(a, pc[r], local[r], userRoles) \/ a \notin asked =>
            /\ l.user = a.user
            /\ \A n \in a.roles \cap Roles : <<a.user, n>> \in userRoles' \/ n \in l.todo
  BY <1>1, <1>3, <1>6 DEF Pending
<1> QED BY <1>2, <1>3, <1>6, <1>7, <1>8, NextRoleOK

LEMMA FindRoleOK ==
    ASSUME ProvisioningAssumption, IInv, NEW r \in Requests, FindRole(r)
    PROVE  IInv'
<1>1. pc[r] = "findRole" /\ Same
  BY DEF FindRole, Reading, Same, tables, history
<1>2. /\ local[r] \in Locals /\ local[r].result = None /\ local[r].barred \subseteq barred
      /\ local[r].first # None => local[r].first.id \in Ids
      /\ local[r].second # None => local[r].second.id \in Ids
      /\ local[r].user \in Ids
  BY <1>1, UnderWay DEF RequestOK, Prepared, Assigning
<1>3. PICK n \in local[r].todo :
         LET l == [local[r] EXCEPT !.role = n, !.todo = local[r].todo \ {n}] IN
         IF n \in Roles THEN Await(r, "findAssignment", l) ELSE NextRole(r, l)
  BY DEF FindRole
<1> DEFINE l == [local[r] EXCEPT !.role = n, !.todo = local[r].todo \ {n}]
<1>4. n \in RoleNames
  BY <1>2, <1>3 DEF Locals
<1>5. /\ l \in Locals /\ l.user = local[r].user /\ l.todo = local[r].todo \ {n} /\ l.role = n
      /\ l.result = None /\ l.barred = local[r].barred
      /\ l.first = local[r].first /\ l.second = local[r].second
  BY <1>2, <1>4 DEF Locals
<1>6. IF n \in Roles THEN Await(r, "findAssignment", l) ELSE NextRole(r, l)
  BY <1>3
<1> HIDE DEF l
<1>7. Ids' = Ids /\ userRoles' = userRoles /\ asked' = asked
  BY <1>1 DEF Same, Ids
<1>8. TablesOK'
  BY <1>1, <1>7 DEF IInv, Same, TablesOK
<1>9. CASE n \in Roles
  <2>1. Await(r, "findAssignment", l)
    BY <1>6, <1>9
  <2>2. RequestOK("findAssignment", l, Ids', barred)
    BY <1>2, <1>5, <1>7, <1>9, ProvisioningAssumption
       DEF RequestOK, Prepared, Guarded, Identifying, Creating, Assigning, Bootstrapping,
           Promoting, ProvisioningAssumption
  <2>3. RequestsOK'
    BY <1>1, <1>5, <1>7, <2>1, <2>2, Moves DEF IInv, Same, Places, Assigning
  <2>4. \A a \in asked :
           Pending(a, pc[r], local[r], userRoles) => Pending(a, "findAssignment", l, userRoles')
    BY <1>1, <1>5, <1>7 DEF Pending, Assigning
  <2>5. AskedOK'
    BY <1>1, <1>7, <2>1, <2>4, AskedKept DEF IInv, Same
  <2> QED BY <1>8, <2>3, <2>5 DEF IInv
<1>10. CASE n \notin Roles
  <2>1. \A a \in asked' :
           Pending(a, pc[r], local[r], userRoles) \/ a \notin asked =>
              /\ l.user = a.user
              /\ \A m \in a.roles \cap Roles : <<a.user, m>> \in userRoles' \/ m \in l.todo
    BY <1>1, <1>5, <1>7, <1>10 DEF Pending
  <2> QED BY <1>1, <1>2, <1>5, <1>6, <1>7, <1>8, <1>10, <2>1, NextRoleOK DEF Same
<1> QED BY <1>9, <1>10

\* A role is assigned, or has been before.
LEMMA RoleSettled ==
    ASSUME ProvisioningAssumption, IInv, NEW r \in Requests,
           pc[r] \in {"findAssignment", "assign"}, NextRole(r, local[r]),
           userRoles' = userRoles \cup {<<local[r].user, local[r].role>>},
           UNCHANGED <<users, nextUser, provider, asked, broken, barred>>
    PROVE  IInv'
<1>1. /\ local[r] \in Locals /\ local[r].result = None /\ local[r].barred \subseteq barred
      /\ local[r].first # None => local[r].first.id \in Ids
      /\ local[r].second # None => local[r].second.id \in Ids
      /\ local[r].user \in Ids /\ local[r].role \in Roles
  BY UnderWay DEF RequestOK, Prepared, Assigning
<1>2. Ids' = Ids
  BY DEF Ids
<1>3. TablesOK'
  BY <1>1, <1>2 DEF IInv, TablesOK
<1>4. \A a \in asked' :
         Pending(a, pc[r], local[r], userRoles) \/ a \notin asked =>
            /\ local[r].user = a.user
            /\ \A n \in a.roles \cap Roles :
                  <<a.user, n>> \in userRoles' \/ n \in local[r].todo
  BY DEF Pending
<1> QED BY <1>1, <1>2, <1>3, <1>4, NextRoleOK

LEMMA FindAssignmentOK ==
    ASSUME ProvisioningAssumption, IInv, NEW r \in Requests, FindAssignment(r)
    PROVE  IInv'
<1>1. pc[r] = "findAssignment" /\ Same
  BY DEF FindAssignment, Reading, Same, tables, history
<1>2. CASE <<local[r].user, local[r].role>> \in userRoles /\ NextRole(r, local[r])
  BY <1>1, <1>2, RoleSettled DEF Same
<1>3. CASE Await(r, "assign", local[r])
  <2>1. Ids' = Ids /\ userRoles' = userRoles /\ asked' = asked
    BY <1>1 DEF Same, Ids
  <2>2. TablesOK'
    BY <1>1, <2>1 DEF IInv, Same, TablesOK
  <2>3. RequestOK("assign", local[r], Ids', barred)
    BY <1>1, <2>1, UnderWay
       DEF RequestOK, Prepared, Guarded, Identifying, Creating, Assigning, Bootstrapping,
           Promoting
  <2>4. RequestsOK'
    BY <1>1, <1>3, <2>1, <2>3, UnderWay, Moves DEF IInv, Same, Places, Assigning
  <2>5. \A a \in asked :
           Pending(a, pc[r], local[r], userRoles) => Pending(a, "assign", local[r], userRoles')
    BY <1>1, <2>1 DEF Pending, Assigning
  <2>6. AskedOK'
    BY <1>1, <1>3, <2>1, <2>5, AskedKept DEF IInv, Same
  <2> QED BY <2>2, <2>4, <2>6 DEF IInv
<1> QED BY <1>2, <1>3 DEF FindAssignment

LEMMA AssignOK ==
    ASSUME ProvisioningAssumption, IInv, NEW r \in Requests, Assign(r)
    PROVE  IInv'
BY RoleSettled DEF Assign, history

\* Nobody is barred while an activation is under way.
LEMMA SetStatusOK ==
    ASSUME ProvisioningAssumption, IInv, NEW r \in Requests, SetStatus(r)
    PROVE  IInv'
<1> DEFINE id == local[r].user
           flag == local[r].arg
           new == [Row(id) EXCEPT !.active = flag]
           pending == \E q \in Requests : pc[q] = "setStatus" /\ local[q].user = id /\ local[q].arg
<1>1. /\ pc[r] = "setStatus" /\ pc[r] \notin Assigning
      /\ UNCHANGED <<userRoles, nextUser, provider, asked, broken>>
  BY DEF SetStatus, Assigning
<1>2. /\ local[r] \in Locals /\ flag \in BOOLEAN /\ local[r].barred \subseteq barred
      /\ flag = TRUE => id \notin barred
  BY <1>1, UnderWay DEF RequestOK, Prepared, Guarded
<1>3. CASE \E u \in users : u.id = id
  <2>1. id \in Ids
    BY <1>3 DEF Ids
  <2>2. /\ Replace(id, new) /\ Finish(r, "done", id)
        /\ barred' = IF flag \/ pending THEN barred ELSE barred \cup {id}
    BY <1>3 DEF SetStatus
  <2>3. Row(id) \in Rows /\ Row(id).id = id
    BY <2>1, RowFound DEF IInv
  <2>4. new \in Rows /\ new.id = id /\ new.active = flag
    <3> HIDE DEF flag, id
    <3> QED BY <1>2, <2>3 DEF Rows
  <2>5. /\ barred' \subseteq barred \cup {id} /\ barred \subseteq barred'
        /\ id \in barred' => flag = FALSE
        /\ pending => barred' = barred
    BY <1>2, <2>2
  <2> DEFINE e == Ended(local[r], "done", id)
  <2>6. Await(r, "idle", e)
    BY <2>2 DEF Finish, Ended
  <2>7. id \in UserIds /\ local[r].barred \subseteq barred'
    BY <1>2, <2>1, <2>5, UnderWay
  <2>8. e \in Locals /\ RequestOK("idle", e, Ids', barred')
    BY <1>2, <2>7, EndedOK
  <2>9. ASSUME NEW q \in Requests, q # r PROVE RequestOK(pc[q], local[q], Ids, barred')
    <3>1. RequestOK(pc[q], local[q], Ids, barred)
      BY <2>9, UnderWay
    <3>2. CASE pc[q] = "setStatus" /\ local[q].arg = TRUE
      <4>1. local[q].user \notin barred'
        BY <2>5, <3>1, <3>2 DEF RequestOK, Guarded
      <4> QED BY <2>5, <3>1, <4>1 DEF RequestOK, Guarded
    <3>3. CASE ~(pc[q] = "setStatus" /\ local[q].arg = TRUE)
      BY <2>5, <3>1, <3>3 DEF RequestOK, Guarded
    <3> QED BY <3>2, <3>3
  <2> HIDE DEF e, new, pending, flag, id
  <2>10. TablesOK' /\ Ids' = Ids
    BY <1>1, <2>1, <2>2, <2>4, <2>5, Replaced DEF IInv
  <2>11. RequestsOK'
    <3>1. pc' \in [Requests -> Places] /\ local' \in [Requests -> Locals]
      BY <2>6, <2>8 DEF IInv, RequestsOK, Await, Goto, Places
    <3>2. \A q \in Requests : RequestOK(pc'[q], local'[q], Ids', barred')
      BY <2>6, <2>8, <2>9, <2>10 DEF IInv, RequestsOK, Await, Goto
    <3> QED BY <3>1, <3>2 DEF RequestsOK
  <2>12. AskedOK'
    BY <1>1, <2>6, AskedOthers DEF IInv
  <2> QED BY <2>10, <2>11, <2>12 DEF IInv
<1>4. CASE ~\E u \in users : u.id = id
  <2>1. Same /\ Finish(r, "failed", None) /\ "failed" # "admitted"
    BY <1>1, <1>4 DEF SetStatus, Same
  <2> QED BY <1>1, <2>1, UnderWay, Stops
<1> QED BY <1>3, <1>4

\* A call that fails ends the request; whoever it was assigning roles to is broken off.
LEMMA FailOK ==
    ASSUME ProvisioningAssumption, IInv, NEW r \in Requests, Fail(r)
    PROVE  IInv'
<1>1. /\ UNCHANGED <<users, userRoles, nextUser, provider, asked, barred>>
      /\ Finish(r, "failed", None) /\ "failed" # "admitted"
      /\ broken' = broken \cup Unfinished({r})
  BY DEF Fail, tables
<1>2. Ids' = Ids
  BY <1>1 DEF Ids
<1>3. TablesOK'
  BY <1>1, <1>2 DEF IInv, TablesOK
<1>4. RequestsOK'
  BY <1>1, <1>2, UnderWay, Ends DEF IInv
<1> DEFINE e == Ended(local[r], "failed", None)
<1>5. Await(r, "idle", e)
  BY <1>1 DEF Finish, Ended
<1> HIDE DEF e
<1>6. \A a \in asked : Pending(a, pc[r], local[r], userRoles) => a.user \in broken'
  BY <1>1 DEF Pending, Unfinished, Assigning
<1>7. AskedOK'
  BY <1>1, <1>5, <1>6, AskedKept DEF IInv
<1> QED BY <1>3, <1>4, <1>7 DEF IInv

LEMMA LoseCreatedOK ==
    ASSUME ProvisioningAssumption, IInv, NEW r \in Requests, LoseCreated(r)
    PROVE  IInv'
<1> DEFINE d == local[r].arg
           new == [id |-> nextUser, username |-> d.username, email |-> d.email,
                   provider |-> "local", subject |-> d.email, active |-> d.active]
           e == Ended(local[r], "failed", None)
<1>1. pc[r] = "createUser" /\ pc[r] \notin Assigning
  BY DEF LoseCreated, Assigning
<1>2. d \in LocalUsers
  BY <1>1, UnderWay DEF RequestOK, Prepared, Creating
<1>3. /\ Insert(new) /\ Finish(r, "failed", None) /\ nextUser <= MaxUsers
      /\ "failed" # "admitted"
      /\ asked' = asked \cup {[user |-> nextUser, roles |-> d.roles]}
      /\ broken' = broken \cup {nextUser}
      /\ UNCHANGED <<userRoles, provider, barred>>
  BY DEF LoseCreated, Insert
<1>4. new \in Rows /\ new.id = nextUser
  BY <1>2, <1>3, LocalRow
<1>5. Await(r, "idle", e)
  BY <1>3 DEF Finish, Ended
<1> HIDE DEF new, e
<1>6. TablesOK' /\ Ids \subseteq Ids'
  BY <1>3, <1>4, Inserted DEF IInv
<1>7. RequestsOK'
  BY <1>3, <1>6, UnderWay, Ends DEF IInv
<1>8. /\ \A a \in asked : ~Pending(a, pc[r], local[r], userRoles)
      /\ \A a \in asked' \ asked : a.user \in broken'
  BY <1>1, <1>3 DEF Pending
<1>9. AskedOK'
  BY <1>3, <1>5, <1>8, AskedKept DEF IInv
<1> QED BY <1>6, <1>7, <1>9 DEF IInv

\* A request that has not begun.
LEMMA BlankOK ==
    ASSUME ProvisioningAssumption, NEW I, NEW B
    PROVE  Blank \in Locals /\ RequestOK("idle", Blank, I, B)
<1>1. /\ Blank.arg = None /\ Blank.first = None /\ Blank.second = None
      /\ Blank.result = None /\ Blank.barred = {}
  BY DEF Blank
<1>2. Blank \in Locals
  BY DEF Blank, Locals, UserIds
<1> QED BY <1>1, <1>2, ProvisioningAssumption
           DEF RequestOK, Prepared, Guarded, Identifying, Creating, Assigning,
               Bootstrapping, Promoting, ProvisioningAssumption

LEMMA CrashOK ==
    ASSUME ProvisioningAssumption, IInv, Crash
    PROVE  IInv'
<1>1. /\ UNCHANGED <<users, userRoles, nextUser, asked, barred>>
      /\ provider' \in Providers /\ broken' = broken \cup Unfinished(Requests)
      /\ pc' = [r \in Requests |-> "idle"] /\ local' = [r \in Requests |-> Blank]
  BY DEF Crash, tables
<1>2. Ids' = Ids
  BY <1>1 DEF Ids
<1>3. TablesOK'
  BY <1>1, <1>2, ProvisioningAssumption DEF IInv, TablesOK, ProvisioningAssumption
<1>4. RequestsOK'
  BY <1>1, BlankOK DEF RequestsOK, Places
<1>5. AskedOK'
  <2>1. ASSUME NEW a \in asked, NEW r \in Requests, Pending(a, pc[r], local[r], userRoles)
        PROVE  a.user \in broken'
    BY <1>1, <2>1 DEF Pending, Unfinished, Assigning
  <2> QED BY <1>1, <2>1 DEF IInv, AskedOK
<1> QED BY <1>3, <1>4, <1>5 DEF IInv

-----------------------------------------------------------------------------
(* Theorems *)

LEMMA InitOK ==
    ASSUME ProvisioningAssumption, Init
    PROVE  IInv
<1>1. TablesOK
  BY ProvisioningAssumption DEF Init, TablesOK, Ids, ProvisioningAssumption
<1>2. RequestsOK
  BY BlankOK DEF Init, RequestsOK, Places
<1> QED BY <1>1, <1>2 DEF Init, IInv, AskedOK

LEMMA StepOK ==
    ASSUME ProvisioningAssumption, IInv, NEW r \in Requests, Step(r)
    PROVE  IInv'
BY ReadUserOK, FindSubjectOK, FindEmailOK, UpdateUserOK, LinkUserOK, CreateIdentityOK,
   FindUsernameOK, FindUserEmailOK, CreateUserOK, FindRoleOK, FindAssignmentOK, AssignOK,
   SetStatusOK, FindNameOK, FindMailOK, FindAdminOK, FindAdminRoleOK, CreateAdminOK,
   AssignAdminOK
   DEF Step

LEMMA StutterOK ==
    ASSUME IInv, UNCHANGED vars
    PROVE  IInv'
<1>1. UNCHANGED <<users, userRoles, nextUser, provider, pc, local, asked, broken, barred>>
  BY DEF vars, tables, history
<1>2. Ids' = Ids
  BY <1>1 DEF Ids
<1>3. TablesOK' /\ RequestsOK' /\ AskedOK'
  BY <1>1, <1>2 DEF IInv, TablesOK, RequestsOK, AskedOK
<1> QED BY <1>3 DEF IInv

\* The invariant the others follow from: ids are given out once, rows and roles
\* are of users who exist, every request holds what the next of its steps needs,
\* and whoever was deactivated has an inactive row and no activation under way.
THEOREM Inductive == Spec => []IInv
<1>1. Init => IInv
  BY ProvisioningAssumption, InitOK
<1>2. IInv /\ [Next]_vars => IInv'
  BY ProvisioningAssumption, CallOK, StepOK, FailOK, LoseCreatedOK, CrashOK, StutterOK
     DEF Next
<1> QED BY <1>1, <1>2, PTL DEF Spec

\* Every row is one some request made, and createLocalUser leaves out no role
\* that exists, unless it was cut off.
THEOREM RowsAreExplained == Spec => []RowsExplained
<1>1. IInv => TypeOK
  <2> SUFFICES ASSUME IInv PROVE TypeOK
    OBVIOUS
  <2>1. \A u \in users : /\ u.id \in 1 .. nextUser - 1 /\ u.active \in BOOLEAN
                         /\ u.provider \in {"local", "external", None}
    BY ProvisioningAssumption DEF IInv, TablesOK, Rows, ProvisioningAssumption
  <2>2. \A r \in Requests : pc[r] \in {"findRole", "findAssignment", "assign", "assignAdmin"}
                               => local[r].user \in Ids
    BY ProvisioningAssumption, UnderWay DEF RequestOK, Prepared, Assigning, Promoting
  <2> QED BY <2>1, <2>2 DEF TypeOK, IInv, TablesOK, Ids
<1>2. IInv => RolelessExplained
  BY DEF IInv, AskedOK, Assigned, Pending, Assigning, RolelessExplained, Unfinished
<1> QED BY <1>1, <1>2, Inductive, PTL DEF RowsExplained

\* A validation that starts after a deactivation was answered does not admit the
\* user, whatever other requests link, update, create or activate meanwhile.
THEOREM BarredStayOut == Spec => []NoEntryWhenBarred
<1>1. IInv => NoEntryWhenBarred
  BY DEF IInv, RequestsOK, RequestOK, Guarded, NoEntryWhenBarred
<1> QED BY <1>1, Inductive, PTL

-----------------------------------------------------------------------------
(* Identities, as long as requests come one at a time *)

\* What a request at p knows of the rows U it has looked up, when it is alone.
Aware(p, l, U, v) ==
    /\ p \in Identifying => v = "external"
    /\ p \in Identifying \ {"findSubject"} =>
          \/ /\ l.first = None
             /\ \A u \in U : ~(u.provider = v /\ u.subject = l.arg.subject)
          \/ l.first \in U /\ l.first.provider = v /\ l.first.subject = l.arg.subject
    /\ p = "updateUser" => \A u \in U : u.email = l.arg.email => u.email = None \/ u = l.first
    /\ p = "linkUser" => l.first = None
    /\ p = "createIdentity" =>
          l.first = None /\ \A u \in U : u.email = l.arg.email => u.email = None
    /\ p = "createUser" => \A u \in U : u.email # l.arg.email
    /\ p \in {"findMail", "findAdmin", "createAdmin"} /\ l.first = None =>
          \A u \in U : u.username # l.arg.username
    /\ p \in {"findAdmin", "createAdmin"} /\ l.first = None =>
          \A u \in U : u.email # l.arg.email
    /\ p = "createAdmin" => l.first = None

\* The subject of a local user is the address it was created with.
LocalSubjects(U) == \A u \in U : u.provider = "local" => u.subject = u.email
OneAtATime == \A q, r \in Requests : pc[q] # "idle" /\ pc[r] # "idle" => q = r

AloneOK ==
    ~raced => /\ IdentitiesUnique /\ LocalSubjects(users) /\ OneAtATime
              /\ \A r \in Requests : Aware(pc[r], local[r], users, provider)

\* Another row, unlike those there are, or in place of one of them.
LEMMA StaysUniqueWith ==
    ASSUME IdentitiesUnique, LocalSubjects(users), NEW row, Insert(row),
           \A u \in users : /\ u.email = row.email => u.email = None
                            /\ u.provider = row.provider /\ u.subject = row.subject
                                  => u.subject = None,
           row.provider = "local" => row.subject = row.email
    PROVE  IdentitiesUnique' /\ LocalSubjects(users')
BY DEF Insert, IdentitiesUnique, LocalSubjects

LEMMA StaysUniqueBut ==
    ASSUME IdentitiesUnique, LocalSubjects(users), NEW row, NEW id, Replace(id, row),
           \A u \in users \ {Row(id)} :
               /\ u.email = row.email => u.email = None
               /\ u.provider = row.provider /\ u.subject = row.subject => u.subject = None,
           row.provider = "local" => row.subject = row.email
    PROVE  IdentitiesUnique' /\ LocalSubjects(users')
BY DEF Replace, IdentitiesUnique, LocalSubjects

\* It suffices to look at the request that moves: the others are idle, or it
\* neither was nor is under way.
LEMMA AloneMoves ==
    ASSUME RequestsOK, AloneOK, NEW r \in Requests, NEW p, NEW l, Await(r, p, l),
           pc[r] # "idle" \/ UNCHANGED <<users, provider>>,
           ~raced /\ ~raced' => /\ IdentitiesUnique' /\ LocalSubjects(users')
                                /\ Aware(p, l, users', provider')
    PROVE  AloneOK'
<1> SUFFICES ASSUME ~raced'
             PROVE  /\ IdentitiesUnique' /\ LocalSubjects(users') /\ OneAtATime'
                    /\ \A q \in Requests : Aware(pc'[q], local'[q], users', provider')
  BY DEF AloneOK
<1>1. /\ pc' = [pc EXCEPT ![r] = p] /\ local' = [local EXCEPT ![r] = l] /\ ~raced
      /\ p # "idle" => \A q \in Requests \ {r} : pc[q] = "idle"
  BY DEF Await, Goto
<1>2. /\ pc'[r] = p /\ local'[r] = l
      /\ \A q \in Requests : q # r => pc'[q] = pc[q] /\ local'[q] = local[q]
  BY <1>1 DEF RequestsOK
<1>3. OneAtATime /\ \A q \in Requests : Aware(pc[q], local[q], users, provider)
  BY <1>1 DEF AloneOK
<1>4. OneAtATime'
  BY <1>1, <1>2, <1>3 DEF OneAtATime
<1>5. ASSUME NEW q \in Requests PROVE Aware(pc'[q], local'[q], users', provider')
  <2>1. CASE q = r
    BY <1>1, <1>2, <2>1
  <2>2. CASE q # r /\ pc[q] = "idle"
    BY <1>2, <2>2 DEF Aware, Identifying
  <2>3. CASE q # r /\ pc[q] # "idle"
    <3>1. UNCHANGED <<users, provider>>
      BY <1>3, <2>3 DEF OneAtATime
    <3> QED BY <1>2, <1>3, <2>3, <3>1
  <2> QED BY <2>1, <2>2, <2>3
<1> QED BY <1>1, <1>4, <1>5

LEMMA AloneKnows ==
    ASSUME AloneOK, ~raced, NEW r \in Requests
    PROVE  /\ IdentitiesUnique /\ LocalSubjects(users)
           /\ Aware(pc[r], local[r], users, provider)
BY DEF AloneOK

\* A request that only reads, and ends or goes where nothing need be known.
Unknowing == Places \ (Identifying \cup {"createUser", "findMail", "findAdmin", "createAdmin"})

LEMMA AloneReads ==
    ASSUME RequestsOK, AloneOK, NEW r \in Requests, NEW p, NEW l, Await(r, p, l),
           UNCHANGED <<users, provider>>,
           p \in Unknowing \/ (~raced /\ ~raced' => Aware(p, l, users, provider))
    PROVE  AloneOK'
<1>1. p \in Unknowing => Aware(p, l, users, provider)
  BY DEF Unknowing, Aware, Places, Identifying
<1>2. ~raced => IdentitiesUnique' /\ LocalSubjects(users')
  BY DEF AloneOK, IdentitiesUnique
<1> QED BY <1>1, <1>2, AloneMoves

\* A request that writes, and ends or goes where nothing need be known.
LEMMA AloneWrites ==
    ASSUME RequestsOK, AloneOK, NEW r \in Requests, NEW p \in Unknowing, NEW l, Await(r, p, l),
           pc[r] # "idle", ~raced => IdentitiesUnique' /\ LocalSubjects(users')
    PROVE  AloneOK'
<1>1. Aware(p, l, users', provider')
  BY DEF Unknowing, Aware, Places, Identifying
<1> QED BY <1>1, AloneMoves

LEMMA AloneDecides ==
    ASSUME IInv, AloneOK, NEW r \in Requests, NEW l \in Locals, Decide(r, l),
           UNCHANGED <<users, provider>>, pc[r] \in {"findSubject", "findEmail"},
           l.arg = local[r].arg,
           ~raced => \/ /\ l.first = None
                        /\ \A u \in users : ~(u.provider = provider /\ u.subject = l.arg.subject)
                     \/ /\ l.first \in users
                        /\ l.first.provider = provider /\ l.first.subject = l.arg.subject,
           l.arg.email = None \/ l.second \in Found(Mailed(l.arg.email))
    PROVE  AloneOK'
<1> DEFINE p == IF l.first # None THEN "updateUser"
                ELSE IF l.second # None THEN "linkUser" ELSE "createIdentity"
<1>1. RequestsOK /\ users \subseteq Rows /\ \A u, v \in users : u.id = v.id => u = v
  BY DEF IInv, TablesOK
<1>2. CASE l.first # None /\ l.second # None /\ l.first.id # l.second.id
  BY <1>1, <1>2, AloneReads DEF Decide, Finish, Unknowing, Places, Identifying
<1>3. CASE ~(l.first # None /\ l.second # None /\ l.first.id # l.second.id)
  <2>1. Await(r, p, l)
    BY <1>3 DEF Decide
  <2>2. ASSUME ~raced PROVE Aware(p, l, users, provider)
    <3>1. IdentitiesUnique /\ provider = "external"
      BY <2>2, AloneKnows DEF Aware, Identifying
    <3>2. ASSUME l.first # None, NEW u \in users, u.email = l.arg.email, u.email # None
          PROVE  u = l.first
      <4>1. l.second \in Found(Mailed(l.arg.email)) /\ u \in Mailed(l.arg.email)
        BY <3>2 DEF Mailed
      <4>2. l.second \in users /\ l.second.email = u.email
        BY <3>2, <4>1 DEF Found, Mailed
      <4>3. u = l.second
        BY <3>1, <3>2, <4>2 DEF IdentitiesUnique
      <4>4. l.second # None
        BY <1>1, <4>2, ProvisioningAssumption DEF ProvisioningAssumption
      <4>5. l.first \in users /\ l.first.id = l.second.id
        BY <1>3, <2>2, <3>2, <4>4
      <4> QED BY <1>1, <4>2, <4>3, <4>5
    <3>3. ASSUME l.second = None, NEW u \in users, u.email = l.arg.email
          PROVE  u.email = None
      BY <1>1, <3>3, ProvisioningAssumption DEF Found, Mailed, ProvisioningAssumption
    <3>4. l.first # None => Aware("updateUser", l, users, provider)
      BY <2>2, <3>1, <3>2 DEF Aware, Identifying
    <3>5. l.first = None => Aware("linkUser", l, users, provider)
      BY <1>1, <2>2, <3>1, ProvisioningAssumption DEF Aware, Identifying, ProvisioningAssumption
    <3>6. l.first = None /\ l.second = None => Aware("createIdentity", l, users, provider)
      BY <1>1, <2>2, <3>1, <3>3, ProvisioningAssumption
         DEF Aware, Identifying, ProvisioningAssumption
    <3> QED BY <3>4, <3>5, <3>6
  <2> HIDE DEF p
  <2> QED BY <1>1, <2>1, <2>2, AloneReads
<1> QED BY <1>2, <1>3

LEMMA AloneFindSubject ==
    ASSUME IInv, AloneOK, NEW r \in Requests, FindSubject(r)
    PROVE  AloneOK'
<1> DEFINE c == local[r].arg
           S == {x \in users : x.provider = provider /\ x.subject = c.subject}
<1>1. PICK u \in Found(S) :
         LET l == [local[r] EXCEPT !.first = u] IN
         IF c.email # None THEN Await(r, "findEmail", l) ELSE Decide(r, l)
  BY DEF FindSubject
<1> DEFINE l == [local[r] EXCEPT !.first = u]
<1>2. /\ pc[r] = "findSubject" /\ UNCHANGED <<users, provider>>
      /\ RequestsOK /\ TablesOK /\ local[r] \in Locals
  BY DEF FindSubject, Reading, tables, IInv, RequestsOK
<1>3. u \in Rows \cup {None} /\ (u = None => S = {}) /\ (u # None => u \in S)
  BY <1>2, ProvisioningAssumption DEF Found, TablesOK, ProvisioningAssumption
<1>4. l \in Locals /\ l.arg = c /\ l.first = u
  BY <1>2, <1>3, LooksAt
<1>5. \/ /\ l.first = None
         /\ \A x \in users : ~(x.provider = provider /\ x.subject = l.arg.subject)
      \/ l.first \in users /\ l.first.provider = provider /\ l.first.subject = l.arg.subject
  <2> HIDE DEF l
  <2> QED BY <1>3, <1>4
<1>6. IF c.email # None THEN Await(r, "findEmail", l) ELSE Decide(r, l)
  BY <1>1
<1> HIDE DEF l, c, S
<1>7. CASE c.email # None
  <2>1. ~raced => Aware("findEmail", l, users, provider)
    <3>1. ~raced => provider = "external"
      BY <1>2, AloneKnows DEF Aware, Identifying
    <3> QED BY <1>5, <3>1 DEF Aware, Identifying
  <2> QED BY <1>2, <1>6, <1>7, <2>1, AloneReads
<1>8. CASE c.email = None
  BY <1>2, <1>4, <1>5, <1>6, <1>8, AloneDecides DEF c
<1> QED BY <1>7, <1>8

LEMMA AloneFindEmail ==
    ASSUME IInv, AloneOK, NEW r \in Requests, FindEmail(r)
    PROVE  AloneOK'
<1>1. PICK u \in Found(Mailed(local[r].arg.email)) : Decide(r, [local[r] EXCEPT !.second = u])
  BY DEF FindEmail
<1> DEFINE l == [local[r] EXCEPT !.second = u]
<1>2. /\ pc[r] = "findEmail" /\ UNCHANGED <<users, provider>>
      /\ TablesOK /\ local[r] \in Locals
  BY DEF FindEmail, Reading, tables, IInv, RequestsOK
<1>3. u \in Rows \cup {None}
  BY <1>2 DEF Found, Mailed, TablesOK
<1>4. l \in Locals /\ l.arg = local[r].arg /\ l.first = local[r].first /\ l.second = u
  BY <1>2, <1>3, LooksAt
<1>5. Decide(r, l)
  BY <1>1
<1> HIDE DEF l
<1>6. ~raced => \/ /\ l.first = None
                   /\ \A x \in users : ~(x.provider = provider /\ x.subject = l.arg.subject)
                \/ l.first \in users /\ l.first.provider = provider /\ l.first.subject = l.arg.subject
  BY <1>2, <1>4, AloneKnows DEF Aware, Identifying
<1> QED BY <1>1, <1>2, <1>4, <1>5, <1>6, AloneDecides

LEMMA AloneUpdateUser ==
    ASSUME IInv, AloneOK, NEW r \in Requests, UpdateUser(r)
    PROVE  AloneOK'
<1> DEFINE c == local[r].arg
           old == local[r].first
           new == [Row(old.id) EXCEPT !.email = Or(c.email, old.email),
                                      !.username = Or(c.username, old.username)]
<1>1. /\ pc[r] = "updateUser" /\ Replace(old.id, new) /\ Resolve(r, new)
      /\ RequestsOK /\ TablesOK
  BY DEF UpdateUser, IInv
<1>2. old # None
  BY <1>1 DEF RequestsOK, RequestOK, Prepared
<1>3. ASSUME ~raced PROVE IdentitiesUnique' /\ LocalSubjects(users')
  <2>1. /\ IdentitiesUnique /\ LocalSubjects(users) /\ provider = "external"
        /\ old \in users /\ old.provider = provider /\ old.subject = c.subject
        /\ \A u \in users : u.email = c.email => u.email = None \/ u = old
    BY <1>1, <1>2, <1>3, AloneKnows DEF Aware, Identifying
  <2>2. Row(old.id) = old /\ old \in Rows
    BY <1>1, <2>1, RowFound DEF Ids, TablesOK
  <2>3. /\ new.email = Or(c.email, old.email) /\ new.provider = old.provider
        /\ new.subject = old.subject
    BY <2>2 DEF Rows
  <2> HIDE DEF new, c, old
  <2>4. \A u \in users \ {old} :
           /\ u.email = new.email => u.email = None
           /\ u.provider = new.provider /\ u.subject = new.subject => u.subject = None
    BY <2>1, <2>3 DEF Or, IdentitiesUnique
  <2>5. new.provider # "local"
    BY <2>1, <2>3
  <2> QED BY <1>1, <2>1, <2>2, <2>4, <2>5, StaysUniqueBut
<1> QED BY <1>1, <1>3, AloneWrites DEF Resolve, Finish, Unknowing, Places, Identifying

LEMMA AloneLinkUser ==
    ASSUME IInv, AloneOK, NEW r \in Requests, LinkUser(r)
    PROVE  AloneOK'
<1> DEFINE c == local[r].arg
           old == local[r].second
           new == [Row(old.id) EXCEPT !.provider = provider, !.subject = c.subject,
                                      !.username = Or(c.username, old.username)]
<1>1. /\ pc[r] = "linkUser" /\ Replace(old.id, new) /\ Resolve(r, new)
      /\ RequestsOK /\ TablesOK
  BY DEF LinkUser, IInv
<1>2. old # None /\ old.id \in Ids
  BY <1>1 DEF RequestsOK, RequestOK, Prepared
<1>3. ASSUME ~raced PROVE IdentitiesUnique' /\ LocalSubjects(users')
  <2>1. /\ IdentitiesUnique /\ LocalSubjects(users) /\ provider = "external"
        /\ local[r].first = None
        /\ \/ \A u \in users : ~(u.provider = provider /\ u.subject = c.subject)
           \/ local[r].first \in users
    BY <1>1, <1>2, <1>3, AloneKnows DEF Aware, Identifying
  <2>2. \A u \in users : ~(u.provider = provider /\ u.subject = c.subject)
    BY <1>1, <2>1, ProvisioningAssumption DEF TablesOK, ProvisioningAssumption
  <2>3. Row(old.id) \in users /\ Row(old.id) \in Rows
    BY <1>1, <1>2, RowFound
  <2>4. /\ new.email = Row(old.id).email /\ new.provider = provider
        /\ new.subject = c.subject
    BY <2>3 DEF Rows
  <2> HIDE DEF new, c, old
  <2>5. \A u \in users \ {Row(old.id)} :
           /\ u.email = new.email => u.email = None
           /\ u.provider = new.provider /\ u.subject = new.subject => u.subject = None
    BY <2>1, <2>2, <2>3, <2>4 DEF IdentitiesUnique
  <2>6. new.provider # "local"
    BY <2>1, <2>4
  <2> QED BY <1>1, <2>1, <2>5, <2>6, StaysUniqueBut
<1> QED BY <1>1, <1>3, AloneWrites DEF Resolve, Finish, Unknowing, Places, Identifying

LEMMA AloneCreateIdentity ==
    ASSUME IInv, AloneOK, NEW r \in Requests, CreateIdentity(r)
    PROVE  AloneOK'
<1> DEFINE c == local[r].arg
           new == [id |-> nextUser, username |-> Or(c.username, defaultUsername(c)),
                   email |-> c.email, provider |-> provider,
                   subject |-> c.subject, active |-> TRUE]
<1>1. /\ pc[r] = "createIdentity" /\ Insert(new) /\ Resolve(r, new)
      /\ RequestsOK /\ TablesOK
  BY DEF CreateIdentity, IInv
<1>2. ASSUME ~raced PROVE IdentitiesUnique' /\ LocalSubjects(users')
  <2>1. /\ IdentitiesUnique /\ LocalSubjects(users) /\ provider = "external"
        /\ local[r].first = None
        /\ \/ \A u \in users : ~(u.provider = provider /\ u.subject = c.subject)
           \/ local[r].first \in users
        /\ \A u \in users : u.email = c.email => u.email = None
    BY <1>1, <1>2, AloneKnows DEF Aware, Identifying
  <2>2. \A u \in users : ~(u.provider = provider /\ u.subject = c.subject)
    BY <1>1, <2>1, ProvisioningAssumption DEF TablesOK, ProvisioningAssumption
  <2>3. new.email = c.email /\ new.provider = provider /\ new.subject = c.subject
    OBVIOUS
  <2> HIDE DEF new, c
  <2> QED BY <1>1, <2>1, <2>2, <2>3, StaysUniqueWith
<1> QED BY <1>1, <1>2, AloneWrites DEF Resolve, Finish, Unknowing, Places, Identifying

\* A local user whose address nobody has.
LEMMA AloneInserts ==
    ASSUME IInv, AloneOK, NEW r \in Requests, pc[r] = "createUser", ~raced,
           Insert([id |-> nextUser, username |-> local[r].arg.username,
                   email |-> local[r].arg.email, provider |-> "local",
                   subject |-> local[r].arg.email, active |-> local[r].arg.active])
    PROVE  IdentitiesUnique' /\ LocalSubjects(users')
<1> DEFINE d == local[r].arg
           new == [id |-> nextUser, username |-> d.username, email |-> d.email,
                   provider |-> "local", subject |-> d.email, active |-> d.active]
<1>1. /\ IdentitiesUnique /\ LocalSubjects(users)
      /\ \A u \in users : u.email # d.email
  BY AloneKnows DEF Aware
<1>2. /\ Insert(new) /\ new.email = d.email /\ new.provider = "local"
      /\ new.subject = d.email
  OBVIOUS
<1> HIDE DEF new, d
<1> QED BY <1>1, <1>2, StaysUniqueWith DEF LocalSubjects

LEMMA AloneCreateUser ==
    ASSUME IInv, AloneOK, NEW r \in Requests, CreateUser(r)
    PROVE  AloneOK'
<1>1. pc[r] = "createUser" /\ RequestsOK
  BY DEF CreateUser, IInv
<1>2. ~raced => IdentitiesUnique' /\ LocalSubjects(users')
  BY <1>1, AloneInserts DEF CreateUser
<1>3. \E p \in {"idle", "findRole"} : \E l : Await(r, p, l)
  BY DEF CreateUser, NextRole, Finish
<1> QED BY <1>1, <1>2, <1>3, AloneWrites DEF Unknowing, Places, Identifying, Assigning

LEMMA AloneLoseCreated ==
    ASSUME IInv, AloneOK, NEW r \in Requests, LoseCreated(r)
    PROVE  AloneOK'
<1>1. pc[r] = "createUser" /\ RequestsOK
  BY DEF LoseCreated, IInv
<1>2. ~raced => IdentitiesUnique' /\ LocalSubjects(users')
  BY <1>1, AloneInserts DEF LoseCreated
<1> QED BY <1>1, <1>2, AloneWrites DEF LoseCreated, Finish, Unknowing, Places, Identifying

LEMMA AloneCreateAdmin ==
    ASSUME ProvisioningAssumption, IInv, AloneOK, NEW r \in Requests, CreateAdmin(r)
    PROVE  AloneOK'
<1> DEFINE d == local[r].arg
           new == [id |-> nextUser, username |-> d.username, email |-> d.email,
                   provider |-> None, subject |-> None, active |-> TRUE]
<1>1. pc[r] = "createAdmin" /\ RequestsOK /\ Insert(new)
  BY DEF CreateAdmin, IInv
<1>2. ASSUME ~raced PROVE IdentitiesUnique' /\ LocalSubjects(users')
  <2>1. /\ IdentitiesUnique /\ LocalSubjects(users)
        /\ \A u \in users : u.email # d.email
    BY <1>1, <1>2, AloneKnows DEF Aware
  <2>2. new.email = d.email /\ new.provider = None /\ new.subject = None
    OBVIOUS
  <2>3. None # "local"
    BY ProvisioningAssumption DEF ProvisioningAssumption
  <2> HIDE DEF new, d
  <2> QED BY <1>1, <2>1, <2>2, <2>3, StaysUniqueWith
<1>3. \E l : Await(r, "assignAdmin", l)
  BY DEF CreateAdmin
<1> QED BY <1>1, <1>2, <1>3, AloneWrites DEF Unknowing, Places, Identifying, Promoting

LEMMA AloneSetStatus ==
    ASSUME IInv, AloneOK, NEW r \in Requests, SetStatus(r)
    PROVE  AloneOK'
<1> DEFINE id == local[r].user
           flag == local[r].arg
           new == [Row(id) EXCEPT !.active = flag]
<1>1. pc[r] = "setStatus" /\ RequestsOK /\ TablesOK
  BY DEF SetStatus, IInv
<1>2. \E l : Await(r, "idle", l)
  BY DEF SetStatus, Finish
<1>3. ASSUME ~raced PROVE IdentitiesUnique' /\ LocalSubjects(users')
  <2>1. IdentitiesUnique /\ LocalSubjects(users)
    BY <1>3, AloneKnows
  <2>2. CASE users' = users
    BY <2>1, <2>2 DEF IdentitiesUnique
  <2>3. CASE id \in Ids /\ Replace(id, new)
    <3>1. Row(id) \in users /\ Row(id) \in Rows
      BY <1>1, <2>3, RowFound
    <3>2. /\ new.email = Row(id).email /\ new.provider = Row(id).provider
          /\ new.subject = Row(id).subject
      <4> HIDE DEF flag, id
      <4> QED BY <3>1 DEF Rows
    <3> HIDE DEF new, id
    <3>3. \A u \in users \ {Row(id)} :
             /\ u.email = new.email => u.email = None
             /\ u.provider = new.provider /\ u.subject = new.subject => u.subject = None
      BY <2>1, <3>1, <3>2 DEF IdentitiesUnique
    <3>4. new.provider = "local" => new.subject = new.email
      BY <2>1, <3>1, <3>2 DEF LocalSubjects
    <3> QED BY <2>1, <2>3, <3>3, <3>4, StaysUniqueBut
  <2> QED BY <2>2, <2>3 DEF SetStatus, Ids
<1> QED BY <1>1, <1>2, <1>3, AloneWrites DEF Unknowing, Places, Identifying

LEMMA AloneFindName ==
    ASSUME ProvisioningAssumption, IInv, AloneOK, NEW r \in Requests, FindName(r)
    PROVE  AloneOK'
<1>1. PICK u \in Found(Named(local[r].arg.username)) :
         Await(r, "findMail", [local[r] EXCEPT !.first = u])
  BY DEF FindName
<1> DEFINE l == [local[r] EXCEPT !.first = u]
<1>2. UNCHANGED <<users, provider>> /\ RequestsOK /\ TablesOK /\ local[r] \in Locals
  BY DEF FindName, Reading, tables, IInv, RequestsOK
<1>3. /\ u \in Rows \cup {None}
      /\ u = None => \A x \in users : x.username # local[r].arg.username
  BY <1>2, ProvisioningAssumption DEF Found, Named, TablesOK, ProvisioningAssumption
<1>4. l.arg = local[r].arg /\ l.first = u /\ Await(r, "findMail", l)
  BY <1>1, <1>2, <1>3, LooksAt
<1> HIDE DEF l
<1>5. Aware("findMail", l, users, provider)
  BY <1>3, <1>4 DEF Aware, Identifying
<1> QED BY <1>2, <1>4, <1>5, AloneReads

LEMMA AloneFindMail ==
    ASSUME ProvisioningAssumption, IInv, AloneOK, NEW r \in Requests, FindMail(r)
    PROVE  AloneOK'
<1>1. /\ pc[r] = "findMail" /\ UNCHANGED <<users, provider>> /\ RequestsOK /\ TablesOK
  BY DEF FindMail, Reading, tables, IInv
<1>2. CASE Finish(r, "rejected", None)
  BY <1>1, <1>2, AloneReads DEF Finish, Unknowing, Places, Identifying
<1>3. CASE \E u \in Found(Mailed(local[r].arg.email)) :
              /\ ~(u # None /\ local[r].first = None /\ u.username # local[r].arg.username)
              /\ Await(r, "findAdmin", local[r])
  <2>1. PICK u \in Found(Mailed(local[r].arg.email)) :
              ~(u # None /\ local[r].first = None /\ u.username # local[r].arg.username)
    BY <1>3
  <2>2. ASSUME ~raced PROVE Aware("findAdmin", local[r], users, provider)
    <3>1. local[r].first = None => \A x \in users : x.username # local[r].arg.username
      BY <1>1, <2>2, AloneKnows DEF Aware
    <3>2. local[r].first = None => u = None
      BY <2>1, <3>1, ProvisioningAssumption DEF Found, Mailed
    <3>3. local[r].first = None => \A x \in users : x.email # local[r].arg.email
      BY <1>1, <2>1, <3>2, ProvisioningAssumption
         DEF Found, Mailed, TablesOK, ProvisioningAssumption
    <3> QED BY <3>1, <3>3 DEF Aware, Identifying
  <2> QED BY <1>1, <1>3, <2>2, AloneReads
<1> QED BY <1>2, <1>3 DEF FindMail

LEMMA AloneFindAdmin ==
    ASSUME IInv, AloneOK, NEW r \in Requests, FindAdmin(r)
    PROVE  AloneOK'
<1>1. pc[r] = "findAdmin" /\ UNCHANGED <<users, provider>> /\ RequestsOK
  BY DEF FindAdmin, Reading, tables, IInv
<1>2. \/ \E p \in {"idle", "findAdminRole"} : \E l : Await(r, p, l)
      \/ local[r].first = None /\ Await(r, "createAdmin", local[r])
  BY DEF FindAdmin, Finish
<1>3. ~raced /\ local[r].first = None => Aware("createAdmin", local[r], users, provider)
  BY <1>1, AloneKnows DEF Aware, Identifying
<1> QED BY <1>1, <1>2, <1>3, AloneReads DEF Unknowing, Places, Identifying, Promoting

LEMMA AloneFindUserEmail ==
    ASSUME IInv, AloneOK, NEW r \in Requests, FindUserEmail(r)
    PROVE  AloneOK'
<1>1. UNCHANGED <<users, provider>> /\ RequestsOK
  BY DEF FindUserEmail, Reading, tables, IInv
<1>2. \/ \E l : Await(r, "idle", l)
      \/ Mailed(local[r].arg.email) = {} /\ Await(r, "createUser", local[r])
  BY DEF FindUserEmail, Finish
<1>3. Mailed(local[r].arg.email) = {} => Aware("createUser", local[r], users, provider)
  BY DEF Aware, Identifying, Mailed
<1> QED BY <1>1, <1>2, <1>3, AloneReads DEF Unknowing, Places, Identifying

\* The other steps write no rows, and go where nothing need be known of them.
LEMMA AloneOtherwise ==
    ASSUME IInv, AloneOK, NEW r \in Requests,
           \/ ReadUser(r) \/ FindUsername(r) \/ FindRole(r) \/ FindAssignment(r) \/ Assign(r)
           \/ FindAdminRole(r) \/ AssignAdmin(r) \/ Fail(r)
    PROVE  AloneOK'
<1>1. UNCHANGED <<users, provider>> /\ RequestsOK
  BY DEF ReadUser, FindUsername, FindRole, FindAssignment, Assign, FindAdminRole, AssignAdmin,
         Fail, Reading, tables, IInv
<1>2. \E p \in {"idle", "findUserEmail", "findRole", "findAssignment", "assign", "assignAdmin"} : \E l :
         Await(r, p, l)
  <2>1. ASSUME NEW l, NextRole(r, l) PROVE \E p \in {"idle", "findRole"} : \E k : Await(r, p, k)
    BY <2>1 DEF NextRole, Finish
  <2>2. CASE ReadUser(r) \/ FindUsername(r) \/ AssignAdmin(r) \/ Fail(r) \/ FindAdminRole(r)
    BY <2>2 DEF ReadUser, FindUsername, AssignAdmin, Fail, FindAdminRole, Promoted, Finish
  <2>3. CASE FindRole(r)
    BY <2>1, <2>3 DEF FindRole
  <2>4. CASE FindAssignment(r) \/ Assign(r)
    BY <2>1, <2>4 DEF FindAssignment, Assign
  <2> QED BY <2>2, <2>3, <2>4
<1> QED BY <1>1, <1>2, AloneReads
        DEF Unknowing, Places, Identifying, Creating, Assigning, Promoting

LEMMA AloneCalls ==
    ASSUME IInv, AloneOK, NEW r \in Requests, Call(r)
    PROVE  AloneOK'
<1>0. {"idle", "readUser", "findUsername", "findName"} \subseteq Unknowing
  BY DEF Unknowing, Places, Identifying, Creating, Bootstrapping
<1>1. RequestsOK
  BY DEF IInv
<1>2. ASSUME NEW t \in Tokens, StartValidate(r, t) PROVE AloneOK'
  <2>1. UNCHANGED <<users, provider>>
    BY <1>2 DEF StartValidate, Begin, tables
  <2>2. \/ \E p \in {"idle", "readUser"} : \E l : Await(r, p, l)
        \/ provider = "external" /\ \E l : Await(r, "findSubject", l)
    BY <1>2 DEF StartValidate, Begin
  <2>3. CASE \E p \in {"idle", "readUser"} : \E l : Await(r, p, l)
    BY <1>0, <1>1, <2>1, <2>3, AloneReads
  <2>4. CASE provider = "external" /\ \E l : Await(r, "findSubject", l)
    <3>1. PICK l : Await(r, "findSubject", l)
      BY <2>4
    <3>2. Aware("findSubject", l, users, provider)
      BY <2>4 DEF Aware, Identifying
    <3> QED BY <1>1, <2>1, <3>1, <3>2, AloneReads
  <2> QED BY <2>2, <2>3, <2>4
<1>3. ASSUME NEW d \in LocalUsers, StartLocal(r, d) PROVE AloneOK'
  <2>1. UNCHANGED <<users, provider>> /\ \E l : Await(r, "findUsername", l)
    BY <1>3 DEF StartLocal, Begin, tables
  <2> QED BY <1>0, <1>1, <2>1, AloneReads
<1>4. ASSUME NEW d \in Admins, NEW ok \in BOOLEAN, StartBootstrap(r, d, ok) PROVE AloneOK'
  <2>1. /\ UNCHANGED <<users, provider>>
        /\ \E p \in {"idle", "findName"} : \E l : Await(r, p, l)
    BY <1>4 DEF StartBootstrap, Begin, tables
  <2> QED BY <1>0, <1>1, <2>1, AloneReads
<1>5. ASSUME NEW id \in 1 .. MaxUsers, NEW flag \in BOOLEAN, StartSetStatus(r, id, flag)
      PROVE  AloneOK'
  <2> SUFFICES ASSUME ~raced'
               PROVE  /\ IdentitiesUnique' /\ LocalSubjects(users') /\ OneAtATime'
                      /\ \A q \in Requests : Aware(pc'[q], local'[q], users', provider')
    BY DEF AloneOK
  <2>1. /\ pc' = [pc EXCEPT ![r] = "setStatus"] /\ users' = users /\ RequestsOK
        /\ ~raced /\ \A q \in Requests \ {r} : pc[q] = "idle"
    BY <1>5 DEF StartSetStatus, Goto, tables, IInv
  <2>2. \A q \in Requests : pc'[q] = IF q = r THEN "setStatus" ELSE "idle"
    BY <2>1 DEF RequestsOK
  <2>3. \A q \in Requests : Aware(pc'[q], local'[q], users', provider')
    BY <2>2 DEF Aware, Identifying
  <2>4. OneAtATime'
    BY <2>2 DEF OneAtATime
  <2> QED BY <2>1, <2>3, <2>4 DEF AloneOK, IdentitiesUnique
<1> QED BY <1>2, <1>3, <1>4, <1>5 DEF Call

LEMMA AloneCrashes ==
    ASSUME IInv, AloneOK, Crash
    PROVE  AloneOK'
<1>1. /\ pc' = [r \in Requests |-> "idle"] /\ users' = users /\ raced' = raced
  BY DEF Crash, tables
<1>2. \A q \in Requests : Aware(pc'[q], local'[q], users', provider')
  BY <1>1 DEF Aware, Identifying
<1>3. OneAtATime'
  BY <1>1 DEF OneAtATime
<1> QED BY <1>1, <1>2, <1>3 DEF AloneOK, IdentitiesUnique

\* While requests have come one at a time, no two users share an address or the
\* subject of a provider, whatever was cut off before and wherever the process
\* was restarted with another provider.
THEOREM AloneStaysUnique == Spec => []AloneIdentitiesUnique
<1>1. Init => AloneOK
  BY DEF Init, AloneOK, IdentitiesUnique, LocalSubjects, OneAtATime, Aware, Identifying
<1>2. IInv /\ AloneOK /\ [Next]_vars => AloneOK'
  <2> SUFFICES ASSUME IInv, AloneOK, [Next]_vars PROVE AloneOK'
    OBVIOUS
  <2>1. ASSUME NEW r \in Requests, Step(r) PROVE AloneOK'
    BY <2>1, ProvisioningAssumption, AloneFindSubject, AloneFindEmail, AloneUpdateUser,
       AloneLinkUser, AloneCreateIdentity, AloneCreateUser, AloneCreateAdmin, AloneSetStatus,
       AloneFindName, AloneFindMail, AloneFindAdmin, AloneFindUserEmail, AloneOtherwise
       DEF Step
  <2>2. ASSUME UNCHANGED vars PROVE AloneOK'
    BY <2>2 DEF vars, tables, AloneOK, IdentitiesUnique, OneAtATime
  <2> QED BY <2>1, <2>2, AloneCalls, AloneOtherwise, AloneLoseCreated, AloneCrashes DEF Next
<1>3. AloneOK => AloneIdentitiesUnique
  BY DEF AloneOK, AloneIdentitiesUnique
<1> QED BY <1>1, <1>2, <1>3, Inductive, PTL DEF Spec
=============================================================================
