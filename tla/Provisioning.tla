--------------------------- MODULE Provisioning ---------------------------
(***************************************************************************)
(* The users table and what writes it: the identity behind a validated      *)
(* token (JwtStrategy.validate, upsertIdentityUser), local users and their  *)
(* roles (createLocalUser), activation (setUserStatus), and the bootstrap   *)
(* of an administrator (bootstrapAdmin).                                    *)
(*                                                                          *)
(* As in Rbac, a request awaits one NocoDB call after another, pc names the *)
(* call awaited, and NocoDB has no unique columns and no transactions.      *)
(* Lookups of table ids are left out.                                       *)
(***************************************************************************)
EXTENDS Naturals, FiniteSets

CONSTANTS Requests,
          Providers,  \* the values AUTH_PROVIDER has at one start or another
          Tokens,     \* payloads of valid tokens
          LocalUsers, \* bodies of POST /users
          Admins,     \* bodies of POST /bootstrap/admin
          Roles,      \* names of the roles that exist
          Ops,        \* the operations the clients call
          MaxUsers,   \* bound on ids NocoDB gives to users
          MaxFaults,  \* bound on failed calls and crashes
          None

\* The texts that requests carry, and the rows of users that come of them.
Texts ==
    (UNION {{t.sub, t.email, t.preferred, t.username} : t \in Tokens})
    \cup (UNION {{d.username, d.email} : d \in LocalUsers \cup Admins}) \cup {None}
Rows ==
    [id : 1 .. MaxUsers, username : Texts, email : Texts,
     provider : {"local", "external", None}, subject : Texts, active : BOOLEAN]

ASSUME ProvisioningAssumption ==
    /\ Providers # {} /\ Providers \subseteq {"local", "external"}
    /\ MaxUsers \in Nat /\ MaxFaults \in Nat
    /\ \A d \in LocalUsers : d.active \in BOOLEAN
    /\ None \notin Rows \cup {"admitted", "rejected", "failed", "done", "local", "external"}

VARIABLES
    users, userRoles, \* tables: rows of users, pairs of user id and role
    nextUser,         \* id NocoDB gives to the next user
    provider,         \* AUTH_PROVIDER of the running process
    pc, local,        \* control state and locals of requests
    faults,           \* failed calls and crashes so far
    asked,            \* history: roles createLocalUser was to assign, by user
    broken,           \* history: users whose assignment of roles was cut off
    barred,           \* history: users deactivated, and not activated since
    bootstrapped,     \* history: users a bootstrap has made administrators
    raced             \* history: two requests were under way at a time

tables == <<users, userRoles, nextUser>>
history == <<asked, broken, barred, bootstrapped>>
vars == <<tables, provider, pc, local, faults, history, raced>>

Blank == [arg |-> None, first |-> None, second |-> None, user |-> None,
          todo |-> {}, role |-> None, result |-> None, barred |-> {}]

\* What findOne may return: one of the matching rows, or null.
Found(S) == IF S = {} THEN {None} ELSE S
Or(a, b) == IF a # None THEN a ELSE b
Row(id) == CHOOSE u \in users : u.id = id
Named(n) == {u \in users : u.username = n}
Mailed(e) == {u \in users : u.email = e}

Goto(r, p) ==
    /\ pc' = [pc EXCEPT ![r] = p]
    /\ raced' = (raced \/ (p # "idle" /\ \E q \in Requests \ {r} : pc[q] # "idle"))
Await(r, p, l) == Goto(r, p) /\ local' = [local EXCEPT ![r] = l]

\* The request ends; of its locals the result is kept until the next one.
Finish(r, result, id) ==
    Await(r, "idle", [Blank EXCEPT !.result = result, !.user = id,
                                   !.barred = local[r].barred])

Begin(r, op, p, l) ==
    /\ op \in Ops /\ pc[r] = "idle"
    /\ Await(r, p, l)
    /\ UNCHANGED <<tables, provider, faults, asked, broken, bootstrapped>>

Reading == UNCHANGED <<tables, provider, faults, history>>

Insert(row) ==
    /\ nextUser <= MaxUsers
    /\ users' = users \cup {row}
    /\ nextUser' = nextUser + 1

Replace(id, row) == users' = (users \ {Row(id)}) \cup {row}

-----------------------------------------------------------------------------
(* JwtStrategy.validate *)

\* normalize: a claim that is blank or of another type counts as absent.
Coerce(v) == IF v = "" THEN None ELSE v
Normalize(t) ==
    [subject |-> Coerce(t.sub), number |-> t.number, email |-> Coerce(t.email),
     username |-> Or(Coerce(t.preferred), Coerce(t.username))]

\* The subject is a number for local tokens (0: not a positive one).
StartValidate(r, t) ==
    /\ LET c == Normalize(t) IN
       IF c.subject = None
       THEN Begin(r, "validate", "idle", [Blank EXCEPT !.result = "rejected"])
       ELSE IF provider = "external"
       THEN Begin(r, "validate", "findSubject", [Blank EXCEPT !.arg = c, !.barred = barred])
       ELSE IF c.number = 0
       THEN Begin(r, "validate", "idle", [Blank EXCEPT !.result = "rejected"])
       ELSE Begin(r, "validate", "readUser", [Blank EXCEPT !.arg = c, !.barred = barred])
    /\ UNCHANGED barred

\* A slip: an inactive user is only rejected by the external provider.
ReadUserAny(r) ==
    /\ pc[r] = "readUser"
    /\ LET n == local[r].arg.number IN
       Finish(r, IF \E u \in users : u.id = n THEN "admitted" ELSE "rejected", n)
    /\ Reading

ReadUser(r) ==
    /\ pc[r] = "readUser"
    /\ LET n == local[r].arg.number IN
       Finish(r, IF \E u \in users : u.id = n /\ u.active
                 THEN "admitted" ELSE "rejected", n)
    /\ Reading

\* validate rejects an identity that is not active.
Resolve(r, row) == Finish(r, IF row.active THEN "admitted" ELSE "rejected", row.id)

\* A slip: the conflict goes unnoticed.
DecideAnyway(r, l) ==
    Await(r, IF l.first # None THEN "updateUser"
             ELSE IF l.second # None THEN "linkUser"
             ELSE "createIdentity", l)

\* upsertIdentityUser, after both lookups: conflict, update, link or create.
Decide(r, l) ==
    IF l.first # None /\ l.second # None /\ l.first.id # l.second.id
    THEN Finish(r, "rejected", None)
    ELSE Await(r, IF l.first # None THEN "updateUser"
                  ELSE IF l.second # None THEN "linkUser"
                  ELSE "createIdentity", l)

FindSubject(r) ==
    /\ pc[r] = "findSubject"
    /\ LET c == local[r].arg IN
       \E u \in Found({x \in users : x.provider = provider /\ x.subject = c.subject}) :
          LET l == [local[r] EXCEPT !.first = u] IN
          IF c.email # None THEN Await(r, "findEmail", l) ELSE Decide(r, l)
    /\ Reading

FindEmail(r) ==
    /\ pc[r] = "findEmail"
    /\ \E u \in Found(Mailed(local[r].arg.email)) :
          Decide(r, [local[r] EXCEPT !.second = u])
    /\ Reading

Unassigned == UNCHANGED <<userRoles, provider, faults, history>>

UpdateUser(r) ==
    /\ pc[r] = "updateUser"
    /\ LET c == local[r].arg
           old == local[r].first
           new == [Row(old.id) EXCEPT !.email = Or(c.email, old.email),
                                      !.username = Or(c.username, old.username)] IN
       Replace(old.id, new) /\ Resolve(r, new)
    /\ UNCHANGED nextUser /\ Unassigned

LinkUser(r) ==
    /\ pc[r] = "linkUser"
    /\ LET c == local[r].arg
           old == local[r].second
           new == [Row(old.id) EXCEPT !.provider = provider, !.subject = c.subject,
                                      !.username = Or(c.username, old.username)] IN
       Replace(old.id, new) /\ Resolve(r, new)
    /\ UNCHANGED nextUser /\ Unassigned

\* The part of the address before the @ (here the address), or user_<subject>.
defaultUsername(c) == Or(c.email, c.subject)

CreateIdentity(r) ==
    /\ pc[r] = "createIdentity"
    /\ LET c == local[r].arg
           new == [id |-> nextUser, username |-> Or(c.username, defaultUsername(c)),
                   email |-> c.email, provider |-> provider,
                   subject |-> c.subject, active |-> TRUE] IN
       Insert(new) /\ Resolve(r, new)
    /\ Unassigned

-----------------------------------------------------------------------------
(* createLocalUser and setUserStatus *)

StartLocal(r, d) ==
    /\ Begin(r, "local", "findUsername", [Blank EXCEPT !.arg = d])
    /\ UNCHANGED barred

FindUsername(r) ==
    /\ pc[r] = "findUsername"
    /\ IF Named(local[r].arg.username) # {} THEN Finish(r, "rejected", None)
       ELSE Await(r, "findUserEmail", local[r])
    /\ Reading

FindUserEmail(r) ==
    /\ pc[r] = "findUserEmail"
    /\ IF Mailed(local[r].arg.email) # {} THEN Finish(r, "rejected", None)
       ELSE Await(r, "createUser", local[r])
    /\ Reading

\* assignRolesByName takes one role after another.
NextRole(r, l) ==
    IF l.todo = {} THEN Finish(r, "done", l.user) ELSE Await(r, "findRole", l)

CreateUser(r) ==
    /\ pc[r] = "createUser"
    /\ LET d == local[r].arg IN
       /\ Insert([id |-> nextUser, username |-> d.username, email |-> d.email,
                  provider |-> "local", subject |-> d.email, active |-> d.active])
       /\ asked' = asked \cup {[user |-> nextUser, roles |-> d.roles]}
       /\ NextRole(r, [local[r] EXCEPT !.user = nextUser, !.todo = d.roles])
    /\ UNCHANGED <<userRoles, provider, faults, broken, barred, bootstrapped>>

\* A slip: an unknown role ends the loop.
FindRoleOrStop(r) ==
    /\ pc[r] = "findRole"
    /\ \E n \in local[r].todo :
          IF n \in Roles
          THEN Await(r, "findAssignment",
                     [local[r] EXCEPT !.role = n, !.todo = @ \ {n}])
          ELSE Finish(r, "done", local[r].user)
    /\ Reading

FindRole(r) ==
    /\ pc[r] = "findRole"
    /\ \E n \in local[r].todo :
          LET l == [local[r] EXCEPT !.role = n, !.todo = local[r].todo \ {n}] IN
          IF n \in Roles THEN Await(r, "findAssignment", l) ELSE NextRole(r, l)
    /\ Reading

FindAssignment(r) ==
    /\ pc[r] = "findAssignment"
    /\ IF <<local[r].user, local[r].role>> \in userRoles
       THEN NextRole(r, local[r]) ELSE Await(r, "assign", local[r])
    /\ Reading

Assign(r) ==
    /\ pc[r] = "assign"
    /\ userRoles' = userRoles \cup {<<local[r].user, local[r].role>>}
    /\ NextRole(r, local[r])
    /\ UNCHANGED <<users, nextUser, provider, faults, history>>

\* From the start of an activation on, the user may be admitted again.
StartSetStatus(r, id, flag) ==
    /\ "status" \in Ops /\ pc[r] = "idle" /\ Goto(r, "setStatus")
    /\ LET forget == IF flag THEN {id} ELSE {} IN
       /\ barred' = barred \ forget
       /\ local' = [q \in Requests |->
                     IF q = r THEN [Blank EXCEPT !.user = id, !.arg = flag]
                     ELSE [local[q] EXCEPT !.barred = @ \ forget]]
    /\ UNCHANGED <<tables, provider, faults, asked, broken, bootstrapped>>

SetStatus(r) ==
    /\ pc[r] = "setStatus"
    /\ LET id == local[r].user IN
       IF \E u \in users : u.id = id
       THEN /\ Replace(id, [Row(id) EXCEPT !.active = local[r].arg])
            /\ Finish(r, "done", id)
            /\ barred' = IF local[r].arg \/ \E q \in Requests :
                                pc[q] = "setStatus" /\ local[q].user = id /\ local[q].arg
                         THEN barred ELSE barred \cup {id}
       ELSE UNCHANGED <<users, barred>> /\ Finish(r, "failed", None)
    /\ UNCHANGED <<userRoles, nextUser, provider, faults, asked, broken, bootstrapped>>

-----------------------------------------------------------------------------
(* bootstrapAdmin *)

StartBootstrap(r, d, tokenOk) ==
    /\ Begin(r, "bootstrap", IF tokenOk THEN "findName" ELSE "idle",
             [Blank EXCEPT !.arg = d, !.result = IF tokenOk THEN None ELSE "rejected"])
    /\ UNCHANGED barred

FindName(r) ==
    /\ pc[r] = "findName"
    /\ \E u \in Found(Named(local[r].arg.username)) :
          Await(r, "findMail", [local[r] EXCEPT !.first = u])
    /\ Reading

\* A slip: an address in use is a conflict even for the user named.
FindMailStrict(r) ==
    /\ pc[r] = "findMail"
    /\ IF Mailed(local[r].arg.email) # {} THEN Finish(r, "rejected", None)
       ELSE Await(r, "findAdmin", local[r])
    /\ Reading

FindMail(r) ==
    /\ pc[r] = "findMail"
    /\ \E u \in Found(Mailed(local[r].arg.email)) :
          IF u # None /\ local[r].first = None /\ u.username # local[r].arg.username
          THEN Finish(r, "rejected", None)
          ELSE Await(r, "findAdmin", local[r])
    /\ Reading

FindAdmin(r) ==
    /\ pc[r] = "findAdmin"
    /\ IF "admin" \notin Roles THEN Finish(r, "failed", None)
       ELSE IF local[r].first = None THEN Await(r, "createAdmin", local[r])
       ELSE Await(r, "findAdminRole", [local[r] EXCEPT !.user = local[r].first.id])
    /\ Reading

Promoted(r, id) ==
    Finish(r, "done", id) /\ bootstrapped' = bootstrapped \cup {id}

FindAdminRole(r) ==
    /\ pc[r] = "findAdminRole"
    /\ IF <<local[r].user, "admin">> \in userRoles
       THEN Promoted(r, local[r].user)
       ELSE Await(r, "assignAdmin", local[r]) /\ UNCHANGED bootstrapped
    /\ UNCHANGED <<tables, provider, faults, asked, broken, barred>>

\* A slip: the id of the new row is not taken over.
CreateAdminStale(r) ==
    /\ pc[r] = "createAdmin"
    /\ LET d == local[r].arg IN
       Insert([id |-> nextUser, username |-> d.username, email |-> d.email,
               provider |-> None, subject |-> None, active |-> TRUE])
    /\ Await(r, "assignAdmin", [local[r] EXCEPT !.user = None])
    /\ Unassigned

CreateAdmin(r) ==
    /\ pc[r] = "createAdmin"
    /\ LET d == local[r].arg IN
       Insert([id |-> nextUser, username |-> d.username, email |-> d.email,
               provider |-> None, subject |-> None, active |-> TRUE])
    /\ Await(r, "assignAdmin", [local[r] EXCEPT !.user = nextUser])
    /\ Unassigned

AssignAdmin(r) ==
    /\ pc[r] = "assignAdmin"
    /\ userRoles' = userRoles \cup {<<local[r].user, "admin">>}
    /\ Promoted(r, local[r].user)
    /\ UNCHANGED <<users, nextUser, provider, faults, asked, broken, barred>>

-----------------------------------------------------------------------------
\* What the request does when the call it awaits is answered.
Step(r) ==
    \/ ReadUser(r) \/ FindSubject(r) \/ FindEmail(r)
    \/ UpdateUser(r) \/ LinkUser(r) \/ CreateIdentity(r)
    \/ FindUsername(r) \/ FindUserEmail(r) \/ CreateUser(r)
    \/ FindRole(r) \/ FindAssignment(r) \/ Assign(r) \/ SetStatus(r)
    \/ FindName(r) \/ FindMail(r) \/ FindAdmin(r) \/ FindAdminRole(r)
    \/ CreateAdmin(r) \/ AssignAdmin(r)

\* The users whose roles requests of R were about to assign.
Unfinished(R) ==
    {local[q].user : q \in {x \in R : pc[x] \in {"findRole", "findAssignment", "assign"}}}

\* NocoDB refuses more users than it has room for; any call may fail.
Fail(r) ==
    /\ pc[r] # "idle"
    /\ IF nextUser > MaxUsers /\ pc[r] \in {"createIdentity", "createUser", "createAdmin"}
       THEN UNCHANGED faults
       ELSE faults < MaxFaults /\ faults' = faults + 1
    /\ Finish(r, "failed", None)
    /\ broken' = broken \cup Unfinished({r})
    /\ UNCHANGED <<tables, provider, asked, barred, bootstrapped>>

\* The answer of a write is lost after NocoDB applied it.
LoseCreated(r) ==
    /\ pc[r] = "createUser" /\ faults < MaxFaults /\ faults' = faults + 1
    /\ LET d == local[r].arg IN
       /\ Insert([id |-> nextUser, username |-> d.username, email |-> d.email,
                  provider |-> "local", subject |-> d.email, active |-> d.active])
       /\ asked' = asked \cup {[user |-> nextUser, roles |-> d.roles]}
    /\ broken' = broken \cup {nextUser}
    /\ Finish(r, "failed", None)
    /\ UNCHANGED <<userRoles, provider, barred, bootstrapped>>

\* The process restarts, perhaps with another AUTH_PROVIDER.
Crash ==
    /\ faults < MaxFaults /\ faults' = faults + 1
    /\ provider' \in Providers
    /\ broken' = broken \cup Unfinished(Requests)
    /\ pc' = [r \in Requests |-> "idle"]
    /\ local' = [r \in Requests |-> Blank]
    /\ UNCHANGED <<tables, asked, barred, bootstrapped, raced>>

Init ==
    /\ users = {} /\ userRoles = {} /\ nextUser = 1
    /\ provider \in Providers
    /\ pc = [r \in Requests |-> "idle"] /\ local = [r \in Requests |-> Blank]
    /\ faults = 0
    /\ asked = {} /\ broken = {} /\ barred = {} /\ bootstrapped = {}
    /\ raced = FALSE

Call(r) ==
    \/ \E t \in Tokens : StartValidate(r, t)
    \/ \E d \in LocalUsers : StartLocal(r, d)
    \/ \E id \in 1 .. MaxUsers, flag \in BOOLEAN : StartSetStatus(r, id, flag)
    \/ \E d \in Admins, ok \in BOOLEAN : StartBootstrap(r, d, ok)

Next ==
    \/ \E r \in Requests : Call(r) \/ Step(r) \/ Fail(r) \/ LoseCreated(r)
    \/ Crash

Spec == Init /\ [][Next]_vars

\* NocoDB answers or the call fails; whoever sets the system up repeats the
\* bootstrap until an administrator exists.
BootstrapAgain(r) == bootstrapped = {} /\ \E d \in Admins : StartBootstrap(r, d, TRUE)
Answers == \A r \in Requests : WF_vars(Step(r) \/ Fail(r))
FairSpec == Spec /\ Answers /\ \A r \in Requests : SF_vars(BootstrapAgain(r))

-----------------------------------------------------------------------------
(* Properties. *)

\* Rows have their fields, ids are given out once, and every id a request
\* holds is the id of a row.
TypeOK ==
    /\ \A u \in users : /\ u.id \in 1 .. nextUser - 1
                        /\ u.active \in BOOLEAN
                        /\ u.provider \in {"local", "external", None}
    /\ \A u, v \in users : u.id = v.id => u = v
    /\ \A r \in Requests : pc[r] \in {"findRole", "findAssignment", "assign", "assignAdmin"}
                              => local[r].user \in {u.id : u \in users}
    /\ \A x \in userRoles : x[1] \in {u.id : u \in users} /\ x[2] \in Roles

\* An identity is one row: no two users share an address or the subject of a
\* provider (upsertIdentityUser, createLocalUser and bootstrapAdmin look first).
IdentitiesUnique ==
    \A u, v \in users : u # v =>
        /\ u.email = v.email => u.email = None
        /\ u.provider = v.provider /\ u.subject = v.subject => u.subject = None

\* It stays so as long as requests come one at a time, whatever was cut off
\* before, though users may change their address and the provider be switched.
AloneIdentitiesUnique == ~raced => IdentitiesUnique

\* A validation that starts after a deactivation was answered does not admit
\* the user, whatever other requests link, update or create meanwhile.
NoEntryWhenBarred ==
    \A r \in Requests : local[r].result = "admitted" => local[r].user \notin local[r].barred

\* createLocalUser leaves out no role that exists, unless it was cut off.
RolelessExplained ==
    \A a \in asked :
        \/ a.user \in broken \cup Unfinished(Requests)
        \/ \A n \in a.roles \cap Roles : <<a.user, n>> \in userRoles

\* Each row is one that some request made, with the roles asked for.
RowsExplained == TypeOK /\ RolelessExplained

\* An interrupted bootstrap can be repeated until there is an administrator.
BootstrapCompletes ==
    <>(\E u \in users, d \in Admins :
          u.username = d.username /\ <<u.id, "admin">> \in userRoles)

\* Two tokens of one subject are never two users (violated when they race).
OneUserPerSubject ==
    \A u, v \in users :
        u.provider = "external" /\ v.provider = "external" /\ u.subject = v.subject => u = v

\* createLocalUser rejects a user name that exists (violated by a race).
UserNamesUnique ==
    \A u, v \in users : u.username = v.username => u = v

\* The bootstrap makes one administrator, once (violated by a second call).
OneBootstrap == Cardinality(bootstrapped) <= 1
=============================================================================
