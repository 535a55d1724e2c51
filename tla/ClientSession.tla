--------------------------- MODULE ClientSession ---------------------------
(***************************************************************************)
(* The HTTP client of the client library: the token store, the interceptor  *)
(* that attaches the access token to each request, and the one that answers *)
(* a 401 with a refresh and a retry.                                        *)
(*                                                                          *)
(* pc of a request: "called" (axios runs the request interceptor later, as  *)
(* a promise), "sent", "refreshing" (awaits onRefresh) or "idle".  Signing  *)
(* in (setTokens) and out (clearTokens) happen at any time.                 *)
(*                                                                          *)
(* A session is what one sign-in begins.  An access token is a session and  *)
(* a generation; the refresh token of a session is the session.             *)
(***************************************************************************)
EXTENDS Naturals, FiniteSets

CONSTANTS Requests,
          CallbackStores, \* whether onRefresh also stores the new pair
          MaxSessions,    \* bound on sessions
          MaxRenewals,    \* bound on renewals of a session
          None            \* no tokens

Access(s, n) == [session |-> s, generation |-> n]
Pair(s, n) == [access |-> Access(s, n), refresh |-> s]

Sessions == 1 .. MaxSessions
Accesses == [session : Sessions, generation : Nat]
Pairs == [access : Accesses, refresh : Sessions]

ASSUME ClientAssumption ==
    /\ CallbackStores \in BOOLEAN
    /\ MaxSessions \in Nat /\ MaxRenewals \in Nat
    /\ None \notin Sessions \cup Accesses \cup Pairs

VARIABLES
    stored,       \* the token storage: a pair, or None
    isRefreshing, \* the guard of the response interceptor
    req,          \* the requests
    latest,       \* number of sessions so far
    renewed,      \* renewals of each session at the identity provider
    live,         \* access tokens the middleware accepts
    current,      \* history: the session signed in, None after clearTokens
    spoilt        \* history: sessions that a failed refresh of theirs ended

vars == <<stored, isRefreshing, req, latest, renewed, live, current, spoilt>>

Requested == [pc : {"idle", "called", "sent", "refreshing"},
              token : Accesses \cup {None}, retried : BOOLEAN,
              before : Pairs \cup {None}, excused : BOOLEAN,
              result : {None, "ok", "rejected"}]

Blank == [pc |-> "idle", token |-> None, retried |-> FALSE, before |-> None,
          excused |-> FALSE, result |-> None]

-----------------------------------------------------------------------------
(* AuthService *)

setTokens ==
    /\ latest < MaxSessions
    /\ latest' = latest + 1
    /\ stored' = Pair(latest', 0)
    /\ live' = live \cup {Access(latest', 0)}
    /\ current' = latest'
    /\ UNCHANGED <<isRefreshing, req, renewed, spoilt>>

clearTokens ==
    /\ stored' = None /\ current' = None
    /\ UNCHANGED <<isRefreshing, req, latest, renewed, live, spoilt>>

-----------------------------------------------------------------------------
(* Requests *)

Others == UNCHANGED <<latest, renewed, live, current>>

Call(r) ==
    /\ req[r].pc = "idle"
    /\ req' = [req EXCEPT ![r] = [Blank EXCEPT !.pc = "called"]]
    /\ UNCHANGED <<stored, isRefreshing, spoilt>> /\ Others

\* The request interceptor; without a stored token the header stays as it is.
Attach(r) ==
    /\ req[r].pc = "called"
    /\ req' = [req EXCEPT ![r].pc = "sent",
                          ![r].token = IF stored = None THEN @ ELSE stored.access]
    /\ UNCHANGED <<stored, isRefreshing, spoilt>> /\ Others

Done(r, result, excused) ==
    req' = [req EXCEPT ![r] = [Blank EXCEPT !.result = result, !.excused = excused]]

\* The answer is anything but a 401.
Succeed(r) ==
    /\ req[r].pc = "sent" /\ req[r].token \in live
    /\ Done(r, "ok", FALSE)
    /\ UNCHANGED <<stored, isRefreshing, spoilt>> /\ Others

Fail(r) ==
    /\ req[r].pc = "sent"
    /\ Done(r, "rejected", TRUE)
    /\ UNCHANGED <<stored, isRefreshing, spoilt>> /\ Others

Unauthorized(r) == req[r].pc = "sent" /\ req[r].token \notin live

\* A slip: nobody looks whether a refresh is under way.
BeginRefreshAnyway(r) ==
    /\ Unauthorized(r) /\ ~req[r].retried
    /\ isRefreshing' = TRUE
    /\ req' = [req EXCEPT ![r].pc = "refreshing", ![r].retried = TRUE,
                          ![r].before = stored]
    /\ UNCHANGED <<stored, spoilt>> /\ Others

\* A 401 starts a refresh, once per request and one at a time.
BeginRefresh(r) ==
    /\ Unauthorized(r) /\ ~req[r].retried /\ ~isRefreshing
    /\ isRefreshing' = TRUE
    /\ req' = [req EXCEPT ![r].pc = "refreshing", ![r].retried = TRUE,
                          ![r].before = stored]
    /\ UNCHANGED <<stored, spoilt>> /\ Others

Reject(r) ==
    /\ Unauthorized(r) /\ (req[r].retried \/ isRefreshing)
    /\ Done(r, "rejected", req[r].retried \/ req[r].token = None)
    /\ UNCHANGED <<stored, isRefreshing, spoilt>> /\ Others

\* A slip: the guard is only released on success.
RefreshFailsHeld(r) ==
    /\ req[r].pc = "refreshing"
    /\ stored' = None
    /\ Done(r, "rejected", TRUE)
    /\ spoilt' = IF req[r].before = None THEN spoilt ELSE spoilt \cup {req[r].before.refresh}
    /\ UNCHANGED isRefreshing /\ Others

\* onRefresh throws: the tokens are cleared, whosever they are.
RefreshFails(r) ==
    /\ req[r].pc = "refreshing"
    /\ isRefreshing' = FALSE /\ stored' = None
    /\ Done(r, "rejected", TRUE)
    /\ spoilt' = IF req[r].before = None THEN spoilt ELSE spoilt \cup {req[r].before.refresh}
    /\ Others

Retry(r) == req' = [req EXCEPT ![r].pc = "called"]

\* The storage when onRefresh returns the token a, and what is done then.
Returned(a) == IF CallbackStores THEN [access |-> a, refresh |-> a.session] ELSE stored

\* A slip: nobody looks whether the user has signed out.
FinishRefreshUnset(r, a) ==
    LET now == Returned(a) IN
    IF now # None /\ now # req[r].before /\ now.access # a
    THEN Done(r, "rejected", TRUE) /\ stored' = now
    ELSE Retry(r) /\ stored' = IF now = None THEN [access |-> a] ELSE [now EXCEPT !.access = a]

\* A slip: the session is not compared with that before the refresh.
FinishRefreshBlind(r, a) ==
    LET now == Returned(a) IN
    IF now = None
    THEN Done(r, "rejected", TRUE) /\ stored' = now
    ELSE Retry(r) /\ stored' = [now EXCEPT !.access = a]

FinishRefresh(r, a) ==
    LET now == Returned(a) IN
    IF now = None \/ (now # req[r].before /\ now.access # a)
    THEN Done(r, "rejected", TRUE) /\ stored' = now
    ELSE Retry(r) /\ stored' = [now EXCEPT !.access = a]

\* The identity provider renews the session onRefresh found in the storage.
RefreshSucceeds(r) ==
    /\ req[r].pc = "refreshing" /\ req[r].before # None
    /\ LET s == req[r].before.refresh IN
       /\ renewed[s] < MaxRenewals
       /\ renewed' = [renewed EXCEPT ![s] = @ + 1]
       /\ live' = live \cup {Access(s, renewed[s] + 1)}
       /\ FinishRefresh(r, Access(s, renewed[s] + 1))
    /\ isRefreshing' = FALSE
    /\ UNCHANGED <<latest, current, spoilt>>

\* Access tokens expire.
Expire(a) ==
    /\ live' = live \ {a}
    /\ UNCHANGED <<stored, isRefreshing, req, latest, renewed, current, spoilt>>

-----------------------------------------------------------------------------
Init ==
    /\ stored = None /\ isRefreshing = FALSE
    /\ req = [r \in Requests |-> Blank]
    /\ latest = 0 /\ renewed = [s \in Sessions |-> 0]
    /\ live = {} /\ current = None /\ spoilt = {}

Step(r) ==
    \/ Attach(r) \/ Succeed(r) \/ Fail(r)
    \/ BeginRefresh(r) \/ Reject(r) \/ RefreshFails(r) \/ RefreshSucceeds(r)

Next ==
    \/ setTokens \/ clearTokens
    \/ \E r \in Requests : Call(r) \/ Step(r)
    \/ \E a \in live : Expire(a)

Spec == Init /\ [][Next]_vars

\* Requests are answered, and onRefresh returns or throws.
FairSpec == Spec /\ \A r \in Requests : WF_vars(Step(r))

-----------------------------------------------------------------------------
(* Properties. *)

\* What is stored and attached are whole tokens of sessions that were begun.
TypeOK ==
    /\ stored \in Pairs \cup {None} /\ isRefreshing \in BOOLEAN
    /\ req \in [Requests -> Requested]
    /\ latest \in 0 .. MaxSessions /\ renewed \in [Sessions -> Nat]
    /\ live \subseteq Accesses
    /\ current \in Sessions \cup {None} /\ spoilt \subseteq Sessions

\* A late refresh neither signs the user in again after clearTokens nor mixes
\* its token into the session of another account: both stored tokens are of
\* the session signed in last.
StoredIsCurrent ==
    stored # None => stored.access.session = current /\ stored.refresh = current

\* The guard is set while one request awaits onRefresh, and never two do.
OneRefresh ==
    /\ isRefreshing = (\E r \in Requests : req[r].pc = "refreshing")
    /\ \A q, r \in Requests :
          req[q].pc = "refreshing" /\ req[r].pc = "refreshing" => q = r

\* Refreshes under way are one, and what is stored is of the session last begun.
OneSession == TypeOK /\ StoredIsCurrent /\ OneRefresh

\* The guard is always released again, so later requests can refresh.
GuardReleased == isRefreshing ~> ~isRefreshing

Store == INSTANCE TokenStore WITH
            session <- IF stored = None THEN None ELSE stored.access.session

\* Whatever refreshes and requests are under way, the storage only takes the
\* tokens of a new session or loses those it has, as TokenStore says.
ImplementsStore == Store!Spec

\* client/README.md: any 401 is answered with a refresh and a retry, unless
\* the refresh fails or the session changes (violated by two at once).
AnyUnauthorizedRefreshed ==
    \A r \in Requests : req[r].result = "rejected" => req[r].excused

\* setTokens: all subsequent requests use the tokens, until the user signs
\* out or a refresh of theirs fails (violated by a refresh of the session before).
SessionKept == current # None /\ stored = None => current \in spoilt
=============================================================================
