----------------------------- MODULE ShopSession ----------------------------
(***************************************************************************)
(* The session in the frontend of the example: the token in memory and in   *)
(* localStorage, the user it belongs to, and the page that the navigation   *)
(* guard admits.  Calls are answered in any order, and a call that was sent *)
(* in one session may be answered in another.                               *)
(*                                                                          *)
(* One tab; a token is known by the user it was given to.  A navigation     *)
(* that waits for nothing is one step, and a later one supersedes it.       *)
(***************************************************************************)
EXTENDS Naturals

CONSTANTS Users, Admins,
          Calls,   \* calls that may be in flight
          None

VARIABLES token, user, \* the auth store
          stored,      \* the token in localStorage
          page,        \* the page shown, None until the first navigation has ended
          going,       \* the navigation whose guard waits, None or its target and call
          calls,       \* the calls in flight
          crossed      \* history: the session changed while a call was in flight

vars == <<token, user, stored, page, going, calls, crossed>>

Forms == {"login", "register"}
Public == {"home"} \cup Forms
Private == {"books", "profile", "admin"}
Pages == Public \cup Private

ShopSessionAssumption == Admins \subseteq Users /\ None \notin Users \cup Pages \cup Calls

\* A call was sent with a token and brings back a user.
Free == [kind |-> "free", sent |-> None, subject |-> None]
Call(kind, sent, subject) == [kind |-> kind, sent |-> sent, subject |-> subject]
Sent == [kind : {"free", "initialize", "login", "profile", "password"},
         sent : Users \cup {None}, subject : Users \cup {None}]
InFlight(c) == calls[c].kind # "free"

-----------------------------------------------------------------------------
(* Navigation *)

\* A slip: that a page is for administrators is not looked at.
AdmittedAll(to, t, u) ==
    IF to \in Private /\ t = None THEN "login" ELSE IF to \in Forms /\ t # None THEN "home" ELSE to

\* The guard, after its wait; a redirection is admitted as it is.
Admitted(to, t, u) ==
    IF to \in Private /\ t = None THEN "login"
    ELSE IF (to \in Forms \/ (to = "admin" /\ u \notin Admins)) /\ t # None THEN "home"
    ELSE to

Arrive(to, t, u) == page' = Admitted(to, t, u) /\ going' = None

\* With a token of an unknown user the guard waits for a call of its own.
Navigate(to) ==
    IF token # None /\ user = None
    THEN \E c \in Calls : /\ ~InFlight(c)
                          /\ calls' = [calls EXCEPT ![c] = Call("initialize", token, token)]
                          /\ going' = [to |-> to, call |-> c] /\ UNCHANGED page
    ELSE Arrive(to, token, user) /\ UNCHANGED calls

\* A link, a redirection or an address within the application.
Visit(to) == Navigate(to) /\ UNCHANGED <<token, user, stored, crossed>>

\* Loading the application: nothing but localStorage is kept, and with a token
\* both App and the guard of the first navigation call initialize.
Load(to) ==
    /\ token' = stored /\ user' = None /\ crossed' = FALSE /\ UNCHANGED stored
    /\ IF stored = None
       THEN Arrive(to, None, None) /\ calls' = [c \in Calls |-> Free]
       ELSE \E a, b \in Calls :
              /\ a # b /\ page' = None /\ going' = [to |-> to, call |-> a]
              /\ calls' = [c \in Calls |-> IF c \in {a, b} THEN Call("initialize", stored, stored)
                                           ELSE Free]

-----------------------------------------------------------------------------
(* The store *)

Others(c) == \E d \in Calls \ {c} : calls[d].kind \in {"initialize", "profile"}

\* A slip: localStorage keeps the token.
SignOutOfMemory(c) ==
    /\ token' = None /\ user' = None /\ UNCHANGED stored
    /\ crossed' = (crossed \/ Others(c)) /\ Arrive("login", None, None)

\* A slip: the user is kept.
SignOutOfToken(c) ==
    /\ token' = None /\ stored' = None /\ UNCHANGED user
    /\ crossed' = (crossed \/ Others(c)) /\ Arrive("login", None, None)

\* A slip: the page is kept.
SignOutInPlace(c) ==
    /\ token' = None /\ stored' = None /\ user' = None
    /\ crossed' = (crossed \/ Others(c)) /\ UNCHANGED <<page, going>>

\* logout, in answer to call c or by a click
SignOut(c) ==
    /\ token' = None /\ stored' = None /\ user' = None
    /\ crossed' = (crossed \/ Others(c)) /\ Arrive("login", None, None)

Logout == token # None /\ SignOut(None) /\ UNCHANGED calls

Send(c, kind, subject) ==
    /\ ~InFlight(c) /\ calls' = [calls EXCEPT ![c] = Call(kind, token, subject)]
    /\ UNCHANGED <<token, user, stored, page, going, crossed>>

\* Both end with the same lines of the store.
Login(c, u) == page = "login" /\ Send(c, "login", u)
Register(c, u) == page = "register" /\ Send(c, "login", u)

\* updateProfile and updatePassword from the form of the profile
UpdateProfile(c) == page = "profile" /\ user # None /\ Send(c, "profile", user)
UpdatePassword(c) == page = "profile" /\ Send(c, "password", None)

Return(c) == calls' = [calls EXCEPT ![c] = Free]

\* A slip: a failing initialize reports only, and its guard does not go on.
FailedSilently(c) == UNCHANGED <<token, user, stored, page, going, crossed>>

\* A failing initialize ends the session, whichever it is; the guard that waits
\* for it is superseded.  The others only report.
Failed(c) ==
    IF calls[c].kind = "initialize" THEN SignOut(c)
    ELSE UNCHANGED <<token, user, stored, page, going, crossed>>

\* What the server returns is taken for the user of the session.
Succeeded(c) ==
    LET u == calls[c].subject IN
    CASE calls[c].kind = "initialize" ->
           /\ user' = u /\ UNCHANGED <<token, stored, crossed>>
           /\ IF going # None /\ going.call = c THEN Arrive(going.to, token, u)
              ELSE UNCHANGED <<page, going>>
      [] calls[c].kind = "login" ->
           /\ token' = u /\ stored' = u /\ user' = u
           /\ crossed' = (crossed \/ Others(c)) /\ Arrive("home", u, u)
      [] calls[c].kind = "profile" ->
           /\ calls[c].sent \in Admins \cup {u}
           /\ user' = u /\ UNCHANGED <<token, stored, page, going, crossed>>
      [] calls[c].kind = "password" -> UNCHANGED <<token, user, stored, page, going, crossed>>

Answer(c) == InFlight(c) /\ (Succeeded(c) \/ Failed(c)) /\ Return(c)

-----------------------------------------------------------------------------
Init ==
    /\ token = None /\ user = None /\ stored = None
    /\ page = "home" /\ going = None
    /\ calls = [c \in Calls |-> Free] /\ crossed = FALSE

Next ==
    \/ \E to \in Pages : Visit(to) \/ Load(to)
    \/ Logout
    \/ \E c \in Calls : \/ \E u \in Users : Login(c, u) \/ Register(c, u)
                        \/ UpdateProfile(c) \/ UpdatePassword(c) \/ Answer(c)
Spec == Init /\ [][Next]_vars

\* Every call is answered or fails, in the end.
FairSpec == Spec /\ \A c \in Calls : WF_vars(Answer(c))

-----------------------------------------------------------------------------
(* Properties *)

\* Types; a guard waits for a call of initialize that is in flight.
TypeOK ==
    /\ token \in Users \cup {None} /\ user \in Users \cup {None} /\ stored \in Users \cup {None}
    /\ page \in Pages \cup {None} /\ crossed \in BOOLEAN /\ calls \in [Calls -> Sent]
    /\ going # None => /\ going.to \in Pages /\ going.call \in Calls
                       /\ calls[going.call].kind = "initialize"

\* As long as no call of one session is answered in another, the user is the one
\* that the token belongs to, and without a token there is none.
UserOfToken == ~crossed => user \in {None, token}

\* As long as no call of one session is answered in another, the page of
\* administrators is shown in their sessions only.
AdminsOnly == ~crossed /\ page = "admin" => token \in Admins

\* A private page is shown in a session only, whoever ended it last: the user,
\* or a call that failed.
PrivatePages == page \in Private => token # None

\* What is shown is for the user who is signed in, whichever call failed or was
\* answered late.
PagesMatchSession == TypeOK /\ UserOfToken /\ AdminsOnly /\ PrivatePages

\* What has been signed out comes back by signing in only, also after the
\* application is loaded again.
SignedOutStays ==
    [][token = None /\ token' # None =>
         \E c \in Calls : calls[c].kind = "login" /\ calls'[c] = Free]_vars

\* A page is shown in the end, whatever becomes of the calls that are waited for,
\* unless the application is loaded again and again.
PageShown ==
    []<><<\E to \in Pages : Load(to)>>_vars \/ (page = None ~> page # None)

\* The page of administrators is entered in their sessions only: the guard
\* looks at the user it has (violated).
EnteredByAdmins == [][page' = "admin" => token' \in Admins]_vars
=============================================================================
