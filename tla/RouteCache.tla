----------------------------- MODULE RouteCache -----------------------------
(***************************************************************************)
(* The cache of GET responses by URL, which the examples use: a response is *)
(* kept for TTL after it has been made, and nothing that is written removes *)
(* it.  Requests of all users share it; the guards come before it.          *)
(*                                                                          *)
(* An age is the time since the data of a response were read, and reading   *)
(* and answering take at most CallTime.                                     *)
(***************************************************************************)
EXTENDS Naturals

CONSTANTS Requests, Urls,
          TTL,       \* of entries
          CallTime,  \* bound on the time from reading to answering
          None

\* What is assumed of the constants.
RouteCacheAssumption == TTL \in Nat \ {0} /\ CallTime \in Nat

VARIABLES cache,    \* the entry of each URL: whose response, its age, and when it expires
          request,  \* the URL that each request is for, and the age of what it has read
          answer    \* history: the answer of the last step, if it gave one

vars == <<cache, request, answer>>

Unread == CallTime + 1   \* no age: nothing has been read yet
Idle == [url |-> None, age |-> Unread]
Answer(url, of, age) == answer' = [url |-> url, of |-> of, age |-> age]

\* A slip: the parameters are left out of the key.
keyOfRoute(url) == CHOOSE u \in Urls : TRUE

key(url) == url

\* A slip: what is used is kept for longer.
KeptOnUse(k) == [cache EXCEPT ![k].left = TTL]

Kept(k) == cache

\* A GET: what is in the cache answers it, or the handler is called.
Get(r, url) ==
    /\ request[r] = Idle
    /\ LET e == cache[key(url)] IN
       IF e # None
       THEN /\ Answer(url, e.of, e.age) /\ cache' = Kept(key(url)) /\ UNCHANGED request
       ELSE /\ request' = [request EXCEPT ![r] = [url |-> url, age |-> Unread]]
            /\ answer' = None /\ UNCHANGED cache

\* The data are read.
Read(r) ==
    /\ request[r].url # None /\ request[r].age = Unread
    /\ request' = [request EXCEPT ![r].age = 0] /\ answer' = None /\ UNCHANGED cache

\* The response is sent and kept.
Respond(r) ==
    LET q == request[r] IN
    /\ q.url # None /\ q.age # Unread
    /\ cache' = [cache EXCEPT ![key(q.url)] = [of |-> q.url, age |-> q.age, left |-> TTL]]
    /\ request' = [request EXCEPT ![r] = Idle] /\ Answer(q.url, q.url, q.age)

\* A request that fails is not kept.
Fail(r) ==
    /\ request[r] # Idle /\ request' = [request EXCEPT ![r] = Idle]
    /\ answer' = None /\ UNCHANGED cache

Older(e) == [of |-> e.of, age |-> e.age + 1, left |-> e.left - 1]

\* Time passes, and what expires is gone.
Tick ==
    /\ \A r \in Requests : request[r].age # CallTime
    /\ request' = [r \in Requests |-> IF request[r].age < CallTime
                                      THEN [request[r] EXCEPT !.age = @ + 1] ELSE request[r]]
    /\ cache' = [u \in Urls |-> IF cache[u] = None \/ cache[u].left = 1 THEN None
                                ELSE Older(cache[u])]
    /\ answer' = None

Init ==
    /\ cache = [u \in Urls |-> None] /\ request = [r \in Requests |-> Idle]
    /\ answer = None

Next ==
    \/ \E r \in Requests : (\E u \in Urls : Get(r, u)) \/ Read(r) \/ Respond(r) \/ Fail(r)
    \/ Tick
Spec == Init /\ [][Next]_vars

-----------------------------------------------------------------------------
(* Properties *)

\* An entry expires in its time, and is older than that by a call at most.
TypeOK ==
    /\ request \in [Requests -> [url : Urls \cup {None}, age : 0 .. Unread]]
    /\ cache \in [Urls -> [of : Urls, age : Nat, left : Nat] \cup {None}]
    /\ \A u \in Urls : cache[u] # None => /\ cache[u].left \in 1 .. TTL
                                        /\ cache[u].age + cache[u].left <= TTL + CallTime

\* No answer shows data that were read earlier than the lifetime of an entry and
\* the time of a call ago, however often it is used and whichever of several
\* requests filled it last.
AnswersFresh == answer # None => answer.age < TTL + CallTime

\* The answer is that of the URL with its parameters.
AnswersOwnUrl == answer # None => answer.of = answer.url
=============================================================================
