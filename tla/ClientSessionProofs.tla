------------------------ MODULE ClientSessionProofs ------------------------
(***************************************************************************)
(* Proofs about ClientSession, for any number of requests and sessions: the *)
(* guard of refreshes, and, when onRefresh only returns its token, that the *)
(* storage holds the session signed in last and implements TokenStore.      *)
(***************************************************************************)
EXTENDS ClientSession, TLAPS

\* The sessions that are about come from sign-ins.
Begun == current # None => current = latest

\* Each pair a refresh began with is of one session.
BeforeOK ==
    \A r \in Requests :
        req[r].before # None => req[r].before.access.session = req[r].before.refresh

IInv == TypeOK /\ OneRefresh /\ Begun /\ BeforeOK /\ StoredIsCurrent

-----------------------------------------------------------------------------

LEMMA NoneIsNoRecord ==
    ASSUME ClientAssumption
    PROVE  Blank \in Requested
BY DEF Requested, Blank

\* The record that a step leaves for a request is one.
LEMMA ReqTyped ==
    ASSUME TypeOK, NEW r \in Requests, NEW q \in Requested,
           req' = [req EXCEPT ![r] = q]
    PROVE  /\ req' \in [Requests -> Requested]
           /\ req'[r] = q
           /\ \A p \in Requests : p # r => req'[p] = req[p]
BY DEF TypeOK

\* The records of the steps.
LEMMA Records ==
    ASSUME TypeOK, NEW r \in Requests
    PROVE  /\ [Blank EXCEPT !.pc = "called"] \in Requested
           /\ \A result \in {"ok", "rejected"}, e \in BOOLEAN :
                 [Blank EXCEPT !.result = result, !.excused = e] \in Requested
           /\ \A a \in Accesses \cup {None} :
                 [req[r] EXCEPT !.pc = "sent", !.token = a] \in Requested
           /\ [req[r] EXCEPT !.pc = "called"] \in Requested
           /\ [req[r] EXCEPT !.pc = "refreshing", !.retried = TRUE,
                             !.before = stored] \in Requested
<1> req[r] \in Requested /\ stored \in Pairs \cup {None}
  BY DEF TypeOK
<1> QED BY DEF Requested, Blank

\* Steps that set one request aside from the guard.
LEMMA GuardFrame ==
    ASSUME TypeOK, OneRefresh, NEW r \in Requests, NEW q \in Requested,
           req' = [req EXCEPT ![r] = q], q.pc # "refreshing",
           req[r].pc = "refreshing" => isRefreshing' = FALSE,
           req[r].pc # "refreshing" => isRefreshing' = isRefreshing
    PROVE  OneRefresh'
<1>1. req'[r] = q /\ \A p \in Requests : p # r => req'[p] = req[p]
  BY ReqTyped
<1>2. CASE req[r].pc = "refreshing"
  <2>1. \A p \in Requests : req'[p].pc # "refreshing"
    BY <1>1, <1>2 DEF OneRefresh
  <2> QED BY <1>2, <2>1 DEF OneRefresh
<1>3. CASE req[r].pc # "refreshing"
  <2>1. \A p \in Requests : req'[p].pc = "refreshing" <=> req[p].pc = "refreshing"
    BY <1>1, <1>3
  <2> QED BY <1>3, <2>1 DEF OneRefresh
<1> QED BY <1>2, <1>3

\* What a refresh that succeeds leaves in the storage and for the request.
LEMMA Finishing ==
    ASSUME ~CallbackStores, IInv, NEW r \in Requests, NEW a \in Accesses,
           req[r].pc = "refreshing", req[r].before # None,
           a.session = req[r].before.refresh, FinishRefresh(r, a)
    PROVE  /\ \E q \in Requested : q.pc # "refreshing" /\ req' = [req EXCEPT ![r] = q]
                                   /\ q.before \in {None, req[r].before}
           /\ stored' \in Pairs \cup {None}
           /\ stored = None <=> stored' = None
           /\ stored # None => /\ stored'.access.session = current
                               /\ stored'.refresh = current
<1> DEFINE gone == [Blank EXCEPT !.result = "rejected", !.excused = TRUE]
           again == [req[r] EXCEPT !.pc = "called"]
<1>1. gone \in Requested /\ gone.pc # "refreshing" /\ gone.before = None
  BY Records DEF IInv, Blank
<1>2. req[r] \in Requested
  BY DEF IInv, TypeOK
<1>3. again \in Requested /\ again.pc # "refreshing" /\ again.before = req[r].before
  BY <1>2 DEF Requested
<1>4. CASE stored = None \/ (stored # req[r].before /\ stored.access # a)
  <2>1. req' = [req EXCEPT ![r] = gone] /\ stored' = stored
    BY <1>4 DEF FinishRefresh, Returned, Done
  <2> QED BY <1>1, <2>1 DEF IInv, TypeOK, StoredIsCurrent
<1>5. CASE stored # None /\ (stored = req[r].before \/ stored.access = a)
  <2>1. req' = [req EXCEPT ![r] = again] /\ stored' = [stored EXCEPT !.access = a]
    BY <1>5 DEF FinishRefresh, Returned, Retry
  <2>2. stored \in Pairs
    BY <1>5 DEF IInv, TypeOK
  <2>3. stored' \in Pairs /\ stored'.access = a /\ stored'.refresh = stored.refresh
    BY <2>1, <2>2 DEF Pairs
  <2>4. stored.access.session = current /\ stored.refresh = current
    BY <1>5 DEF IInv, StoredIsCurrent
  <2>5. a.session = current
    BY <1>5, <2>4
  <2>6. stored' # None
    BY <2>3, ClientAssumption DEF ClientAssumption
  <2> QED BY <1>3, <1>5, <2>1, <2>3, <2>4, <2>5, <2>6
<1> QED BY <1>4, <1>5
-----------------------------------------------------------------------------
(* Each step preserves the invariant. *)

LEMMA InitIInv == Init => IInv
<1> SUFFICES ASSUME Init PROVE IInv
  OBVIOUS
<1>1. Blank \in Requested /\ Blank.pc = "idle" /\ Blank.before = None
  BY ClientAssumption, NoneIsNoRecord DEF Blank
<1>2. /\ req \in [Requests -> Requested]
      /\ \A r \in Requests : req[r].pc = "idle" /\ req[r].before = None
  BY <1>1 DEF Init
<1>3. 0 \in 0 .. MaxSessions
  BY ClientAssumption DEF ClientAssumption
<1>4. TypeOK
  BY <1>2, <1>3 DEF Init, TypeOK
<1>5. OneRefresh /\ BeforeOK
  BY <1>2 DEF Init, OneRefresh, BeforeOK
<1> QED BY <1>4, <1>5 DEF Init, IInv, Begun, StoredIsCurrent

\* A step that sets one request, and leaves the sessions and the storage.
LEMMA OfOneRequest ==
    ASSUME IInv, NEW r \in Requests, NEW q \in Requested,
           req' = [req EXCEPT ![r] = q], q.pc # "refreshing",
           q.before \in {None, req[r].before},
           req[r].pc # "refreshing", isRefreshing' = isRefreshing,
           UNCHANGED <<stored, spoilt, latest, renewed, live, current>>
    PROVE  IInv'
<1>1. req' \in [Requests -> Requested] /\ req'[r] = q
      /\ \A p \in Requests : p # r => req'[p] = req[p]
  BY ReqTyped DEF IInv
<1>2. TypeOK'
  BY <1>1 DEF IInv, TypeOK
<1>3. OneRefresh'
  BY GuardFrame DEF IInv
<1>4. BeforeOK'
  BY <1>1 DEF IInv, BeforeOK
<1> QED BY <1>2, <1>3, <1>4 DEF IInv, Begun, StoredIsCurrent

LEMMA Requesting ==
    ASSUME IInv, NEW r \in Requests, req[r].pc # "refreshing",
           Call(r) \/ Attach(r) \/ Succeed(r) \/ Fail(r) \/ Reject(r)
    PROVE  IInv'
<1> TypeOK /\ req[r] \in Requested
  BY DEF IInv, TypeOK
<1>1. CASE Call(r)
  <2> DEFINE q == [Blank EXCEPT !.pc = "called"]
  <2>1. q \in Requested /\ q.pc # "refreshing" /\ q.before = None
    BY Records DEF Blank
  <2> QED BY <1>1, <2>1, OfOneRequest DEF Call, Others
<1>2. CASE Attach(r)
  <2> DEFINE t == IF stored = None THEN req[r].token ELSE stored.access
             q == [req[r] EXCEPT !.pc = "sent", !.token = t]
  <2>1. t \in Accesses \cup {None}
    BY DEF TypeOK, Requested, Pairs
  <2>2. q \in Requested
    BY <2>1, Records
  <2>3. q.pc # "refreshing" /\ q.before = req[r].before
    BY DEF Requested
  <2>4. req' = [req EXCEPT ![r] = q]
    BY <1>2 DEF Attach, TypeOK
  <2> QED BY <1>2, <2>2, <2>3, <2>4, OfOneRequest DEF Attach, Others
<1>3. ASSUME NEW result \in {"ok", "rejected"}, NEW e \in BOOLEAN, Done(r, result, e),
             UNCHANGED <<stored, isRefreshing, spoilt, latest, renewed, live, current>>
      PROVE  IInv'
  <2> DEFINE q == [Blank EXCEPT !.result = result, !.excused = e]
  <2>1. q \in Requested /\ q.pc # "refreshing" /\ q.before = None
    BY Records DEF Blank
  <2> QED BY <1>3, <2>1, OfOneRequest DEF Done
<1>4. (req[r].retried \/ (req[r].token = None)) \in BOOLEAN
  BY DEF Requested
<1> QED
  <2>1. CASE Succeed(r) \/ Fail(r)
    BY <1>3, <2>1 DEF Succeed, Fail, Others
  <2>2. CASE Reject(r)
    BY <1>3, <2>2 DEF Reject, Others, Requested
  <2> QED BY <1>1, <1>2, <2>1, <2>2

LEMMA BeginsRefresh ==
    ASSUME IInv, NEW r \in Requests, BeginRefresh(r)
    PROVE  IInv'
<1> DEFINE q == [req[r] EXCEPT !.pc = "refreshing", !.retried = TRUE, !.before = stored]
<1>1. q \in Requested /\ q.pc = "refreshing" /\ q.before = stored
  <2>1. req[r] \in Requested /\ TypeOK
    BY DEF IInv, TypeOK
  <2>2. q \in Requested
    BY <2>1, Records
  <2>3. q.pc = "refreshing" /\ q.before = stored
    BY <2>1 DEF Requested
  <2> QED BY <2>2, <2>3
<1>2. req' = [req EXCEPT ![r] = q]
  <2> req \in [Requests -> Requested]
    BY DEF IInv, TypeOK
  <2> QED BY DEF BeginRefresh
<1>3. req' \in [Requests -> Requested] /\ req'[r] = q
      /\ \A p \in Requests : p # r => req'[p] = req[p]
  BY <1>1, <1>2, ReqTyped DEF IInv
<1>4. TypeOK'
  BY <1>3 DEF IInv, TypeOK, BeginRefresh, Others
<1>5. OneRefresh'
  <2>1. isRefreshing' = TRUE /\ \A p \in Requests : req[p].pc # "refreshing"
    BY DEF IInv, OneRefresh, BeginRefresh
  <2> QED BY <1>1, <1>3, <2>1 DEF OneRefresh
<1>6. BeforeOK'
  BY <1>1, <1>3 DEF IInv, BeforeOK, StoredIsCurrent
<1> QED BY <1>4, <1>5, <1>6 DEF IInv, Begun, StoredIsCurrent, BeginRefresh, Others

LEMMA RefreshEndsBadly ==
    ASSUME IInv, NEW r \in Requests, RefreshFails(r)
    PROVE  IInv'
<1> DEFINE q == [Blank EXCEPT !.result = "rejected", !.excused = TRUE]
<1>1. q \in Requested /\ q.pc # "refreshing" /\ q.before = None
  BY Records DEF Blank, IInv
<1>2. req' = [req EXCEPT ![r] = q]
  BY DEF RefreshFails, Done
<1>3. req' \in [Requests -> Requested] /\ req'[r] = q
      /\ \A p \in Requests : p # r => req'[p] = req[p]
  BY <1>1, <1>2, ReqTyped DEF IInv
<1>4. spoilt' \subseteq Sessions
  <2> req[r] \in Requested /\ spoilt \subseteq Sessions BY DEF IInv, TypeOK
  <2> QED BY DEF RefreshFails, Requested, Pairs
<1>5. TypeOK'
  BY <1>3, <1>4 DEF IInv, TypeOK, RefreshFails, Others
<1>6. OneRefresh'
  BY <1>1, <1>2, GuardFrame DEF IInv, RefreshFails
<1>7. BeforeOK'
  BY <1>1, <1>3 DEF IInv, BeforeOK
<1> QED BY <1>5, <1>6, <1>7 DEF IInv, Begun, StoredIsCurrent, RefreshFails, Others

LEMMA RefreshEndsWell ==
    ASSUME ~CallbackStores, IInv, NEW r \in Requests, RefreshSucceeds(r)
    PROVE  IInv' /\ (stored = None <=> stored' = None)
<1> DEFINE s == req[r].before.refresh
           a == Access(s, renewed[s] + 1)
<1>1. s \in Sessions /\ renewed[s] \in Nat
  <2> req[r] \in Requested BY DEF IInv, TypeOK
  <2> QED BY DEF IInv, TypeOK, RefreshSucceeds, Requested, Pairs
<1>2. a \in Accesses /\ a.session = s
  BY <1>1 DEF Access, Accesses
<1>3. FinishRefresh(r, a)
  BY DEF RefreshSucceeds
<1>4. /\ \E q \in Requested : q.pc # "refreshing" /\ req' = [req EXCEPT ![r] = q]
                               /\ q.before \in {None, req[r].before}
      /\ stored' \in Pairs \cup {None}
      /\ stored = None <=> stored' = None
      /\ stored # None => /\ stored'.access.session = current
                          /\ stored'.refresh = current
  BY <1>2, <1>3, Finishing DEF RefreshSucceeds
<1>5. PICK q \in Requested : /\ q.pc # "refreshing" /\ req' = [req EXCEPT ![r] = q]
                             /\ q.before \in {None, req[r].before}
  BY <1>4
<1>6. req' \in [Requests -> Requested] /\ req'[r] = q
      /\ \A p \in Requests : p # r => req'[p] = req[p]
  BY <1>5, ReqTyped DEF IInv
<1>7. renewed' \in [Sessions -> Nat] /\ live' \subseteq Accesses
  BY <1>1, <1>2 DEF IInv, TypeOK, RefreshSucceeds
<1>8. TypeOK'
  BY <1>4, <1>6, <1>7 DEF IInv, TypeOK, RefreshSucceeds
<1>9. OneRefresh'
  BY <1>5, GuardFrame DEF IInv, RefreshSucceeds
<1>10. BeforeOK'
  BY <1>5, <1>6 DEF IInv, BeforeOK
<1> QED BY <1>4, <1>8, <1>9, <1>10 DEF IInv, Begun, StoredIsCurrent, RefreshSucceeds

LEMMA Signing ==
    ASSUME IInv, setTokens \/ clearTokens
    PROVE  IInv'
<1>1. CASE setTokens
  <2>1. latest' \in Sessions /\ latest' = latest + 1
    BY <1>1, ClientAssumption DEF setTokens, IInv, TypeOK, Sessions, ClientAssumption
  <2>2. stored' \in Pairs /\ live' \subseteq Accesses
    BY <1>1, <2>1 DEF setTokens, Pair, Access, Pairs, Accesses, IInv, TypeOK
  <2>3. stored'.access.session = current' /\ stored'.refresh = current'
    BY <1>1 DEF setTokens, Pair, Access
  <2>4. TypeOK'
    BY <1>1, <2>1, <2>2, ClientAssumption DEF setTokens, IInv, TypeOK, Sessions
  <2> QED BY <1>1, <2>3, <2>4
          DEF setTokens, IInv, OneRefresh, Begun, BeforeOK, StoredIsCurrent
<1>2. CASE clearTokens
  BY <1>2 DEF clearTokens, IInv, TypeOK, OneRefresh, Begun, BeforeOK, StoredIsCurrent
<1> QED BY <1>1, <1>2

LEMMA StepIInv == ~CallbackStores => (IInv /\ [Next]_vars => IInv')
<1> SUFFICES ASSUME ~CallbackStores, IInv, [Next]_vars PROVE IInv'
  OBVIOUS
<1>1. CASE setTokens \/ clearTokens
  BY <1>1, Signing
<1>2. ASSUME NEW r \in Requests, Call(r) \/ Step(r) PROVE IInv'
  <2>1. CASE Call(r) \/ Attach(r) \/ Succeed(r) \/ Fail(r) \/ Reject(r)
    BY <2>1, Requesting DEF Call, Attach, Succeed, Fail, Reject, Unauthorized
  <2> QED BY <1>2, <2>1, BeginsRefresh, RefreshEndsBadly, RefreshEndsWell DEF Step
<1>3. ASSUME NEW a \in live, Expire(a) PROVE IInv'
  BY <1>3 DEF Expire, IInv, TypeOK, OneRefresh, Begun, BeforeOK, StoredIsCurrent
<1>4. CASE UNCHANGED vars
  BY <1>4 DEF vars, IInv, TypeOK, OneRefresh, Begun, BeforeOK, StoredIsCurrent
<1> QED BY <1>1, <1>2, <1>3, <1>4 DEF Next

-----------------------------------------------------------------------------
(* The theorems. *)

\* createHttpClient: what is stored and attached are whole tokens.
THEOREM TypeCorrect == ~CallbackStores => (Spec => []TypeOK)
<1> SUFFICES ASSUME ~CallbackStores PROVE Spec => []TypeOK
  OBVIOUS
<1>1. IInv /\ [Next]_vars => IInv'
  BY StepIInv
<1>2. IInv => TypeOK
  BY DEF IInv
<1> QED BY InitIInv, <1>1, <1>2, PTL DEF Spec

\* createHttpClient: a refresh that ends late never stores tokens of another
\* session than the one signed in last, whatever is called meanwhile.
THEOREM StoredTokensCurrent == ~CallbackStores => (Spec => []StoredIsCurrent)
<1> SUFFICES ASSUME ~CallbackStores PROVE Spec => []StoredIsCurrent
  OBVIOUS
<1>1. IInv /\ [Next]_vars => IInv'
  BY StepIInv
<1>2. IInv => StoredIsCurrent
  BY DEF IInv
<1> QED BY InitIInv, <1>1, <1>2, PTL DEF Spec

\* createHttpClient: isRefreshing is set exactly while onRefresh runs, and it
\* runs once at a time.
THEOREM GuardExact == ~CallbackStores => (Spec => []OneRefresh)
<1> SUFFICES ASSUME ~CallbackStores PROVE Spec => []OneRefresh
  OBVIOUS
<1>1. IInv /\ [Next]_vars => IInv'
  BY StepIInv
<1>2. IInv => OneRefresh
  BY DEF IInv
<1> QED BY InitIInv, <1>1, <1>2, PTL DEF Spec

LEMMA StoreInit == Init => Store!Init
BY DEF Init, Store!Init

\* Only a sign-in stores another session; only it and clearing change it.
LEMMA StoreStep ==
    ASSUME ~CallbackStores, IInv, [Next]_vars
    PROVE  [Store!Next]_<<latest, IF stored = None THEN None ELSE stored.access.session>>
<1> DEFINE session == IF stored = None THEN None ELSE stored.access.session
<1>0. IInv'
  BY StepIInv
<1>1. CASE setTokens
  <2>1. stored' # None
    <3>1. latest' \in Sessions
      BY <1>1, ClientAssumption DEF setTokens, IInv, TypeOK, Sessions, ClientAssumption
    <3>2. stored' \in Pairs
      BY <1>1, <3>1 DEF setTokens, Pair, Access, Pairs, Accesses
    <3> QED BY <3>2, ClientAssumption DEF ClientAssumption
  <2>2. session' = latest' /\ latest' = latest + 1
    BY <1>1, <2>1 DEF setTokens, Pair, Access
  <2> QED BY <2>2 DEF Store!Next, Store!SignIn
<1>2. CASE stored' = None /\ UNCHANGED latest
  BY <1>2 DEF Store!Next, Store!Clear
<1>3. CASE UNCHANGED <<stored, latest>>
  BY <1>3
<1>4. ASSUME NEW r \in Requests, RefreshSucceeds(r)
      PROVE  UNCHANGED <<latest, session>>
  <2>1. (stored = None <=> stored' = None) /\ current' = current /\ latest' = latest
    BY <1>4, RefreshEndsWell DEF RefreshSucceeds
  <2>2. stored # None => session = current
    BY DEF IInv, StoredIsCurrent
  <2>3. stored' # None => session' = current'
    BY <1>0 DEF IInv, StoredIsCurrent
  <2> QED BY <2>1, <2>2, <2>3
<1>5. ASSUME NEW r \in Requests, Call(r) \/ Step(r), ~RefreshSucceeds(r)
      PROVE  UNCHANGED <<stored, latest>> \/ (stored' = None /\ UNCHANGED latest)
  BY <1>5 DEF Call, Step, Attach, Succeed, Fail, Reject, BeginRefresh, RefreshFails, Others
<1>6. CASE clearTokens \/ (\E a \in live : Expire(a)) \/ UNCHANGED vars
  BY <1>2, <1>3, <1>6 DEF clearTokens, Expire, vars
<1> QED BY <1>1, <1>2, <1>3, <1>4, <1>5, <1>6 DEF Next

\* createHttpClient with AuthService implements TokenStore: whatever requests
\* and refreshes are under way, no session comes back once it was left.
THEOREM Implementation == ~CallbackStores => (Spec => ImplementsStore)
<1> SUFFICES ASSUME ~CallbackStores PROVE Spec => Store!Spec
  BY DEF ImplementsStore
<1>1. IInv /\ [Next]_vars => IInv'
  BY StepIInv
<1>2. IInv /\ [Next]_vars =>
        [Store!Next]_<<latest, IF stored = None THEN None ELSE stored.access.session>>
  BY StoreStep
<1> QED BY InitIInv, StoreInit, <1>1, <1>2, PTL DEF Spec, Store!Spec

\* There is one refresh at a time, and none brings back the session before.
THEOREM SessionSound == ~CallbackStores => (Spec => []OneSession)
<1>1. TypeOK /\ StoredIsCurrent /\ OneRefresh => OneSession
  BY DEF OneSession
<1> QED BY <1>1, TypeCorrect, StoredTokensCurrent, GuardExact, PTL
=============================================================================
