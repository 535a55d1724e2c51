------------------------------ MODULE Outbound ------------------------------
(***************************************************************************)
(* Calls of NocoDBService to the Data API: the rate limiter every call      *)
(* passes once, the retries of axios-retry below it, and the loops that     *)
(* issue several calls (listAll, list with a count, batchCreate and         *)
(* batchUpdate).  NocoDB answers when it likes, or never.                   *)
(*                                                                          *)
(* rateLimitChain is a chain of promises, one per call: chain[k] is the     *)
(* promise of the k-th call, and its continuation runs after chain[k - 1]   *)
(* is resolved.  Promises stay in chain after they are resolved.            *)
(***************************************************************************)
EXTENDS Integers, Sequences, FiniteSets

CONSTANTS Requests,    \* concurrent users of NocoDBService
          Ops,         \* the kinds of operations the callers use
          Outcomes,    \* what NocoDB or the network answers
          MaxItems,    \* bound: calls of one request
          Interval,    \* minRequestInterval, in ticks
          Retries,     \* NOCODB_RETRY_COUNT
          BaseDelay, MaxDelay, \* NOCODB_RETRY_BASE_DELAY, NOCODB_RETRY_MAX_DELAY
          Horizon      \* bound: time stops here unless someone waits for it

\* create, update, delete; read; batchCreate, batchUpdate; and the other reads,
\* with one call (list, findOne, exists, count) or several (listAll, list with
\* withCount).
Kinds == {"write", "read", "batch", "list"}
IsWrite(kind) == kind \in {"write", "batch"}

\* "rejected" is 429 and "networkError" one of TRANSIENT_NETWORK_CODES.
Results == {"success", "rejected", "notFound", "clientError", "serverError",
            "networkError", "otherError"}

ASSUME OutboundAssumption ==
    /\ Ops \subseteq Kinds
    /\ Outcomes \subseteq Results
    /\ MaxItems \in Nat \ {0}
    /\ {Interval, Retries, BaseDelay, MaxDelay, Horizon} \subseteq Nat

VARIABLES now,          \* Date.now()
          nextAllowed,  \* nextAllowedTime
          chain,        \* rateLimitChain
          req           \* control state and locals of requests

vars == <<now, nextAllowed, chain, req>>

\* "timed": setTimeout was called; slot is scheduledTime, at the time of resolve().
Promises == [by : Requests, state : {"waiting", "timed", "resolved"},
             slot : Nat, at : Nat]

\* What became of one call, and how often NocoDB applied it.
Report == [ok : BOOLEAN, applied : Nat]

Request ==
    [pc : {"idle", "queued", "sent", "backoff", "done"},
     kind : Kinds,
     size : Nat,          \* number of items, or of pages
     left : Nat \ {0},    \* of these, including the current one
     attempt : 0 .. Retries, \* retryCount of axios-retry
     wake : Nat,          \* when it sends again
     applied : Nat,       \* how often the current call was applied
     reports : Seq(Report)] \* results of the calls before

TypeOK ==
    /\ now \in Nat
    /\ nextAllowed \in Nat
    /\ chain \in Seq(Promises)
    /\ req \in [Requests -> Request]

Init ==
    /\ now = 0
    /\ nextAllowed = 0
    /\ chain = <<>>
    /\ req = [r \in Requests |->
                [pc |-> "idle", kind |-> "read", size |-> 0, left |-> 1,
                 attempt |-> 0, wake |-> 0, applied |-> 0, reports |-> <<>>]]

-----------------------------------------------------------------------------
(* enforceRateLimit. *)

Later(s, t) == IF s > t THEN s ELSE t

\* next = rateLimitChain.then(...); rateLimitChain = next
Enqueue(r) ==
    Append(chain, [by |-> r, state |-> "waiting", slot |-> 0, at |-> 0])

Resolve(k, s) ==
    /\ chain' = [chain EXCEPT ![k] =
                    [@ EXCEPT !.state = "resolved", !.slot = s, !.at = now]]
    /\ req' = [req EXCEPT ![chain[k].by] = [@ EXCEPT !.pc = "sent"]]

PredecessorResolved(k) == k > 1 => chain[k - 1].state = "resolved"

\* Slips: the slot is not advanced by a call that need not wait; the promise
\* before is not awaited; the interval is added twice; the whole call before is
\* awaited.
ScheduleUnpaced(k) ==
    /\ chain[k].state = "waiting"
    /\ PredecessorResolved(k)
    /\ \/ /\ nextAllowed <= now
          /\ Resolve(k, now)
          /\ UNCHANGED nextAllowed
       \/ /\ nextAllowed > now
          /\ nextAllowed' = nextAllowed + Interval
          /\ chain' = [chain EXCEPT ![k].state = "timed", ![k].slot = nextAllowed]
          /\ UNCHANGED req
    /\ UNCHANGED now
SchedulePaced(k, scheduled, ready) ==
    /\ chain[k].state = "waiting"
    /\ ready
    /\ nextAllowed' = scheduled + Interval
    /\ \/ /\ scheduled = now
          /\ Resolve(k, scheduled)
       \/ /\ scheduled > now
          /\ chain' = [chain EXCEPT ![k] =
                          [@ EXCEPT !.state = "timed", !.slot = scheduled]]
          /\ UNCHANGED req
    /\ UNCHANGED now
ScheduleUnchained(k) == SchedulePaced(k, Later(now, nextAllowed), TRUE)
ScheduleDoubled(k) ==
    SchedulePaced(k, Later(now, nextAllowed + Interval), PredecessorResolved(k))
ScheduleAfterAnswer(k) ==
    SchedulePaced(k, Later(now, nextAllowed),
                  /\ PredecessorResolved(k)
                  /\ k > 1 => req[chain[k - 1].by].pc # "sent")

\* The continuation of the promise before: the call is sent at once, or a timer
\* is set for its slot.
Schedule(k) ==
    LET scheduled == Later(now, nextAllowed) IN
    /\ chain[k].state = "waiting"
    /\ PredecessorResolved(k)
    /\ nextAllowed' = scheduled + Interval
    /\ \/ /\ scheduled = now
          /\ Resolve(k, scheduled)
       \/ /\ scheduled > now
          /\ chain' = [chain EXCEPT ![k] =
                          [@ EXCEPT !.state = "timed", !.slot = scheduled]]
          /\ UNCHANGED req
    /\ UNCHANGED now

\* A timer fires when it is due, or at any time after.
Fire(k) ==
    /\ chain[k].state = "timed"
    /\ now >= chain[k].slot
    /\ Resolve(k, chain[k].slot)
    /\ UNCHANGED <<now, nextAllowed>>

-----------------------------------------------------------------------------
(* Requests. *)

Begin(r, kind, n) ==
    /\ req[r].pc = "idle"
    /\ kind \in {"write", "read"} => n = 1
    /\ chain' = Enqueue(r)
    /\ req' = [req EXCEPT ![r] =
                  [@ EXCEPT !.pc = "queued", !.kind = kind, !.size = n, !.left = n]]
    /\ UNCHANGED <<now, nextAllowed>>

\* A failed write may have been applied all the same.
MayApply(kind, result) ==
    IF ~IsWrite(kind) THEN {0}
    ELSE CASE result = "success" -> {1}
           [] result \in {"serverError", "networkError", "otherError"} -> {0, 1}
           [] OTHER -> {0}

\* Slip: writes are retried like reads.
ShouldRetryWrites(kind, result) ==
    result \in {"rejected", "serverError", "networkError"}

\* shouldRetryNocoDBRequest
ShouldRetry(kind, result) ==
    \/ result = "rejected"
    \/ ~IsWrite(kind) /\ result \in {"serverError", "networkError"}

\* The delays before the n-th retry: BaseDelay doubles up to MaxDelay, with a
\* quarter of it added or taken off, rounded.
Delays(n) ==
    LET exponential == BaseDelay * 2 ^ (n - 1)
        delay == IF exponential < MaxDelay THEN exponential ELSE MaxDelay
    IN  {d \in 0 .. 2 * delay : 3 * delay < 4 * d + 2 /\ 4 * d <= 5 * delay + 2}

\* read turns 404 into null, which is no error.
Succeeds(kind, result) ==
    \/ result = "success"
    \/ kind = "read" /\ result = "notFound"

\* Slips: batches stop at an error as well; one item too many.
GoesOnWhileOk(q, ok) == q.left > 1 /\ ok
GoesOnPast(q, ok) == q.left > 0 /\ (ok \/ q.kind = "batch")

\* Only the batches go on after an error.
GoesOn(q, ok) == q.left > 1 /\ (ok \/ q.kind = "batch")

\* The call of r returns or throws; the request ends or issues its next call.
Return(r, ok, applied) ==
    LET q == req[r]
        reports == Append(q.reports, [ok |-> ok, applied |-> applied])
    IN  \/ /\ ~GoesOn(q, ok)
           /\ req' = [req EXCEPT ![r] =
                         [@ EXCEPT !.pc = "done", !.applied = 0, !.reports = reports]]
           /\ UNCHANGED chain
        \/ /\ GoesOn(q, ok)
           /\ req' = [req EXCEPT ![r] =
                         [@ EXCEPT !.pc = "queued", !.left = q.left - 1, !.attempt = 0,
                                   !.applied = 0, !.reports = reports]]
           /\ chain' = Enqueue(r)

Answer(r, result) ==
    LET q == req[r]
        retry == ShouldRetry(q.kind, result) /\ q.attempt < Retries
    IN
    /\ q.pc = "sent"
    /\ \E n \in MayApply(q.kind, result) :
          \/ /\ retry
             /\ \E d \in Delays(q.attempt + 1) :
                   req' = [req EXCEPT ![r] =
                              [@ EXCEPT !.pc = "backoff", !.wake = now + d,
                                        !.attempt = q.attempt + 1,
                                        !.applied = q.applied + n]]
             /\ UNCHANGED chain
          \/ /\ ~retry
             /\ Return(r, Succeeds(q.kind, result), q.applied + n)
    /\ UNCHANGED <<now, nextAllowed>>

\* axios-retry sends again; the rate limiter is not asked.
Resend(r) ==
    /\ req[r].pc = "backoff"
    /\ now >= req[r].wake
    /\ req' = [req EXCEPT ![r] = [@ EXCEPT !.pc = "sent"]]
    /\ UNCHANGED <<now, nextAllowed, chain>>

-----------------------------------------------------------------------------

Awaited ==
    \/ \E k \in DOMAIN chain : chain[k].state = "timed" /\ chain[k].slot > now
    \/ \E r \in Requests : req[r].pc = "backoff" /\ req[r].wake > now

Tick ==
    /\ now < Horizon \/ Awaited
    /\ now' = now + 1
    /\ UNCHANGED <<nextAllowed, chain, req>>

Next ==
    \/ \E k \in DOMAIN chain : Schedule(k) \/ Fire(k)
    \/ \E r \in Requests :
          \/ \E kind \in Ops, n \in 1 .. MaxItems : Begin(r, kind, n)
          \/ \E result \in Outcomes : Answer(r, result)
          \/ Resend(r)
    \/ Tick

Spec == Init /\ [][Next]_vars

\* The event loop runs continuations and timers, and time passes.  NocoDB need
\* not answer: the HTTP client has no timeout.
Indices == 1 .. Cardinality(Requests) * MaxItems
Limiter(k) == k \in DOMAIN chain /\ (Schedule(k) \/ Fire(k))

FairSpec ==
    /\ Spec
    /\ WF_vars(Tick)
    /\ \A k \in Indices : WF_vars(Limiter(k))
-----------------------------------------------------------------------------
(* Properties. *)

\* The calls as CallSpacing sees them: a timer that is set is no one's concern.
AsCall(p) ==
    [by |-> p.by, sent |-> p.state = "resolved",
     slot |-> IF p.state = "resolved" THEN p.slot ELSE 0, at |-> p.at]
Calls == [k \in DOMAIN chain |-> AsCall(chain[k])]

Spaced == INSTANCE CallSpacing WITH Callers <- Requests, calls <- Calls

\* The promise chain sends calls in the order of issue, each in a slot of its
\* own.  (enforceRateLimit)
ImplementsSpacing == Spaced!Spec

\* n + 2 calls in a row span n intervals, whatever the timers' lateness.
\* (enforceRateLimit)
CallsSpaced == Spaced!Spacing

\* A call at the head of the queue is never held back for longer than one
\* interval from the sending of the call before, and the first not at all.
\* (enforceRateLimit)
NotHeldLonger ==
    \A k \in DOMAIN chain :
        chain[k].state = "timed" =>
            k > 1 /\ chain[k].slot <= chain[k - 1].at + Interval

\* NocoDB applies no write twice, however often calls fail and are retried.
\* (shouldRetryNocoDBRequest)
AppliedAtMostOnce ==
    \A r \in Requests :
        /\ req[r].applied <= 1
        /\ \A i \in DOMAIN req[r].reports : req[r].reports[i].applied <= 1

\* A batch that has ended has one result for each item, failed ones included,
\* and a write reported as successful was applied.  (batchCreate, batchUpdate)
BatchAccountsForAll ==
    \A r \in Requests :
        /\ req[r].pc = "done" /\ req[r].kind = "batch" =>
              Len(req[r].reports) = req[r].size
        /\ \A i \in DOMAIN req[r].reports :
              IsWrite(req[r].kind) /\ req[r].reports[i].ok =>
                  req[r].reports[i].applied = 1

\* Every call that was issued is sent in the end, even if the calls before it
\* are never answered.  (enforceRateLimit)
IssuedAreSent ==
    \A k \in Indices :
        k \in DOMAIN chain ~>
            k \in DOMAIN chain /\ chain[k].state = "resolved"

\* The queue keeps the rate and holds no call back beyond it, and each request
\* is where its calls have brought it.  (enforceRateLimit)
CallsSound == TypeOK /\ CallsSpaced /\ NotHeldLonger

\* What clients are told of their writes is what NocoDB did, retries and
\* failing items included.
OutcomesTrue == AppliedAtMostOnce /\ BatchAccountsForAll
=============================================================================
