--------------------------- MODULE OutboundProofs ---------------------------
(***************************************************************************)
(* Proofs about Outbound: types, what becomes of writes and batches, and    *)
(* that the promise chain implements CallSpacing.                           *)
(***************************************************************************)
EXTENDS Outbound, TLAPS, SequenceTheorems

LEMMA Constants ==
    /\ Interval \in Nat /\ Retries \in Nat /\ Horizon \in Nat
    /\ \A n \in 1 .. MaxItems : n \in Nat \ {0}
  BY OutboundAssumption

LEMMA LaterNat ==
    ASSUME NEW s \in Nat, NEW t \in Nat
    PROVE  Later(s, t) \in Nat /\ Later(s, t) >= s /\ Later(s, t) >= t
           /\ (Later(s, t) > s => Later(s, t) = t)
  BY DEF Later

LEMMA DelaysNat == \A n : Delays(n) \subseteq Nat
  BY DEF Delays

\* What the lemmas below need to know of the places of a sequence.
LEMMA ChainSeq ==
    ASSUME TypeOK
    PROVE  /\ Len(chain) \in Nat
           /\ DOMAIN chain = 1 .. Len(chain)
           /\ \A k \in DOMAIN chain : chain[k] \in Promises /\ k \in Nat \ {0}
  BY DEF TypeOK

LEMMA EnqueueSeq ==
    ASSUME TypeOK, NEW r \in Requests, chain' = Enqueue(r)
    PROVE  /\ chain' \in Seq(Promises)
           /\ DOMAIN chain' = 1 .. Len(chain) + 1
           /\ \A k \in DOMAIN chain : chain'[k] = chain[k]
           /\ chain'[Len(chain) + 1] =
                [by |-> r, state |-> "waiting", slot |-> 0, at |-> 0]
  BY DEF TypeOK, Enqueue, Promises

\* A promise is replaced.
LEMMA UpdateSeq ==
    ASSUME TypeOK, NEW k \in DOMAIN chain, NEW p \in Promises,
           chain' = [chain EXCEPT ![k] = p]
    PROVE  /\ chain' \in Seq(Promises)
           /\ DOMAIN chain' = DOMAIN chain
           /\ \A j \in DOMAIN chain : j # k => chain'[j] = chain[j]
           /\ chain'[k] = p
  BY DEF TypeOK

LEMMA ResolvedPromise ==
    ASSUME NEW p \in Promises, NEW s \in Nat, NEW t \in Nat
    PROVE  [p EXCEPT !.state = "resolved", !.slot = s, !.at = t] \in Promises
  BY DEF Promises

LEMMA TimedPromise ==
    ASSUME NEW p \in Promises, NEW s \in Nat
    PROVE  [p EXCEPT !.state = "timed", !.slot = s] \in Promises
  BY DEF Promises

\* What changes when a promise is resolved.
LEMMA ResolveEffect ==
    ASSUME TypeOK, NEW k \in DOMAIN chain, NEW s \in Nat, Resolve(k, s)
    PROVE  /\ chain' \in Seq(Promises)
           /\ DOMAIN chain' = DOMAIN chain
           /\ \A j \in DOMAIN chain : j # k => chain'[j] = chain[j]
           /\ chain'[k] = [chain[k] EXCEPT !.state = "resolved", !.slot = s, !.at = now]
           /\ chain[k].by \in Requests
           /\ req' = [req EXCEPT ![chain[k].by] = [@ EXCEPT !.pc = "sent"]]
<1>1. chain[k] \in Promises /\ now \in Nat
  BY ChainSeq DEF TypeOK
<1> DEFINE new == [chain[k] EXCEPT !.state = "resolved", !.slot = s, !.at = now]
<1>2. new \in Promises
  BY <1>1, ResolvedPromise
<1>3. chain' = [chain EXCEPT ![k] = new]
  BY DEF Resolve
<1>4. /\ chain[k].by \in Requests
      /\ req' = [req EXCEPT ![chain[k].by] = [@ EXCEPT !.pc = "sent"]]
  BY <1>1 DEF Resolve, Promises
<1> HIDE DEF new
<1>5. /\ chain' \in Seq(Promises) /\ DOMAIN chain' = DOMAIN chain
      /\ \A j \in DOMAIN chain : j # k => chain'[j] = chain[j]
      /\ chain'[k] = new
  BY <1>2, <1>3, UpdateSeq
<1> QED
  BY <1>4, <1>5 DEF new

LEMMA ResolveFields ==
    ASSUME TypeOK, NEW k \in DOMAIN chain, NEW s \in Nat, Resolve(k, s)
    PROVE  /\ DOMAIN chain' = DOMAIN chain
           /\ \A j \in DOMAIN chain : j # k => chain'[j] = chain[j]
           /\ chain'[k].state = "resolved" /\ chain'[k].slot = s
           /\ chain'[k].at = now /\ chain'[k].by = chain[k].by
<1>1. /\ DOMAIN chain' = DOMAIN chain
      /\ \A j \in DOMAIN chain : j # k => chain'[j] = chain[j]
      /\ chain'[k] = [chain[k] EXCEPT !.state = "resolved", !.slot = s, !.at = now]
  BY ResolveEffect
<1>2. chain[k] \in Promises
  BY ChainSeq
<1> QED
  BY <1>1, <1>2 DEF Promises

\* What changes when a timer is set.
LEMMA TimerEffect ==
    ASSUME TypeOK, NEW k \in DOMAIN chain, NEW s \in Nat,
           chain' = [chain EXCEPT ![k] = [@ EXCEPT !.state = "timed", !.slot = s]]
    PROVE  /\ chain' \in Seq(Promises)
           /\ DOMAIN chain' = DOMAIN chain
           /\ \A j \in DOMAIN chain : j # k => chain'[j] = chain[j]
           /\ chain'[k] = [chain[k] EXCEPT !.state = "timed", !.slot = s]
<1> DEFINE new == [chain[k] EXCEPT !.state = "timed", !.slot = s]
<1>1. new \in Promises
  BY ChainSeq, TimedPromise
<1>2. chain' = [chain EXCEPT ![k] = new]
  OBVIOUS
<1> HIDE DEF new
<1>3. /\ chain' \in Seq(Promises) /\ DOMAIN chain' = DOMAIN chain
      /\ \A j \in DOMAIN chain : j # k => chain'[j] = chain[j]
      /\ chain'[k] = new
  BY <1>1, <1>2, UpdateSeq
<1> QED
  BY <1>3 DEF new

LEMMA TimerFields ==
    ASSUME TypeOK, NEW k \in DOMAIN chain, NEW s \in Nat,
           chain' = [chain EXCEPT ![k] = [@ EXCEPT !.state = "timed", !.slot = s]]
    PROVE  /\ DOMAIN chain' = DOMAIN chain
           /\ \A j \in DOMAIN chain : j # k => chain'[j] = chain[j]
           /\ chain'[k].state = "timed" /\ chain'[k].slot = s
           /\ chain'[k].at = chain[k].at /\ chain'[k].by = chain[k].by
<1>1. /\ DOMAIN chain' = DOMAIN chain
      /\ \A j \in DOMAIN chain : j # k => chain'[j] = chain[j]
      /\ chain'[k] = [chain[k] EXCEPT !.state = "timed", !.slot = s]
      /\ chain' \in Seq(Promises)
  BY TimerEffect
<1>2. chain[k] \in Promises
  BY ChainSeq
<1> QED
  BY <1>1, <1>2 DEF Promises

\* The records of requests after each kind of step.
LEMMA RequestSteps ==
    ASSUME NEW q \in Request
    PROVE  /\ [q EXCEPT !.pc = "sent"] \in Request
           /\ \A kind \in Kinds, n \in 1 .. MaxItems :
                 [q EXCEPT !.pc = "queued", !.kind = kind, !.size = n, !.left = n]
                     \in Request
           /\ \A t \in Nat, n \in Nat : q.attempt < Retries =>
                 [q EXCEPT !.pc = "backoff", !.wake = t, !.attempt = q.attempt + 1,
                           !.applied = q.applied + n] \in Request
           /\ \A reports \in Seq(Report) :
                 /\ [q EXCEPT !.pc = "done", !.applied = 0, !.reports = reports]
                        \in Request
                 /\ q.left > 1 =>
                      [q EXCEPT !.pc = "queued", !.left = q.left - 1, !.attempt = 0,
                                !.applied = 0, !.reports = reports] \in Request
<1> USE Constants
<1>1. [q EXCEPT !.pc = "sent"] \in Request
  BY DEF Request
<1>2. ASSUME NEW kind \in Kinds, NEW n \in 1 .. MaxItems
      PROVE  [q EXCEPT !.pc = "queued", !.kind = kind, !.size = n, !.left = n]
                 \in Request
  BY DEF Request
<1>3. ASSUME NEW t \in Nat, NEW n \in Nat, q.attempt < Retries
      PROVE  [q EXCEPT !.pc = "backoff", !.wake = t, !.attempt = q.attempt + 1,
                       !.applied = q.applied + n] \in Request
  <2>1. q.attempt + 1 \in 0 .. Retries /\ q.applied + n \in Nat
    BY <1>3 DEF Request
  <2> DEFINE a == q.attempt + 1
             m == q.applied + n
  <2>2. a \in 0 .. Retries /\ m \in Nat
    BY <2>1
  <2> HIDE DEF a, m
  <2>3. [q EXCEPT !.pc = "backoff", !.wake = t, !.attempt = a, !.applied = m]
            \in Request
    BY <2>2 DEF Request
  <2> QED
    BY <2>3 DEF a, m
<1>4. ASSUME NEW reports \in Seq(Report)
      PROVE  [q EXCEPT !.pc = "done", !.applied = 0, !.reports = reports] \in Request
  BY DEF Request
<1>5. ASSUME NEW reports \in Seq(Report), q.left > 1
      PROVE  [q EXCEPT !.pc = "queued", !.left = q.left - 1, !.attempt = 0,
                       !.applied = 0, !.reports = reports] \in Request
  <2> DEFINE l == q.left - 1
  <2>1. l \in Nat \ {0}
    BY <1>5 DEF Request
  <2> HIDE DEF l
  <2> 0 \in 0 .. Retries
    OBVIOUS
  <2> HIDE Constants
  <2>2. [q EXCEPT !.pc = "queued", !.left = l, !.attempt = 0,
                  !.applied = 0, !.reports = reports] \in Request
    BY <2>1 DEF Request
  <2> QED
    BY <2>2 DEF l
<1> QED
  BY <1>1, <1>2, <1>3, <1>4, <1>5

\* The record of one request is replaced.
LEMMA UpdateReq ==
    ASSUME TypeOK, NEW r \in Requests, NEW q \in Request,
           req' = [req EXCEPT ![r] = q]
    PROVE  /\ req' \in [Requests -> Request]
           /\ req'[r] = q
           /\ \A p \in Requests : p # r => req'[p] = req[p]
  BY DEF TypeOK
-----------------------------------------------------------------------------
(* Types. *)

\* The request of a promise that is resolved is on its way.
LEMMA ResolveType ==
    ASSUME TypeOK, NEW k \in DOMAIN chain, NEW s \in Nat, Resolve(k, s)
    PROVE  chain' \in Seq(Promises) /\ req' \in [Requests -> Request]
<1> DEFINE q == [req[chain[k].by] EXCEPT !.pc = "sent"]
<1>1. /\ chain' \in Seq(Promises)
      /\ chain[k].by \in Requests
      /\ req' = [req EXCEPT ![chain[k].by] = q]
  BY ResolveEffect
<1>2. q \in Request
  BY <1>1, RequestSteps DEF TypeOK
<1> HIDE DEF q
<1> QED
  BY <1>1, <1>2 DEF TypeOK

LEMMA ScheduleType ==
    ASSUME TypeOK, NEW k \in DOMAIN chain, Schedule(k)
    PROVE  TypeOK'
<1> DEFINE scheduled == Later(now, nextAllowed)
<1>1. scheduled \in Nat /\ now \in Nat
  BY LaterNat DEF TypeOK
<1>2. /\ nextAllowed' = scheduled + Interval /\ now' = now
      /\ \/ Resolve(k, scheduled)
         \/ /\ chain' = [chain EXCEPT ![k] =
                          [@ EXCEPT !.state = "timed", !.slot = scheduled]]
            /\ UNCHANGED req
  BY DEF Schedule
<1> HIDE DEF scheduled
<1>3. nextAllowed' \in Nat
  BY <1>1, <1>2, Constants
<1>4. chain' \in Seq(Promises) /\ req' \in [Requests -> Request]
  <2>1. CASE Resolve(k, scheduled)
    BY <2>1, <1>1, ResolveType
  <2>2. CASE /\ chain' = [chain EXCEPT ![k] =
                            [@ EXCEPT !.state = "timed", !.slot = scheduled]]
             /\ UNCHANGED req
    <3>1. chain' \in Seq(Promises)
      BY <2>2, <1>1, TimerEffect
    <3> QED
      BY <2>2, <3>1 DEF TypeOK
  <2> QED
    BY <1>2, <2>1, <2>2
<1> QED
  BY <1>1, <1>2, <1>3, <1>4 DEF TypeOK

LEMMA FireType ==
    ASSUME TypeOK, NEW k \in DOMAIN chain, Fire(k)
    PROVE  TypeOK'
<1>1. chain[k].slot \in Nat
  BY ChainSeq DEF Promises
<1>2. Resolve(k, chain[k].slot) /\ now' = now /\ nextAllowed' = nextAllowed
  BY DEF Fire
<1>3. chain' \in Seq(Promises) /\ req' \in [Requests -> Request]
  BY <1>1, <1>2, ResolveType
<1> QED
  BY <1>2, <1>3 DEF TypeOK

LEMMA BeginType ==
    ASSUME TypeOK, NEW r \in Requests, NEW kind \in Kinds, NEW n \in 1 .. MaxItems,
           Begin(r, kind, n)
    PROVE  TypeOK'
<1> DEFINE q == [req[r] EXCEPT !.pc = "queued", !.kind = kind, !.size = n, !.left = n]
<1>1. /\ chain' = Enqueue(r) /\ now' = now /\ nextAllowed' = nextAllowed
      /\ req' = [req EXCEPT ![r] = q]
  BY DEF Begin
<1>2. q \in Request
  BY RequestSteps DEF TypeOK
<1>3. chain' \in Seq(Promises)
  BY <1>1, EnqueueSeq
<1> HIDE DEF q
<1> QED
  BY <1>1, <1>2, <1>3, UpdateReq DEF TypeOK

LEMMA ReturnType ==
    ASSUME TypeOK, NEW r \in Requests, NEW ok \in BOOLEAN, NEW n \in Nat,
           Return(r, ok, n)
    PROVE  chain' \in Seq(Promises) /\ req' \in [Requests -> Request]
<1> DEFINE q == req[r]
           reports == Append(q.reports, [ok |-> ok, applied |-> n])
           ended == [q EXCEPT !.pc = "done", !.applied = 0, !.reports = reports]
           next == [q EXCEPT !.pc = "queued", !.left = q.left - 1, !.attempt = 0,
                             !.applied = 0, !.reports = reports]
<1>1. q \in Request
  BY DEF TypeOK
<1>2. reports \in Seq(Report)
  <2>1. [ok |-> ok, applied |-> n] \in Report /\ q.reports \in Seq(Report)
    BY <1>1 DEF Report, Request
  <2> QED
    BY <2>1
<1>3. ended \in Request /\ (q.left > 1 => next \in Request)
  <2> HIDE DEF reports, q
  <2> QED
    BY <1>1, <1>2, RequestSteps
<1>4. \/ req' = [req EXCEPT ![r] = ended] /\ chain' = chain
      \/ /\ q.left > 1
         /\ req' = [req EXCEPT ![r] = next] /\ chain' = Enqueue(r)
  BY DEF Return, GoesOn
<1> HIDE DEF ended, next, q, reports
<1>5. CASE req' = [req EXCEPT ![r] = ended] /\ chain' = chain
  BY <1>3, <1>5, UpdateReq DEF TypeOK
<1>6. CASE q.left > 1 /\ req' = [req EXCEPT ![r] = next] /\ chain' = Enqueue(r)
  BY <1>3, <1>6, UpdateReq, EnqueueSeq
<1> QED
  BY <1>4, <1>5, <1>6
LEMMA MayApplyNat == \A kind, result : MayApply(kind, result) \subseteq {0, 1}
  BY DEF MayApply

\* An answer either starts a retry or is returned to the caller.
LEMMA AnswerEffect ==
    ASSUME TypeOK, NEW r \in Requests, NEW result, Answer(r, result)
    PROVE  \E n \in MayApply(req[r].kind, result) :
             \/ /\ ShouldRetry(req[r].kind, result)
                /\ req[r].attempt < Retries
                /\ chain' = chain
                /\ \E d \in Nat :
                      req' = [req EXCEPT ![r] =
                                [req[r] EXCEPT !.pc = "backoff", !.wake = now + d,
                                               !.attempt = req[r].attempt + 1,
                                               !.applied = req[r].applied + n]]
             \/ Return(r, Succeeds(req[r].kind, result), req[r].applied + n)
<1>1. PICK n \in MayApply(req[r].kind, result) :
        \/ /\ ShouldRetry(req[r].kind, result) /\ req[r].attempt < Retries
           /\ \E d \in Delays(req[r].attempt + 1) :
                 req' = [req EXCEPT ![r] =
                            [req[r] EXCEPT !.pc = "backoff", !.wake = now + d,
                                           !.attempt = req[r].attempt + 1,
                                           !.applied = req[r].applied + n]]
           /\ UNCHANGED chain
        \/ Return(r, Succeeds(req[r].kind, result), req[r].applied + n)
  BY DEF Answer
<1> QED
  BY <1>1, DelaysNat

LEMMA AnswerType ==
    ASSUME TypeOK, NEW r \in Requests, NEW result, Answer(r, result)
    PROVE  TypeOK'
<1>1. PICK n \in MayApply(req[r].kind, result) :
             \/ /\ ShouldRetry(req[r].kind, result)
                /\ req[r].attempt < Retries
                /\ chain' = chain
                /\ \E d \in Nat :
                      req' = [req EXCEPT ![r] =
                                [req[r] EXCEPT !.pc = "backoff", !.wake = now + d,
                                               !.attempt = req[r].attempt + 1,
                                               !.applied = req[r].applied + n]]
             \/ Return(r, Succeeds(req[r].kind, result), req[r].applied + n)
  BY AnswerEffect
<1>2. n \in Nat /\ req[r] \in Request /\ req[r].applied + n \in Nat
  <2>1. MayApply(req[r].kind, result) \subseteq {0, 1}
    BY MayApplyNat
  <2>2. req[r] \in Request
    BY DEF TypeOK
  <2>3. req[r].applied \in Nat
    BY <2>2 DEF Request
  <2>4. n \in {0, 1}
    BY <2>1
  <2> QED
    BY <2>2, <2>3, <2>4
<1>3. now' = now /\ nextAllowed' = nextAllowed
  BY DEF Answer
<1>4. CASE Return(r, Succeeds(req[r].kind, result), req[r].applied + n)
  <2>1. Succeeds(req[r].kind, result) \in BOOLEAN
    BY DEF Succeeds
  <2> QED
    BY <1>2, <1>3, <1>4, <2>1, ReturnType DEF TypeOK
<1>5. CASE /\ req[r].attempt < Retries
           /\ chain' = chain
           /\ \E d \in Nat :
                 req' = [req EXCEPT ![r] =
                           [req[r] EXCEPT !.pc = "backoff", !.wake = now + d,
                                          !.attempt = req[r].attempt + 1,
                                          !.applied = req[r].applied + n]]
  <2>1. PICK d \in Nat :
          req' = [req EXCEPT ![r] = [req[r] EXCEPT !.pc = "backoff", !.wake = now + d,
                                        !.attempt = req[r].attempt + 1,
                                        !.applied = req[r].applied + n]]
    BY <1>5
  <2> DEFINE q == [req[r] EXCEPT !.pc = "backoff", !.wake = now + d,
                                 !.attempt = req[r].attempt + 1,
                                 !.applied = req[r].applied + n]
  <2>2. now + d \in Nat
    BY DEF TypeOK
  <2>3. q \in Request
    BY <1>2, <1>5, <2>2, RequestSteps
  <2> HIDE DEF q
  <2>4. req' = [req EXCEPT ![r] = q]
    BY <2>1 DEF q
  <2> QED
    BY <1>3, <1>5, <2>3, <2>4, UpdateReq DEF TypeOK
<1> QED
  BY <1>1, <1>4, <1>5

LEMMA ResendType ==
    ASSUME TypeOK, NEW r \in Requests, Resend(r)
    PROVE  TypeOK'
<1> DEFINE q == [req[r] EXCEPT !.pc = "sent"]
<1>1. req' = [req EXCEPT ![r] = q] /\ UNCHANGED <<now, nextAllowed, chain>>
  BY DEF Resend
<1>2. q \in Request
  BY RequestSteps DEF TypeOK
<1> HIDE DEF q
<1> QED
  BY <1>1, <1>2, UpdateReq DEF TypeOK

LEMMA InitType == Init => TypeOK
  BY Constants DEF Init, TypeOK, Request, Kinds

\* The steps of the system, one by one.
LEMMA Steps ==
    ASSUME [Next]_vars
    PROVE  \/ \E k \in DOMAIN chain : Schedule(k)
           \/ \E k \in DOMAIN chain : Fire(k)
           \/ \E r \in Requests, kind \in Kinds, n \in 1 .. MaxItems : Begin(r, kind, n)
           \/ \E r \in Requests, result \in Results : Answer(r, result)
           \/ \E r \in Requests : Resend(r)
           \/ Tick
           \/ UNCHANGED vars
  BY OutboundAssumption DEF Next

LEMMA NextType == TypeOK /\ [Next]_vars => TypeOK'
<1> SUFFICES ASSUME TypeOK, [Next]_vars PROVE TypeOK'
  OBVIOUS
<1>1. CASE Tick
  BY <1>1 DEF Tick, TypeOK
<1>2. CASE UNCHANGED vars
  BY <1>2 DEF vars, TypeOK
<1> QED
  BY <1>1, <1>2, Steps, ScheduleType, FireType, BeginType, AnswerType, ResendType

\* Times, promises and requests are well typed; no request issues more calls
\* than it has items, and none is retried more often than configured.
THEOREM TypeCorrect == Spec => []TypeOK
  BY InitType, NextType, PTL DEF Spec
-----------------------------------------------------------------------------
(* The limiter. *)

\* Timers are set, and promises resolved, one after another.
InOrder ==
    \A i, j \in DOMAIN chain :
        i < j /\ chain[j].state # "waiting" => chain[i].state = "resolved"

\* No timer fires early.
NotEarly ==
    \A k \in DOMAIN chain :
        chain[k].state = "resolved" => chain[k].slot <= chain[k].at /\ chain[k].at <= now

\* A slot begins an interval after the one before, and after its call was sent.
SlotAfter ==
    \A k \in DOMAIN chain :
        k > 1 /\ chain[k].state # "waiting" =>
            /\ chain[k].slot >= chain[k - 1].slot + Interval
            /\ chain[k].slot >= chain[k - 1].at

\* nextAllowedTime is the end of the last slot given away.
Frontier ==
    /\ (\A k \in DOMAIN chain : chain[k].state = "waiting") => nextAllowed = 0
    /\ \A k \in DOMAIN chain :
          /\ chain[k].state # "waiting"
          /\ \A j \in DOMAIN chain : j > k => chain[j].state = "waiting"
          => nextAllowed = chain[k].slot + Interval

LimiterInv == InOrder /\ NotEarly /\ SlotAfter /\ Frontier /\ NotHeldLonger

\* A new promise waits.
LEMMA EnqueueLimiter ==
    ASSUME TypeOK, LimiterInv, NEW r \in Requests, chain' = Enqueue(r),
           nextAllowed' = nextAllowed, now' = now
    PROVE  LimiterInv'
<1>1. /\ DOMAIN chain = 1 .. Len(chain) /\ DOMAIN chain' = 1 .. Len(chain) + 1
      /\ \A k \in DOMAIN chain : chain'[k] = chain[k]
      /\ chain'[Len(chain) + 1].state = "waiting"
      /\ Len(chain) \in Nat
  <2>1. /\ DOMAIN chain' = 1 .. Len(chain) + 1
        /\ \A k \in DOMAIN chain : chain'[k] = chain[k]
        /\ chain'[Len(chain) + 1] =
             [by |-> r, state |-> "waiting", slot |-> 0, at |-> 0]
    BY EnqueueSeq
  <2> QED
    BY <2>1, ChainSeq
<1>2. \A k \in DOMAIN chain' : chain'[k].state # "waiting" =>
          k \in DOMAIN chain /\ \A j \in DOMAIN chain' : j <= k => j \in DOMAIN chain
  BY <1>1
<1>3. DOMAIN chain \subseteq DOMAIN chain'
  BY <1>1
<1>4. InOrder'
  BY <1>1, <1>2 DEF LimiterInv, InOrder
<1>5. NotEarly'
  BY <1>1, <1>2 DEF LimiterInv, NotEarly
<1>6. \A k \in DOMAIN chain' : k > 1 /\ chain'[k].state # "waiting" =>
          k \in DOMAIN chain /\ k - 1 \in DOMAIN chain
  BY <1>1
<1>7. SlotAfter'
  BY <1>1, <1>6 DEF LimiterInv, SlotAfter
<1>8. Frontier'
  <2>1. ASSUME \A k \in DOMAIN chain' : chain'[k].state = "waiting"
        PROVE  nextAllowed' = 0
    BY <2>1, <1>1, <1>3 DEF LimiterInv, Frontier
  <2>2. ASSUME NEW k \in DOMAIN chain', chain'[k].state # "waiting",
               \A j \in DOMAIN chain' : j > k => chain'[j].state = "waiting"
        PROVE  nextAllowed' = chain'[k].slot + Interval
    <3>1. k \in DOMAIN chain /\ chain'[k] = chain[k]
      BY <2>2, <1>1, <1>2
    <3>2. \A j \in DOMAIN chain : j > k => chain[j].state = "waiting"
      BY <2>2, <1>1, <1>3
    <3> QED
      BY <2>2, <3>1, <3>2 DEF LimiterInv, Frontier
  <2> QED
    BY <2>1, <2>2 DEF Frontier
<1>9. NotHeldLonger'
  <2> SUFFICES ASSUME NEW k \in DOMAIN chain', chain'[k].state = "timed"
               PROVE  k > 1 /\ chain'[k].slot <= chain'[k - 1].at + Interval
    BY DEF NotHeldLonger
  <2>1. k \in DOMAIN chain /\ chain[k].state = "timed"
    BY <1>1, <1>2
  <2>2. k > 1 /\ chain[k].slot <= chain[k - 1].at + Interval
    BY <2>1 DEF LimiterInv, NotHeldLonger
  <2>3. k - 1 \in DOMAIN chain
    BY <1>1, <2>1, <2>2
  <2> QED
    BY <1>1, <2>1, <2>2, <2>3
<1> QED
  BY <1>4, <1>5, <1>7, <1>8, <1>9 DEF LimiterInv

\* Steps that leave the limiter alone.
LEMMA OtherLimiter ==
    ASSUME TypeOK, LimiterInv, chain' = chain, nextAllowed' = nextAllowed,
           now' = now \/ now' = now + 1
    PROVE  LimiterInv'
<1>1. \A k \in DOMAIN chain : chain[k].at \in Nat
  BY ChainSeq DEF Promises
<1>2. now \in Nat /\ now' >= now /\ now' \in Nat
  BY DEF TypeOK
<1>3. NotEarly'
  BY <1>1, <1>2 DEF LimiterInv, NotEarly
<1> QED
  BY <1>3 DEF LimiterInv, InOrder, SlotAfter, Frontier, NotHeldLonger

\* The timer of the head fires: its slot stays, and its call is sent no earlier.
LEMMA FireLimiter ==
    ASSUME TypeOK, LimiterInv, NEW k \in DOMAIN chain, Fire(k)
    PROVE  LimiterInv'
<1>1. /\ DOMAIN chain = 1 .. Len(chain) /\ Len(chain) \in Nat /\ k \in Nat \ {0}
      /\ \A j \in DOMAIN chain : chain[j] \in Promises
  BY ChainSeq
<1>2. /\ chain[k].state = "timed" /\ now >= chain[k].slot
      /\ Resolve(k, chain[k].slot) /\ now' = now /\ nextAllowed' = nextAllowed
      /\ chain[k].slot \in Nat /\ now \in Nat
  BY <1>1 DEF Fire, TypeOK, Promises
<1>3. /\ DOMAIN chain' = DOMAIN chain
      /\ \A j \in DOMAIN chain : j # k => chain'[j] = chain[j]
      /\ chain'[k].state = "resolved" /\ chain'[k].slot = chain[k].slot
      /\ chain'[k].at = now
  BY <1>2, ResolveFields
<1>4. /\ \A i \in DOMAIN chain : i < k => chain[i].state = "resolved"
      /\ \A j \in DOMAIN chain : j > k => chain[j].state = "waiting"
  BY <1>1, <1>2 DEF LimiterInv, InOrder
<1>5. InOrder'
  BY <1>1, <1>3, <1>4 DEF InOrder
<1>6. NotEarly'
  BY <1>2, <1>3 DEF LimiterInv, NotEarly
<1>7. SlotAfter'
  <2> SUFFICES ASSUME NEW j \in DOMAIN chain, j > 1, chain'[j].state # "waiting"
               PROVE  /\ chain'[j].slot >= chain'[j - 1].slot + Interval
                      /\ chain'[j].slot >= chain'[j - 1].at
    BY <1>3 DEF SlotAfter
  <2>1. j <= k /\ j - 1 \in DOMAIN chain /\ j - 1 # k
    BY <1>1, <1>3, <1>4
  <2>2. chain[j].state # "waiting" /\ chain'[j].slot = chain[j].slot
    BY <1>2, <1>3
  <2> QED
    BY <1>3, <2>1, <2>2 DEF LimiterInv, SlotAfter
<1>8. Frontier'
  <2>1. nextAllowed = chain[k].slot + Interval
    BY <1>2, <1>4 DEF LimiterInv, Frontier
  <2>2. ASSUME NEW j \in DOMAIN chain, chain'[j].state # "waiting",
               \A i \in DOMAIN chain : i > j => chain'[i].state = "waiting"
        PROVE  j = k
    BY <2>2, <1>1, <1>3, <1>4
  <2> QED
    BY <1>2, <1>3, <2>1, <2>2 DEF Frontier
<1>9. NotHeldLonger'
  <2>1. \A j \in DOMAIN chain : chain'[j].state # "timed"
    <3> TAKE j \in DOMAIN chain
    <3>1. CASE j = k
      BY <3>1, <1>3
    <3>2. CASE j # k
      <4>1. j < k \/ j > k
        BY <3>2, <1>1
      <4> QED
        BY <3>2, <4>1, <1>3, <1>4
    <3> QED
      BY <3>1, <3>2
  <2> QED
    BY <1>3, <2>1 DEF NotHeldLonger
<1> QED
  BY <1>5, <1>6, <1>7, <1>8, <1>9 DEF LimiterInv
\* What is read and written when a promise is scheduled.
LEMMA ScheduleFields ==
    ASSUME TypeOK, NEW k \in DOMAIN chain, Schedule(k)
    PROVE  \E s \in Nat :
             /\ s >= now /\ s >= nextAllowed /\ (s > now => s = nextAllowed)
             /\ nextAllowed' = s + Interval /\ now' = now
             /\ chain[k].state = "waiting" /\ PredecessorResolved(k)
             /\ DOMAIN chain' = DOMAIN chain
             /\ \A j \in DOMAIN chain : j # k => chain'[j] = chain[j]
             /\ chain'[k].slot = s /\ chain'[k].by = chain[k].by
             /\ \/ /\ s = now /\ Resolve(k, s)
                   /\ chain'[k].state = "resolved" /\ chain'[k].at = now
                \/ /\ s > now /\ req' = req
                   /\ chain'[k].state = "timed" /\ chain'[k].at = chain[k].at
<1> DEFINE s == Later(now, nextAllowed)
<1>1. s \in Nat /\ s >= now /\ s >= nextAllowed /\ (s > now => s = nextAllowed)
  BY LaterNat DEF TypeOK
<1>2. /\ nextAllowed' = s + Interval /\ now' = now
      /\ chain[k].state = "waiting" /\ PredecessorResolved(k)
      /\ \/ s = now /\ Resolve(k, s)
         \/ /\ s > now /\ req' = req
            /\ chain' = [chain EXCEPT ![k] = [@ EXCEPT !.state = "timed", !.slot = s]]
  BY DEF Schedule
<1> HIDE DEF s
<1>3. CASE s = now /\ Resolve(k, s)
  <2>1. /\ DOMAIN chain' = DOMAIN chain
        /\ \A j \in DOMAIN chain : j # k => chain'[j] = chain[j]
        /\ chain'[k].state = "resolved" /\ chain'[k].slot = s
        /\ chain'[k].at = now /\ chain'[k].by = chain[k].by
    BY <1>1, <1>3, ResolveFields
  <2> QED
    BY <1>1, <1>2, <1>3, <2>1
<1>4. CASE /\ s > now /\ req' = req
           /\ chain' = [chain EXCEPT ![k] = [@ EXCEPT !.state = "timed", !.slot = s]]
  <2>1. /\ DOMAIN chain' = DOMAIN chain
        /\ \A j \in DOMAIN chain : j # k => chain'[j] = chain[j]
        /\ chain'[k].state = "timed" /\ chain'[k].slot = s
        /\ chain'[k].at = chain[k].at /\ chain'[k].by = chain[k].by
    BY <1>1, <1>4, TimerFields
  <2> QED
    BY <1>1, <1>2, <1>4, <2>1
<1> QED
  BY <1>2, <1>3, <1>4

\* A slot is given away: the next one, or the present if that has passed.
LEMMA ScheduleLimiter ==
    ASSUME TypeOK, LimiterInv, NEW k \in DOMAIN chain, Schedule(k)
    PROVE  LimiterInv'
<1>1. /\ DOMAIN chain = 1 .. Len(chain) /\ Len(chain) \in Nat /\ k \in Nat \ {0}
      /\ \A j \in DOMAIN chain : chain[j] \in Promises
      /\ now \in Nat /\ nextAllowed \in Nat /\ Interval \in Nat
  BY ChainSeq, Constants DEF TypeOK
<1>2. PICK s \in Nat :
             /\ s >= now /\ s >= nextAllowed /\ (s > now => s = nextAllowed)
             /\ nextAllowed' = s + Interval /\ now' = now
             /\ chain[k].state = "waiting" /\ PredecessorResolved(k)
             /\ DOMAIN chain' = DOMAIN chain
             /\ \A j \in DOMAIN chain : j # k => chain'[j] = chain[j]
             /\ chain'[k].slot = s /\ chain'[k].by = chain[k].by
             /\ \/ /\ s = now /\ Resolve(k, s)
                   /\ chain'[k].state = "resolved" /\ chain'[k].at = now
                \/ /\ s > now /\ req' = req
                   /\ chain'[k].state = "timed" /\ chain'[k].at = chain[k].at
  BY ScheduleFields
<1>3. chain'[k].state # "waiting" /\ (chain'[k].state = "timed" => s > now)
  BY <1>2
<1>4. /\ \A i \in DOMAIN chain : i < k => chain[i].state = "resolved"
      /\ \A j \in DOMAIN chain : j > k => chain[j].state = "waiting"
  <2>1. k > 1 => k - 1 \in DOMAIN chain /\ chain[k - 1].state = "resolved"
    BY <1>1, <1>2 DEF PredecessorResolved
  <2>2. \A i \in DOMAIN chain : i < k => i = k - 1 \/ i < k - 1
    BY <1>1
  <2>3. \A i \in DOMAIN chain : i < k => k > 1
    BY <1>1
  <2> QED
    BY <1>2, <2>1, <2>2, <2>3 DEF LimiterInv, InOrder
\* The slot of the one before, if there is one, ends at nextAllowedTime.
<1>5. /\ k = 1 => nextAllowed = 0
      /\ k > 1 => /\ k - 1 \in DOMAIN chain /\ k - 1 # k
                  /\ chain[k - 1].state = "resolved"
                  /\ nextAllowed = chain[k - 1].slot + Interval
                  /\ chain[k - 1].slot <= chain[k - 1].at /\ chain[k - 1].at <= now
                  /\ chain[k - 1].slot \in Nat /\ chain[k - 1].at \in Nat
  <2>1. CASE k = 1
    <3>1. \A j \in DOMAIN chain : chain[j].state = "waiting"
      BY <2>1, <1>1, <1>2, <1>4
    <3> QED
      BY <2>1, <3>1 DEF LimiterInv, Frontier
  <2>2. CASE k > 1
    <3>1. k - 1 \in DOMAIN chain /\ k - 1 # k /\ chain[k - 1].state = "resolved"
      BY <2>2, <1>1, <1>4
    <3>2. \A j \in DOMAIN chain : j > k - 1 => chain[j].state = "waiting"
      BY <1>1, <1>2, <1>4
    <3>3. nextAllowed = chain[k - 1].slot + Interval
      BY <3>1, <3>2 DEF LimiterInv, Frontier
    <3>4. chain[k - 1].slot <= chain[k - 1].at /\ chain[k - 1].at <= now
      BY <3>1 DEF LimiterInv, NotEarly
    <3> QED
      BY <2>2, <1>1, <3>1, <3>3, <3>4 DEF Promises
  <2> QED
    BY <1>1, <2>1, <2>2
<1>6. InOrder'
  BY <1>1, <1>2, <1>4 DEF InOrder
<1>7. NotEarly'
  BY <1>1, <1>2 DEF LimiterInv, NotEarly
<1>8. SlotAfter'
  <2> SUFFICES ASSUME NEW j \in DOMAIN chain, j > 1, chain'[j].state # "waiting"
               PROVE  /\ chain'[j].slot >= chain'[j - 1].slot + Interval
                      /\ chain'[j].slot >= chain'[j - 1].at
    BY <1>2 DEF SlotAfter
  <2>1. j <= k /\ j - 1 \in DOMAIN chain /\ j - 1 # k
    BY <1>1, <1>2, <1>4
  <2>2. CASE j = k
    BY <1>1, <1>2, <1>5, <2>1, <2>2
  <2>3. CASE j # k
    BY <1>2, <2>1, <2>3 DEF LimiterInv, SlotAfter
  <2> QED
    BY <2>2, <2>3
<1>9. Frontier'
  <2>1. ASSUME NEW j \in DOMAIN chain, chain'[j].state # "waiting",
               \A i \in DOMAIN chain : i > j => chain'[i].state = "waiting"
        PROVE  j = k
    BY <2>1, <1>1, <1>2, <1>3, <1>4
  <2> QED
    BY <1>2, <1>3, <2>1 DEF Frontier
<1>10. NotHeldLonger'
  <2> SUFFICES ASSUME NEW j \in DOMAIN chain, chain'[j].state = "timed"
               PROVE  j > 1 /\ chain'[j].slot <= chain'[j - 1].at + Interval
    BY <1>2 DEF NotHeldLonger
  <2>1. j = k
    <3>1. j < k => FALSE
      BY <1>2, <1>4
    <3>2. j > k => FALSE
      BY <1>2, <1>4
    <3> QED
      BY <1>1, <3>1, <3>2
  <2>2. s > now /\ s = nextAllowed /\ k > 1
    BY <1>1, <1>2, <1>3, <1>5, <2>1
  <2> QED
    BY <1>1, <1>2, <1>5, <2>1, <2>2
<1> QED
  BY <1>6, <1>7, <1>8, <1>9, <1>10 DEF LimiterInv
LEMMA NextLimiter == TypeOK /\ LimiterInv /\ [Next]_vars => LimiterInv'
<1> SUFFICES ASSUME TypeOK, LimiterInv, [Next]_vars PROVE LimiterInv'
  OBVIOUS
<1>1. ASSUME NEW r \in Requests, NEW kind, NEW n, Begin(r, kind, n)
      PROVE  LimiterInv'
  BY <1>1, EnqueueLimiter DEF Begin
<1>2. ASSUME NEW r \in Requests, NEW result, Answer(r, result)
      PROVE  LimiterInv'
  <2>1. now' = now /\ nextAllowed' = nextAllowed
    BY <1>2 DEF Answer
  <2>2. chain' = chain \/ chain' = Enqueue(r)
    BY <1>2 DEF Answer, Return
  <2> QED
    BY <2>1, <2>2, EnqueueLimiter, OtherLimiter
<1>3. ASSUME NEW r \in Requests, Resend(r)
      PROVE  LimiterInv'
  BY <1>3, OtherLimiter DEF Resend
<1>4. CASE Tick
  BY <1>4, OtherLimiter DEF Tick
<1>5. CASE UNCHANGED vars
  BY <1>5, OtherLimiter DEF vars
<1> QED
  BY <1>1, <1>2, <1>3, <1>4, <1>5, Steps, ScheduleLimiter, FireLimiter

LEMMA InitLimiter == Init => LimiterInv
  BY DEF Init, LimiterInv, InOrder, NotEarly, SlotAfter, Frontier, NotHeldLonger

THEOREM LimiterInvariant == Spec => [](TypeOK /\ LimiterInv)
  BY InitType, InitLimiter, NextType, NextLimiter, PTL DEF Spec

\* A call is never held back for longer than an interval after the one before,
\* for any number of requests and any lateness of timers.
THEOREM HeldNoLonger == Spec => []NotHeldLonger
<1>1. LimiterInv => NotHeldLonger
  BY DEF LimiterInv
<1> QED
  BY <1>1, LimiterInvariant, PTL

-----------------------------------------------------------------------------
(* The limiter implements CallSpacing. *)

LEMMA CallsOf ==
    ASSUME NEW c \in Seq(Promises)
    PROVE  /\ [k \in DOMAIN c |-> AsCall(c[k])] \in Seq(Spaced!Call)
           /\ Len([k \in DOMAIN c |-> AsCall(c[k])]) = Len(c)
<1>1. /\ DOMAIN c = 1 .. Len(c) /\ Len(c) \in Nat
      /\ \A k \in DOMAIN c : c[k] \in Promises
  OBVIOUS
<1>2. \A k \in DOMAIN c : AsCall(c[k]) \in Spaced!Call
  BY <1>1 DEF AsCall, Promises, Spaced!Call
<1>3. [k \in DOMAIN c |-> AsCall(c[k])] \in [1 .. Len(c) -> Spaced!Call]
  BY <1>1, <1>2
<1> QED
  BY <1>1, <1>3

LEMMA CallsSeq ==
    ASSUME TypeOK
    PROVE  Calls \in Seq(Spaced!Call) /\ Len(Calls) = Len(chain)
  BY CallsOf DEF TypeOK, Calls

LEMMA CallsSeqNext ==
    ASSUME chain' \in Seq(Promises)
    PROVE  Calls' \in Seq(Spaced!Call) /\ Len(Calls') = Len(chain')
<1>1. PICK c : c = chain'
  OBVIOUS
<1>2. /\ [k \in DOMAIN c |-> AsCall(c[k])] \in Seq(Spaced!Call)
      /\ Len([k \in DOMAIN c |-> AsCall(c[k])]) = Len(c)
  BY <1>1, CallsOf
<1>3. Calls' = [k \in DOMAIN c |-> AsCall(c[k])]
  BY <1>1 DEF Calls
<1> QED
  BY <1>1, <1>2, <1>3

\* A new promise is a call issued.
LEMMA EnqueueIssues ==
    ASSUME TypeOK, TypeOK', NEW r \in Requests, chain' = Enqueue(r), now' = now
    PROVE  Spaced!Issue(r)
<1> DEFINE new == [by |-> r, sent |-> FALSE, slot |-> 0, at |-> 0]
<1>1. new \in Spaced!Call
  BY DEF Spaced!Call
<1>2. /\ Calls \in Seq(Spaced!Call) /\ Calls' \in Seq(Spaced!Call)
      /\ Len(Calls) = Len(chain) /\ Len(Calls') = Len(chain')
  BY CallsSeq, CallsSeqNext DEF TypeOK
<1>3. /\ DOMAIN chain' = 1 .. Len(chain) + 1
      /\ \A k \in DOMAIN chain : chain'[k] = chain[k]
      /\ chain'[Len(chain) + 1] =
           [by |-> r, state |-> "waiting", slot |-> 0, at |-> 0]
      /\ chain' \in Seq(Promises)
  BY EnqueueSeq
<1>4. DOMAIN chain = 1 .. Len(chain) /\ Len(chain) \in Nat
  BY ChainSeq
<1>5. Len(chain') = Len(chain) + 1
  BY <1>3, <1>4
<1>6. \A i \in 1 .. Len(chain) : Calls'[i] = Calls[i]
  BY <1>3, <1>4 DEF Calls
<1>7. Calls'[Len(chain) + 1] = new
  <2>1. Calls'[Len(chain) + 1] = AsCall(chain'[Len(chain) + 1])
    BY <1>3, <1>4 DEF Calls
  <2>2. AsCall([by |-> r, state |-> "waiting", slot |-> 0, at |-> 0]) = new
    BY DEF AsCall
  <2> QED
    BY <1>3, <2>1, <2>2
<1>8. Calls' = Append(Calls, new)
  <2> HIDE DEF new
  <2>1. /\ Append(Calls, new) \in Seq(Spaced!Call)
        /\ Len(Append(Calls, new)) = Len(chain) + 1
        /\ \A i \in 1 .. Len(chain) : Append(Calls, new)[i] = Calls[i]
        /\ Append(Calls, new)[Len(chain) + 1] = new
    BY <1>1, <1>2, AppendProperties
  <2>2. \A i \in 1 .. Len(chain) + 1 : Calls'[i] = Append(Calls, new)[i]
    BY <2>1, <1>4, <1>6, <1>7
  <2> QED
    BY <1>2, <1>5, <2>1, <2>2, SeqEqual
<1> QED
  BY <1>8 DEF Spaced!Issue
LEMMA AsCallCases ==
    ASSUME NEW p
    PROVE  /\ p.state = "resolved" =>
                AsCall(p) = [by |-> p.by, sent |-> TRUE, slot |-> p.slot, at |-> p.at]
           /\ p.state # "resolved" =>
                AsCall(p) = [by |-> p.by, sent |-> FALSE, slot |-> 0, at |-> p.at]
<1>1. ASSUME p.state = "resolved"
      PROVE  AsCall(p) = [by |-> p.by, sent |-> TRUE, slot |-> p.slot, at |-> p.at]
  BY <1>1, Zenon DEF AsCall
<1>2. ASSUME p.state # "resolved"
      PROVE  AsCall(p) = [by |-> p.by, sent |-> FALSE, slot |-> 0, at |-> p.at]
  <2>1. (p.state = "resolved") = FALSE
    BY <1>2
  <2> QED
    BY <2>1, Zenon DEF AsCall
<1> QED
  BY <1>1, <1>2

\* The record of a call that is sent.
Sending(c, s, t) == [c EXCEPT !.sent = TRUE, !.slot = s, !.at = t]

LEMMA SentRecord ==
    ASSUME NEW c \in Spaced!Call, NEW s \in Nat, NEW t \in Nat
    PROVE  [by |-> c.by, sent |-> TRUE, slot |-> s, at |-> t] = Sending(c, s, t)
<1> DEFINE x == [by |-> c.by, sent |-> TRUE, slot |-> s, at |-> t]
           y == [c EXCEPT !.sent = TRUE, !.slot = s, !.at = t]
<1>2. x \in Spaced!Call /\ y \in Spaced!Call
  BY DEF Spaced!Call
<1>3. x.by = c.by /\ x.sent = TRUE /\ x.slot = s /\ x.at = t
  OBVIOUS
<1>4. y.by = c.by /\ y.sent = TRUE /\ y.slot = s /\ y.at = t
  BY DEF Spaced!Call
<1> HIDE DEF x, y
<1>5. x = y
  BY <1>2, <1>3, <1>4 DEF Spaced!Call
<1> QED
  BY <1>5 DEF x, y, Sending

\* A promise that is resolved is a call sent in its slot.
LEMMA ResolveSends ==
    ASSUME TypeOK, LimiterInv', NEW k \in DOMAIN chain, NEW s \in Nat, s <= now,
           chain[k].state # "resolved", Resolve(k, s), now' = now
    PROVE  k \in DOMAIN Calls /\ Spaced!Send(k)
<1>1. /\ DOMAIN chain = 1 .. Len(chain) /\ Len(chain) \in Nat /\ k \in Nat \ {0}
      /\ chain[k] \in Promises /\ now \in Nat
      /\ Calls \in Seq(Spaced!Call) /\ Len(Calls) = Len(chain)
  BY ChainSeq, CallsSeq DEF TypeOK
<1>2. /\ DOMAIN chain' = DOMAIN chain
      /\ \A j \in DOMAIN chain : j # k => chain'[j] = chain[j]
      /\ chain'[k].state = "resolved" /\ chain'[k].slot = s
      /\ chain'[k].at = now /\ chain'[k].by = chain[k].by
  BY ResolveFields
<1>3. /\ DOMAIN Calls = DOMAIN chain
      /\ \A j \in DOMAIN chain : Calls[j] = AsCall(chain[j])
  BY DEF Calls
<1>4. /\ Calls[k] = [by |-> chain[k].by, sent |-> FALSE, slot |-> 0, at |-> chain[k].at]
      /\ ~Calls[k].sent
  <2>1. Calls[k] = [by |-> chain[k].by, sent |-> FALSE, slot |-> 0, at |-> chain[k].at]
    BY <1>3, AsCallCases
  <2> QED
    BY <2>1
<1>5. k > 1 => /\ Calls[k - 1].sent
              /\ s >= Calls[k - 1].at
              /\ s >= Calls[k - 1].slot + Interval
  <2> SUFFICES ASSUME k > 1
               PROVE  /\ Calls[k - 1].sent
                      /\ s >= Calls[k - 1].at
                      /\ s >= Calls[k - 1].slot + Interval
    OBVIOUS
  <2>1. k - 1 \in DOMAIN chain /\ k - 1 < k /\ chain'[k - 1] = chain[k - 1]
    BY <1>1, <1>2
  <2>2. chain[k - 1].state = "resolved"
    BY <1>2, <2>1 DEF LimiterInv, InOrder
  <2>3. s >= chain[k - 1].slot + Interval /\ s >= chain[k - 1].at
    BY <1>2, <2>1 DEF LimiterInv, SlotAfter
  <2>4. Calls[k - 1] = [by |-> chain[k - 1].by, sent |-> TRUE,
                        slot |-> chain[k - 1].slot, at |-> chain[k - 1].at]
    BY <1>3, <2>1, <2>2, AsCallCases
  <2> QED
    BY <2>3, <2>4
<1>6. Calls' = [Calls EXCEPT ![k] = [@ EXCEPT !.sent = TRUE, !.slot = s, !.at = now]]
  <2>1. Calls' = [j \in DOMAIN chain |-> AsCall(chain'[j])]
    BY <1>2 DEF Calls
  <2>2. AsCall(chain'[k]) = [Calls[k] EXCEPT !.sent = TRUE, !.slot = s, !.at = now]
    <3>1. AsCall(chain'[k]) = [by |-> chain[k].by, sent |-> TRUE, slot |-> s, at |-> now]
      <4>1. PICK p : p = chain'[k]
        OBVIOUS
      <4>2. AsCall(p) = [by |-> p.by, sent |-> TRUE, slot |-> p.slot, at |-> p.at]
        BY <1>2, <4>1, AsCallCases
      <4> QED
        BY <1>2, <4>1, <4>2
    <3>2. Calls[k] \in Spaced!Call
      BY <1>1, <1>3
    <3>3. Calls[k].by = chain[k].by
      BY <1>4
    <3>4. [by |-> Calls[k].by, sent |-> TRUE, slot |-> s, at |-> now] =
              Sending(Calls[k], s, now)
      BY <1>1, <3>2, SentRecord
    <3>5. AsCall(chain'[k]) = Sending(Calls[k], s, now)
      BY <3>1, <3>3, <3>4
    <3> QED
      BY <3>5 DEF Sending
  <2>3. \A j \in DOMAIN chain : j # k => AsCall(chain'[j]) = Calls[j]
    BY <1>2, <1>3
  <2> DEFINE new == [Calls[k] EXCEPT !.sent = TRUE, !.slot = s, !.at = now]
  <2>4. AsCall(chain'[k]) = new
    BY <2>2
  <2> HIDE DEF new
  <2>5. [Calls EXCEPT ![k] = new] = [j \in DOMAIN chain |-> AsCall(chain'[j])]
    BY <1>3, <2>3, <2>4 DEF Calls
  <2> QED
    BY <2>1, <2>5 DEF new
<1>7. s \in 0 .. now
  BY <1>1
<1> QED
  BY <1>3, <1>4, <1>5, <1>6, <1>7 DEF Spaced!Send

LEMMA ScheduleSends ==
    ASSUME TypeOK, LimiterInv, NEW k \in DOMAIN chain, Schedule(k)
    PROVE  [Spaced!Next]_(Spaced!vars)
<1>1. LimiterInv'
  BY ScheduleLimiter
<1>2. PICK s \in Nat :
             /\ s >= now /\ s >= nextAllowed /\ (s > now => s = nextAllowed)
             /\ nextAllowed' = s + Interval /\ now' = now
             /\ chain[k].state = "waiting" /\ PredecessorResolved(k)
             /\ DOMAIN chain' = DOMAIN chain
             /\ \A j \in DOMAIN chain : j # k => chain'[j] = chain[j]
             /\ chain'[k].slot = s /\ chain'[k].by = chain[k].by
             /\ \/ /\ s = now /\ Resolve(k, s)
                   /\ chain'[k].state = "resolved" /\ chain'[k].at = now
                \/ /\ s > now /\ req' = req
                   /\ chain'[k].state = "timed" /\ chain'[k].at = chain[k].at
  BY ScheduleFields
<1>3. CASE s = now /\ Resolve(k, s)
  <2>1. s <= now
    BY <1>3
  <2>2. k \in DOMAIN Calls /\ Spaced!Send(k)
    BY <1>1, <1>2, <1>3, <2>1, ResolveSends
  <2> QED
    BY <2>2 DEF Spaced!Next
<1>4. CASE chain'[k].state = "timed" /\ chain'[k].at = chain[k].at
  <2>1. AsCall(chain'[k]) = AsCall(chain[k])
    BY <1>2, <1>4 DEF AsCall
  <2>2. \A j \in DOMAIN chain : AsCall(chain'[j]) = AsCall(chain[j])
    BY <1>2, <2>1
  <2>3. Calls' = Calls
    BY <1>2, <2>2 DEF Calls
  <2> QED
    BY <1>2, <2>3 DEF Spaced!vars
<1> QED
  BY <1>2, <1>3, <1>4

LEMMA FireSends ==
    ASSUME TypeOK, LimiterInv, NEW k \in DOMAIN chain, Fire(k)
    PROVE  [Spaced!Next]_(Spaced!vars)
<1>1. LimiterInv'
  BY FireLimiter
<1>2. chain[k].slot \in Nat /\ now \in Nat
  BY ChainSeq DEF TypeOK, Promises
<1>3. /\ chain[k].state # "resolved" /\ Resolve(k, chain[k].slot) /\ now' = now
      /\ chain[k].slot <= now
  BY <1>2 DEF Fire
<1>4. k \in DOMAIN Calls /\ Spaced!Send(k)
  BY <1>1, <1>2, <1>3, ResolveSends
<1> QED
  BY <1>4 DEF Spaced!Next

LEMMA StepSends ==
    ASSUME TypeOK, LimiterInv, [Next]_vars
    PROVE  [Spaced!Next]_(Spaced!vars)
<1>1. TypeOK'
  BY NextType
<1>2. ASSUME NEW r \in Requests, chain' = Enqueue(r), now' = now
      PROVE  [Spaced!Next]_(Spaced!vars)
  BY <1>1, <1>2, EnqueueIssues DEF Spaced!Next
<1>3. ASSUME chain' = chain, now' = now
      PROVE  [Spaced!Next]_(Spaced!vars)
  BY <1>3 DEF Spaced!vars, Calls
<1>4. ASSUME NEW r \in Requests, NEW kind, NEW n, Begin(r, kind, n)
      PROVE  [Spaced!Next]_(Spaced!vars)
  BY <1>2, <1>4 DEF Begin
<1>5. ASSUME NEW r \in Requests, NEW result, Answer(r, result)
      PROVE  [Spaced!Next]_(Spaced!vars)
  <2>1. now' = now
    BY <1>5 DEF Answer
  <2>2. chain' = chain \/ chain' = Enqueue(r)
    BY <1>5 DEF Answer, Return
  <2> QED
    BY <1>2, <1>3, <2>1, <2>2
<1>6. ASSUME NEW r \in Requests, Resend(r)
      PROVE  [Spaced!Next]_(Spaced!vars)
  BY <1>3, <1>6 DEF Resend
<1>7. CASE Tick
  <2>1. now' = now + 1 /\ Calls' = Calls
    BY <1>7 DEF Tick, Calls
  <2> QED
    BY <2>1 DEF Spaced!Next, Spaced!Tick
<1>8. CASE UNCHANGED vars
  BY <1>3, <1>8 DEF vars
<1> QED
  BY <1>4, <1>5, <1>6, <1>7, <1>8, Steps, ScheduleSends, FireSends

\* The chain of promises sends calls in the order of issue, each in a slot of its
\* own, for any number of requests and any interval.
THEOREM Implementation == Spec => ImplementsSpacing
<1>1. Init => Spaced!Init
  BY DEF Init, Spaced!Init, Calls
<1>2. TypeOK /\ LimiterInv /\ [Next]_vars => [Spaced!Next]_(Spaced!vars)
  BY StepSends
<1> QED
  BY <1>1, <1>2, LimiterInvariant, PTL DEF Spec, ImplementsSpacing, Spaced!Spec

\* A call in the slot after another is one interval farther from a third.
LEMMA OneFarther ==
    ASSUME Spaced!IntervalOK, NEW n \in Int, NEW m \in Int, m = n + 1,
           NEW a \in Nat, NEW b \in Nat, NEW c \in Nat,
           b >= a + n * Interval, c >= b + Interval
    PROVE  c >= a + m * Interval
  BY DEF Spaced!IntervalOK

LEMMA Product ==
    ASSUME Spaced!IntervalOK
    PROVE  \A n \in Int : n * Interval \in Int
  BY DEF Spaced!IntervalOK

LEMMA SentCall ==
    ASSUME NEW c \in Spaced!Call, NEW s \in Nat, NEW t \in Nat
    PROVE  [c EXCEPT !.sent = TRUE, !.slot = s, !.at = t] \in Spaced!Call
  BY DEF Spaced!Call

\* Issuing a call touches no call that was sent.
LEMMA IssueInv ==
    ASSUME Spaced!IInv, NEW c \in Requests, Spaced!Issue(c)
    PROVE  Spaced!IInv'
<1> DEFINE new == [by |-> c, sent |-> FALSE, slot |-> 0, at |-> 0]
<1>1. new \in Spaced!Call /\ Calls' = Append(Calls, new) /\ now' = now
  BY DEF Spaced!Issue, Spaced!Call
<1>2. Spaced!TypeOK'
  BY <1>1 DEF Spaced!IInv, Spaced!TypeOK
<1>3. /\ Len(Calls') = Len(Calls) + 1
      /\ DOMAIN Calls = 1 .. Len(Calls) /\ DOMAIN Calls' = 1 .. Len(Calls) + 1
      /\ \A i \in DOMAIN Calls : Calls'[i] = Calls[i]
      /\ ~Calls'[Len(Calls) + 1].sent
      /\ Len(Calls) \in Nat
  BY <1>1 DEF Spaced!IInv, Spaced!TypeOK
<1>4. \A j \in DOMAIN Calls' : Calls'[j].sent =>
          \A i \in DOMAIN Calls' : i <= j => i \in DOMAIN Calls
  BY <1>3
<1> QED
  BY <1>2, <1>3, <1>4 DEF Spaced!IInv, Spaced!InOrder, Spaced!NotEarly, Spaced!SlotsSpaced

\* The call that is sent keeps its distance from all calls before it.
LEMMA SendInv ==
    ASSUME Spaced!IntervalOK, Spaced!IInv, NEW k \in DOMAIN Calls, Spaced!Send(k)
    PROVE  Spaced!IInv'
<1>1. PICK s \in 0 .. now :
        /\ k > 1 => /\ Calls[k - 1].sent
                    /\ s >= Calls[k - 1].at
                    /\ s >= Calls[k - 1].slot + Interval
        /\ Calls' = [Calls EXCEPT ![k] = [@ EXCEPT !.sent = TRUE, !.slot = s, !.at = now]]
  BY DEF Spaced!Send
<1>2. /\ k \in Nat \ {0} /\ DOMAIN Calls = 1 .. Len(Calls) /\ Len(Calls) \in Nat
      /\ DOMAIN Calls' = DOMAIN Calls /\ now' = now /\ now \in Nat /\ ~Calls[k].sent
      /\ \A i \in DOMAIN Calls : Calls[i] \in Spaced!Call
  BY <1>1 DEF Spaced!IInv, Spaced!TypeOK, Spaced!Send
<1>3. /\ \A i \in DOMAIN Calls : i # k => Calls'[i] = Calls[i]
      /\ Calls'[k].sent /\ Calls'[k].slot = s /\ Calls'[k].at = now
  BY <1>1, <1>2 DEF Spaced!Call
<1>4. Spaced!TypeOK'
  <2> DEFINE new == [Calls[k] EXCEPT !.sent = TRUE, !.slot = s, !.at = now]
  <2>1. new \in Spaced!Call
    <3>1. Calls[k] \in Spaced!Call /\ s \in Nat /\ now \in Nat
      BY <1>2
    <3> QED
      BY <3>1, SentCall
  <2>2. Calls' = [Calls EXCEPT ![k] = new]
    BY <1>1
  <2> HIDE DEF new
  <2> QED
    BY <1>2, <2>1, <2>2 DEF Spaced!IInv, Spaced!TypeOK
<1>5. \A i \in DOMAIN Calls : i < k => Calls[i].sent
  BY <1>1, <1>2 DEF Spaced!IInv, Spaced!InOrder
<1>6. \A j \in DOMAIN Calls : j > k => ~Calls[j].sent
  BY <1>2 DEF Spaced!IInv, Spaced!InOrder
<1>7. \A i \in DOMAIN Calls : i < k => s >= Calls[i].at + (k - i - 1) * Interval
  <2> SUFFICES ASSUME NEW i \in DOMAIN Calls, i < k
               PROVE  s >= Calls[i].at + (k - i - 1) * Interval
    OBVIOUS
  <2>1. Calls[i].at \in Nat /\ k > 1 /\ k - 1 \in DOMAIN Calls
    BY <1>2 DEF Spaced!Call
  <2>2. CASE i = k - 1
    <3>1. k - i - 1 = 0
      BY <2>2, <1>2
    <3> QED
      BY <3>1, <2>1, <2>2, <1>1 DEF Spaced!IntervalOK
  <2>3. CASE i < k - 1
    <3>1. Calls[k - 1].slot >= Calls[i].at + (k - 1 - i - 1) * Interval
      BY <2>1, <2>3, <1>1 DEF Spaced!IInv, Spaced!SlotsSpaced
    <3>2. /\ k - 1 - i - 1 \in Int /\ k - i - 1 \in Int
          /\ k - i - 1 = (k - 1 - i - 1) + 1
      BY <1>2
    <3>3. Calls[k - 1].slot \in Nat /\ s \in Nat /\ Calls[i].at \in Nat
      BY <2>1, <1>2 DEF Spaced!Call
    <3>4. s >= Calls[k - 1].slot + Interval
      BY <2>1, <1>1
    <3> QED
      BY <3>1, <3>2, <3>3, <3>4, OneFarther
  <2> QED
    BY <2>2, <2>3, <1>2
<1>8. Spaced!InOrder'
  BY <1>2, <1>3, <1>5, <1>6 DEF Spaced!IInv, Spaced!InOrder
<1>9. Spaced!NotEarly'
  BY <1>2, <1>3 DEF Spaced!IInv, Spaced!NotEarly
<1>10. Spaced!SlotsSpaced'
  <2> SUFFICES ASSUME NEW i \in DOMAIN Calls, NEW j \in DOMAIN Calls,
                      i < j, Calls'[j].sent
               PROVE  Calls'[j].slot >= Calls'[i].at + (j - i - 1) * Interval
    BY <1>2 DEF Spaced!SlotsSpaced
  <2>1. i # k /\ j <= k
    BY <1>2, <1>3, <1>6
  <2> QED
    BY <1>2, <1>3, <1>7, <2>1 DEF Spaced!IInv, Spaced!SlotsSpaced
<1> QED
  BY <1>4, <1>8, <1>9, <1>10 DEF Spaced!IInv

\* Slots, and with them the times of sending, keep their distance, for any
\* interval and any number of calls.
THEOREM SpacingHolds ==
    ASSUME Spaced!IntervalOK
    PROVE  Spaced!Spec => []Spaced!Spacing
<1>1. Spaced!Init => Spaced!IInv
  BY DEF Spaced!Init, Spaced!IInv, Spaced!TypeOK, Spaced!InOrder, Spaced!NotEarly, Spaced!SlotsSpaced
<1>2. Spaced!IInv /\ [Spaced!Next]_(Spaced!vars) => Spaced!IInv'
  <2> SUFFICES ASSUME Spaced!IInv, [Spaced!Next]_(Spaced!vars)
               PROVE  Spaced!IInv'
    OBVIOUS
  <2>1. ASSUME NEW c \in Requests, Spaced!Issue(c)
        PROVE  Spaced!IInv'
    BY <2>1, IssueInv
  <2>2. ASSUME NEW k \in DOMAIN Calls, Spaced!Send(k)
        PROVE  Spaced!IInv'
    BY <2>2, SendInv
  <2>3. CASE Spaced!Tick
    BY <2>3 DEF Spaced!Tick, Spaced!IInv, Spaced!TypeOK, Spaced!InOrder, Spaced!NotEarly, Spaced!SlotsSpaced
  <2>4. CASE UNCHANGED Spaced!vars
    BY <2>4 DEF Spaced!vars, Spaced!IInv, Spaced!TypeOK, Spaced!InOrder, Spaced!NotEarly, Spaced!SlotsSpaced
  <2> QED
    BY <2>1, <2>2, <2>3, <2>4 DEF Spaced!Next
<1>3. Spaced!IInv => Spaced!Spacing
  <2> SUFFICES ASSUME Spaced!IInv, NEW i \in DOMAIN Calls, NEW j \in DOMAIN Calls,
                      i < j, Calls[j].sent
               PROVE  /\ Calls[i].sent
                      /\ Calls[j].at >= Calls[i].at + (j - i - 1) * Interval
    BY DEF Spaced!Spacing
  <2>1. Calls[i].sent
    BY DEF Spaced!IInv, Spaced!InOrder
  <2> /\ \A k \in DOMAIN Calls : k \in Int /\ Calls[k] \in Spaced!Call
    BY DEF Spaced!IInv, Spaced!TypeOK
  <2>2. Calls[j].slot >= Calls[i].at + (j - i - 1) * Interval
    BY DEF Spaced!IInv, Spaced!SlotsSpaced
  <2>3. Calls[j].at >= Calls[j].slot
    BY DEF Spaced!IInv, Spaced!NotEarly, Spaced!Call
  <2>4. /\ Calls[i].at \in Nat /\ Calls[j].at \in Nat /\ Calls[j].slot \in Nat
    BY DEF Spaced!Call
  <2>5. (j - i - 1) * Interval \in Int
    BY Product
  <2> QED
    BY <2>1, <2>2, <2>3, <2>4, <2>5
<1> QED
  BY <1>1, <1>2, <1>3, PTL DEF Spaced!Spec

\* n + 2 calls in a row span n intervals.
THEOREM CallsAreSpaced == Spec => []CallsSpaced
<1>1. Spaced!IntervalOK
  BY Constants DEF Spaced!IntervalOK
<1>2. Spaced!Spec => []Spaced!Spacing
  BY <1>1, SpacingHolds
<1> QED
  BY <1>2, Implementation, PTL DEF ImplementsSpacing, CallsSpaced
-----------------------------------------------------------------------------
(* What becomes of the items of a request. *)

\* A report tells the truth about its write.
Truthful(kind, report) ==
    /\ report.applied <= 1
    /\ IsWrite(kind) /\ report.ok => report.applied = 1

\* Between two steps no call that was applied is outstanding, and every item is
\* either reported or left.
Accounts(q) ==
    /\ q.applied = 0
    /\ q.pc = "idle" => q.reports = <<>>
    /\ q.pc \in {"queued", "sent", "backoff"} => Len(q.reports) + q.left = q.size
    /\ q.pc = "done" /\ q.kind = "batch" => Len(q.reports) = q.size
    /\ \A i \in DOMAIN q.reports : Truthful(q.kind, q.reports[i])

\* A promise that is not resolved belongs to a queued request, which has no other.
Linked ==
    /\ \A k \in DOMAIN chain :
          chain[k].state # "resolved" => req[chain[k].by].pc = "queued"
    /\ \A j, k \in DOMAIN chain :
          /\ chain[j].state # "resolved" /\ chain[k].state # "resolved"
          /\ chain[j].by = chain[k].by
          => j = k

RequestInv == Linked /\ \A r \in Requests : Accounts(req[r])

LEMMA SentAccounts ==
    ASSUME NEW q \in Request, Accounts(q), q.pc \in {"queued", "backoff"}
    PROVE  Accounts([q EXCEPT !.pc = "sent"])
  BY DEF Accounts, Request

LEMMA BeginAccounts ==
    ASSUME NEW q \in Request, Accounts(q), q.pc = "idle",
           NEW kind \in Kinds, NEW n \in 1 .. MaxItems
    PROVE  Accounts([q EXCEPT !.pc = "queued", !.kind = kind, !.size = n, !.left = n])
<1> DEFINE p == [q EXCEPT !.pc = "queued", !.kind = kind, !.size = n, !.left = n]
<1>1. /\ p.pc = "queued" /\ p.left = n /\ p.size = n
      /\ p.reports = q.reports /\ p.applied = q.applied
  BY DEF Request
<1>2. q.applied = 0 /\ q.reports = <<>> /\ n \in Nat
  BY Constants DEF Accounts
<1> HIDE DEF p
<1>3. Accounts(p)
  BY <1>1, <1>2 DEF Accounts
<1> QED
  BY <1>3 DEF p

\* Only what was not applied is sent again.
LEMMA RetryNotApplied ==
    ASSUME NEW kind \in Kinds, NEW result, ShouldRetry(kind, result),
           NEW n \in MayApply(kind, result)
    PROVE  n = 0
<1>1. ~IsWrite(kind) \/ result = "rejected"
  BY DEF ShouldRetry
<1>2. CASE ~IsWrite(kind)
  BY <1>2 DEF MayApply
<1>3. CASE IsWrite(kind) /\ result = "rejected"
  BY <1>3 DEF MayApply
<1> QED
  BY <1>1, <1>2, <1>3

LEMMA AnswerTruthful ==
    ASSUME NEW kind \in Kinds, NEW result \in Results, NEW n \in MayApply(kind, result)
    PROVE  Truthful(kind, [ok |-> Succeeds(kind, result), applied |-> n])
<1>1. n \in {0, 1}
  BY MayApplyNat
<1>2. IsWrite(kind) /\ Succeeds(kind, result) => n = 1
  BY DEF IsWrite, Succeeds, MayApply
<1> QED
  BY <1>1, <1>2 DEF Truthful

LEMMA RetryAccounts ==
    ASSUME NEW q \in Request, Accounts(q), q.pc = "sent", NEW t \in Nat,
           q.attempt < Retries
    PROVE  Accounts([q EXCEPT !.pc = "backoff", !.wake = t, !.attempt = q.attempt + 1,
                              !.applied = q.applied + 0])
<1> DEFINE p == [q EXCEPT !.pc = "backoff", !.wake = t, !.attempt = q.attempt + 1,
                          !.applied = q.applied + 0]
<1>1. /\ p.pc = "backoff" /\ p.left = q.left /\ p.size = q.size /\ p.kind = q.kind
      /\ p.reports = q.reports /\ p.applied = q.applied + 0
  BY DEF Request
<1> HIDE DEF p
<1>2. Accounts(p)
  BY <1>1 DEF Accounts
<1> QED
  BY <1>2 DEF p

\* The report of the current item is added to the others.
LEMMA ReportAdded ==
    ASSUME NEW q \in Request, Accounts(q), NEW report \in Report,
           Truthful(q.kind, report)
    PROVE  /\ Append(q.reports, report) \in Seq(Report)
           /\ Len(Append(q.reports, report)) = Len(q.reports) + 1
           /\ \A i \in DOMAIN Append(q.reports, report) :
                 Truthful(q.kind, Append(q.reports, report)[i])
<1>1. q.reports \in Seq(Report)
  BY DEF Request
<1>2. /\ Append(q.reports, report) \in Seq(Report)
      /\ Len(Append(q.reports, report)) = Len(q.reports) + 1
      /\ \A i \in 1 .. Len(q.reports) : Append(q.reports, report)[i] = q.reports[i]
      /\ Append(q.reports, report)[Len(q.reports) + 1] = report
  BY <1>1, AppendProperties
<1>3. /\ DOMAIN Append(q.reports, report) = 1 .. Len(q.reports) + 1
      /\ DOMAIN q.reports = 1 .. Len(q.reports) /\ Len(q.reports) \in Nat
  BY <1>1, <1>2
<1>4. \A i \in 1 .. Len(q.reports) : Truthful(q.kind, q.reports[i])
  BY <1>3 DEF Accounts
<1>5. \A i \in 1 .. Len(q.reports) + 1 : i \in 1 .. Len(q.reports) \/ i = Len(q.reports) + 1
  BY <1>3
<1> QED
  BY <1>2, <1>3, <1>4, <1>5

LEMMA ReturnAccounts ==
    ASSUME NEW q \in Request, Accounts(q), q.pc = "sent", NEW reports \in Seq(Report),
           Len(reports) = Len(q.reports) + 1,
           \A i \in DOMAIN reports : Truthful(q.kind, reports[i])
    PROVE  /\ (q.kind = "batch" => q.left = 1) =>
                Accounts([q EXCEPT !.pc = "done", !.applied = 0, !.reports = reports])
           /\ q.left > 1 =>
                Accounts([q EXCEPT !.pc = "queued", !.left = q.left - 1, !.attempt = 0,
                                   !.applied = 0, !.reports = reports])
<1> DEFINE e == [q EXCEPT !.pc = "done", !.applied = 0, !.reports = reports]
           p == [q EXCEPT !.pc = "queued", !.left = q.left - 1, !.attempt = 0,
                          !.applied = 0, !.reports = reports]
<1>1. /\ e.pc = "done" /\ e.kind = q.kind /\ e.size = q.size
      /\ e.reports = reports /\ e.applied = 0
  BY DEF Request
<1>2. /\ p.pc = "queued" /\ p.kind = q.kind /\ p.size = q.size /\ p.left = q.left - 1
      /\ p.reports = reports /\ p.applied = 0
  BY DEF Request
<1>3. /\ Len(q.reports) + q.left = q.size
      /\ Len(q.reports) \in Nat /\ q.left \in Nat
  BY DEF Accounts, Request
<1> HIDE DEF e, p
<1>4. (q.kind = "batch" => q.left = 1) => Accounts(e)
  BY <1>1, <1>3 DEF Accounts
<1>5. q.left > 1 => Accounts(p)
  BY <1>2, <1>3 DEF Accounts
<1> QED
  BY <1>4, <1>5 DEF e, p

\* The promise of a queued request is resolved.
LEMMA ResolveRequests ==
    ASSUME TypeOK, RequestInv, NEW k \in DOMAIN chain, NEW s \in Nat,
           chain[k].state # "resolved", Resolve(k, s)
    PROVE  RequestInv'
<1>1. /\ DOMAIN chain' = DOMAIN chain
      /\ \A j \in DOMAIN chain : j # k => chain'[j] = chain[j]
      /\ chain'[k].state = "resolved" /\ chain'[k].slot = s
      /\ chain'[k].at = now /\ chain'[k].by = chain[k].by
  BY ResolveFields
<1>2. PICK r \in Requests : r = chain[k].by
  BY ChainSeq DEF Promises
<1> DEFINE q == [req[r] EXCEPT !.pc = "sent"]
<1>3. req' = [req EXCEPT ![r] = q]
  BY <1>2 DEF Resolve
<1>4. req[r] \in Request /\ req[r].pc = "queued" /\ Accounts(req[r])
  BY <1>2 DEF TypeOK, RequestInv, Linked
<1>5. q \in Request /\ Accounts(q)
  BY <1>4, RequestSteps, SentAccounts
<1> HIDE DEF q
<1>6. req'[r] = q /\ \A p \in Requests : p # r => req'[p] = req[p]
  BY <1>3, <1>5, UpdateReq
<1>7. \A p \in Requests : Accounts(req'[p])
  BY <1>5, <1>6 DEF RequestInv
<1>8. \A j \in DOMAIN chain : chain'[j].state # "resolved" =>
          /\ chain'[j] = chain[j] /\ chain[j].by # r /\ chain[j].by \in Requests
  BY <1>1, <1>2, ChainSeq DEF RequestInv, Linked, Promises
<1>9. Linked'
  BY <1>1, <1>6, <1>8 DEF RequestInv, Linked
<1> QED
  BY <1>7, <1>9 DEF RequestInv

LEMMA ScheduleRequests ==
    ASSUME TypeOK, RequestInv, NEW k \in DOMAIN chain, Schedule(k)
    PROVE  RequestInv'
<1>1. PICK s \in Nat :
             /\ s >= now /\ s >= nextAllowed /\ (s > now => s = nextAllowed)
             /\ nextAllowed' = s + Interval /\ now' = now
             /\ chain[k].state = "waiting" /\ PredecessorResolved(k)
             /\ DOMAIN chain' = DOMAIN chain
             /\ \A j \in DOMAIN chain : j # k => chain'[j] = chain[j]
             /\ chain'[k].slot = s /\ chain'[k].by = chain[k].by
             /\ \/ /\ s = now /\ Resolve(k, s)
                   /\ chain'[k].state = "resolved" /\ chain'[k].at = now
                \/ /\ s > now /\ req' = req
                   /\ chain'[k].state = "timed" /\ chain'[k].at = chain[k].at
  BY ScheduleFields
<1>2. CASE Resolve(k, s)
  BY <1>1, <1>2, ResolveRequests
<1>3. CASE req' = req /\ chain'[k].state = "timed"
  <2>1. \A j \in DOMAIN chain :
            /\ chain'[j].by = chain[j].by
            /\ chain'[j].state # "resolved" <=> chain[j].state # "resolved"
    BY <1>1, <1>3
  <2> QED
    BY <1>1, <1>3, <2>1 DEF RequestInv, Linked
<1> QED
  BY <1>1, <1>2, <1>3

\* A request that was not queued issues a call.
LEMMA EnqueueRequests ==
    ASSUME TypeOK, RequestInv, NEW r \in Requests, NEW q \in Request,
           req[r].pc # "queued", q.pc = "queued", Accounts(q),
           chain' = Enqueue(r), req' = [req EXCEPT ![r] = q]
    PROVE  RequestInv'
<1>1. /\ DOMAIN chain' = 1 .. Len(chain) + 1
      /\ \A k \in DOMAIN chain : chain'[k] = chain[k]
      /\ chain'[Len(chain) + 1] =
           [by |-> r, state |-> "waiting", slot |-> 0, at |-> 0]
  BY EnqueueSeq
<1>2. /\ DOMAIN chain = 1 .. Len(chain) /\ Len(chain) \in Nat
      /\ \A k \in DOMAIN chain : chain[k].by \in Requests
  BY ChainSeq DEF Promises
<1>3. req'[r] = q /\ \A p \in Requests : p # r => req'[p] = req[p]
  BY UpdateReq
<1>4. \A p \in Requests : Accounts(req'[p])
  BY <1>3 DEF RequestInv
<1>5. \A k \in DOMAIN chain : chain[k].state # "resolved" => chain[k].by # r
  BY DEF RequestInv, Linked
<1>6. /\ chain'[Len(chain) + 1].by = r
      /\ \A k \in DOMAIN chain' : k \in DOMAIN chain \/ k = Len(chain) + 1
  BY <1>1, <1>2
<1>7. \A k \in DOMAIN chain' : chain'[k].state # "resolved" =>
          req'[chain'[k].by].pc = "queued"
  BY <1>1, <1>2, <1>3, <1>5, <1>6 DEF RequestInv, Linked
<1>8. \A j, k \in DOMAIN chain' :
          /\ chain'[j].state # "resolved" /\ chain'[k].state # "resolved"
          /\ chain'[j].by = chain'[k].by
          => j = k
  BY <1>1, <1>5, <1>6 DEF RequestInv, Linked
<1> QED
  BY <1>4, <1>7, <1>8 DEF RequestInv, Linked

\* A request moves on without issuing a call.
LEMMA MoveRequests ==
    ASSUME TypeOK, RequestInv, NEW r \in Requests, NEW q \in Request,
           req[r].pc # "queued", Accounts(q),
           chain' = chain, req' = [req EXCEPT ![r] = q]
    PROVE  RequestInv'
<1>1. req'[r] = q /\ \A p \in Requests : p # r => req'[p] = req[p]
  BY UpdateReq
<1>2. \A p \in Requests : Accounts(req'[p])
  BY <1>1 DEF RequestInv
<1>3. \A k \in DOMAIN chain :
          /\ chain[k].by \in Requests
          /\ chain[k].state # "resolved" => chain[k].by # r
  BY ChainSeq DEF RequestInv, Linked, Promises
<1>4. Linked'
  BY <1>1, <1>3 DEF RequestInv, Linked
<1> QED
  BY <1>2, <1>4 DEF RequestInv

LEMMA FireRequests ==
    ASSUME TypeOK, RequestInv, NEW k \in DOMAIN chain, Fire(k)
    PROVE  RequestInv'
<1>1. chain[k].slot \in Nat
  BY ChainSeq DEF Promises
<1>2. chain[k].state # "resolved" /\ Resolve(k, chain[k].slot)
  BY DEF Fire
<1> QED
  BY <1>1, <1>2, ResolveRequests

LEMMA BeginRequests ==
    ASSUME TypeOK, RequestInv, NEW r \in Requests, NEW kind \in Kinds,
           NEW n \in 1 .. MaxItems, Begin(r, kind, n)
    PROVE  RequestInv'
<1> DEFINE q == [req[r] EXCEPT !.pc = "queued", !.kind = kind, !.size = n, !.left = n]
<1>1. /\ req[r].pc = "idle" /\ chain' = Enqueue(r)
      /\ req' = [req EXCEPT ![r] = q]
  BY DEF Begin
<1>2. req[r] \in Request /\ Accounts(req[r])
  BY DEF TypeOK, RequestInv
<1>3. q \in Request /\ q.pc = "queued" /\ Accounts(q)
  <2>1. q \in Request
    BY <1>2, RequestSteps
  <2>2. Accounts(q)
    BY <1>1, <1>2, BeginAccounts
  <2>3. q.pc = "queued"
    BY <1>2 DEF Request
  <2> QED
    BY <2>1, <2>2, <2>3
<1>4. req[r].pc # "queued"
  BY <1>1
<1> HIDE DEF q
<1> QED
  BY <1>1, <1>3, <1>4, EnqueueRequests

\* The call of a request returns, or throws.
LEMMA ReturnRequests ==
    ASSUME TypeOK, RequestInv, NEW r \in Requests, req[r].pc = "sent",
           NEW ok \in BOOLEAN, NEW applied \in Nat, Return(r, ok, applied),
           Truthful(req[r].kind, [ok |-> ok, applied |-> applied])
    PROVE  RequestInv'
<1> DEFINE reports == Append(req[r].reports, [ok |-> ok, applied |-> applied])
           ended == [req[r] EXCEPT !.pc = "done", !.applied = 0, !.reports = reports]
           next == [req[r] EXCEPT !.pc = "queued", !.left = req[r].left - 1,
                                  !.attempt = 0, !.applied = 0, !.reports = reports]
<1>1. \/ ~GoesOn(req[r], ok) /\ chain' = chain /\ req' = [req EXCEPT ![r] = ended]
      \/ /\ GoesOn(req[r], ok)
         /\ chain' = Enqueue(r) /\ req' = [req EXCEPT ![r] = next]
  BY DEF Return
<1>2. req[r] \in Request /\ Accounts(req[r]) /\ req[r].left \in Nat \ {0}
  BY DEF TypeOK, RequestInv, Request
<1>3. [ok |-> ok, applied |-> applied] \in Report
  BY DEF Report
<1>4. /\ reports \in Seq(Report)
      /\ Len(reports) = Len(req[r].reports) + 1
      /\ \A i \in DOMAIN reports : Truthful(req[r].kind, reports[i])
  BY <1>2, <1>3, ReportAdded
<1> HIDE DEF reports
<1>5. /\ (req[r].kind = "batch" => req[r].left = 1) => Accounts(ended)
      /\ req[r].left > 1 => Accounts(next)
  BY <1>2, <1>4, ReturnAccounts
<1>6. ended \in Request /\ (req[r].left > 1 => next \in Request)
  BY <1>2, <1>4, RequestSteps
<1>7. next.pc = "queued"
  BY <1>2 DEF Request
<1> HIDE DEF ended, next
<1>8. CASE ~GoesOn(req[r], ok) /\ chain' = chain /\ req' = [req EXCEPT ![r] = ended]
  <2>1. req[r].kind = "batch" => req[r].left = 1
    BY <1>2, <1>8 DEF GoesOn
  <2> QED
    BY <1>5, <1>6, <1>8, <2>1, MoveRequests
<1>9. CASE /\ GoesOn(req[r], ok)
           /\ chain' = Enqueue(r) /\ req' = [req EXCEPT ![r] = next]
  <2>1. req[r].left > 1
    BY <1>9 DEF GoesOn
  <2> QED
    BY <1>5, <1>6, <1>7, <1>9, <2>1, EnqueueRequests
<1> QED
  BY <1>1, <1>8, <1>9

LEMMA AnswerRequests ==
    ASSUME TypeOK, RequestInv, NEW r \in Requests, NEW result \in Results,
           Answer(r, result)
    PROVE  RequestInv'
<1>1. PICK n \in MayApply(req[r].kind, result) :
             \/ /\ ShouldRetry(req[r].kind, result)
                /\ req[r].attempt < Retries
                /\ chain' = chain
                /\ \E d \in Nat :
                      req' = [req EXCEPT ![r] =
                                [req[r] EXCEPT !.pc = "backoff", !.wake = now + d,
                                               !.attempt = req[r].attempt + 1,
                                               !.applied = req[r].applied + n]]
             \/ Return(r, Succeeds(req[r].kind, result), req[r].applied + n)
  BY AnswerEffect
<1>2. req[r].pc = "sent"
  BY DEF Answer
<1>3. /\ req[r] \in Request /\ Accounts(req[r])
      /\ req[r].applied = 0 /\ req[r].kind \in Kinds
  BY DEF TypeOK, RequestInv, Request, Accounts
<1>4. n \in {0, 1}
  BY MayApplyNat
<1>5. CASE Return(r, Succeeds(req[r].kind, result), req[r].applied + n)
  <2>1. req[r].applied + n = n /\ n \in Nat
    BY <1>3, <1>4
  <2>2. Succeeds(req[r].kind, result) \in BOOLEAN
    BY DEF Succeeds
  <2>3. Truthful(req[r].kind, [ok |-> Succeeds(req[r].kind, result), applied |-> n])
    BY <1>3, AnswerTruthful
  <2>4. Return(r, Succeeds(req[r].kind, result), n)
    BY <1>5, <2>1
  <2> QED
    BY <1>2, <2>1, <2>2, <2>3, <2>4, ReturnRequests
<1>6. CASE /\ ShouldRetry(req[r].kind, result)
           /\ req[r].attempt < Retries
           /\ chain' = chain
           /\ \E d \in Nat :
                 req' = [req EXCEPT ![r] =
                           [req[r] EXCEPT !.pc = "backoff", !.wake = now + d,
                                          !.attempt = req[r].attempt + 1,
                                          !.applied = req[r].applied + n]]
  <2>1. n = 0
    BY <1>3, <1>6, RetryNotApplied
  <2>2. PICK d \in Nat :
          req' = [req EXCEPT ![r] = [req[r] EXCEPT !.pc = "backoff", !.wake = now + d,
                                        !.attempt = req[r].attempt + 1,
                                        !.applied = req[r].applied + n]]
    BY <1>6
  <2> DEFINE q == [req[r] EXCEPT !.pc = "backoff", !.wake = now + d,
                                 !.attempt = req[r].attempt + 1,
                                 !.applied = req[r].applied + 0]
  <2>3. now + d \in Nat
    BY DEF TypeOK
  <2>4. q \in Request /\ Accounts(q)
    <3>1. PICK t \in Nat : t = now + d
      BY <2>3
    <3>2. PICK p \in Request : p = req[r]
      BY <1>3
    <3>3. Accounts(p) /\ p.pc = "sent" /\ p.attempt < Retries
      BY <1>2, <1>3, <1>6, <3>2
    <3>4. [p EXCEPT !.pc = "backoff", !.wake = t, !.attempt = p.attempt + 1,
                    !.applied = p.applied + 0] \in Request
      BY <3>3, RequestSteps
    <3>5. Accounts([p EXCEPT !.pc = "backoff", !.wake = t, !.attempt = p.attempt + 1,
                             !.applied = p.applied + 0])
      BY <3>3, RetryAccounts
    <3> QED
      BY <3>1, <3>2, <3>4, <3>5
  <2> HIDE DEF q
  <2>5. req' = [req EXCEPT ![r] = q]
    BY <2>1, <2>2 DEF q
  <2> QED
    BY <1>2, <1>6, <2>4, <2>5, MoveRequests
<1> QED
  BY <1>1, <1>5, <1>6

LEMMA ResendRequests ==
    ASSUME TypeOK, RequestInv, NEW r \in Requests, Resend(r)
    PROVE  RequestInv'
<1> DEFINE q == [req[r] EXCEPT !.pc = "sent"]
<1>1. /\ req[r].pc = "backoff" /\ chain' = chain
      /\ req' = [req EXCEPT ![r] = q]
  BY DEF Resend
<1>2. req[r] \in Request /\ Accounts(req[r])
  BY DEF TypeOK, RequestInv
<1>3. q \in Request /\ Accounts(q)
  BY <1>1, <1>2, RequestSteps, SentAccounts
<1> HIDE DEF q
<1> QED
  BY <1>1, <1>3, MoveRequests

LEMMA NextRequests == TypeOK /\ RequestInv /\ [Next]_vars => RequestInv'
<1> SUFFICES ASSUME TypeOK, RequestInv, [Next]_vars PROVE RequestInv'
  OBVIOUS
<1>1. ASSUME chain' = chain, req' = req
      PROVE  RequestInv'
  BY <1>1 DEF RequestInv, Linked
<1>2. CASE Tick
  BY <1>1, <1>2 DEF Tick
<1>3. CASE UNCHANGED vars
  BY <1>1, <1>3 DEF vars
<1> QED
  BY <1>2, <1>3, Steps, ScheduleRequests, FireRequests, BeginRequests,
     AnswerRequests, ResendRequests

LEMMA InitRequests == Init => RequestInv
  BY DEF Init, RequestInv, Linked, Accounts

\* The invariant of the requests and of their promises.
THEOREM RequestInvariant == Spec => [](TypeOK /\ RequestInv)
  BY TypeCorrect, InitRequests, NextRequests, PTL DEF Spec

\* No write is applied twice, whatever is answered and however often it is retried.
THEOREM WritesAppliedOnce == Spec => []AppliedAtMostOnce
<1>1. RequestInv => AppliedAtMostOnce
  BY DEF RequestInv, Accounts, Truthful, AppliedAtMostOnce
<1> QED
  BY <1>1, RequestInvariant, PTL

\* Batches report on every item, and truthfully.
THEOREM BatchesAccount == Spec => []BatchAccountsForAll
<1>1. RequestInv => BatchAccountsForAll
  BY DEF RequestInv, Accounts, Truthful, BatchAccountsForAll
<1> QED
  BY <1>1, RequestInvariant, PTL

\* The queue keeps the rate, holds no call back beyond it, and is well typed.
THEOREM QueueSound == Spec => []CallsSound
<1>1. TypeOK /\ CallsSpaced /\ NotHeldLonger => CallsSound
  BY DEF CallsSound
<1> QED BY <1>1, TypeCorrect, CallsAreSpaced, HeldNoLonger, PTL

\* What is reported of writes is true, whatever failed and was retried.
THEOREM OutcomesReported == Spec => []OutcomesTrue
<1>1. AppliedAtMostOnce /\ BatchAccountsForAll => OutcomesTrue
  BY DEF OutcomesTrue
<1> QED BY <1>1, WritesAppliedOnce, BatchesAccount, PTL
=============================================================================
