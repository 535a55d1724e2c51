---------------------------- MODULE CallSpacing ----------------------------
(***************************************************************************)
(* What the outbound rate limiter promises its callers, whatever its means: *)
(* calls are sent in the order in which they were issued, and each occupies *)
(* a slot of its own, Interval after the slot of the call before.  A call   *)
(* is never sent before its slot, but may be sent later than it.            *)
(***************************************************************************)
EXTENDS Integers, Sequences

CONSTANTS Callers,   \* who issues calls
          Interval   \* distance of the slots, in ticks

\* What an implementation has to give.
IntervalOK == Interval \in Nat

VARIABLES now,    \* the time
          calls   \* all calls ever issued, in order

vars == <<now, calls>>

Call == [by : Callers, sent : BOOLEAN, slot : Nat, at : Nat]

Init == now = 0 /\ calls = <<>>

Issue(c) ==
    /\ calls' = Append(calls, [by |-> c, sent |-> FALSE, slot |-> 0, at |-> 0])
    /\ UNCHANGED now

\* The least unsent call is sent, in a slot that begins neither before the
\* last call was sent nor within Interval of that call's slot.
Send(k) ==
    /\ ~calls[k].sent
    /\ \E s \in 0 .. now :
          /\ k > 1 => /\ calls[k - 1].sent
                      /\ s >= calls[k - 1].at
                      /\ s >= calls[k - 1].slot + Interval
          /\ calls' = [calls EXCEPT ![k] = [@ EXCEPT !.sent = TRUE, !.slot = s, !.at = now]]
    /\ UNCHANGED now

Tick == now' = now + 1 /\ UNCHANGED calls

Next ==
    \/ \E c \in Callers : Issue(c)
    \/ \E k \in DOMAIN calls : Send(k)
    \/ Tick

Spec == Init /\ [][Next]_vars

-----------------------------------------------------------------------------
(* Calls are sent in order, and n + 2 calls in a row span at least n         *)
(* intervals.  Two neighbours may be closer than one interval: the timer of   *)
(* the first may have been late.  (enforceRateLimit)                          *)
Spacing ==
    \A i, j \in DOMAIN calls :
        i < j /\ calls[j].sent =>
            /\ calls[i].sent
            /\ calls[j].at >= calls[i].at + (j - i - 1) * Interval

-----------------------------------------------------------------------------
(* Spacing is not inductive: it says nothing of the slots, which alone        *)
(* decide when the next call may be sent.                                     *)

TypeOK == now \in Nat /\ calls \in Seq(Call)

InOrder == \A i, j \in DOMAIN calls : i < j /\ calls[j].sent => calls[i].sent

NotEarly ==
    \A k \in DOMAIN calls : calls[k].sent => calls[k].slot <= calls[k].at

SlotsSpaced ==
    \A i, j \in DOMAIN calls :
        i < j /\ calls[j].sent =>
            calls[j].slot >= calls[i].at + (j - i - 1) * Interval

IInv == TypeOK /\ InOrder /\ NotEarly /\ SlotsSpaced
=============================================================================
