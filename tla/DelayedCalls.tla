---------------------------- MODULE DelayedCalls ----------------------------
(***************************************************************************)
(* The calls an object has delayed with reactor.callLater when, like the   *)
(* OpenOMCI state machines, it keeps only the one it scheduled last, in    *)
(* its attribute _deferred:                                                *)
(*                                                                         *)
(*     self._deferred = reactor.callLater(delay, trigger)                  *)
(*                                                                         *)
(* slot is the outstanding call _deferred refers to, which _cancel_deferred*)
(* can cancel; lost counts the outstanding calls whose reference has been  *)
(* overwritten: nothing can cancel them and they are made in the end.      *)
(***************************************************************************)
EXTENDS Naturals

DelayedCalls(Kinds) == [slot : Kinds \cup {"none"}, lost : [Kinds -> Nat]]

NoCalls(Kinds) == [slot |-> "none", lost |-> [k \in Kinds |-> 0]]

Outstanding(calls, k) == calls.slot = k \/ calls.lost[k] > 0

(* d, self._deferred = self._deferred, None; d.cancel()                    *)
CancelSlot(calls) == [calls EXCEPT !.slot = "none"]

(* self._deferred = reactor.callLater(delay, k)                            *)
CallLater(calls, k) ==
    [slot |-> k,
     lost |-> IF calls.slot = "none" THEN calls.lost ELSE [calls.lost EXCEPT ![calls.slot] = @ + 1]]

(* n such calls in a row: the reference to each but the last is lost.      *)
CallLaterRepeatedly(calls, k, n) ==
    IF n = 0 THEN calls ELSE [CallLater(calls, k) EXCEPT !.lost[k] = @ + (n - 1)]

(* What may remain when the reactor makes a call of kind k.                *)
AfterCall(calls, k) ==
    {rest \in {CancelSlot(calls)} : calls.slot = k}
    \cup {rest \in {[calls EXCEPT !.lost[k] = IF @ = 0 THEN 0 ELSE @ - 1]} : calls.lost[k] > 0}
=============================================================================
