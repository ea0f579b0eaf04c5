-------------------------- MODULE MCCallLifecycle --------------------------
(* Instances of CallLifecycle for TLC: one announced call, INVITEs that    *)
(* bring at most two more, one or two slots.                               *)
EXTENDS CallLifecycle

CONSTANTS a1, x1, x2, c1, c2

OneCall == {a1}
OneInvented == {x1}
TwoInvented == {x1, x2}
MCUUID == Announced \cup Invented
MCCallId == {c1, c2}

Quiet == [push |-> 1, again |-> 0, retract |-> 0, invite |-> 1,
          accept |-> 0, end |-> 0, pause |-> 0, reset |-> 0, stop |-> 0]
With(slots, timeout, failures, budget) ==
  [slots |-> slots, ringTimeout |-> timeout, sipFailures |-> failures, budget |-> budget]
Plain(budget) == With({c1}, FALSE, FALSE, budget)

(* One slot that is taken over by a second INVITE; two slots; a rejection  *)
(* that has time to expire.                                                *)
Shared   == Plain([Quiet EXCEPT !["again"] = 1, !["retract"] = 1, !["invite"] = 2,
                                !["accept"] = 1, !["end"] = 1])
TwoSlots == With({c1, c2}, FALSE, FALSE,
                 [Quiet EXCEPT !["invite"] = 2, !["accept"] = 1, !["end"] = 1])
Declined == With({c1}, TRUE, FALSE,
                 [Quiet EXCEPT !["again"] = 1, !["accept"] = 1, !["end"] = 1, !["pause"] = 1])
Stopped  == Plain([Quiet EXCEPT !["again"] = 1, !["invite"] = 2, !["accept"] = 1,
                                !["stop"] = 1])
Safety == {Shared, TwoSlots, Declined, Stopped}

(* The timer against everybody else; and with a PJSUA that fails to send.  *)
Timed   == With({c1}, TRUE, FALSE,
                [Quiet EXCEPT !["retract"] = 1, !["accept"] = 1, !["end"] = 1])
Failing == With({c1}, TRUE, TRUE,
                [Quiet EXCEPT !["accept"] = 1, !["end"] = 1])
StopTimed == With({c1}, TRUE, FALSE, [Quiet EXCEPT !["accept"] = 1, !["stop"] = 1])
Timers == {Timed, Failing, StopTimed}

(* One refuted claim each.                                                 *)
Endings(n)   == {Plain([Quiet EXCEPT !["end"] = n])}
OneEnding    == Endings(1)
TwoEndings   == Endings(2)
Nobody       == Endings(0)
Retracted(n) == {Plain([Quiet EXCEPT !["retract"] = 1, !["invite"] = n])}
OneInvite    == Retracted(1)
TwoInvites   == Retracted(2)
StoppedOnce  == {Plain([Quiet EXCEPT !["invite"] = 0, !["stop"] = 1])}
DeclinedStop == {Plain([Quiet EXCEPT !["end"] = 1, !["stop"] = 1])}
ThreeOnTwo   == {With({c1, c2}, FALSE, FALSE, [Quiet EXCEPT !["push"] = 0, !["invite"] = 3])}
Slowly       == {Plain([Quiet EXCEPT !["retract"] = 1, !["accept"] = 1])}
Again        == {Plain([Quiet EXCEPT !["again"] = 1, !["accept"] = 1])}
TakenOver    == {Plain([Quiet EXCEPT !["invite"] = 2, !["accept"] = 1])}
=============================================================================
