---------------------------- MODULE MCManagedCalls ----------------------------
(* Instances of ManagedCalls for TLC: one announced call, one slot, an     *)
(* INVITE that may need a UUID of its own.                                 *)
EXTENDS ManagedCalls

CONSTANTS a1, x1, c1

OneCall == {a1}
OneInvented == {x1}
MCUUID == OneCall \cup OneInvented
MCCallId == {c1}

Quiet == [push |-> 1, again |-> 0, retract |-> 0, invite |-> 1,
          accept |-> 0, end |-> 0, pause |-> 0, reset |-> 0, stop |-> 0]
With(timeout, budget) ==
  [slots |-> MCCallId, ringTimeout |-> timeout, sipFailures |-> FALSE, budget |-> budget]

(* Pushes and retractions against a reset; the ring timeout                *)
(* against taps; the user answers and ends a call that is retracted.       *)
Pushed  == With(FALSE, [Quiet EXCEPT !["again"] = 1, !["retract"] = 1,
                                     !["reset"] = 1])
Timed   == With(TRUE, [Quiet EXCEPT !["accept"] = 1, !["end"] = 1])
Tapped  == With(FALSE, [Quiet EXCEPT !["retract"] = 1, !["accept"] = 1, !["end"] = 1])
StopTapped == With(FALSE, [Quiet EXCEPT !["accept"] = 1, !["end"] = 1, !["stop"] = 1])
Surroundings == {Pushed, Timed, Tapped, StopTapped}

(* One refuted claim each.                                                 *)
NoInvite   == [Quiet EXCEPT !["invite"] = 0]
Refused    == {With(FALSE, NoInvite)}
Duplicated == {With(FALSE, [NoInvite EXCEPT !["again"] = 1])}
Cancelling == {With(FALSE, [NoInvite EXCEPT !["retract"] = 1])}
Ended      == {With(FALSE, [Quiet EXCEPT !["end"] = 1])}
Retracted  == {With(FALSE, [Quiet EXCEPT !["retract"] = 1, !["accept"] = 1])}
StopAgain  == {With(FALSE, [NoInvite EXCEPT !["again"] = 1, !["stop"] = 1])}
Hurried    == {With(TRUE, [Quiet EXCEPT !["accept"] = 1])}
=============================================================================
