--------------------------- MODULE MCCallControls ---------------------------
(* Instances of CallControls for TLC.                                      *)
EXTENDS CallControls

CONSTANTS c1, c2

Calls == {c1, c2}

Never == [e \in Event |-> 0]

With(calls, silent, terminates, budget) ==
  [calls |-> calls, silent |-> silent, terminates |-> terminates, budget |-> budget]
One(budget) == With({c1}, {}, FALSE, budget)
Two(budget) == With({c1, c2}, {}, FALSE, budget)

(* One call that is muted from two sides; two calls, one of them muted;    *)
(* one that is held, with holds that fail; a silent one that comes back    *)
(* and is held; a provider that resets.                                    *)
Muted     == One([Never EXCEPT !["arrive"] = 1, !["media"] = 2, !["mute"] = 2, !["thread"] = 1])
TwoAtOnce == Two([Never EXCEPT !["arrive"] = 2, !["mute"] = 1, !["media"] = 1])
Held      == One([Never EXCEPT !["arrive"] = 1, !["media"] = 1, !["hold"] = 3,
                               !["holdFails"] = 1])
Again     == With({c1}, {c1}, TRUE,
                  [Never EXCEPT !["arrive"] = 2, !["media"] = 2, !["hold"] = 1, !["reset"] = 1])
Reset     == One([Never EXCEPT !["arrive"] = 2, !["media"] = 1, !["mute"] = 1, !["end"] = 1,
                               !["reset"] = 1])
Everything == {Muted, TwoAtOnce, Held, Again, Reset}

(* One refuted claim each.                                                 *)
Refused  == {One([Never EXCEPT !["arrive"] = 1, !["media"] = 3, !["mute"] = 2])}
Restored == {With({c1}, {c1}, FALSE,
                 [Never EXCEPT !["arrive"] = 1, !["media"] = 1, !["reset"] = 1])}
=============================================================================
