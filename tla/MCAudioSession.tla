--------------------------- MODULE MCAudioSession ---------------------------
(* Instances of AudioSession for TLC.                                      *)
EXTENDS AudioSession

CONSTANTS c1, c2

Calls == {c1, c2}

Never == [e \in Event |-> 0]

(* One or two calls that CallKit may activate late, or never; every other  *)
(* hand on the session, with everything that can fail; and an engine that  *)
(* is stopped under it.                                                    *)
Answered    == [Never EXCEPT !["answer"] = 2, !["media"] = 3, !["activate"] = 1,
                             !["host"] = 1]
Interrupted == [Never EXCEPT !["answer"] = 1, !["media"] = 1, !["activate"] = 1,
                             !["interrupt"] = 1, !["host"] = 1, !["denied"] = 1]
Reset       == [Never EXCEPT !["answer"] = 1, !["media"] = 1, !["activate"] = 1,
                             !["deactivate"] = 1, !["reset"] = 1, !["denied"] = 1]
Restarted   == [Never EXCEPT !["answer"] = 2, !["media"] = 1, !["activate"] = 1,
                             !["deactivate"] = 1, !["stop"] = 1, !["noDevice"] = 1]
Everything == {Answered, Interrupted, Reset, Restarted}

(* One refuted claim each.                                                 *)
Crossed == {[Never EXCEPT !["answer"] = 1, !["activate"] = 1, !["interrupt"] = 1]}
Unasked == {[Never EXCEPT !["answer"] = 1, !["interrupt"] = 1]}
=============================================================================
