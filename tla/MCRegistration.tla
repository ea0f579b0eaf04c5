--------------------------- MODULE MCRegistration ---------------------------
(* Instances of Registration for TLC.                                      *)
EXTENDS Registration

CONSTANTS wifi, cellular

Networks == {wifi, cellular}

Never == [e \in Event |-> 0]

AtHome == {wifi}

(* Updates that fail or are overtaken; sessions that end in every way; a   *)
(* push and the foreground against an account that comes and goes; the     *)
(* monitor against stops.                                                  *)
Updates  == [Never EXCEPT !["update"] = 2, !["updateFails"] = 1, !["unregister"] = 1,
                          !["stop"] = 1, !["refused"] = 1, !["wake"] = 1]
Sessions == [Never EXCEPT !["update"] = 2, !["unregister"] = 1, !["logout"] = 1,
                          !["stop"] = 1, !["refused"] = 1, !["renewal"] = 1]
Wakes    == [Never EXCEPT !["update"] = 1, !["engineFails"] = 1, !["wake"] = 1,
                          !["stop"] = 1, !["foreground"] = 1, !["wait"] = 1]
Moves    == [Never EXCEPT !["update"] = 2, !["stop"] = 1, !["move"] = 3]
Everything == {Updates, Sessions, Wakes, Moves}

(* One refuted claim each.                                                 *)
Stopped    == {[Never EXCEPT !["update"] = 1, !["stop"] = 1]}
Moved      == {[Never EXCEPT !["update"] = 1, !["move"] = 1]}
NotStarted == {[Never EXCEPT !["engineFails"] = 1]}
Waited     == {[Never EXCEPT !["update"] = 1, !["wait"] = 1]}
Woken      == {[Never EXCEPT !["update"] = 1, !["unregister"] = 1, !["wake"] = 1]}
=============================================================================
