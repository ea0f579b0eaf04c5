------------------------- MODULE PushAcknowledgement -------------------------
(***************************************************************************)
(* What PushKit asks of the handling of one VoIP push: its completion      *)
(* handler runs once there is a reason to run it - CallKit has answered    *)
(* the report, or the deadline has passed - and it runs exactly once       *)
(* (CallWaveClient.m:3413-3417).                                           *)
(***************************************************************************)
CONSTANT Source      \* what may ask for the acknowledgement

VARIABLES due,       \* the sources that have asked
          by         \* the one that ran the handler

vars == <<due, by>>

Init == due = {} /\ by = {}

Ask(s) == due' = due \cup {s} /\ UNCHANGED by

Acknowledge(s) == s \in due /\ by = {} /\ by' = {s} /\ UNCHANGED due

Next == \E s \in Source : Ask(s) \/ Acknowledge(s)

Spec == Init /\ [][Next]_vars

FairSpec == Spec /\ WF_vars(\E s \in Source : Acknowledge(s))
=============================================================================
