------------------------------ MODULE MCPushGate ------------------------------
(* The deadline, CallKit's answer and a second block that acknowledges.    *)
EXTENDS PushCompletionGate
=============================================================================
