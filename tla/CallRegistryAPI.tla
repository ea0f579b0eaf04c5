-------------------------- MODULE CallRegistryAPI --------------------------
(***************************************************************************)
(* The registry as a shared object.  Its callers are the main queue, the   *)
(* client's SIP queue and PJSIP's worker threads; the lock makes each call *)
(* atomic and nothing orders two of them, so a step is any method with any *)
(* argument, or the passing of time.                                       *)
(***************************************************************************)
EXTENDS CallRegistry

CONSTANTS
  Window,      \* answerTimeout: how long a cancellation is honoured
  MaxNow       \* bound on the clock

ASSUME APIAssumption == Window \in Nat /\ MaxNow \in Nat

VARIABLES
  reg,         \* the registry
  now,         \* [NSDate date]
  refused,     \* the call the last take handed out, NoUUID for none
  cancelledOn  \* history: when the current record of a UUID was first cancelled

vars == <<reg, now, refused, cancelledOn>>

Init ==
  /\ reg = EmptyRegistry
  /\ now = 1
  /\ refused = NoUUID
  /\ cancelledOn = [u \in UUID |-> 0]

(* Time moves between two calls, never during one.                         *)
Tick ==
  /\ now < MaxNow
  /\ now' = now + 1
  /\ refused' = NoUUID
  /\ UNCHANGED <<reg, cancelledOn>>

Step(next) ==
  /\ reg' = next
  /\ refused' = NoUUID
  /\ UNCHANGED now

registerCallWithUUID(u) ==
  /\ Step(Register(reg, u, now))
  /\ cancelledOn' = IF u \in reg.tracked THEN cancelledOn
                    ELSE [cancelledOn EXCEPT ![u] = 0]

bindCallId(i, u) ==
  /\ Step(Bind(reg, i, u, now))
  /\ cancelledOn' = IF u \in reg.tracked THEN cancelledOn
                    ELSE [cancelledOn EXCEPT ![u] = 0]

removeCallWithUUID(u) == Step(RemoveUUID(reg, u)) /\ UNCHANGED cancelledOn

removeCallWithCallId(i) == Step(RemoveCallId(reg, i)) /\ UNCHANGED cancelledOn

removeAllCalls == Step(RemoveAll(reg)) /\ UNCHANGED cancelledOn

markCallCancelledBeforeInvite(u) ==
  /\ Step(MarkCancelled(reg, u, now))
  /\ cancelledOn' =
       IF IdOf(reg, u) = InvalidId /\ u \in reg.tracked /\ cancelledOn[u] = 0
       THEN [cancelledOn EXCEPT ![u] = now] ELSE cancelledOn

takeCallCancelledBeforeInvite ==
  /\ LET candidates == CallToRefuse(reg, now, Window)
     IN  \/ /\ candidates = {}
            /\ refused' = NoUUID
            /\ reg' = TakeCancelled(reg, now, Window, {})
         \/ \E u \in candidates :
              /\ refused' = u
              /\ reg' = TakeCancelled(reg, now, Window, {u})
  /\ UNCHANGED <<now, cancelledOn>>

(* The callers set the state of a call they looked up.                     *)
publishState(u, s) ==
  /\ u \in reg.tracked
  /\ Step(SetState(reg, u, s))
  /\ UNCHANGED cancelledOn

Next ==
  \/ Tick
  \/ removeAllCalls
  \/ takeCallCancelledBeforeInvite
  \/ \E u \in UUID :
       \/ registerCallWithUUID(u)
       \/ removeCallWithUUID(u)
       \/ markCallCancelledBeforeInvite(u)
       \/ \E i \in CallId : bindCallId(i, u)
       \/ \E s \in CallState : publishState(u, s)
  \/ \E i \in CallId : removeCallWithCallId(i)

Spec == Init /\ [][Next]_vars
-----------------------------------------------------------------------------
(* Every variable has its type; the clock and the history stay in step.    *)
TypeOK ==
  /\ reg \in Registries
  /\ now \in Nat
  /\ refused \in UUID \cup {NoUUID}
  /\ cancelledOn \in [UUID -> Nat]

(* Whatever is registered, bound, recycled or removed, in whatever order,  *)
(* the two directions of the index agree (CallWaveCallRegistry.m:133-183). *)
IndexConsistent == TwoWayIndex(reg)

(* A cancellation is honoured for answerTimeout counted from the first     *)
(* time the record was cancelled, however often it is cancelled again:     *)
(* what take hands out was cancelled at most Window ago.                   *)
RefusedInTime ==
  refused # NoUUID =>
    /\ cancelledOn[refused] # 0
    /\ now - cancelledOn[refused] <= Window
=============================================================================
