-------------------------- MODULE CallStateMachine --------------------------
(***************************************************************************)
(* The client's projection of the registry: which call currentCallUUID     *)
(* names and what callState says (CallWaveCallStateMachine.m).  A value is *)
(* [reg, current, state]; the mutators run on the main queue only.  The    *)
(* caller's name and the mute flag travel with current and are left out.   *)
(***************************************************************************)
EXTENDS CallRegistry

AggregateState == CallState \cup {"idle"}

StateMachines == [reg     : Registries,
                  current : UUID \cup {NoUUID},
                  state   : AggregateState]

Idle == [reg |-> EmptyRegistry, current |-> NoUUID, state |-> "idle"]

(* callState moves even when the call is gone; the projection only follows *)
(* a call that is current, or any tracked one when there is none.          *)
PublishState(s, u, st) ==
  LET known == u \in s.reg.tracked
  IN  [reg     |-> IF known THEN SetState(s.reg, u, st) ELSE s.reg,
       current |-> IF known /\ s.current = NoUUID THEN u ELSE s.current,
       state   |-> st]

AdoptCurrentCall(s, u) == [s EXCEPT !.current = u]

Newest(r) == IF Live(r) = {} THEN NoUUID ELSE CHOOSE u \in MostRecentCall(r) : TRUE

(* Mutant of DetachIfCurrent: the record goes with the projection.         *)
DetachForgets(s, u) ==
  LET reg == RemoveUUID(s.reg, u)
  IN  IF s.current = u THEN [s EXCEPT !.reg = reg, !.current = Newest(reg)]
      ELSE [s EXCEPT !.reg = reg]

DetachIfCurrent(s, u) ==
  IF s.current = u THEN [s EXCEPT !.current = Newest(s.reg)] ELSE s

ClearCall(s, u) == DetachIfCurrent([s EXCEPT !.reg = RemoveUUID(@, u)], u)

ResetToIdle(s) == [s EXCEPT !.current = NoUUID, !.state = "idle"]

(* A nil UUID means the current call, or failing that the newest.          *)
ResolveCall(s, u) ==
  IF u # NoUUID THEN (IF u \in s.reg.tracked THEN u ELSE NoUUID)
  ELSE IF s.current \in s.reg.tracked THEN s.current
  ELSE Newest(s.reg)
=============================================================================
