---------------------------- MODULE CallLifecycle ----------------------------
(***************************************************************************)
(* The life of incoming calls with CallKit owned by the host               *)
(* (CallWaveClient.m).  Four kinds of thread meet here:                    *)
(*                                                                         *)
(*  - the main queue, a FIFO of blocks, each run to the end; pushes,       *)
(*    retractions and the host's own calls reach the main thread by other  *)
(*    routes and run between any two blocks (dispatchMain is inline then); *)
(*  - sipQueue, the client's serial queue for PJSUA calls, which also runs *)
(*    the callbacks those calls make before they return;                   *)
(*  - PJSIP's worker thread: INVITEs, ACKs, CANCELs and BYEs of the peer;  *)
(*  - dispatch_after timers, which put their block on the main queue.      *)
(*                                                                         *)
(* A block carries what it captured when it was dispatched - a UUID, a     *)
(* call id - and reads everything else when it runs.                       *)
(***************************************************************************)
EXTENDS CallStateMachine, Sequences, FiniteSets, Bags

CONSTANTS
  Announced,     \* UUIDs a VoIP push may carry
  Invented,      \* UUIDs [NSUUID UUID] returns for an INVITE nobody announced
  Window,        \* answerTimeout, the life of a cancellation
  Setups         \* the configurations and the surroundings to look at

ASSUME LifecycleAssumption ==
  /\ UUID = Announced \cup Invented
  /\ Announced \cap Invented = {}
  /\ Window \in Nat
  /\ \A s \in Setups :
       /\ s.slots \subseteq CallId       \* the call slots of PJSUA, maxCalls of them
       /\ s.ringTimeout \in BOOLEAN      \* incomingCallTimeout > 0
       /\ s.sipFailures \in BOOLEAN      \* PJSUA may refuse to send a response or a BYE
       /\ s.budget \in                   \* how often each kind of outside event happens
            [{"push", "again", "retract", "invite", "accept", "end", "pause", "reset", "stop"} -> Nat]

VARIABLES
  setup,       \* the one of Setups this behaviour lives in
  sm,          \* registry, currentCallUUID and callState
  now,         \* advances with every registration and every pause
  mainQ,       \* blocks on the main queue
  sipQ,        \* blocks on sipQueue
  delayed,     \* bag of blocks dispatch_after still holds
  dialog,      \* what PJSUA has in every call slot
  left,        \* what is left of the budget
  accepted,    \* history: INVITEs that were bound to a call the user answered
  rejectedAt,  \* history: when a call was rejected ahead of its INVITE
  ends,        \* history: didEndCallWithUUID reports
  seen,        \* history: announced calls whose INVITE has come
  stray        \* history: an INVITE was refused for a call that had had its own

bounds == <<setup, left>>
vars == <<bounds, sm, now, mainQ, sipQ, delayed, dialog,
          accepted, rejectedAt, ends, seen, stray>>
inviteHistory == <<seen, stray>>
history == <<accepted, rejectedAt, ends, inviteHistory>>

MaximumCalls == Cardinality(setup.slots)

Op == {"invite", "confirmed", "disconnected", "connecting", "ended",
       "ringTimeout", "poll", "settled", "acceptFailed",
       "answerAction", "endAction", "cancelReported"}
SIPOp == {"answer", "end", "endThenClear"}

(* stop() in its two halves on sipQueue, and what it leaves to the main    *)
(* thread, which waits for it when it is the one that called.              *)
StopBlock == [op : {"stop", "destroy"}, calls : SUBSET UUID, onMain : BOOLEAN]
StoppedBlock == [op : {"stopped"}, calls : SUBSET UUID]

Block == [op : {"invite"}, uuid : {NoUUID}, id : CallId]
           \cup [op : {"settled"}, uuid : UUID, id : CallId]
           \cup [op : Op \ {"invite", "settled"}, uuid : UUID, id : {InvalidId}]
SIPBlock == [op : SIPOp, uuid : UUID, id : CallId]

Run(op, u, i) == [op |-> op, uuid |-> u, id |-> i]

(* early: 180 sent.  connecting: 200 sent, ACK not seen.  closing: hung up *)
(* by pjsua_call_hangup, the BYE still in flight and the slot not free.    *)
DialogState == {"free", "early", "connecting", "confirmed", "closing"}
Dialog == [state : DialogState, nth : Nat, intended : UUID \cup {NoUUID}]
NoDialog == [state |-> "free", nth |-> 0, intended |-> NoUUID]

Answered(i) == dialog[i].state \in {"connecting", "confirmed"}

Init ==
  /\ setup \in Setups
  /\ sm = Idle
  /\ now = 1
  /\ mainQ = <<>>
  /\ sipQ = <<>>
  /\ delayed = EmptyBag
  /\ dialog = [i \in CallId |-> NoDialog]
  /\ left = setup.budget
  /\ accepted = {}
  /\ rejectedAt = [u \in UUID |-> 0]
  /\ ends = [u \in UUID |-> 0]
  /\ seen = {}
  /\ stray = FALSE
-----------------------------------------------------------------------------
(* Shared steps.                                                           *)

Spend(kind) ==
  /\ left[kind] > 0
  /\ left' = [left EXCEPT ![kind] = @ - 1]
  /\ UNCHANGED setup

Known(u) == sm.reg.call[u].createdAt # 0

Schedule(b) == delayed' = delayed (+) SetToBag({b})

(* Mutant of ScheduleRingTimeout: only announced calls get a timer.        *)
ScheduleIfAnnounced(u) ==
  IF setup.ringTimeout /\ u \in Announced THEN Schedule(Run("ringTimeout", u, InvalidId))
  ELSE UNCHANGED delayed

ScheduleRingTimeout(u) ==
  IF setup.ringTimeout THEN Schedule(Run("ringTimeout", u, InvalidId))
  ELSE UNCHANGED delayed

(* Registering takes the date; two registrations never take the same one.  *)
Registered(u) == [sm EXCEPT !.reg = Register(@, u, now)]
AdvanceClock(next) ==
  now' = IF next.reg.tracked \subseteq sm.reg.tracked THEN now ELSE now + 1

PerformSIPAsync(op, u, i) == sipQ' = Append(sipQ, Run(op, u, i))

ReportCallEnded(u) == ends' = [ends EXCEPT ![u] = @ + 1]

Stopping == {k \in DOMAIN sipQ : sipQ[k].op \in {"stop", "destroy"}}
MainThreadFree == \A k \in Stopping : ~sipQ[k].onMain

Settle(s) == sm' = s /\ AdvanceClock(s)
-----------------------------------------------------------------------------
(* What runs on the main thread.                                           *)

(* Mutant of Orphans: an INVITE the user is already answering is no orphan. *)
OrphansStillRinging(r, u) ==
  {v \in Live(r) \ {u} : /\ r.call[v].callId # InvalidId /\ ~r.call[v].reported
                        /\ r.call[v].state = "incoming"}

(* orphanedSIPCallExcludingUUID: an INVITE that came before its push.      *)
Orphans(r, u) ==
  {v \in Live(r) \ {u} : r.call[v].callId # InvalidId /\ ~r.call[v].reported}

(* Mutant of PrepareIncoming: a call rejected before its INVITE goes on.   *)
PrepareRejected(s, u, t) ==
  LET known   == [s EXCEPT !.reg = SetReported(Register(@, u, t), u)]
      orphans == IF known.reg.call[u].callId # InvalidId THEN {}
                 ELSE Orphans(known.reg, u)
      next(r) == PublishState(AdoptCurrentCall([known EXCEPT !.reg = r], u), u, "incoming")
  IN  IF orphans = {} THEN {next(known.reg)}
      ELSE {next(RemoveUUID(Bind(known.reg, known.reg.call[v].callId, u, t), v)) :
              v \in orphans}

(* The state after prepareIncomingCallWithUUID has taken u on, one for     *)
(* every orphan it may adopt; empty when it returns early.                 *)
PrepareIncoming(s, u, t) ==
  LET known   == [s EXCEPT !.reg = Register(@, u, t)]
      call    == known.reg.call[u]
      taken   == SetReported(known.reg, u)
      orphans == IF call.callId # InvalidId THEN {} ELSE Orphans(taken, u)
      next(r) == PublishState(AdoptCurrentCall([known EXCEPT !.reg = r], u), u, "incoming")
  IN  IF call.cancelledAt # 0 \/ (call.reported /\ call.state = "incoming") THEN {}
      ELSE IF orphans = {} THEN {next(taken)}
      ELSE {next(RemoveUUID(Bind(taken, taken.call[v].callId, u, t), v)) : v \in orphans}

prepareIncomingCall(u) ==
  /\ Spend(IF Known(u) THEN "again" ELSE "push")
  /\ LET prepared == PrepareIncoming(sm, u, now)
     IN  \/ prepared = {} /\ UNCHANGED <<sm, now, delayed>>
         \/ \E s \in prepared : Settle(s) /\ ScheduleRingTimeout(u)
  /\ UNCHANGED <<mainQ, sipQ, dialog, history>>

(* handleCancelledIncomingCallWithUUID: also for a call never announced,   *)
(* which is registered only to be remembered as cancelled.                 *)
RetractCall(s, u, t) ==
  LET known  == [s EXCEPT !.reg = Register(@, u, t)]
      marked == [known EXCEPT !.reg = MarkCancelled(@, u, t)]
  IN  IF known.reg.call[u].callId = InvalidId
      THEN DetachIfCurrent(PublishState(marked, u, "ended"), u)
      ELSE ClearCall(PublishState(known, u, "ended"), u)

HandleCancelled(u) ==
  IF u \in sm.reg.tracked /\ sm.reg.call[u].state = "ended"
  THEN UNCHANGED <<sm, now, sipQ, ends, rejectedAt>>
  ELSE LET id == IdOf(sm.reg, u)
       IN  /\ Settle(RetractCall(sm, u, now))
           /\ IF id = InvalidId THEN UNCHANGED sipQ
              ELSE PerformSIPAsync("end", u, id)
           /\ rejectedAt' = IF id = InvalidId /\ rejectedAt[u] = 0
                            THEN [rejectedAt EXCEPT ![u] = now] ELSE rejectedAt
           /\ ReportCallEnded(u)

handleCancelledIncomingCall(u) ==
  /\ Spend("retract")
  /\ HandleCancelled(u)
  /\ UNCHANGED <<mainQ, delayed, dialog, accepted, inviteHistory>>

(* terminateCallWithUUID, whether it ends or declines.                     *)
terminateCall(arg) ==
  LET call   == ResolveCall(sm, arg)
      target == IF call # NoUUID THEN call ELSE arg
      id     == IdOf(sm.reg, call)
      marked == [sm EXCEPT !.reg = MarkCancelled(@, target, now)]
  IN  /\ Spend("end")
      /\ target # NoUUID /\ Known(target)
      /\ IF id # InvalidId
         THEN PerformSIPAsync("endThenClear", target, id) /\ UNCHANGED <<sm, rejectedAt>>
         ELSE /\ sm' = IF marked # sm
                       THEN DetachIfCurrent(PublishState(marked, target, "ended"), target)
                       ELSE ClearCall(sm, target)
              /\ rejectedAt' = IF marked # sm /\ rejectedAt[target] = 0
                               THEN [rejectedAt EXCEPT ![target] = now] ELSE rejectedAt
              /\ UNCHANGED sipQ
      /\ UNCHANGED <<now, mainQ, delayed, dialog, accepted, ends, inviteHistory>>

(* attemptAcceptForUUID: poll until the INVITE is bound, then leave the    *)
(* settle delay before answering the id seen here.                         *)
AttemptAccept(u) ==
  LET id == IdOf(sm.reg, u)
  IN  /\ Schedule(IF id = InvalidId THEN Run("poll", u, InvalidId)
                  ELSE Run("settled", u, id))
      /\ accepted' = IF id = InvalidId \/ dialog[id].state = "free" THEN accepted
                     ELSE accepted \cup {dialog[id].nth}

acceptCall(arg) ==
  LET call   == ResolveCall(sm, arg)
      target == IF call # NoUUID THEN call ELSE arg
  IN  /\ Spend("accept")
      /\ target # NoUUID /\ Known(target)
      /\ AttemptAccept(target)
      /\ UNCHANGED <<sm, now, mainQ, sipQ, dialog, rejectedAt, ends, inviteHistory>>
-----------------------------------------------------------------------------
(* Blocks of the main queue.                                               *)

Fresh == {u \in Invented : ~Known(u)}      \* what [NSUUID UUID] may return

HeadIs(op) == mainQ # <<>> /\ Head(mainQ).op = op
Done == mainQ' = Tail(mainQ)

(* The call an INVITE is bound to: the one that has waited longest, or a   *)
(* new one under an invented UUID.                                         *)
BindInvite(s, i, u, t) ==
  PublishState(AdoptCurrentCall([s EXCEPT !.reg = Bind(@, i, u, t)], u), u, "incoming")

handleIncomingSIPCall ==
  /\ HeadIs("invite") /\ Done
  /\ LET id      == Head(mainQ).id
         waiting == CallAwaitingInvite(sm.reg)
     IN  \/ \E u \in waiting : Settle(BindInvite(sm, id, u, now)) /\ UNCHANGED delayed
         \/ /\ waiting = {} /\ Fresh # {}
            /\ LET u == CHOOSE v \in Fresh : TRUE
               IN  Settle(BindInvite(sm, id, u, now)) /\ ScheduleRingTimeout(u)
  /\ UNCHANGED <<sipQ, dialog, bounds, history>>

callConfirmed ==
  /\ HeadIs("confirmed") /\ Done
  /\ sm' = PublishState(sm, Head(mainQ).uuid, "active")
  /\ UNCHANGED <<now, sipQ, delayed, dialog, bounds, history>>

EndAndClear(s, u) == ClearCall(PublishState(s, u, "ended"), u)

callDisconnected ==
  /\ HeadIs("disconnected") /\ Done
  /\ sm' = EndAndClear(sm, Head(mainQ).uuid)
  /\ ReportCallEnded(Head(mainQ).uuid)
  /\ UNCHANGED <<now, sipQ, delayed, dialog, bounds, accepted, rejectedAt, inviteHistory>>

callConnecting ==
  /\ HeadIs("connecting") /\ Done
  /\ sm' = PublishState(sm, Head(mainQ).uuid, "connecting")
  /\ UNCHANGED <<now, sipQ, delayed, dialog, bounds, history>>

(* The second half of terminateCallWithUUID, whatever PJSUA answered.      *)
callTerminated ==
  /\ HeadIs("ended") /\ Done
  /\ sm' = EndAndClear(sm, Head(mainQ).uuid)
  /\ UNCHANGED <<now, sipQ, delayed, dialog, bounds, history>>

incomingCallTimeout ==
  /\ HeadIs("ringTimeout") /\ Done
  /\ LET u  == Head(mainQ).uuid
         id == IdOf(sm.reg, u)
     IN  IF ~StillRinging(sm.reg, u) THEN UNCHANGED <<sm, sipQ, ends>>
         ELSE /\ IF id = InvalidId THEN UNCHANGED sipQ
                 ELSE PerformSIPAsync("end", u, id)
              /\ ReportCallEnded(u)
              /\ sm' = EndAndClear(sm, u)
  /\ UNCHANGED <<now, delayed, dialog, bounds, accepted, rejectedAt, inviteHistory>>

attemptAccept ==
  /\ HeadIs("poll") /\ Done
  /\ AttemptAccept(Head(mainQ).uuid)
  /\ UNCHANGED <<sm, now, sipQ, dialog, bounds, rejectedAt, ends, inviteHistory>>

(* The deadline is only looked at while there is still no INVITE; giving   *)
(* up, like every failure, goes to the completion on the main queue.       *)
acceptTimedOut ==
  /\ HeadIs("poll")
  /\ LET u == Head(mainQ).uuid
     IN  /\ IdOf(sm.reg, u) = InvalidId
         /\ mainQ' = Append(Tail(mainQ), Run("acceptFailed", u, InvalidId))
  /\ UNCHANGED <<sm, now, sipQ, delayed, dialog, bounds, history>>

answerCall ==
  /\ HeadIs("settled") /\ Done
  /\ PerformSIPAsync("answer", Head(mainQ).uuid, Head(mainQ).id)
  /\ UNCHANGED <<sm, now, delayed, dialog, bounds, history>>

(* The host's completion: nothing of the client's state is its to change.  *)
acceptFailed ==
  /\ HeadIs("acceptFailed") /\ Done
  /\ UNCHANGED <<sm, now, sipQ, delayed, dialog, bounds, history>>

(* Mutant of ReportStopped: the host and CallKit are told nothing.         *)
ResetSilently(calls) == sm' = ResetToIdle(sm) /\ UNCHANGED ends

(* The end of stop(): the calls that were taken from the registry are      *)
(* reported, whatever has been registered since, and the projection goes.  *)
ReportStopped(calls) ==
  /\ sm' = ResetToIdle(sm)
  /\ ends' = [u \in UUID |-> ends[u] + (IF u \in calls THEN 1 ELSE 0)]

stopped ==
  /\ HeadIs("stopped") /\ Done
  /\ ReportStopped(Head(mainQ).calls)
  /\ UNCHANGED <<now, sipQ, delayed, dialog, bounds, accepted, rejectedAt, inviteHistory>>

Fires(b) ==
  /\ BagIn(b, delayed)
  /\ delayed' = delayed (-) SetToBag({b})
  /\ mainQ' = Append(mainQ, b)
  /\ UNCHANGED <<sm, now, sipQ, dialog, bounds, history>>
-----------------------------------------------------------------------------
(* PJSUA and its callbacks.                                                *)

(* Mutant of WithDisconnected: an unknown id is reported all the same.     *)
WithDisconnectedUnchecked(q, i) ==
  Append(q, Run("disconnected", CallForCallId(sm.reg, i), InvalidId))

(* handleSIPCallDisconnected looks the call up on the thread of the        *)
(* callback, then goes to the main queue - unless nobody holds the id.     *)
WithDisconnected(q, i) ==
  LET u == CallForCallId(sm.reg, i)
  IN  IF u = NoUUID THEN q ELSE Append(q, Run("disconnected", u, InvalidId))

(* Mutant of EndSIPCall: a call that still rings gets no final response.   *)
EndAnsweredOnly(i, then) ==
  IF Answered(i)
  THEN /\ dialog' = [dialog EXCEPT ![i].state = "closing"]
       /\ mainQ' = WithDisconnected(mainQ, i) \o then
  ELSE UNCHANGED dialog /\ mainQ' = mainQ \o then

(* The final response of an early dialog frees its slot before the call    *)
(* returns; a hangup keeps it until the BYE is done.                       *)
EndSIPCall(i, then) ==
  \/ /\ dialog[i].state \in {"free", "closing"}
     /\ UNCHANGED dialog
     /\ mainQ' = mainQ \o then
  \/ /\ dialog[i].state = "early"
     /\ dialog' = [dialog EXCEPT ![i] = NoDialog]
     /\ mainQ' = WithDisconnected(mainQ, i) \o then
  \/ /\ Answered(i)
     /\ dialog' = [dialog EXCEPT ![i].state = "closing"]
     /\ mainQ' = WithDisconnected(mainQ, i) \o then
  \/ /\ setup.sipFailures
     /\ dialog[i].state \in {"early", "connecting", "confirmed"}
     /\ UNCHANGED dialog
     /\ mainQ' = mainQ \o then

NextSIP(op) == sipQ # <<>> /\ Head(sipQ).op = op /\ sipQ' = Tail(sipQ)

sipEnd ==
  /\ NextSIP("end")
  /\ EndSIPCall(Head(sipQ).id, <<>>)
  /\ UNCHANGED <<sm, now, delayed, bounds, history>>

sipEndThenClear ==
  /\ NextSIP("endThenClear")
  /\ EndSIPCall(Head(sipQ).id, <<Run("ended", Head(sipQ).uuid, InvalidId)>>)
  /\ UNCHANGED <<sm, now, delayed, bounds, history>>

(* isCallAnswerable, answerSIPCall and what follows on the main queue.     *)
sipAnswer ==
  /\ NextSIP("answer")
  /\ LET u == Head(sipQ).uuid
         i == Head(sipQ).id
         connecting == Append(mainQ, Run("connecting", u, InvalidId))
         failed == Append(mainQ, Run("acceptFailed", u, InvalidId))
     IN  \/ /\ dialog[i].state \in {"free", "closing"}
            /\ mainQ' = failed
            /\ UNCHANGED dialog
         \/ /\ Answered(i)
            /\ mainQ' = connecting
            /\ UNCHANGED dialog
         \/ /\ dialog[i].state = "early"
            /\ dialog' = [dialog EXCEPT ![i].state = "connecting"]
            /\ mainQ' = connecting
         \/ /\ setup.sipFailures
            /\ dialog[i].state = "early"
            /\ mainQ' = failed
            /\ UNCHANGED dialog
  /\ UNCHANGED <<sm, now, delayed, bounds, history>>

(* stop(), from the main thread or from another.  The engine that is gone  *)
(* comes back with the next wakeRegistration; until then there is no       *)
(* INVITE, so a model that always has an engine loses nothing.             *)
stop(onMain) ==
  /\ Spend("stop")
  /\ onMain => MainThreadFree
  /\ sipQ' = Append(sipQ, [op |-> "stop", calls |-> {}, onMain |-> onMain])
  /\ UNCHANGED <<sm, now, mainQ, delayed, dialog, history>>

(* removeAllCalls.  A record nobody finds any more keeps its state, so the *)
(* ones to report are known here.                                          *)
sipStop ==
  /\ sipQ # <<>> /\ Head(sipQ).op = "stop"
  /\ sipQ' = <<[Head(sipQ) EXCEPT !.op = "destroy", !.calls = Live(sm.reg)]>> \o Tail(sipQ)
  /\ sm' = [sm EXCEPT !.reg = RemoveAll(@)]
  /\ UNCHANGED <<now, mainQ, delayed, dialog, bounds, history>>

(* The destruction takes the dialogs one by one, those of INVITEs that     *)
(* came after the registry was emptied too; their callbacks still run.     *)
sipHangUp(i) ==
  /\ sipQ # <<>> /\ Head(sipQ).op = "destroy"
  /\ dialog[i].state # "free"
  /\ dialog' = [dialog EXCEPT ![i] = NoDialog]
  /\ mainQ' = IF dialog[i].state = "closing" THEN mainQ ELSE WithDisconnected(mainQ, i)
  /\ UNCHANGED <<sm, now, sipQ, delayed, bounds, history>>

sipDestroy ==
  /\ NextSIP("destroy")
  /\ \A i \in CallId : dialog[i].state = "free"
  /\ IF Head(sipQ).onMain
     THEN ReportStopped(Head(sipQ).calls) /\ UNCHANGED mainQ
     ELSE /\ mainQ' = Append(mainQ, [op |-> "stopped", calls |-> Head(sipQ).calls])
          /\ UNCHANGED <<sm, ends>>
  /\ UNCHANGED <<now, delayed, dialog, bounds, accepted, rejectedAt, inviteHistory>>

(* canAcceptAnotherIncomingCall                                            *)
CanAcceptAnother(r) == AwaitingInvite(r) # {} \/ Cardinality(Live(r)) < MaximumCalls

(* onIncomingCall: 603 for a remembered rejection, 486 when there is no    *)
(* room, or 180 and off to the main queue.  PJSUA itself turns an INVITE   *)
(* away when no slot is free.  The two refusals free the slot at once.     *)
onIncomingCall(i, u) ==
  /\ Spend("invite")
  /\ i \in setup.slots /\ dialog[i].state = "free"
  /\ \/ \E c \in CallToRefuse(sm.reg, now, Window) :
          /\ sm' = [sm EXCEPT !.reg = TakeCancelled(@, now, Window, {c})]
          /\ stray' = (stray \/ (c # u /\ c \in seen))
          /\ mainQ' = WithDisconnected(mainQ, i)
          /\ UNCHANGED dialog
     \/ /\ CallToRefuse(sm.reg, now, Window) = {}
        /\ LET reg == TakeCancelled(sm.reg, now, Window, {})
           IN  /\ sm' = [sm EXCEPT !.reg = reg]
               /\ IF CanAcceptAnother(reg)
                  THEN /\ dialog' = [dialog EXCEPT ![i] =
                             [state |-> "early", nth |-> left["invite"], intended |-> u]]
                       /\ mainQ' = Append(mainQ, Run("invite", NoUUID, i))
                  ELSE UNCHANGED dialog /\ mainQ' = WithDisconnected(mainQ, i)
        /\ UNCHANGED stray
  /\ seen' = IF u = NoUUID THEN seen ELSE seen \cup {u}
  /\ UNCHANGED <<now, sipQ, delayed, accepted, rejectedAt, ends>>

(* The peer's ACK: handleSIPCallConfirmed.                                 *)
onCallConfirmed(i) ==
  /\ dialog[i].state = "connecting"
  /\ dialog' = [dialog EXCEPT ![i].state = "confirmed"]
  /\ LET u == CallForCallId(sm.reg, i)
     IN  mainQ' = IF u = NoUUID THEN mainQ ELSE Append(mainQ, Run("confirmed", u, InvalidId))
  /\ UNCHANGED <<sm, now, sipQ, delayed, bounds, history>>

(* The peer cancels or hangs up, or its ACK never comes.                   *)
onCallDisconnected(i) ==
  /\ dialog[i].state \in {"early", "connecting", "confirmed"}
  /\ dialog' = [dialog EXCEPT ![i] = NoDialog]
  /\ mainQ' = WithDisconnected(mainQ, i)
  /\ UNCHANGED <<sm, now, sipQ, delayed, bounds, history>>

(* The BYE of a hung-up call is done; PJSUA has said all it will say.      *)
slotFreed(i) ==
  /\ dialog[i].state = "closing"
  /\ dialog' = [dialog EXCEPT ![i] = NoDialog]
  /\ UNCHANGED <<sm, now, mainQ, sipQ, delayed, bounds, history>>

(* A quiet spell longer than a cancellation lives.                         *)
Pause ==
  /\ Spend("pause")
  /\ now' = now + Window + 1
  /\ UNCHANGED <<sm, mainQ, sipQ, delayed, dialog, history>>

MainQueue ==
  /\ MainThreadFree
  /\ \/ handleIncomingSIPCall \/ callConfirmed \/ callDisconnected \/ callConnecting
     \/ callTerminated \/ incomingCallTimeout \/ attemptAccept \/ acceptTimedOut
     \/ answerCall \/ acceptFailed \/ stopped

StopOnQueue == sipStop \/ sipDestroy \/ \E i \in CallId : sipHangUp(i)

SIPQueue == sipEnd \/ sipEndThenClear \/ sipAnswer \/ StopOnQueue

Host ==
  /\ MainThreadFree
  /\ \/ \E u \in Announced : prepareIncomingCall(u) \/ handleCancelledIncomingCall(u)
     \/ \E u \in UUID \cup {NoUUID} : terminateCall(u) \/ acceptCall(u)

Peer ==
  \E i \in CallId :
    \/ onCallConfirmed(i) \/ onCallDisconnected(i) \/ slotFreed(i)
    \/ \E u \in Announced \cup {NoUUID} : onIncomingCall(i, u)

Next ==
  \/ MainQueue
  \/ SIPQueue
  \/ Host
  \/ \E onMain \in BOOLEAN : stop(onMain)
  \/ Peer
  \/ \E b \in BagToSet(delayed) : Fires(b)
  \/ Pause

Spec == Init /\ [][Next]_vars

(* Queues drain and timers go off.  Nothing is asked of the host, of the   *)
(* server or of the peer.                                                  *)
RingTimers == {Run("ringTimeout", u, InvalidId) : u \in UUID}

Fairness ==
  /\ WF_vars(MainQueue)
  /\ WF_vars(SIPQueue)
  /\ \A b \in RingTimers : WF_vars(Fires(b))

FairSpec == Spec /\ Fairness
-----------------------------------------------------------------------------
(* Every variable has its type.                                            *)
TypeOK ==
  /\ setup \in Setups
  /\ sm \in StateMachines
  /\ now \in Nat
  /\ mainQ \in Seq(Block \cup StoppedBlock)
  /\ sipQ \in Seq(SIPBlock \cup StopBlock)
  /\ IsABag(delayed) /\ BagToSet(delayed) \subseteq Block
  /\ dialog \in [CallId -> Dialog]
  /\ left \in [DOMAIN setup.budget -> Nat]
  /\ accepted \subseteq Nat
  /\ rejectedAt \in [UUID -> Nat] /\ ends \in [UUID -> Nat]
  /\ seen \subseteq UUID /\ stray \in BOOLEAN

(* A call rejected ahead of its INVITE never gets one: neither the push,   *)
(* nor the adoption of an orphan, nor the main-queue half of an INVITE     *)
(* binds a slot to it (CallWaveClient.m:2854, 3204).                       *)
CancelledHoldsNoSlot ==
  \A u \in UUID : Cancelled(sm.reg, u) => sm.reg.call[u].callId = InvalidId

(* Once both queues are empty every dialog that rings or is up belongs to  *)
(* a call the host can end: removing a record never strands its dialog.    *)
(* With one slot this is a theorem (CallLifecycleProofs). With two it is   *)
(* checked for two INVITEs, and false for three (MCCallLifecycle,          *)
(* ThreeOnTwo): a disconnection names the call that has the slot when it   *)
(* arrives (CallWaveClient.m:3253) and clears it in a later block, when    *)
(* the call may have another slot.                                         *)
NoStrandedDialog ==
  mainQ = <<>> /\ sipQ = <<>> /\ ~setup.sipFailures =>
    \A i \in CallId :
      dialog[i].state \in {"early", "connecting", "confirmed"} =>
        sm.reg.byCallId[i] # NoUUID

(* An INVITE does not ring once its call was rejected, for as long as the  *)
(* rejection lives and no other call waits for an INVITE: neither a push   *)
(* nor anything that happens to the call in between forgets it.  This is   *)
(* for a host that rejects once and stops nothing - stop() empties the     *)
(* registry (CallWaveClient.m:1559), rejections and all;                   *)
(* RejectionIsRemembered is for any host - and for the first INVITE: an    *)
(* INVITE does not name the call it is for, so one of another caller uses  *)
(* a rejection up.                                                         *)
RingsThoughRejected(i) ==
  LET u == dialog'[i].intended
  IN  /\ dialog[i].state = "free" /\ dialog'[i].state = "early"
      /\ u # NoUUID /\ rejectedAt[u] # 0
      /\ now - rejectedAt[u] <= Window /\ AwaitingInvite(sm.reg) = {}

Rejections == setup.budget.end - left.end + setup.budget.retract - left.retract

OneRejectionIsRemembered ==
  [][Rejections <= 1 /\ left.stop = setup.budget.stop =>
       \A i \in CallId : RingsThoughRejected(i) => dialog'[i].nth < setup.budget.invite]_vars

(* A push and the INVITE of its call find each other, whichever is first   *)
(* (CallWaveClient.m:2868-2876, 3204-3215) and whatever the host has done  *)
(* with the call in between: no step leaves a call that waits for an       *)
(* INVITE beside a call that was made up for one and that no push has      *)
(* announced.  The exception is a call whose slot PJSUA has used again     *)
(* before its end was noticed: a disconnection looked up before the block  *)
(* that binds the id is lost (3253), and the next INVITE takes the id away *)
(* from a call that goes on waiting.                                       *)
Unannounced(r) == {v \in Live(r) : ~r.call[v].reported /\ r.call[v].cancelledAt = 0}

Missed(r) == AwaitingInvite(r) # {} /\ Unannounced(r) # {}

LosesSlot(u) ==
  \E i \in CallId : sm.reg.byCallId[i] = u /\ sm'.reg.byCallId[i] \notin {u, NoUUID}

PushMeetsInvite ==
  [][Missed(sm'.reg) =>
       Missed(sm.reg) \/ \E u \in AwaitingInvite(sm'.reg) : LosesSlot(u)]_vars

(* With a ring timeout, every INVITE gets its answer as long as PJSUA does *)
(* send: none is left ringing at the peer, whatever the host, the server   *)
(* and the peer fail to do.                                                *)
Rings(n) == \E i \in CallId : dialog[i].nth = n /\ dialog[i].state = "early"

EveryInviteSettles ==
  \A n \in UNION {1 .. s.budget["invite"] : s \in Setups} :
    (Rings(n) /\ setup.ringTimeout /\ ~setup.sipFailures) ~> ~Rings(n)

(* With a ring timeout no call rings at the host for ever, though PJSUA    *)
(* may refuse to send the answer that ends it.                             *)
NoEndlessRinging ==
  \A u \in UUID :
    (StillRinging(sm.reg, u) /\ setup.ringTimeout) ~> ~StillRinging(sm.reg, u)
-----------------------------------------------------------------------------
(* Claims of the documents and the comments that the code does not keep.   *)

(* "didEndCallWithUUID:reason: fires once" (FIELD-TESTING.md:242)          *)
EndReportedOnce == \A u \in UUID : ends[u] <= 1

(* A cancellation "cannot outlive the call it belongs to and reject a      *)
(* later, unrelated one" (CallWaveClient.m:2814-2815).                     *)
NoStrayRefusal == ~stray

(* A rejection ahead of the INVITE "is remembered instead and applied to   *)
(* the INVITE when it lands" (CallWaveClient.m:2261-2264), however often   *)
(* the host repeats it.                                                    *)
RejectionIsRemembered == [][\A i \in CallId : ~RingsThoughRejected(i)]_vars

(* A retraction "is idempotent when the call is already gone"              *)
(* (CallWaveClient.h:323): it neither registers the call nor reports it.   *)
RetractionIsIdempotent ==
  [][\A u \in Announced :
       ends'[u] # ends[u] /\ Known(u) /\ left'.retract # left.retract
         => u \in sm.reg.tracked]_vars

(* callState is the "state of the most recent call" (CallWaveClient.h:87): *)
(* with no call left and no block to run it does not claim one is up.      *)
StateIsOfSomeCall ==
  mainQ = <<>> /\ sipQ = <<>> /\ sm.reg.tracked = {} => sm.state \in {"idle", "ended"}

(* The same "state of the most recent call": idle is for no call at all.   *)
IdleWithoutCall ==
  mainQ = <<>> /\ sipQ = <<>> /\ sm.state = "idle" => Live(sm.reg) = {}

(* With the timeout off a call rings "for as long as the PBX keeps it      *)
(* alive" (CallWaveClient.h:123): once its dialog is gone it stops.        *)
GhostStopsRinging ==
  \A u \in UUID :
    LET id == IdOf(sm.reg, u)
    IN  (StillRinging(sm.reg, u) /\ id # InvalidId /\ dialog[id].state = "free")
          ~> ~StillRinging(sm.reg, u)

(* "no second call state incoming with a different UUID" after a decline   *)
(* (FIELD-TESTING.md:186)                                                  *)
NoSecondIncoming ==
  \A i \in CallId :
    LET u == sm.reg.byCallId[i]
    IN  u \in Invented /\ sm.reg.call[u].state = "incoming" =>
          dialog[i].intended = NoUUID \/ rejectedAt[dialog[i].intended] = 0

(* A duplicate push does not "re-publish incoming, restart the ring        *)
(* timeout" (CallWaveClient.m:2858-2861).                                  *)
AnsweredNeverRingsAgain ==
  [][\A u \in sm.reg.tracked \cap sm'.reg.tracked :
       sm.reg.call[u].state \in {"connecting", "active"} =>
         sm'.reg.call[u].state # "incoming"]_vars

(* "When the intercom cancels the call during the pause, the answer is     *)
(* skipped" (README.md): only an INVITE the user accepted is answered.     *)
AnsweredOnlyIfAccepted ==
  \A i \in CallId : Answered(i) => dialog[i].nth \in accepted
=============================================================================
