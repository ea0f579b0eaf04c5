----------------------------- MODULE ManagedCalls -----------------------------
(***************************************************************************)
(* The life of incoming calls when the client owns the CXProvider          *)
(* (managesCallKit).  The SIP side, the registry and most blocks are those *)
(* of CallLifecycle; what differs is everything CallKit takes part in: a   *)
(* call is announced by reporting it, CallKit answers later on a queue of  *)
(* its own, and the user's taps come back as actions on the main queue.    *)
(***************************************************************************)
EXTENDS CallLifecycle, SequencesExt

CONSTANT MayRefuse    \* CallKit may refuse a new call (Do Not Disturb, ...)

ASSUME ManagedAssumption == MayRefuse \in BOOLEAN

VARIABLES
  reports,   \* what the provider was told and CallKit has not processed, in order
  screens    \* the calls CallKit shows

mvars == <<vars, reports, screens>>
callKit == <<reports, screens>>

(* What the completion of reportNewIncomingCall is for; "ended" stands for *)
(* reportCall(endedAt:) and for a fulfilled end action.                    *)
Reason == {"incoming", "duplicate", "cancelled", "ended"}
Tell(u, for) == reports' = Append(reports, [uuid |-> u, for |-> for])

MInit == Init /\ reports = <<>> /\ screens = {}

(* reportCallEnded tells the provider as well as the delegate.             *)
TellEnded ==
  LET ended == SetToSeq({u \in UUID : ends'[u] # ends[u]})
  IN  reports' = reports \o [k \in DOMAIN ended |-> [uuid |-> ended[k], for |-> "ended"]]
-----------------------------------------------------------------------------
(* reportIncomingCallWithUUID:caller:forCallId:.  A call rejected before   *)
(* its INVITE is not announced, a call already reported not again.         *)
ReportIncoming(u, id) ==
  LET known   == Registered(u)
      call    == known.reg.call[u]
      bound   == [known EXCEPT !.reg = Bind(@, id, u, now)]
      adopted == AdoptCurrentCall(bound, u)
      shown   == [adopted EXCEPT !.reg = SetReported(@, u)]
  IN  IF call.cancelledAt # 0
      THEN /\ UNCHANGED <<sm, now, reports>>
           /\ IF id = InvalidId THEN UNCHANGED sipQ ELSE PerformSIPAsync("end", u, id)
      ELSE /\ UNCHANGED sipQ
           /\ IF call.reported
              THEN Settle(adopted) /\ UNCHANGED reports
              ELSE /\ Settle(PublishState(shown, u, "incoming"))
                   /\ Tell(u, "incoming")

reportIncomingCall(u) ==
  /\ Spend(IF Known(u) THEN "again" ELSE "push")
  /\ ReportIncoming(u, InvalidId)
  /\ UNCHANGED <<mainQ, delayed, dialog, history, screens>>

(* handleVoIPPushPayload: even a stale or duplicate push must reach        *)
(* CallKit, and a cancellation is applied only after it has.               *)
handleVoIPPush(u) ==
  /\ Spend(IF Known(u) THEN "again" ELSE "push")
  /\ IF Cancelled(sm.reg, u)
     THEN Tell(u, "cancelled") /\ UNCHANGED <<sm, now, sipQ>>
     ELSE IF u \in sm.reg.tracked /\ sm.reg.call[u].reported
     THEN Tell(u, "duplicate") /\ UNCHANGED <<sm, now, sipQ>>
     ELSE ReportIncoming(u, InvalidId)
  /\ UNCHANGED <<mainQ, delayed, dialog, history, screens>>

handleCancellationPush(u) ==
  /\ Spend("retract")
  /\ Tell(u, "cancelled")
  /\ UNCHANGED <<sm, now, mainQ, sipQ, delayed, dialog, history, screens>>

(* An INVITE with no call waiting is announced under a new UUID.           *)
managedIncomingSIPCall ==
  /\ HeadIs("invite") /\ Done
  /\ LET id      == Head(mainQ).id
         waiting == CallAwaitingInvite(sm.reg)
     IN  \/ \E u \in waiting :
              Settle(BindInvite(sm, id, u, now)) /\ UNCHANGED <<sipQ, reports>>
         \/ /\ waiting = {} /\ Fresh # {}
            /\ ReportIncoming(CHOOSE v \in Fresh : TRUE, id)
  /\ UNCHANGED <<delayed, dialog, bounds, history, screens>>
-----------------------------------------------------------------------------
(* CallKit's answer to a report, with the client's completion block.       *)

(* The record goes, and its dialog; the projection is left as it was.      *)
CallRefused(u) ==
  LET id == sm.reg.call[u].callId
  IN  /\ sm' = PublishState([sm EXCEPT !.reg = RemoveUUID(@, u)], u, "ended")
      /\ IF id = InvalidId THEN UNCHANGED sipQ ELSE PerformSIPAsync("end", u, id)

Processes(for) == reports # <<>> /\ Head(reports).for \in for /\ reports' = Tail(reports)

(* CallKit processes what it is told in order.  A cancellation goes on     *)
(* with a block on the main queue, whatever CallKit said.                  *)
AfterReport(r) ==
  mainQ' = IF r.for = "cancelled"
           THEN Append(mainQ, Run("cancelReported", r.uuid, InvalidId)) ELSE mainQ

callKitAccepts ==
  /\ Processes(Reason \ {"ended"})
  /\ LET r == Head(reports)
     IN  /\ r.uuid \notin screens
         /\ screens' = screens \cup {r.uuid}
         /\ AfterReport(r)
         /\ IF r.for = "incoming" THEN ScheduleRingTimeout(r.uuid) ELSE UNCHANGED delayed
  /\ UNCHANGED <<sm, now, sipQ, dialog, bounds, history>>

callKitRefuses ==
  /\ Processes(Reason \ {"ended"})
  /\ LET r == Head(reports)
     IN  /\ r.uuid \in screens \/ MayRefuse
         /\ AfterReport(r)
         /\ IF r.for = "incoming" THEN CallRefused(r.uuid) ELSE UNCHANGED <<sm, sipQ>>
  /\ UNCHANGED <<now, delayed, dialog, bounds, history, screens>>

callKitDismisses ==
  /\ Processes({"ended"})
  /\ screens' = screens \ {Head(reports).uuid}
  /\ UNCHANGED vars

cancelReported ==
  /\ HeadIs("cancelReported") /\ Done
  /\ LET u == Head(mainQ).uuid
     IN  HandleCancelled(u) /\ Tell(u, "ended")
  /\ UNCHANGED <<delayed, dialog, bounds, accepted, inviteHistory, screens>>
-----------------------------------------------------------------------------
(* The user's taps.                                                        *)

Tap(op, kind) ==
  \E u \in screens :
    /\ Spend(kind)
    /\ mainQ' = Append(mainQ, Run(op, u, InvalidId))
    /\ UNCHANGED <<sm, now, sipQ, delayed, dialog, history, callKit>>

(* performAnswerCallAction: fulfilled before the call is even looked up.   *)
performAnswer ==
  /\ HeadIs("answerAction") /\ Done
  /\ AttemptAccept(Head(mainQ).uuid)
  /\ UNCHANGED <<sm, now, sipQ, dialog, bounds, rejectedAt, ends, inviteHistory, callKit>>

(* ... so a failure ends the call the user believes to be answered.        *)
answeringFailed ==
  /\ HeadIs("acceptFailed") /\ Done
  /\ sm' = EndAndClear(sm, Head(mainQ).uuid)
  /\ ReportCallEnded(Head(mainQ).uuid)
  /\ Tell(Head(mainQ).uuid, "ended")
  /\ UNCHANGED <<now, sipQ, delayed, dialog, bounds, accepted, rejectedAt, inviteHistory, screens>>

(* Mutant of performEnd: the record is left to the SIP callback to clear.  *)
performEndLeavesRecord ==
  /\ HeadIs("endAction") /\ Done
  /\ LET u  == Head(mainQ).uuid
         id == IdOf(sm.reg, u)
     IN  /\ IF id = InvalidId THEN UNCHANGED sipQ ELSE PerformSIPAsync("end", u, id)
         /\ Tell(u, "ended")
  /\ UNCHANGED <<sm, now, delayed, dialog, bounds, history, screens>>

performEnd ==
  /\ HeadIs("endAction") /\ Done
  /\ LET u  == Head(mainQ).uuid
         id == IdOf(sm.reg, u)
     IN  /\ sm' = EndAndClear(sm, u)
         /\ IF id = InvalidId THEN UNCHANGED sipQ ELSE PerformSIPAsync("end", u, id)
         /\ rejectedAt' = IF id = InvalidId /\ rejectedAt[u] = 0 /\ u \in sm.reg.tracked
                          THEN [rejectedAt EXCEPT ![u] = now] ELSE rejectedAt
         /\ Tell(u, "ended")
  /\ UNCHANGED <<now, delayed, dialog, bounds, accepted, ends, inviteHistory, screens>>

(* providerDidReset: CallKit has dropped every call.  One block on sipQueue *)
(* ends them all; here it is a run of blocks that nothing can come between. *)
providerDidReset ==
  /\ Spend("reset")
  /\ LET bound == {u \in sm.reg.tracked : sm.reg.call[u].callId # InvalidId}
         order == SetToSeq(bound)
     IN  sipQ' = sipQ \o [k \in DOMAIN order |->
                            Run("end", order[k], sm.reg.call[order[k]].callId)]
  /\ sm' = ResetToIdle([sm EXCEPT !.reg = RemoveAll(@)])
  /\ screens' = {}
  /\ UNCHANGED <<now, mainQ, delayed, dialog, history, reports>>
-----------------------------------------------------------------------------
ManagedMainQueue ==
  /\ MainThreadFree
  /\ \/ managedIncomingSIPCall
     \/ /\ callDisconnected \/ incomingCallTimeout \/ stopped
        /\ TellEnded
        /\ UNCHANGED screens
     \/ /\ callConfirmed \/ callConnecting \/ attemptAccept \/ acceptTimedOut \/ answerCall
        /\ UNCHANGED callKit
     \/ cancelReported \/ performAnswer \/ answeringFailed \/ performEnd

ManagedSIPQueue ==
  \/ (sipEnd \/ sipAnswer) /\ UNCHANGED callKit
  \/ StopOnQueue /\ TellEnded /\ UNCHANGED screens

CallKit == callKitAccepts \/ callKitRefuses \/ callKitDismisses

MNext ==
  \/ ManagedMainQueue
  \/ ManagedSIPQueue
  \/ CallKit
  \/ /\ MainThreadFree
     /\ \E u \in Announced :
          reportIncomingCall(u) \/ handleVoIPPush(u) \/ handleCancellationPush(u)
  \/ Tap("answerAction", "accept") \/ Tap("endAction", "end")
  \/ MainThreadFree /\ providerDidReset
  \/ (\E onMain \in BOOLEAN : stop(onMain)) /\ UNCHANGED callKit
  \/ (Peer \/ Pause \/ \E b \in BagToSet(delayed) : Fires(b)) /\ UNCHANGED callKit

MSpec == MInit /\ [][MNext]_mvars

(* CallKit answers every report, queues drain, timers go off and the       *)
(* deadline of a poll passes.                                              *)
Timers == RingTimers \cup {Run("poll", u, InvalidId) : u \in UUID}
            \cup {Run("settled", u, i) : u \in UUID, i \in CallId}

MFairSpec ==
  /\ MSpec
  /\ WF_mvars(ManagedMainQueue)
  /\ WF_mvars(ManagedSIPQueue)
  /\ WF_mvars(CallKit)
  /\ \A b \in Timers : WF_mvars(Fires(b) /\ UNCHANGED callKit)
  /\ SF_mvars(acceptTimedOut /\ UNCHANGED callKit)
-----------------------------------------------------------------------------
MTypeOK ==
  /\ TypeOK
  /\ reports \in Seq([uuid : UUID, for : Reason])
  /\ screens \subseteq UUID

(* A CallKit screen does not outlive its call: when the record is gone the *)
(* screen is dismissed in the end, whoever ended the call and whatever     *)
(* reports were on their way.  Not when a push is repeated (see            *)
(* DuplicateOpensNoScreen) or CallKit resets with a report on its way.     *)
ScreensFollowCalls ==
  \A u \in UUID :
    (/\ u \in screens /\ u \notin sm.reg.tracked
     /\ setup.budget.again = 0 /\ setup.budget.reset = 0) ~> (u \notin screens)

(* With both queues empty and no report pending a call that rings has its  *)
(* screen: the user can always answer or refuse it.  Not when a push is    *)
(* repeated around a stop(): the block stop() leaves to the main queue     *)
(* reports the end of the first announcement and with it ends the screen   *)
(* of the second (CallWaveClient.m:1592), so AllRingingIsShown is a claim  *)
(* the code does not keep.                                                 *)
AllRingingIsShown ==
  mainQ = <<>> /\ sipQ = <<>> /\ reports = <<>> =>
    \A u \in UUID : StillRinging(sm.reg, u) => u \in screens

RingingIsShown ==
  setup.budget.again = 0 \/ setup.budget.stop = 0 => AllRingingIsShown

(* "Reusing the UUID lets CallKit reject a duplicate without a second      *)
(* call" (CallWaveClient.m:3436-3437): the report of a duplicate push      *)
(* never opens a screen.                                                   *)
DuplicateOpensNoScreen ==
  [][reports # <<>> /\ Head(reports).for = "duplicate" /\ reports' = Tail(reports)
       => screens' \subseteq screens]_mvars

(* A cancellation push "is never reported to CallKit as an incoming call"  *)
(* (CallWaveClient.h:342).                                                 *)
CancellationOpensNoScreen ==
  [][reports # <<>> /\ Head(reports).for = "cancelled" /\ reports' = Tail(reports)
       => screens' \subseteq screens]_mvars

(* "There must be no second call state incoming with a different UUID"     *)
(* (FIELD-TESTING.md:186): the INVITE of a call rejected on its CallKit    *)
(* screen does not ring.                                                   *)
RejectedOnScreenStaysSilent ==
  \A i \in CallId :
    dialog[i].state = "early" /\ dialog[i].intended # NoUUID
      => rejectedAt[dialog[i].intended] = 0

(* currentCallUUID "should point at the most recently created call that    *)
(* has not ended" (CallWaveCallRegistry.h:59): never at a removed one.     *)
CurrentIsTracked == sm.current # NoUUID => sm.current \in sm.reg.tracked

(* Only "an unanswered incoming call" rings out (CallWaveClient.h:120):    *)
(* the timeout never ends a call whose INVITE the user has accepted.       *)
AcceptedDoesNotRingOut ==
  [][HeadIs("ringTimeout") /\ mainQ' = Tail(mainQ) /\ ends' # ends =>
       LET id == IdOf(sm.reg, Head(mainQ).uuid)
       IN  id # InvalidId => dialog[id].state = "free" \/ dialog[id].nth \notin accepted]_mvars
=============================================================================
