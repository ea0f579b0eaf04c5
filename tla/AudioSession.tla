---------------------------- MODULE AudioSession ----------------------------
(***************************************************************************)
(* The audio session, the sound device and the calls it plays              *)
(* (CallWaveAudioSessionCoordinator.m, and CallWaveClient.m as its         *)
(* delegate).                                                              *)
(*                                                                         *)
(* Every handler of the coordinator writes audioSessionActive and asks for *)
(* the device to be opened or closed, in two steps; the asking is a block  *)
(* on sipQueue.  CallKit and the fallback call the handlers on the main    *)
(* thread, AVAudioSession and the host on one of their own, and nothing    *)
(* keeps two handlers apart.                                               *)
(***************************************************************************)
EXTENDS Naturals, Sequences

CONSTANTS
  Call,  \* calls the user answers
  Setups \* how often each kind of event happens

Event == {"answer", "media", "activate", "deactivate", "host", "interrupt", "reset",
          "denied", "noDevice", "stop"}

ASSUME AudioAssumption == Setups \subseteq [Event -> Nat]

Thread == {"main", "other"}

VARIABLES
  left,        \* what is left of the setup
  active,      \* audioSessionActive
  todo,        \* what the handler running on a thread has yet to do
  timers,      \* fallbacks armed by scheduleAudioSessionFallback
  sipQ,        \* blocks on sipQueue
  engine,      \* gPJSUAStarted
  device,      \* PJSUA has a sound device, not the null one
  calls,       \* the registry
  media,       \* calls whose media PJSUA has up
  heard,       \* calls whose port is linked to the device's
  interrupted, \* another application has the session
  apart,       \* history: since the last handler that ran alone, flag and device were
               \* not set by one handler
  disturbed    \* history: something but CallKit's activation touched the session

environment == <<left, interrupted>>
pjsua == <<engine, device, media, heard>>
history == <<apart, disturbed>>
vars == <<environment, active, todo, timers, sipQ, pjsua, calls, history>>

Step == {"flag", "unflag", "open", "close", "setActive", "ifCalls"}
Block == [op : {"open", "close", "stop", "start"}] \cup [op : {"connect"}, call : Call]

Init ==
  /\ left \in Setups
  /\ active = FALSE
  /\ todo = [t \in Thread |-> <<>>]
  /\ timers = 0 /\ sipQ = <<>>
  /\ engine = TRUE /\ device = FALSE
  /\ calls = {} /\ media = {} /\ heard = {}
  /\ interrupted = FALSE /\ apart = FALSE /\ disturbed = FALSE
-----------------------------------------------------------------------------
Spend(e) == left[e] > 0 /\ left' = [left EXCEPT ![e] = @ - 1]

Async(b) == sipQ' = Append(sipQ, b)
PerformSIPAsync(op) == Async([op |-> op])

Alone(t) == \A o \in Thread \ {t} : todo[o] = <<>>

(* A handler that sets both, alone, brings flag and device together.       *)
SetsBoth(steps) == \E i \in DOMAIN steps : steps[i] \in {"open", "close"}

Begin(t, steps) ==
  /\ todo[t] = <<>>
  /\ todo' = [todo EXCEPT ![t] = steps]
  /\ apart' = (~Alone(t) \/ (apart /\ ~SetsBoth(steps)))

(* Mutant of openSoundDevice: the device first, then the flag.             *)
openThenFlag == <<"open", "flag">>

openSoundDevice == <<"flag", "open">>
closeSoundDevice == <<"unflag", "close">>
-----------------------------------------------------------------------------
(* Who starts a handler.                                                   *)

(* CallKit, for a call that was answered; most of the time.                *)
audioSessionDidActivate ==
  /\ calls # {} /\ ~interrupted /\ Spend("activate")
  /\ Begin("main", openSoundDevice)
  /\ UNCHANGED <<interrupted, active, timers, sipQ, pjsua, calls, disturbed>>

audioSessionDidDeactivate ==
  /\ Spend("deactivate")
  /\ Begin("main", closeSoundDevice) /\ disturbed' = TRUE
  /\ UNCHANGED <<interrupted, active, timers, sipQ, pjsua, calls>>

(* activateAudioSession is the host's too, from any thread.                *)
activateAudioSession ==
  /\ Spend("host")
  /\ Begin("other", <<"setActive">>)
  /\ UNCHANGED <<interrupted, active, timers, sipQ, pjsua, calls, disturbed>>

interruptionBegan ==
  /\ ~interrupted /\ Spend("interrupt")
  /\ interrupted' = TRUE /\ disturbed' = TRUE
  /\ Begin("other", closeSoundDevice)
  /\ UNCHANGED <<active, timers, sipQ, pjsua, calls>>

(* ... with or without shouldResume.                                       *)
interruptionEnded ==
  /\ interrupted /\ interrupted' = FALSE
  /\ \E steps \in {<<"ifCalls">>, <<>>} : Begin("other", steps)
  /\ UNCHANGED <<left, active, timers, sipQ, pjsua, calls, disturbed>>

(* Nobody asks for the device to be closed: it went with the media server. *)
mediaServicesWereReset ==
  /\ Spend("reset")
  /\ todo["other"] = <<>>
  /\ todo' = [todo EXCEPT !["other"] = <<"unflag", "ifCalls">>]
  /\ apart' = TRUE /\ disturbed' = TRUE
  /\ UNCHANGED <<interrupted, active, timers, sipQ, pjsua, calls>>

(* scheduleAudioSessionFallback's block.                                   *)
fallback ==
  /\ timers > 0 /\ timers' = timers - 1
  /\ Begin("main", IF active \/ calls = {} THEN <<>> ELSE <<"setActive">>)
  /\ UNCHANGED <<environment, active, sipQ, pjsua, calls, disturbed>>
-----------------------------------------------------------------------------
(* How a handler goes on.                                                  *)

Do(t, step) == todo[t] # <<>> /\ Head(todo[t]) = step
Then(t, steps) == todo' = [todo EXCEPT ![t] = steps \o Tail(@)]

setFlag(t) ==
  /\ \/ Do(t, "flag") /\ active' = TRUE
     \/ Do(t, "unflag") /\ active' = FALSE
  /\ Then(t, <<>>)
  /\ UNCHANGED <<environment, timers, sipQ, pjsua, calls, history>>

requestSoundDevice(t) ==
  /\ \/ Do(t, "open") /\ PerformSIPAsync("open")
     \/ Do(t, "close") /\ PerformSIPAsync("close")
  /\ Then(t, <<>>)
  /\ UNCHANGED <<environment, active, timers, pjsua, calls, history>>

(* audioCoordinatorHasTrackedCalls, then activateAudioSessionWithError.    *)
hasTrackedCalls(t) ==
  /\ Do(t, "ifCalls")
  /\ Then(t, IF calls = {} THEN <<>> ELSE <<"setActive">>)
  /\ UNCHANGED <<environment, active, timers, sipQ, pjsua, calls, history>>

(* iOS gives the session to whoever asks for it, or it does not.           *)
setActive(t) ==
  /\ Do(t, "setActive")
  /\ \/ /\ Then(t, openSoundDevice) /\ apart' = (apart /\ ~Alone(t))
        /\ UNCHANGED <<left, disturbed>>
     \/ /\ Spend("denied") /\ Then(t, <<>>) /\ disturbed' = TRUE
        /\ UNCHANGED apart
  /\ UNCHANGED <<interrupted, active, timers, sipQ, pjsua, calls>>

Handler(t) == setFlag(t) \/ requestSoundDevice(t) \/ hasTrackedCalls(t) \/ setActive(t)
-----------------------------------------------------------------------------
(* The calls.                                                              *)

(* Mutant of answered: CallKit is trusted to activate the session.         *)
answeredUntimed(c) ==
  /\ c \notin calls /\ engine /\ Spend("answer")
  /\ calls' = calls \cup {c}
  /\ UNCHANGED <<interrupted, active, todo, timers, sipQ, pjsua, history>>

(* The block that follows a successful answer on the main queue.           *)
answered(c) ==
  /\ c \notin calls /\ engine /\ Spend("answer")
  /\ calls' = calls \cup {c} /\ timers' = timers + 1
  /\ UNCHANGED <<interrupted, active, todo, sipQ, pjsua, history>>

ended(c) ==
  /\ c \in calls /\ calls' = calls \ {c}
  /\ media' = media \ {c} /\ heard' = heard \ {c}
  /\ UNCHANGED <<environment, active, todo, timers, sipQ, engine, device, history>>

(* handleMediaStateForCall: the media comes up, on a port of its own, or   *)
(* goes.                                                                   *)
mediaState(c) ==
  /\ c \in calls /\ engine /\ Spend("media")
  /\ media' = IF c \in media THEN media \ {c} ELSE media \cup {c}
  /\ heard' = heard \ {c}
  /\ Async([op |-> "connect", call |-> c])
  /\ UNCHANGED <<interrupted, active, todo, timers, engine, device, calls, history>>

(* connectMediaForCall.                                                    *)
Connectable == IF active THEN calls \cap media ELSE {}

hostStops ==
  /\ engine /\ Spend("stop")
  /\ PerformSIPAsync("stop") /\ disturbed' = TRUE
  /\ UNCHANGED <<interrupted, active, todo, timers, pjsua, calls, apart>>

hostStarts ==
  /\ ~engine /\ ~\E i \in DOMAIN sipQ : sipQ[i].op = "start"
  /\ PerformSIPAsync("start")
  /\ UNCHANGED <<environment, active, todo, timers, pjsua, calls, history>>
-----------------------------------------------------------------------------
(* sipQueue runs its blocks in order.                                      *)

(* Mutant of startDevice: the runtime is not looked at.                    *)
startDeviceAnyway ==
  /\ Head(sipQ).op = "open"
  /\ \/ device' = TRUE /\ heard' = heard \cup Connectable /\ UNCHANGED <<left, history>>
     \/ /\ Spend("noDevice") /\ device' = FALSE
        /\ apart' = TRUE /\ disturbed' = TRUE /\ UNCHANGED heard
  /\ UNCHANGED <<engine, media, calls>>

(* audioCoordinatorRequestsSoundDeviceStart: links every call, since their *)
(* media may have come up before the session.                              *)
startDevice ==
  /\ Head(sipQ).op = "open"
  /\ \/ ~engine /\ UNCHANGED <<left, device, heard, history>>
     \/ /\ engine /\ device' = TRUE /\ heard' = heard \cup Connectable
        /\ UNCHANGED <<left, history>>
     \/ /\ engine /\ Spend("noDevice") /\ device' = FALSE
        /\ apart' = TRUE /\ disturbed' = TRUE /\ UNCHANGED heard
  /\ UNCHANGED <<engine, media, calls>>

stopDevice ==
  /\ Head(sipQ).op = "close"
  /\ device' = (device /\ ~engine)
  /\ UNCHANGED <<left, engine, media, heard, calls, history>>

connectMediaForCall ==
  /\ Head(sipQ).op = "connect"
  /\ heard' = heard \cup ({Head(sipQ).call} \cap Connectable)
  /\ UNCHANGED <<left, engine, device, media, calls, history>>

(* stop takes the calls along; pjsua_set_no_snd_dev is the last thing      *)
(* startEngineLocked does.  The flag is the session's, and stays.          *)
stop ==
  /\ Head(sipQ).op = "stop"
  /\ engine' = FALSE /\ device' = FALSE
  /\ calls' = {} /\ media' = {} /\ heard' = {}
  /\ UNCHANGED <<left, history>>

start ==
  /\ Head(sipQ).op = "start"
  /\ engine' = TRUE /\ device' = FALSE
  /\ apart' = TRUE
  /\ UNCHANGED <<left, media, heard, calls, disturbed>>

SipTurn ==
  /\ sipQ # <<>> /\ sipQ' = Tail(sipQ)
  /\ startDevice \/ stopDevice \/ connectMediaForCall \/ stop \/ start
  /\ UNCHANGED <<interrupted, active, todo, timers>>
-----------------------------------------------------------------------------
Next ==
  \/ audioSessionDidActivate \/ audioSessionDidDeactivate \/ activateAudioSession
  \/ interruptionBegan \/ interruptionEnded \/ mediaServicesWereReset \/ fallback
  \/ \E t \in Thread : Handler(t)
  \/ \E c \in Call : answered(c) \/ ended(c) \/ mediaState(c)
  \/ hostStops \/ hostStarts \/ SipTurn

Spec == Init /\ [][Next]_vars

(* A handler that has begun goes on, sipQueue runs its blocks, and a timer *)
(* of dispatch_after fires.                                                *)
FairSpec ==
  /\ Spec
  /\ \A t \in Thread : WF_vars(Handler(t))
  /\ WF_vars(SipTurn) /\ WF_vars(fallback)
-----------------------------------------------------------------------------
(* Every variable has its type, and only calls with media are linked.      *)
TypeOK ==
  /\ {active, engine, device, interrupted, apart, disturbed} \subseteq BOOLEAN
  /\ todo \in [Thread -> Seq(Step)]
  /\ timers \in Nat /\ sipQ \in Seq(Block)
  /\ calls \subseteq Call /\ media \subseteq calls /\ heard \subseteq media
  /\ engine \/ ~device

(* No handler is running and sipQueue is empty.                            *)
AtRest == sipQ = <<>> /\ \A t \in Thread : todo[t] = <<>>

(* At rest the device is what the flag says, and with the session active   *)
(* every call that has media is linked to it, in whatever order activation *)
(* and media came.  Handlers that overlap, a device that does not open and *)
(* a restart are left to FlagIsTheDevice (Coordinator.m:152, 182).         *)
DeviceFollowsFlag ==
  AtRest /\ engine /\ ~apart => device = active /\ (active => media \subseteq heard)

(* A call whose media is up is heard in the end, whether CallKit activates *)
(* the session or not (CallWaveAudioSessionCoordinator.m:160).             *)
CallIsHeard ==
  \A c \in Call : c \in media ~> c \notin media \/ disturbed \/ (device /\ c \in heard)
-----------------------------------------------------------------------------
(* Claims of the documents that the code does not keep.                    *)

(* openSoundDevice "marks the session active and asks the delegate to open *)
(* the PJSIP sound device" (CallWaveAudioSessionCoordinator.m:150): the    *)
(* two do not stay together.                                               *)
FlagIsTheDevice == AtRest /\ engine => device = active

(* Without shouldResume "the VoIP call must stay on its deactivated        *)
(* session instead of stealing audio back"                                 *)
(* (CallWaveAudioReliabilityTests.m:166-168).  A fallback armed before     *)
(* does that.                                                              *)
NotStolenBack == [][interrupted /\ interrupted' => (active' => active)]_vars
=============================================================================
