---------------------------- MODULE CallControls ----------------------------
(***************************************************************************)
(* Mute, hold and the statistics timer of answered calls                   *)
(* (CallWaveClient.m, "Direct call control" and "Call information";        *)
(* CallWaveCallStateMachine.m).                                            *)
(*                                                                         *)
(* A control is asked for on the main thread, applied in a turn of         *)
(* sipQueue and shown in a block of the main queue; setMicrophoneMuted may *)
(* also be called from a thread of the host, which waits for its turn and  *)
(* posts the block itself.  PJSIP's thread moves the call underneath.      *)
(***************************************************************************)
EXTENDS SequencesExt

CONSTANTS
  Call,    \* UUIDs of calls; each life of one has a slot of its own in PJSUA
  NoCall,
  Setups   \* the surroundings to look at, and how often each kind of event happens

Event == {"arrive", "media", "mute", "thread", "hold", "holdFails", "end", "reset"}

ASSUME ControlsAssumption ==
  /\ NoCall \notin Call
  /\ Setups \subseteq [calls : SUBSET Call,   \* the calls that come
                      silent : SUBSET Call,  \* those whose peer sends nothing
                      terminates : BOOLEAN,  \* terminatesCallOnNoMedia
                      budget : [Event -> Nat]]

VARIABLES
  setup,    \* the one of Setups this behaviour lives in
  left,     \* what is left of its budget
  registry, \* the calls, oldest first
  call,     \* what CallWaveCall has of each
  current,  \* currentCallUUID
  button,   \* the state machine's microphoneMuted
  pj,       \* what PJSUA has of each call
  session,  \* audioSessionActive
  sipQ,     \* blocks on sipQueue
  mainQ,    \* blocks on the main queue
  unposted, \* mutes applied for a thread of the host that has yet to post them
  sampling, \* statisticsSamplingScheduled
  latched,  \* callQualityWarningLatches: calls warned of for want of media
  odd       \* history: calls with a mute refused, or overtaken by another

ui == <<current, button>>
record == <<registry, call, ui, sampling, latched>>
peer == <<setup, session>>
vars == <<left, record, pj, peer, sipQ, mainQ, unposted, odd>>

Fresh == [state |-> "connecting", muted |-> FALSE, onHold |-> FALSE]
NoDialog == [dialog |-> "none", media |-> "none", held |-> FALSE, capture |-> FALSE]
Block(op, c, on) == [op |-> op, call |-> c, on |-> on]

Init ==
  /\ setup \in Setups /\ left = setup.budget
  /\ registry = <<>> /\ call = [c \in Call |-> Fresh]
  /\ current = NoCall /\ button = FALSE
  /\ pj = [c \in Call |-> NoDialog]
  /\ session = FALSE
  /\ sipQ = <<>> /\ mainQ = <<>> /\ unposted = {}
  /\ sampling = FALSE /\ latched = {} /\ odd = {}
-----------------------------------------------------------------------------
Spend(e) == left[e] > 0 /\ left' = [left EXCEPT ![e] = @ - 1]

Tracked == ToSet(registry)
MostRecent(r) == IF r = <<>> THEN NoCall ELSE Last(r)

(* The registry has a UUID once.                                           *)
Without(r, c) ==
  IF c \in ToSet(r) THEN RemoveAt(r, CHOOSE i \in DOMAIN r : r[i] = c) ELSE r

PerformSIPAsync(b) == sipQ' = Append(sipQ, b)
DispatchMain(b) == mainQ' = Append(mainQ, b)

IsLive(s) == s \in {"active", "held"}

(* setProjectionUUID: NO when there is no call.                            *)
Show(c, calls) == current' = c /\ button' = (c # NoCall /\ calls[c].muted)

(* publishCallState of a state that is not the last; a live one wants the  *)
(* sampler.                                                                *)
Publish(c, calls, s) ==
  /\ call' = IF c \in Tracked THEN [calls EXCEPT ![c].state = s] ELSE calls
  /\ IF c \in Tracked /\ current \in {c, NoCall} THEN Show(c, calls) ELSE UNCHANGED ui
  /\ sampling' = (sampling \/ IsLive(s))

(* ... of ended, then clearCallWithUUID: the next current call is the most *)
(* recent of the others.                                                   *)
Clear(c) ==
  LET others == Without(registry, c)
  IN  /\ registry' = others
      /\ IF current = c \/ (current = NoCall /\ c \in Tracked) THEN Show(MostRecent(others), call)
         ELSE UNCHANGED ui
      /\ latched' = latched \ {c}
      /\ call' = [call EXCEPT ![c] = Fresh]
      /\ UNCHANGED sampling
-----------------------------------------------------------------------------
(* The call: announced, answered and current; acknowledged; its media.     *)

Mentioned(c) == c \in {b.call : b \in ToSet(sipQ) \cup ToSet(mainQ) \cup unposted}

(* A UUID comes back only when nothing of its last life is on its way.     *)
arrive(c) ==
  /\ c \in setup.calls \ Tracked /\ pj[c] = NoDialog /\ ~Mentioned(c) /\ Spend("arrive")
  /\ registry' = Append(registry, c)
  /\ call' = [call EXCEPT ![c] = Fresh] /\ Show(c, call')
  /\ pj' = [pj EXCEPT ![c].dialog = "connecting"]
  /\ odd' = odd \ {c}
  /\ UNCHANGED <<peer, sipQ, mainQ, unposted, sampling, latched>>

handleSIPCallConfirmed(c) ==
  /\ pj[c].dialog = "connecting"
  /\ pj' = [pj EXCEPT ![c].dialog = "confirmed"]
  /\ IF c \in Tracked THEN DispatchMain(Block("confirmed", c, TRUE)) ELSE UNCHANGED mainQ
  /\ UNCHANGED <<left, record, peer, sipQ, unposted, odd>>

handleSIPCallDisconnected(c) ==
  /\ pj[c].dialog # "none"
  /\ pj' = [pj EXCEPT ![c] = NoDialog]
  /\ IF c \in Tracked THEN DispatchMain(Block("ended", c, TRUE)) ELSE UNCHANGED mainQ
  /\ UNCHANGED <<left, record, peer, sipQ, unposted, odd>>

(* The media is negotiated anew, by either side: on a port that is linked  *)
(* to nothing.                                                             *)
handleMediaStateForCall(c) ==
  /\ pj[c].dialog \in {"connecting", "confirmed"} /\ Spend("media")
  /\ \E m \in {"none", "hold", "active"} :
       /\ m # pj[c].media /\ (m = "active" => ~pj[c].held)
       /\ pj' = [pj EXCEPT ![c].media = m, ![c].capture = FALSE]
  /\ IF c \in Tracked THEN PerformSIPAsync(Block("connect", c, TRUE)) ELSE UNCHANGED sipQ
  /\ UNCHANGED <<record, peer, mainQ, unposted, odd>>

(* The audio session becomes active; AudioSession has the rest of it.      *)
activated ==
  /\ ~session /\ session' = TRUE
  /\ PerformSIPAsync(Block("open", NoCall, TRUE))
  /\ UNCHANGED <<left, record, pj, setup, mainQ, unposted, odd>>
-----------------------------------------------------------------------------
(* What the host and CallKit ask for.                                      *)

setMicrophoneMuted(c, on) ==
  /\ c \in Tracked /\ Spend("mute")
  /\ PerformSIPAsync(Block("mute", c, on))
  /\ UNCHANGED <<record, pj, peer, mainQ, unposted, odd>>

(* setMicrophoneMuted:error: from a thread of the host.                    *)
setMicrophoneMutedSync(on) ==
  /\ registry # <<>> /\ Spend("thread")
  /\ PerformSIPAsync(Block("muteSync",
                           IF current \in Tracked THEN current ELSE MostRecent(registry), on))
  /\ UNCHANGED <<record, pj, peer, mainQ, unposted, odd>>

postMuted(b) ==
  /\ b \in unposted
  /\ unposted' = unposted \ {b} /\ DispatchMain(b)
  /\ UNCHANGED <<left, record, pj, peer, sipQ, odd>>

setHeld(c, on) ==
  /\ c \in Tracked /\ Spend("hold")
  /\ PerformSIPAsync(Block("hold", c, on))
  /\ UNCHANGED <<record, pj, peer, mainQ, unposted, odd>>

endCall(c) ==
  /\ c \in Tracked /\ Spend("end")
  /\ PerformSIPAsync(Block("end", c, TRUE))
  /\ UNCHANGED <<record, pj, peer, mainQ, unposted, odd>>

providerDidReset ==
  /\ Spend("reset")
  /\ registry' = <<>>
  /\ sipQ' = sipQ \o [i \in DOMAIN registry |-> Block("hangup", registry[i], TRUE)]
  /\ Show(NoCall, call)
  /\ UNCHANGED <<call, sampling, latched, pj, peer, mainQ, unposted, odd>>
-----------------------------------------------------------------------------
(* Turns of sipQueue; b is the block.                                      *)

(* Mutant of connectMediaForCall: the microphone is always connected.      *)
ConnectBoth(c) ==
  IF session /\ pj[c].media = "active" THEN [pj[c] EXCEPT !.capture = TRUE] ELSE pj[c]

(* What PJSUA has of the call after connectMediaForCall.                   *)
connectMediaForCall(c) ==
  IF session /\ pj[c].media = "active" THEN [pj[c] EXCEPT !.capture = ~call[c].muted] ELSE pj[c]

connect(b) ==
  /\ b.op = "connect" /\ pj' = [pj EXCEPT ![b.call] = connectMediaForCall(b.call)]
  /\ UNCHANGED <<left, call, mainQ, unposted, odd>>

open(b) ==
  /\ b.op = "open"
  /\ pj' = [c \in Call |-> IF c \in Tracked THEN connectMediaForCall(c) ELSE pj[c]]
  /\ UNCHANGED <<left, call, mainQ, unposted, odd>>

(* Mutant of applyMicrophoneMuted: the port is not asked for.              *)
applyWithoutPort(b) ==
  LET shown == Block("muted", b.call, b.on)
  IN  /\ b.op \in {"mute", "muteSync"}
      /\ call' = [call EXCEPT ![b.call].muted = b.on]
      /\ pj' = [pj EXCEPT ![b.call].capture = ~b.on]
      /\ IF b.op = "mute" THEN DispatchMain(shown) ELSE UNCHANGED mainQ
      /\ unposted' = IF b.op = "muteSync" THEN unposted \cup {shown} ELSE unposted
      /\ UNCHANGED <<left, odd>>

(* applyMicrophoneMuted: the flag first; without a port there is nothing   *)
(* to connect, and the host is told that it failed.                        *)
applyMicrophoneMuted(b) ==
  LET c == b.call
      shown == Block("muted", c, b.on)
      applied == pj[c].media # "none"
  IN  /\ b.op \in {"mute", "muteSync"}
      /\ call' = [call EXCEPT ![c].muted = b.on]
      /\ pj' = IF applied THEN [pj EXCEPT ![c].capture = ~b.on] ELSE pj
      /\ IF applied /\ b.op = "mute" THEN DispatchMain(shown) ELSE UNCHANGED mainQ
      /\ unposted' = IF applied /\ b.op = "muteSync" THEN unposted \cup {shown} ELSE unposted
      /\ odd' = IF applied /\ c \notin {u.call : u \in unposted} THEN odd ELSE odd \cup {c}
      /\ UNCHANGED left

(* Mutant of applyHold: what PJSUA says of it is not looked at.            *)
applyHoldAnyway(b) ==
  /\ b.op = "hold"
  /\ \/ pj[b.call].dialog = "confirmed" /\ pj' = [pj EXCEPT ![b.call].held = b.on]
        /\ UNCHANGED left
     \/ pj[b.call].dialog = "confirmed" /\ Spend("holdFails") /\ UNCHANGED pj
     \/ pj[b.call].dialog # "confirmed" /\ UNCHANGED <<left, pj>>
  /\ DispatchMain(Block("held", b.call, b.on))
  /\ UNCHANGED <<call, unposted, odd>>

(* applyHold: a re-INVITE, if the call is up and has none under way.       *)
applyHold(b) ==
  /\ b.op = "hold"
  /\ \/ /\ pj[b.call].dialog = "confirmed"
        /\ pj' = [pj EXCEPT ![b.call].held = b.on]
        /\ DispatchMain(Block("held", b.call, b.on))
        /\ UNCHANGED left
     \/ pj[b.call].dialog = "confirmed" /\ Spend("holdFails") /\ UNCHANGED <<pj, mainQ>>
     \/ pj[b.call].dialog # "confirmed" /\ UNCHANGED <<left, pj, mainQ>>
  /\ UNCHANGED <<call, unposted, odd>>

(* endSIPCall: the call ends when the peer has answered the BYE.           *)
endSIPCall(b) ==
  /\ b.op \in {"end", "hangup"}
  /\ pj' = IF pj[b.call].dialog = "none" THEN pj
           ELSE [pj EXCEPT ![b.call] = [NoDialog EXCEPT !.dialog = "closing"]]
  /\ IF b.op = "end" THEN DispatchMain(Block("ended", b.call, TRUE)) ELSE UNCHANGED mainQ
  /\ UNCHANGED <<left, call, unposted, odd>>

SipTurn ==
  /\ sipQ # <<>> /\ sipQ' = Tail(sipQ)
  /\ LET b == Head(sipQ)
     IN  connect(b) \/ open(b) \/ applyMicrophoneMuted(b) \/ applyHold(b) \/ endSIPCall(b)
  /\ UNCHANGED <<registry, ui, sampling, latched, peer>>
-----------------------------------------------------------------------------
(* Blocks of the main queue.                                               *)

(* Mutant of showMuted: the call may be another than the current one.      *)
showAnyMuted(b) ==
  /\ b.op = "muted" /\ button' = b.on
  /\ UNCHANGED <<registry, call, current, sampling, latched>>

(* setMicrophoneMuted:forCall: of the state machine.                       *)
showMuted(b) ==
  /\ b.op = "muted"
  /\ button' = IF b.call = current THEN b.on ELSE button
  /\ UNCHANGED <<registry, call, current, sampling, latched>>

showHeld(b) ==
  /\ b.op = "held"
  /\ Publish(b.call, [call EXCEPT ![b.call].onHold = b.on], IF b.on THEN "held" ELSE "active")
  /\ UNCHANGED <<registry, latched>>

showConfirmed(b) ==
  /\ b.op = "confirmed"
  /\ Publish(b.call, call, IF call[b.call].onHold THEN "held" ELSE "active")
  /\ UNCHANGED <<registry, latched>>

showEnded(b) == b.op = "ended" /\ Clear(b.call)

MainBlock ==
  /\ mainQ # <<>> /\ mainQ' = Tail(mainQ)
  /\ LET b == Head(mainQ)
     IN  showMuted(b) \/ showHeld(b) \/ showConfirmed(b) \/ showEnded(b)
  /\ UNCHANGED <<left, pj, peer, sipQ, unposted, odd>>

(* statisticsForCallWithUUID has them while there is a stream.             *)
HasStatistics(c) == pj[c].dialog = "confirmed" /\ pj[c].media # "none"

LiveCalls == {c \in Tracked : IsLive(call[c].state)}

(* evaluateCallQuality: a warning that is new ends the call, if it is to.  *)
Warned == {c \in LiveCalls \cap setup.silent : HasStatistics(c)} \ latched

EndAll(cs) ==
  LET s == SetToSeq(IF setup.terminates THEN cs ELSE {})
  IN  [i \in DOMAIN s |-> Block("end", s[i], TRUE)]

(* Mutant of sample: a call without statistics is none.                    *)
sampleWhileCounted ==
  /\ sampling
  /\ sampling' = ({c \in LiveCalls : HasStatistics(c)} # {})
  /\ latched' = latched \cup Warned /\ sipQ' = sipQ \o EndAll(Warned)
  /\ UNCHANGED <<left, registry, call, ui, pj, peer, mainQ, unposted, odd>>

sample ==
  /\ sampling
  /\ sampling' = (LiveCalls # {})
  /\ latched' = latched \cup Warned /\ sipQ' = sipQ \o EndAll(Warned)
  /\ UNCHANGED <<left, registry, call, ui, pj, peer, mainQ, unposted, odd>>
-----------------------------------------------------------------------------
Next ==
  \/ \E c \in Call :
       \/ arrive(c) \/ handleSIPCallConfirmed(c) \/ handleSIPCallDisconnected(c)
       \/ handleMediaStateForCall(c) \/ endCall(c)
       \/ \E on \in BOOLEAN : setMicrophoneMuted(c, on) \/ setHeld(c, on)
  \/ \E on \in BOOLEAN : setMicrophoneMutedSync(on)
  \/ \E b \in unposted : postMuted(b)
  \/ activated \/ providerDidReset
  \/ SipTurn \/ MainBlock \/ sample

Spec == Init /\ [][Next]_vars

(* Both queues run what is on them, and the timer fires.                   *)
FairSpec == Spec /\ WF_vars(SipTurn) /\ WF_vars(MainBlock) /\ WF_vars(sample)
-----------------------------------------------------------------------------
(* Every variable has its type, and only a call with a port has a          *)
(* microphone.                                                             *)
TypeOK ==
  /\ ToSet(registry) \subseteq Call /\ current \in Call \cup {NoCall}
  /\ \A c \in Call :
       /\ call[c].state \in {"connecting", "active", "held"}
       /\ {call[c].muted, call[c].onHold, pj[c].held, pj[c].capture} \subseteq BOOLEAN
       /\ pj[c].dialog \in {"none", "connecting", "confirmed", "closing"}
       /\ pj[c].media \in {"none", "hold", "active"}
       /\ pj[c].capture => pj[c].media # "none"
  /\ {button, session, sampling} \subseteq BOOLEAN
  /\ latched \cup odd \subseteq Call

(* Nothing is under way.                                                   *)
AtRest == sipQ = <<>> /\ mainQ = <<>> /\ unposted = {}

(* The other side hears the microphone of a call with live media if and    *)
(* only if the call is not muted, in whatever order mute, media and the    *)
(* audio session came (CallWaveClient.m:2734, 2756).                       *)
MicFollowsFlag ==
  AtRest /\ session => \A c \in Tracked : pj[c].media = "active" => pj[c].capture = ~call[c].muted

(* The button shows the flag of the current call, whichever call the mute  *)
(* was for and whichever became current.  This leaves out what             *)
(* MutedIsSilent is about: a mute that was refused or overtaken            *)
(* (CallWaveClient.m:2322).                                                *)
ButtonFollowsFlag == AtRest /\ current \in Call \ odd => button = call[current].muted

(* A call that is shown as held is held, and one that is shown as active   *)
(* is not, after holds that fail, answers and endings (CallWaveClient.m:   *)
(* 2366, 3245).                                                            *)
HoldShownIsReal ==
  AtRest => \A c \in Tracked : pj[c].dialog = "confirmed" => (call[c].state = "held") = pj[c].held

(* A call whose peer sends nothing does not last: the sampler sees it,     *)
(* although it may have had no statistics at first (CallWaveClient.m:2493, *)
(* 2558).                                                                  *)
Wordless(c) == c \in setup.silent \cap Tracked /\ HasStatistics(c)
SilentCallEnds == setup.terminates => \A c \in Call : Wordless(c) ~> ~Wordless(c)
-----------------------------------------------------------------------------
(* Claims of the documents that the code does not keep.                    *)

(* "CallWaveKit mutes at the RTP capture connection, so a mute that only   *)
(* changes the button is a bug." (FIELD-TESTING.md:321-322)                *)
MutedIsSilent ==
  AtRest /\ current \in Call /\ button => ~pj[current].capture

(* "a threshold crossing is reported once per call"                        *)
(* (CallWaveClient.m:611): a latch is a call's.  A provider that resets    *)
(* leaves it to the next call of the same UUID.                            *)
LatchIsOfACall == AtRest => latched \subseteq Tracked
=============================================================================
