-------------------------- MODULE AudioSessionProofs --------------------------
(***************************************************************************)
(* For any set of calls and any mixture of events: once no handler runs    *)
(* and sipQueue is empty the sound device is what the flag says, and an    *)
(* active session plays every call.                                        *)
(*                                                                         *)
(* DeviceFollowsFlag is not inductive: flag and device are set apart from  *)
(* each other, and the media of a call come up on a third thread.  What is *)
(* stable while the history variable apart is FALSE is that only one       *)
(* handler runs, that a handler which has set the flag has the request     *)
(* that fits it still to make, and that without such a handler the last    *)
(* request on sipQueue, or else the device, fits the flag.                 *)
(***************************************************************************)
EXTENDS AudioSession, TLAPS

(* What a handler may have left to do.                                     *)
Remainders ==
  {<<>>, <<"flag", "open">>, <<"open">>, <<"unflag", "close">>, <<"close">>,
   <<"setActive">>, <<"ifCalls">>, <<"unflag", "ifCalls">>}

HandlersOK == \A t \in Thread : todo[t] \in Remainders

OneHandler ==
  ~apart => \A t, o \in Thread : t # o => todo[t] = <<>> \/ todo[o] = <<>>

(* Only the reset of the media server sets the flag and not the device.    *)
OnlyResetForgets == ~apart => \A t \in Thread : todo[t] # <<"unflag", "ifCalls">>

RequestFollowsFlag ==
  ~apart => \A t \in Thread :
    /\ todo[t] = <<"open">> => active
    /\ todo[t] = <<"close">> => ~active

IsRequest(i) == sipQ[i].op \in {"open", "close"}
IsLastRequest(i) == IsRequest(i) /\ \A j \in 1..Len(sipQ) : i < j => ~IsRequest(j)

DeviceWillFollow ==
  /\ (\A i \in 1..Len(sipQ) : ~IsRequest(i)) => device = active
  /\ \A i \in 1..Len(sipQ) : IsLastRequest(i) => (sipQ[i].op = "open") = active

Links(i, c) == sipQ[i].op = "open" \/ (sipQ[i].op = "connect" /\ sipQ[i].call = c)

CallsWillBeLinked ==
  active => \A c \in media : c \in heard \/ \E i \in 1..Len(sipQ) : Links(i, c)

Requesting == {<<"flag", "open">>, <<"open">>, <<"unflag", "close">>, <<"close">>}

SettledWhenQuiet ==
  engine /\ ~apart /\ (\A t \in Thread : todo[t] \notin Requesting) =>
    DeviceWillFollow /\ CallsWillBeLinked

IInv ==
  /\ TypeOK
  /\ HandlersOK /\ OneHandler /\ OnlyResetForgets
  /\ RequestFollowsFlag /\ SettledWhenQuiet
-----------------------------------------------------------------------------
(* The remainders are different tuples; the first step of one tells which  *)
(* it may be and what comes after.                                         *)
LEMMA RemainderSteps ==
  ASSUME NEW s \in Remainders, s # <<>>
  PROVE  /\ Head(s) = "flag" => s = <<"flag", "open">> /\ Tail(s) = <<"open">>
         /\ Head(s) = "unflag" =>
              \/ s = <<"unflag", "close">> /\ Tail(s) = <<"close">>
              \/ s = <<"unflag", "ifCalls">> /\ Tail(s) = <<"ifCalls">>
         /\ Head(s) = "open" => s = <<"open">> /\ Tail(s) = <<>>
         /\ Head(s) = "close" => s = <<"close">> /\ Tail(s) = <<>>
         /\ Head(s) = "ifCalls" => s = <<"ifCalls">> /\ Tail(s) = <<>>
         /\ Head(s) = "setActive" => s = <<"setActive">> /\ Tail(s) = <<>>
<1>1. \A a : Head(<<a>>) = a /\ Tail(<<a>>) = <<>>
  OBVIOUS
<1>2. \A a, b : Head(<<a, b>>) = a /\ Tail(<<a, b>>) = <<b>>
  OBVIOUS
<1>3. CASE s = <<"flag", "open">>
  <2>1. Head(s) = "flag" /\ Tail(s) = <<"open">> BY <1>1, <1>2, <1>3
  <2> QED BY <1>3, <2>1
<1>4. CASE s = <<"unflag", "close">>
  <2>1. Head(s) = "unflag" /\ Tail(s) = <<"close">> BY <1>1, <1>2, <1>4
  <2> QED BY <1>4, <2>1
<1>5. CASE s = <<"unflag", "ifCalls">>
  <2>1. Head(s) = "unflag" /\ Tail(s) = <<"ifCalls">> BY <1>1, <1>2, <1>5
  <2> QED BY <1>5, <2>1
<1>6. CASE s = <<"open">>
  <2>1. Head(s) = "open" /\ Tail(s) = <<>> BY <1>1, <1>2, <1>6
  <2> QED BY <1>6, <2>1
<1>7. CASE s = <<"close">>
  <2>1. Head(s) = "close" /\ Tail(s) = <<>> BY <1>1, <1>2, <1>7
  <2> QED BY <1>7, <2>1
<1>8. CASE s = <<"setActive">>
  <2>1. Head(s) = "setActive" /\ Tail(s) = <<>> BY <1>1, <1>2, <1>8
  <2> QED BY <1>8, <2>1
<1>9. CASE s = <<"ifCalls">>
  <2>1. Head(s) = "ifCalls" /\ Tail(s) = <<>> BY <1>1, <1>2, <1>9
  <2> QED BY <1>9, <2>1
<1> QED BY <1>3, <1>4, <1>5, <1>6, <1>7, <1>8, <1>9 DEF Remainders

LEMMA RemaindersAreSteps == Remainders \subseteq Seq(Step)
  BY DEF Remainders, Step

LEMMA RemaindersDiffer ==
  /\ \A s \in Requesting : s # <<>> /\ s # <<"setActive">> /\ s # <<"ifCalls">>
                             /\ s # <<"unflag", "ifCalls">>
  /\ <<"open">> # <<"close">> /\ <<"flag", "open">> # <<"open">>
  /\ <<"flag", "open">> # <<"close">> /\ <<"unflag", "close">> # <<"open">>
  /\ <<"unflag", "close">> # <<"close">>
  /\ <<"unflag", "ifCalls">> \notin {<<>>, <<"setActive">>, <<"ifCalls">>}
  BY DEF Requesting
-----------------------------------------------------------------------------
(* Init establishes the invariant.                                         *)
LEMMA InitInvariant == Init => IInv
<1> SUFFICES ASSUME Init PROVE IInv
  OBVIOUS
<1>1. TypeOK
  <2>1. todo \in [Thread -> Seq(Step)] /\ sipQ \in Seq(Block)
    BY DEF Init
  <2> QED BY <2>1 DEF Init, TypeOK
<1>2. HandlersOK /\ OneHandler BY DEF Init, HandlersOK, Remainders, OneHandler
<1>3. OnlyResetForgets /\ RequestFollowsFlag
  BY DEF Init, OnlyResetForgets, RequestFollowsFlag
<1>4. SettledWhenQuiet
  <2>1. Len(sipQ) = 0 /\ 1..Len(sipQ) = {} BY DEF Init
  <2>2. device = active /\ ~active /\ media = {} BY DEF Init
  <2>3. DeviceWillFollow BY <2>1, <2>2 DEF DeviceWillFollow
  <2>4. CallsWillBeLinked BY <2>2 DEF CallsWillBeLinked
  <2> QED BY <2>3, <2>4 DEF SettledWhenQuiet
<1> QED BY <1>1, <1>2, <1>3, <1>4 DEF IInv
-----------------------------------------------------------------------------
(* What a step does to the handlers.  A handler begins when its thread is  *)
(* free; the one of the media server's reset is never thought to settle.   *)
Begins(t) ==
  /\ todo[t] = <<>>
  /\ \E s \in Remainders :
       /\ s \in Requesting \cup {<<>>, <<"setActive">>, <<"ifCalls">>}
       /\ s \notin {<<"open">>, <<"close">>}
       /\ todo' = [todo EXCEPT ![t] = s]
       /\ apart' = (~Alone(t) \/ (apart /\ s \notin Requesting))

LEMMA WhatSetsBoth ==
  /\ SetsBoth(openSoundDevice) /\ openSoundDevice = <<"flag", "open">>
  /\ SetsBoth(closeSoundDevice) /\ closeSoundDevice = <<"unflag", "close">>
  /\ ~SetsBoth(<<>>) /\ ~SetsBoth(<<"setActive">>) /\ ~SetsBoth(<<"ifCalls">>)
<1>1. \A a : DOMAIN <<a>> = {1} /\ <<a>>[1] = a
  OBVIOUS
<1>2. \A a, b : DOMAIN <<a, b>> = {1, 2} /\ <<a, b>>[1] = a /\ <<a, b>>[2] = b
  OBVIOUS
<1>3. DOMAIN <<>> = {}
  OBVIOUS
<1> QED BY <1>1, <1>2, <1>3 DEF SetsBoth, openSoundDevice, closeSoundDevice

LEMMA BeginBegins ==
  ASSUME NEW t \in Thread,
         NEW s \in {openSoundDevice, closeSoundDevice, <<>>, <<"setActive">>, <<"ifCalls">>},
         Begin(t, s)
  PROVE  Begins(t)
<1>1. s \in Remainders /\ s \in Requesting \cup {<<>>, <<"setActive">>, <<"ifCalls">>}
  BY DEF Remainders, Requesting, openSoundDevice, closeSoundDevice
<1>2. s \notin {<<"open">>, <<"close">>}
  BY RemaindersDiffer DEF openSoundDevice, closeSoundDevice
<1>3. SetsBoth(s) <=> s \in Requesting
  BY WhatSetsBoth, RemaindersDiffer DEF Requesting
<1> QED BY <1>1, <1>2, <1>3 DEF Begin, Begins

HandlersInv == HandlersOK /\ OneHandler /\ OnlyResetForgets /\ RequestFollowsFlag

LEMMA BeginsKeepsHandlers ==
  ASSUME TypeOK, HandlersInv, NEW t \in Thread, Begins(t), active' = active
  PROVE  HandlersInv'
<1> PICK s \in Remainders :
      /\ s \in Requesting \cup {<<>>, <<"setActive">>, <<"ifCalls">>}
      /\ s \notin {<<"open">>, <<"close">>}
      /\ todo' = [todo EXCEPT ![t] = s]
      /\ apart' = (~Alone(t) \/ (apart /\ s \notin Requesting))
  BY DEF Begins
<1>1. \A o \in Thread : todo'[o] = IF o = t THEN s ELSE todo[o]
  BY DEF TypeOK
<1>2. HandlersOK' BY <1>1 DEF HandlersInv, HandlersOK
<1>3. ~apart' => \A o \in Thread \ {t} : todo'[o] = <<>>
  BY <1>1 DEF Alone
<1>4. OneHandler' BY <1>3 DEF OneHandler
<1>5. <<"unflag", "ifCalls">> # <<>> /\ <<"open">> # <<>> /\ <<"close">> # <<>>
  OBVIOUS
<1>6. s # <<"unflag", "ifCalls">> /\ s # <<"open">> /\ s # <<"close">>
  BY RemaindersDiffer
<1>7. OnlyResetForgets' BY <1>1, <1>3, <1>5, <1>6 DEF OnlyResetForgets
<1>8. RequestFollowsFlag' BY <1>1, <1>3, <1>5, <1>6 DEF RequestFollowsFlag
<1> QED BY <1>2, <1>4, <1>7, <1>8 DEF HandlersInv

(* A handler that goes on: what it has left before and after.              *)
LEMMA HandlerKeepsHandlers ==
  ASSUME TypeOK, HandlersInv, NEW t \in Thread, Handler(t)
  PROVE  HandlersInv'
<1>a. <<"unflag", "ifCalls">> # <<>> /\ <<"open">> # <<>> /\ <<"close">> # <<>>
  OBVIOUS
<1>b. openSoundDevice \o <<>> = <<"flag", "open">> /\ <<"setActive">> \o <<>> = <<"setActive">>
  BY DEF openSoundDevice
<1>c. todo[t] \in Remainders BY DEF HandlersInv, HandlersOK
<1>d. Remainders \subseteq Seq(Step) BY RemaindersAreSteps
<1>1. CASE setFlag(t)
  <2>1. todo' = [todo EXCEPT ![t] = Tail(todo[t])]
    <3>1. \A q \in Seq(Step) : <<>> \o q = q OBVIOUS
    <3>2. todo[t] # <<>> BY <1>1 DEF setFlag, Do
    <3>3. Tail(todo[t]) \in Seq(Step) BY <1>c, <1>d, <3>2
    <3> QED BY <1>1, <3>1, <3>3 DEF setFlag, Then
  <2>2. \A o \in Thread : todo'[o] = IF o = t THEN Tail(todo[t]) ELSE todo[o]
    BY <2>1 DEF TypeOK
  <2>3. \/ Tail(todo[t]) = <<"open">> /\ active' = TRUE
        \/ Tail(todo[t]) = <<"close">> /\ active' = FALSE
        \/ todo[t] = <<"unflag", "ifCalls">> /\ Tail(todo[t]) = <<"ifCalls">>
    BY <1>1, <1>c, RemainderSteps DEF setFlag, Do
  <2>4. apart' = apart /\ todo[t] # <<>> BY <1>1 DEF setFlag, Do, history
  <2>5. ~apart => \A o \in Thread \ {t} : todo[o] = <<>>
    BY <2>4 DEF HandlersInv, OneHandler
  <2>6. HandlersOK' BY <2>2, <2>3 DEF HandlersInv, HandlersOK, Remainders
  <2>7. OneHandler' BY <2>2, <2>4, <2>5 DEF OneHandler
  <2>8. OnlyResetForgets'
    <3>1. <<"unflag", "ifCalls">> \notin {<<"open">>, <<"close">>, <<"ifCalls">>}
      BY RemaindersDiffer DEF Requesting
    <3> QED BY <2>2, <2>3, <2>4, <2>5, <3>1, <1>a DEF OnlyResetForgets
  <2>9. RequestFollowsFlag'
    <3>1. <<"open">> # <<"close">> BY RemaindersDiffer
    <3>2. ~apart => todo[t] # <<"unflag", "ifCalls">> BY DEF HandlersInv, OnlyResetForgets
    <3> QED BY <2>2, <2>3, <2>4, <2>5, <3>1, <3>2, <1>a DEF RequestFollowsFlag
  <2> QED BY <2>6, <2>7, <2>8, <2>9 DEF HandlersInv
<1>2. CASE requestSoundDevice(t) \/ hasTrackedCalls(t) \/ (setActive(t) /\ todo' = [todo EXCEPT ![t] = <<>> \o Tail(@)])
  <2>1. PICK s \in {<<>>, <<"setActive">>} : todo' = [todo EXCEPT ![t] = s]
    <3>1. Tail(todo[t]) = <<>>
      BY <1>2, <1>c, RemainderSteps DEF requestSoundDevice, hasTrackedCalls, setActive, Do
    <3>2. <<>> \o <<>> = <<>> OBVIOUS
    <3> QED BY <1>2, <1>b, <3>1, <3>2 DEF requestSoundDevice, hasTrackedCalls, setActive, Then
  <2>2. \A o \in Thread : todo'[o] = IF o = t THEN s ELSE todo[o]
    BY <2>1 DEF TypeOK
  <2>3. active' = active /\ todo[t] # <<>>
    BY <1>2 DEF requestSoundDevice, hasTrackedCalls, setActive, Do
  <2>4. ~apart' => \A o \in Thread \ {t} : todo[o] = <<>>
    BY <1>2, <2>3 DEF requestSoundDevice, hasTrackedCalls, setActive, history, HandlersInv,
                      OneHandler, Alone
  <2>5. HandlersOK' BY <2>2 DEF HandlersInv, HandlersOK, Remainders
  <2>6. OneHandler' BY <2>2, <2>4 DEF OneHandler
  <2>7. OnlyResetForgets'
    BY <2>2, <2>4, RemaindersDiffer DEF OnlyResetForgets
  <2>8. RequestFollowsFlag'
    <3>1. s # <<"open">> /\ s # <<"close">> BY RemaindersDiffer DEF Requesting
    <3> QED BY <2>2, <2>4, <3>1, <1>a DEF RequestFollowsFlag
  <2> QED BY <2>5, <2>6, <2>7, <2>8 DEF HandlersInv
<1>3. CASE setActive(t) /\ Then(t, openSoundDevice) /\ apart' = (apart /\ ~Alone(t))
  <2>1. todo' = [todo EXCEPT ![t] = <<"flag", "open">>]
    <3>1. Tail(todo[t]) = <<>> BY <1>3, <1>c, RemainderSteps DEF setActive, Do
    <3> QED BY <1>3, <1>b, <3>1 DEF Then
  <2>2. \A o \in Thread : todo'[o] = IF o = t THEN <<"flag", "open">> ELSE todo[o]
    BY <2>1 DEF TypeOK
  <2>3. todo[t] # <<>> BY <1>3 DEF setActive, Do
  <2>4. ~apart' => \A o \in Thread \ {t} : todo[o] = <<>>
    BY <1>3, <2>3 DEF HandlersInv, OneHandler, Alone
  <2>5. HandlersOK' BY <2>2 DEF HandlersInv, HandlersOK, Remainders
  <2>6. OneHandler' BY <2>2, <2>4 DEF OneHandler
  <2>7. <<"flag", "open">> \in Requesting BY DEF Requesting
  <2>8. OnlyResetForgets'
    BY <2>2, <2>4, <2>7, <1>a, RemaindersDiffer DEF OnlyResetForgets
  <2>9. RequestFollowsFlag'
    BY <2>2, <2>4, <1>a, RemaindersDiffer DEF RequestFollowsFlag
  <2> QED BY <2>5, <2>6, <2>8, <2>9 DEF HandlersInv
<1> QED BY <1>1, <1>2, <1>3 DEF Handler, setActive, Then

CallStep ==
  \/ \E c \in Call : answered(c) \/ ended(c) \/ mediaState(c)
  \/ hostStops \/ hostStarts \/ SipTurn \/ UNCHANGED vars

(* Everything that begins a handler, and everything that leaves them be.   *)
LEMMA HowHandlersStep ==
  ASSUME [Next]_vars
  PROVE  \/ CallStep /\ UNCHANGED <<todo, active>> /\ (apart' = apart \/ apart' = TRUE)
         \/ \E t \in Thread : Begins(t) /\ UNCHANGED <<active, sipQ, pjsua>>
         \/ mediaServicesWereReset
         \/ \E t \in Thread : Handler(t)
<1>m. "main" \in Thread /\ "other" \in Thread BY DEF Thread
<1>1. CASE audioSessionDidActivate
  <2> Begin("main", openSoundDevice) BY <1>1 DEF audioSessionDidActivate
  <2> QED BY <1>1, <1>m, BeginBegins DEF audioSessionDidActivate
<1>2. CASE audioSessionDidDeactivate
  <2> Begin("main", closeSoundDevice) BY <1>2 DEF audioSessionDidDeactivate
  <2> QED BY <1>2, <1>m, BeginBegins DEF audioSessionDidDeactivate
<1>3. CASE activateAudioSession
  <2> Begin("other", <<"setActive">>) BY <1>3 DEF activateAudioSession
  <2> QED BY <1>3, <1>m, BeginBegins DEF activateAudioSession
<1>4. CASE interruptionBegan
  <2> Begin("other", closeSoundDevice) BY <1>4 DEF interruptionBegan
  <2> QED BY <1>4, <1>m, BeginBegins DEF interruptionBegan
<1>5. CASE interruptionEnded
  <2> PICK steps \in {<<"ifCalls">>, <<>>} : Begin("other", steps)
    BY <1>5 DEF interruptionEnded
  <2> QED BY <1>5, <1>m, BeginBegins DEF interruptionEnded
<1>6. CASE fallback
  <2> PICK steps \in {<<"setActive">>, <<>>} : Begin("main", steps)
    BY <1>6 DEF fallback
  <2> QED BY <1>6, <1>m, BeginBegins DEF fallback
<1>7. CASE \E c \in Call : answered(c) \/ ended(c) \/ mediaState(c)
  BY <1>7 DEF CallStep, answered, ended, mediaState, history
<1>8. CASE hostStops \/ hostStarts
  BY <1>8 DEF CallStep, hostStops, hostStarts, history
<1>9. CASE SipTurn
  BY <1>9 DEF CallStep, SipTurn, startDevice, stopDevice, connectMediaForCall, stop, start, history
<1>10. CASE UNCHANGED vars
  BY <1>10 DEF CallStep, vars, history
<1> QED BY <1>1, <1>2, <1>3, <1>4, <1>5, <1>6, <1>7, <1>8, <1>9, <1>10 DEF Next

LEMMA HandlersStep ==
  ASSUME TypeOK, HandlersInv, [Next]_vars
  PROVE  HandlersInv'
<1>1. CASE UNCHANGED <<todo, active>> /\ (apart' = apart \/ apart' = TRUE)
  BY <1>1 DEF HandlersInv, HandlersOK, OneHandler, OnlyResetForgets, RequestFollowsFlag
<1>2. CASE \E t \in Thread : Begins(t) /\ UNCHANGED <<active, sipQ, pjsua>>
  BY <1>2, BeginsKeepsHandlers
<1>3. CASE mediaServicesWereReset
  BY <1>3 DEF mediaServicesWereReset, TypeOK, HandlersInv, HandlersOK, Remainders, OneHandler,
              OnlyResetForgets, RequestFollowsFlag
<1>4. CASE \E t \in Thread : Handler(t)
  BY <1>4, HandlerKeepsHandlers
<1> QED BY <1>1, <1>2, <1>3, <1>4, HowHandlersStep
-----------------------------------------------------------------------------
(* Every step keeps the types.                                             *)
LEMMA TodoStep ==
  ASSUME TypeOK, HandlersInv', [Next]_vars
  PROVE  todo' \in [Thread -> Seq(Step)]
<1>1. todo' = todo \/ \E t, x : todo' = [todo EXCEPT ![t] = x]
  BY HowHandlersStep
     DEF Begins, mediaServicesWereReset, Handler, setFlag, requestSoundDevice,
         hasTrackedCalls, setActive, Then
<1>2. todo' = [t \in Thread |-> todo'[t]]
  BY <1>1 DEF TypeOK
<1>3. \A t \in Thread : todo'[t] \in Seq(Step)
  BY RemaindersAreSteps DEF HandlersInv, HandlersOK
<1> QED BY <1>2, <1>3

LEMMA QueueTypeStep ==
  ASSUME TypeOK, [Next]_vars
  PROVE  sipQ' \in Seq(Block)
<1>1. sipQ' = sipQ \/ (\E b \in Block : sipQ' = Append(sipQ, b)) \/ (sipQ # <<>> /\ sipQ' = Tail(sipQ))
  BY DEF Next, audioSessionDidActivate, audioSessionDidDeactivate, activateAudioSession,
         interruptionBegan, interruptionEnded, mediaServicesWereReset, fallback, Handler, setFlag,
         requestSoundDevice, hasTrackedCalls, setActive, answered, ended, mediaState,
         hostStops, hostStarts, SipTurn, PerformSIPAsync, Async, Block, vars
<1>2. sipQ \in Seq(Block) BY DEF TypeOK
<1> QED BY <1>1, <1>2

LEMMA FlagsStep ==
  ASSUME TypeOK, [Next]_vars
  PROVE  {active, engine, device, interrupted, apart, disturbed}' \subseteq BOOLEAN
<1> USE DEF Next, audioSessionDidActivate, audioSessionDidDeactivate, activateAudioSession,
            interruptionBegan, interruptionEnded, mediaServicesWereReset, fallback, Handler,
            setFlag, requestSoundDevice, hasTrackedCalls, setActive, answered, ended, mediaState,
            hostStops, hostStarts, SipTurn, startDevice, stopDevice, connectMediaForCall, stop,
            start, environment, pjsua, history, vars
<1>1. active' = active \/ active' = TRUE \/ active' = FALSE
  OBVIOUS
<1>2. engine' = engine \/ engine' = TRUE \/ engine' = FALSE
  OBVIOUS
<1>3. device' = device \/ device' = TRUE \/ device' = FALSE \/ device' = (device /\ ~engine)
  OBVIOUS
<1>4. interrupted' = interrupted \/ interrupted' = TRUE \/ interrupted' = FALSE
  OBVIOUS
<1>5. disturbed' = disturbed \/ disturbed' = TRUE
  OBVIOUS
<1>6. \/ apart' = apart \/ apart' = TRUE
      \/ \E t, steps : apart' = (~Alone(t) \/ (apart /\ ~SetsBoth(steps)))
      \/ \E t : apart' = (apart /\ ~Alone(t))
  BY DEF Begin
<1>7. active \in BOOLEAN /\ engine \in BOOLEAN /\ device \in BOOLEAN
      /\ interrupted \in BOOLEAN /\ apart \in BOOLEAN /\ disturbed \in BOOLEAN
  BY DEF TypeOK
<1>8. device' \in BOOLEAN BY <1>3, <1>7, Zenon
<1>9. apart' \in BOOLEAN BY <1>6, <1>7, Zenon
<1> QED BY <1>1, <1>2, <1>4, <1>5, <1>7, <1>8, <1>9, Zenon

(* Only calls of the registry have media, only calls with media are        *)
(* linked; there is no device without the engine.                          *)
LEMMA LinksTypeStep ==
  ASSUME TypeOK, [Next]_vars
  PROVE  /\ timers' \in Nat
         /\ calls' \subseteq Call /\ media' \subseteq calls' /\ heard' \subseteq media'
         /\ engine' \/ ~device'
<1>t. /\ timers \in Nat /\ calls \subseteq Call /\ media \subseteq calls
      /\ heard \subseteq media /\ (engine \/ ~device)
  BY DEF TypeOK
<1>1. CASE UNCHANGED <<timers, calls, media, heard, engine, device>>
  BY <1>1, <1>t
<1>2. CASE fallback
  BY <1>2, <1>t DEF fallback, pjsua
<1>3. CASE \E c \in Call : answered(c)
  BY <1>3, <1>t DEF answered, pjsua
<1>4. CASE \E c \in Call : ended(c)
  BY <1>4, <1>t DEF ended
<1>5. CASE \E c \in Call : mediaState(c)
  BY <1>5, <1>t DEF mediaState
<1>6. CASE SipTurn
  <2>1. CASE startDevice BY <1>6, <2>1, <1>t DEF SipTurn, startDevice, Connectable
  <2>2. CASE stopDevice
    <3>1. device' = (device /\ ~engine) /\ engine' = engine BY <2>2 DEF stopDevice
    <3>2. engine' \/ ~device' BY <3>1, <1>t, Zenon
    <3> QED BY <1>6, <2>2, <3>2, <1>t DEF SipTurn, stopDevice
  <2>3. CASE connectMediaForCall
    BY <1>6, <2>3, <1>t DEF SipTurn, connectMediaForCall, Connectable
  <2>4. CASE stop BY <1>6, <2>4, <1>t DEF SipTurn, stop
  <2>5. CASE start BY <1>6, <2>5, <1>t DEF SipTurn, start
  <2> QED BY <1>6, <2>1, <2>2, <2>3, <2>4, <2>5 DEF SipTurn
<1>7. \/ UNCHANGED <<timers, calls, media, heard, engine, device>> \/ fallback \/ SipTurn
      \/ \E c \in Call : answered(c) \/ ended(c) \/ mediaState(c)
  BY DEF Next, audioSessionDidActivate, audioSessionDidDeactivate, activateAudioSession,
         interruptionBegan, interruptionEnded, mediaServicesWereReset, Handler, setFlag,
         requestSoundDevice, hasTrackedCalls, setActive, hostStops, hostStarts, pjsua, vars
<1> QED BY <1>1, <1>2, <1>3, <1>4, <1>5, <1>6, <1>7

LEMMA TypeStep ==
  ASSUME TypeOK, HandlersInv', [Next]_vars
  PROVE  TypeOK'
BY TodoStep, QueueTypeStep, FlagsStep, LinksTypeStep DEF TypeOK
-----------------------------------------------------------------------------
(* What is on sipQueue, when a block is appended and when one is run.      *)
LEMMA AppendedRequest ==
  ASSUME sipQ \in Seq(Block), NEW b \in Block, sipQ' = Append(sipQ, b),
         b.op \in {"open", "close"}, (b.op = "open") = active, active' = active,
         b.op = "open" \/ ~active
  PROVE  DeviceWillFollow' /\ CallsWillBeLinked'
<1>1. /\ Len(sipQ') = Len(sipQ) + 1 /\ Len(sipQ) \in Nat
      /\ sipQ'[Len(sipQ) + 1] = b
  OBVIOUS
<1>2. \A i \in 1..Len(sipQ') : IsLastRequest(i)' => i = Len(sipQ) + 1
  BY <1>1 DEF IsLastRequest, IsRequest
<1>3. DeviceWillFollow' BY <1>1, <1>2 DEF DeviceWillFollow, IsRequest
<1>4. CallsWillBeLinked' BY <1>1 DEF CallsWillBeLinked, Links
<1> QED BY <1>3, <1>4

LEMMA AppendedOther ==
  ASSUME sipQ \in Seq(Block), NEW b \in Block, sipQ' = Append(sipQ, b),
         b.op \notin {"open", "close"}, device' = device, active' = active, DeviceWillFollow
  PROVE  DeviceWillFollow'
<1>1. /\ Len(sipQ') = Len(sipQ) + 1 /\ Len(sipQ) \in Nat
      /\ sipQ'[Len(sipQ) + 1] = b
      /\ \A i \in 1..Len(sipQ) : sipQ'[i] = sipQ[i]
  OBVIOUS
<1>2. \A i \in 1..Len(sipQ') : IsRequest(i)' => i \in 1..Len(sipQ) BY <1>1 DEF IsRequest
<1>3. \A i \in 1..Len(sipQ) : IsRequest(i)' = IsRequest(i) BY <1>1 DEF IsRequest
<1>4. \A i \in 1..Len(sipQ') : IsLastRequest(i)' => i \in 1..Len(sipQ) /\ IsLastRequest(i)
  BY <1>1, <1>2, <1>3 DEF IsLastRequest
<1>5. \A i \in 1..Len(sipQ') : IsLastRequest(i)' => (sipQ'[i].op = "open") = active
  BY <1>1, <1>4 DEF DeviceWillFollow
<1>6. (\A i \in 1..Len(sipQ') : ~IsRequest(i)') => device = active
  BY <1>1, <1>3 DEF DeviceWillFollow
<1> QED BY <1>5, <1>6 DEF DeviceWillFollow

(* A block that is no request, or not the last one, is run; or the last    *)
(* request is, and the device follows it.                                  *)
LEMMA RunBlock ==
  ASSUME sipQ \in Seq(Block), sipQ # <<>>, sipQ' = Tail(sipQ), active' = active, DeviceWillFollow,
         \/ Head(sipQ).op \notin {"open", "close"} /\ device' = device
         \/ Head(sipQ).op = "open" /\ device' = TRUE
         \/ Head(sipQ).op = "close" /\ device' = FALSE,
         active \in BOOLEAN
  PROVE  DeviceWillFollow'
<1>1. /\ Len(sipQ') = Len(sipQ) - 1 /\ Len(sipQ) \in Nat \ {0}
      /\ Head(sipQ) = sipQ[1]
      /\ \A i \in 1..Len(sipQ') : sipQ'[i] = sipQ[i + 1]
  OBVIOUS
<1>2. \A i \in 1..Len(sipQ') : IsRequest(i)' = IsRequest(i + 1) BY <1>1 DEF IsRequest
<1>3. \A i \in 1..Len(sipQ') : IsLastRequest(i)' => IsLastRequest(i + 1)
  <2> SUFFICES ASSUME NEW i \in 1..Len(sipQ'), IsLastRequest(i)'
               PROVE  IsLastRequest(i + 1)
    OBVIOUS
  <2>1. IsRequest(i + 1) BY <1>2 DEF IsLastRequest
  <2>2. ASSUME NEW j \in 1..Len(sipQ), i + 1 < j PROVE ~IsRequest(j)
    <3>1. j - 1 \in 1..Len(sipQ') /\ i < j - 1 /\ (j - 1) + 1 = j BY <1>1, <2>2
    <3>2. ~IsRequest(j - 1)' BY <3>1 DEF IsLastRequest
    <3> QED BY <1>2, <3>1, <3>2
  <2> QED BY <2>1, <2>2 DEF IsLastRequest
<1>4. ASSUME NEW i \in 1..Len(sipQ'), IsLastRequest(i)' PROVE (sipQ'[i].op = "open") = active
  BY <1>1, <1>3, <1>4 DEF DeviceWillFollow
<1>5. ASSUME \A i \in 1..Len(sipQ') : ~IsRequest(i)' PROVE device' = active
  <2>1. \A j \in 1..Len(sipQ) : 1 < j => ~IsRequest(j)
    <3> SUFFICES ASSUME NEW j \in 1..Len(sipQ), 1 < j PROVE ~IsRequest(j)
      OBVIOUS
    <3>1. j - 1 \in 1..Len(sipQ') /\ (j - 1) + 1 = j BY <1>1
    <3> QED BY <1>2, <1>5, <3>1
  <2>2. CASE IsRequest(1)
    <3>1. IsLastRequest(1) BY <1>1, <2>1, <2>2 DEF IsLastRequest
    <3>2. (sipQ[1].op = "open") = active BY <1>1, <3>1 DEF DeviceWillFollow
    <3> QED BY <1>1, <2>2, <3>2 DEF IsRequest
  <2>3. CASE ~IsRequest(1)
    <3>1. \A j \in 1..Len(sipQ) : ~IsRequest(j) BY <1>1, <2>1, <2>3
    <3>2. device = active BY <3>1 DEF DeviceWillFollow
    <3> QED BY <1>1, <2>3, <3>2 DEF IsRequest
  <2> QED BY <2>2, <2>3
<1> QED BY <1>4, <1>5 DEF DeviceWillFollow

(* A block is appended: the calls it does not link stay as they were.      *)
LinkedBy(b, c) == b.op = "connect" /\ b.call = c
KeptLinked(b) == \A c \in media' : LinkedBy(b, c) \/ (c \in media /\ (c \in heard => c \in heard'))

LEMMA AppendedLinks ==
  ASSUME sipQ \in Seq(Block), NEW b \in Block, sipQ' = Append(sipQ, b), active' = active,
         CallsWillBeLinked, KeptLinked(b)
  PROVE  CallsWillBeLinked'
<1>1. /\ Len(sipQ') = Len(sipQ) + 1 /\ Len(sipQ) \in Nat
      /\ sipQ'[Len(sipQ) + 1] = b
      /\ \A i \in 1..Len(sipQ) : sipQ'[i] = sipQ[i]
  OBVIOUS
<1> SUFFICES ASSUME active, NEW c \in media'
             PROVE  c \in heard' \/ \E i \in 1..Len(sipQ') : Links(i, c)'
  BY DEF CallsWillBeLinked
<1>0. LinkedBy(b, c) \/ (c \in media /\ (c \in heard => c \in heard')) BY DEF KeptLinked
<1>2. CASE LinkedBy(b, c)
  <2>1. Len(sipQ) + 1 \in 1..Len(sipQ') BY <1>1
  <2>2. sipQ'[Len(sipQ) + 1].op = "connect" /\ sipQ'[Len(sipQ) + 1].call = c
    BY <1>1, <1>2 DEF LinkedBy
  <2> QED BY <2>1, <2>2 DEF Links
<1>3. CASE c \in media /\ (c \in heard => c \in heard')
  <2>1. CASE c \in heard BY <1>3, <2>1
  <2>2. CASE c \notin heard
    <3> PICK i \in 1..Len(sipQ) : Links(i, c) BY <1>3, <2>2 DEF CallsWillBeLinked
    <3>1. i \in 1..Len(sipQ') /\ sipQ'[i] = sipQ[i] BY <1>1
    <3> QED BY <3>1 DEF Links
  <2> QED BY <2>1, <2>2
<1> QED BY <1>0, <1>2, <1>3

(* A block is run: the calls it was to link are linked.                    *)
LEMMA RunLinks ==
  ASSUME sipQ \in Seq(Block), sipQ # <<>>, sipQ' = Tail(sipQ), active' = active,
         CallsWillBeLinked, media' = media, heard \subseteq heard',
         active => \A c \in media : Links(1, c) => c \in heard'
  PROVE  CallsWillBeLinked'
<1>1. /\ Len(sipQ') = Len(sipQ) - 1 /\ Len(sipQ) \in Nat \ {0}
      /\ \A i \in 1..Len(sipQ') : sipQ'[i] = sipQ[i + 1]
  OBVIOUS
<1> SUFFICES ASSUME active, NEW c \in media, c \notin heard'
             PROVE  \E i \in 1..Len(sipQ') : Links(i, c)'
  BY DEF CallsWillBeLinked
<1> PICK j \in 1..Len(sipQ) : Links(j, c) BY DEF CallsWillBeLinked
<1>2. j # 1 OBVIOUS
<1>3. j - 1 \in 1..Len(sipQ') /\ (j - 1) + 1 = j BY <1>1, <1>2
<1>4. sipQ'[j - 1] = sipQ[j] BY <1>1, <1>3
<1>5. Links(j - 1, c)' BY <1>4 DEF Links
<1> QED BY <1>3, <1>5
-----------------------------------------------------------------------------
Quiet == \A t \in Thread : todo[t] \notin Requesting
Settled == DeviceWillFollow /\ CallsWillBeLinked

(* Media that go, or stay as they are, unsettle nothing.                   *)
LEMMA StaysSettled ==
  ASSUME Settled, UNCHANGED <<sipQ, active, device>>,
         \A c \in media' : c \in media /\ (c \in heard => c \in heard')
  PROVE  Settled'
<1>1. DeviceWillFollow' BY DEF Settled, DeviceWillFollow, IsLastRequest, IsRequest
<1>2. CallsWillBeLinked' BY DEF Settled, CallsWillBeLinked, Links
<1> QED BY <1>1, <1>2 DEF Settled

(* A handler that begins, or that finds nothing to do, unsettles nothing;  *)
(* the one that asks for the device asks for what the flag says.           *)
LEMMA BeginsSettled ==
  ASSUME TypeOK, SettledWhenQuiet, NEW t \in Thread, Begins(t), UNCHANGED <<active, sipQ, pjsua>>
  PROVE  SettledWhenQuiet'
<1> SUFFICES ASSUME engine', ~apart', Quiet' PROVE Settled'
  BY DEF SettledWhenQuiet, Quiet, Settled
<1> PICK s \in Remainders :
      /\ todo' = [todo EXCEPT ![t] = s]
      /\ apart' = (~Alone(t) \/ (apart /\ s \notin Requesting))
  BY DEF Begins
<1>1. \A o \in Thread : todo'[o] = IF o = t THEN s ELSE todo[o]
  BY DEF TypeOK
<1>2. s \notin Requesting BY <1>1 DEF Quiet
<1>3. ~apart BY <1>2
<1>4. todo[t] \notin Requesting BY RemaindersDiffer DEF Begins
<1>5. Quiet BY <1>1, <1>4 DEF Quiet
<1>6. Settled BY <1>3, <1>5 DEF SettledWhenQuiet, Settled, Quiet, pjsua
<1> QED BY <1>6, StaysSettled DEF pjsua

LEMMA HandlerSettled ==
  ASSUME TypeOK, HandlersInv, SettledWhenQuiet, NEW t \in Thread, Handler(t)
  PROVE  SettledWhenQuiet'
<1> SUFFICES ASSUME engine', ~apart', Quiet' PROVE Settled'
  BY DEF SettledWhenQuiet, Quiet, Settled
<1>c. todo[t] \in Remainders BY DEF HandlersInv, HandlersOK
<1>p. UNCHANGED pjsua
  BY DEF Handler, setFlag, requestSoundDevice, hasTrackedCalls, setActive
<1>1. CASE setFlag(t)
  <2>1. ~apart /\ todo[t] # <<>> BY <1>1 DEF setFlag, Do, history
  <2>2. todo[t] # <<"unflag", "ifCalls">> BY <2>1 DEF HandlersInv, OnlyResetForgets
  <2>3. Tail(todo[t]) \in {<<"open">>, <<"close">>}
    BY <1>1, <1>c, <2>1, <2>2, RemainderSteps DEF setFlag, Do
  <2>4. todo' = [todo EXCEPT ![t] = Tail(todo[t])]
    <3>1. <<>> \o <<"open">> = <<"open">> /\ <<>> \o <<"close">> = <<"close">>
      OBVIOUS
    <3> QED BY <1>1, <2>3, <3>1 DEF setFlag, Then
  <2>5. todo'[t] \in Requesting BY <2>3, <2>4 DEF TypeOK, Requesting
  <2> QED BY <2>5 DEF Quiet
<1>2. CASE requestSoundDevice(t)
  <2>1. ~apart /\ active' = active BY <1>2 DEF requestSoundDevice, history
  <2>2. PICK op \in {"open", "close"} :
          todo[t] # <<>> /\ Head(todo[t]) = op /\ sipQ' = Append(sipQ, [op |-> op])
    BY <1>2 DEF requestSoundDevice, Do, PerformSIPAsync, Async
  <2>3. todo[t] = <<op>> BY <1>c, <2>2, RemainderSteps
  <2>4. (op = "open" => active) /\ (op = "close" => ~active)
    BY <2>1, <2>3 DEF HandlersInv, RequestFollowsFlag
  <2>5. [op |-> op] \in Block BY DEF Block
  <2>6. sipQ \in Seq(Block) /\ active \in BOOLEAN BY DEF TypeOK
  <2>7. (op = "open") = active BY <2>4, <2>6
  <2> DEFINE b == [op |-> op]
  <2>8. b \in Block /\ sipQ' = Append(sipQ, b) /\ b.op = op BY <2>2, <2>5
  <2> HIDE DEF b
  <2> QED BY <2>1, <2>4, <2>6, <2>7, <2>8, AppendedRequest DEF Settled
<1>3. CASE hasTrackedCalls(t) \/ (setActive(t) /\ Then(t, <<>>) /\ UNCHANGED apart)
  <2>1. ~apart /\ UNCHANGED <<sipQ, active>>
    BY <1>3 DEF hasTrackedCalls, setActive, history
  <2>2. todo[t] \notin Requesting
    <3>1. todo[t] \in {<<"ifCalls">>, <<"setActive">>}
      BY <1>3, <1>c, RemainderSteps DEF hasTrackedCalls, setActive, Do
    <3> QED BY <3>1, RemaindersDiffer
  <2>3. \A o \in Thread \ {t} : todo'[o] = todo[o]
    BY <1>3 DEF hasTrackedCalls, Then, TypeOK
  <2>4. Quiet BY <2>2, <2>3 DEF Quiet
  <2>5. Settled BY <1>p, <2>1, <2>4 DEF SettledWhenQuiet, Settled, Quiet, pjsua
  <2> QED BY <1>p, <2>1, <2>5, StaysSettled DEF pjsua
<1>4. CASE setActive(t) /\ Then(t, openSoundDevice)
  <2>1. Tail(todo[t]) = <<>> BY <1>4, <1>c, RemainderSteps DEF setActive, Do
  <2>2. openSoundDevice \o <<>> = <<"flag", "open">> BY DEF openSoundDevice
  <2>3. todo'[t] = <<"flag", "open">> BY <1>4, <2>1, <2>2 DEF Then, TypeOK
  <2> QED BY <2>3 DEF Quiet, Requesting
<1> QED BY <1>1, <1>2, <1>3, <1>4 DEF Handler, setActive
-----------------------------------------------------------------------------
(* What the calls and the host do.                                         *)
LEMMA CallsSettled ==
  ASSUME TypeOK, SettledWhenQuiet,
         (\E c \in Call : answered(c) \/ ended(c) \/ mediaState(c)) \/ hostStops \/ hostStarts
  PROVE  SettledWhenQuiet'
<1> SUFFICES ASSUME engine', ~apart', Quiet' PROVE Settled'
  BY DEF SettledWhenQuiet, Quiet, Settled
<1>1. Settled
  <2>1. UNCHANGED <<engine, todo, apart>>
    BY DEF answered, ended, mediaState, hostStops, hostStarts, pjsua, history
  <2> QED BY <2>1 DEF SettledWhenQuiet, Settled, Quiet
<1>2. sipQ \in Seq(Block) BY DEF TypeOK
<1>3. CASE \E c \in Call : answered(c) \/ ended(c)
  <2>1. UNCHANGED <<sipQ, active, device>> BY <1>3 DEF answered, ended, pjsua
  <2>2. \A c \in media' : c \in media /\ (c \in heard => c \in heard')
    BY <1>3 DEF answered, ended, pjsua
  <2> QED BY <1>1, <2>1, <2>2, StaysSettled
<1>4. CASE \E c \in Call : mediaState(c)
  <2> PICK c \in Call : mediaState(c) BY <1>4
  <2> DEFINE b == [op |-> "connect", call |-> c]
  <2>1. b \in Block /\ b.op = "connect" /\ b.call = c BY DEF Block
  <2>2. sipQ' = Append(sipQ, b) /\ UNCHANGED <<active, device>> BY DEF mediaState, Async
  <2> HIDE DEF b
  <2>3. KeptLinked(b) BY <2>1 DEF mediaState, KeptLinked, LinkedBy
  <2>4. CallsWillBeLinked'
    <3>1. CallsWillBeLinked BY <1>1 DEF Settled
    <3> QED BY <1>2, <2>1, <2>2, <2>3, <3>1, AppendedLinks
  <2>5. DeviceWillFollow' BY <1>1, <1>2, <2>1, <2>2, AppendedOther DEF Settled
  <2> QED BY <2>4, <2>5 DEF Settled
<1>5. CASE hostStops \/ hostStarts
  <2> PICK op \in {"stop", "start"} : sipQ' = Append(sipQ, [op |-> op])
    BY <1>5 DEF hostStops, hostStarts, PerformSIPAsync, Async
  <2> DEFINE b == [op |-> op]
  <2>1. b \in Block /\ b.op = op /\ sipQ' = Append(sipQ, b) BY DEF Block
  <2>2. UNCHANGED <<active, device, media, heard>> BY <1>5 DEF hostStops, hostStarts, pjsua
  <2> HIDE DEF b
  <2>3. CallsWillBeLinked'
    <3>1. KeptLinked(b) BY <2>2 DEF KeptLinked
    <3>2. CallsWillBeLinked BY <1>1 DEF Settled
    <3> QED BY <1>2, <2>1, <2>2, <3>1, <3>2, AppendedLinks
  <2>4. DeviceWillFollow' BY <1>1, <1>2, <2>1, <2>2, AppendedOther DEF Settled
  <2> QED BY <2>3, <2>4 DEF Settled
<1> QED BY <1>3, <1>4, <1>5

LEMMA SipTurnSettled ==
  ASSUME TypeOK, SettledWhenQuiet, SipTurn
  PROVE  SettledWhenQuiet'
<1> SUFFICES ASSUME engine', ~apart', Quiet' PROVE Settled'
  BY DEF SettledWhenQuiet, Quiet, Settled
<1>1. /\ sipQ \in Seq(Block) /\ sipQ # <<>> /\ sipQ' = Tail(sipQ) /\ active' = active
      /\ active \in BOOLEAN /\ media \subseteq calls
  BY DEF TypeOK, SipTurn
<1>2. ~stop /\ ~start BY DEF stop, start
<1>3. /\ engine /\ ~apart /\ Quiet
      /\ media' = media /\ heard \subseteq heard'
  <2>1. startDevice \/ stopDevice \/ connectMediaForCall BY <1>2 DEF SipTurn
  <2>2. engine' = engine /\ media' = media /\ todo' = todo
    BY <2>1 DEF SipTurn, startDevice, stopDevice, connectMediaForCall
  <2>3. ~apart BY <2>1 DEF startDevice, stopDevice, connectMediaForCall, history
  <2>4. heard \subseteq heard' BY <2>1 DEF startDevice, stopDevice, connectMediaForCall
  <2> QED BY <2>2, <2>3, <2>4 DEF Quiet
<1>4. Settled BY <1>3 DEF SettledWhenQuiet, Settled, Quiet
<1>5. Head(sipQ) = sipQ[1] /\ Head(sipQ) \in Block BY <1>1
<1>6. CASE startDevice
  <2>1. Head(sipQ).op = "open" /\ device' = TRUE /\ heard' = heard \cup Connectable
    BY <1>3, <1>6 DEF startDevice
  <2>2. DeviceWillFollow' BY <1>1, <1>4, <2>1, RunBlock DEF Settled
  <2>3. active => media \subseteq heard' BY <1>1, <2>1 DEF Connectable
  <2>4. CallsWillBeLinked' BY <1>1, <1>3, <1>4, <2>3, RunLinks DEF Settled
  <2> QED BY <2>2, <2>4 DEF Settled
<1>7. CASE stopDevice
  <2>1. Head(sipQ).op = "close" /\ device' = (device /\ ~engine) BY <1>7 DEF stopDevice
  <2>2. device' = FALSE BY <1>3, <2>1, Zenon
  <2>3. DeviceWillFollow' BY <1>1, <1>4, <2>1, <2>2, RunBlock DEF Settled
  <2>4. \A c \in media : ~Links(1, c) BY <1>5, <2>1 DEF Links
  <2>5. CallsWillBeLinked' BY <1>1, <1>3, <1>4, <2>4, RunLinks DEF Settled
  <2> QED BY <2>3, <2>5 DEF Settled
<1>8. CASE connectMediaForCall
  <2>1. /\ Head(sipQ).op = "connect" /\ device' = device
        /\ heard' = heard \cup ({Head(sipQ).call} \cap Connectable)
    BY <1>8 DEF connectMediaForCall
  <2>2. DeviceWillFollow' BY <1>1, <1>4, <2>1, RunBlock DEF Settled
  <2>3. active => \A c \in media : Links(1, c) => c \in heard'
    BY <1>1, <1>5, <2>1 DEF Connectable, Links
  <2>4. CallsWillBeLinked' BY <1>1, <1>3, <1>4, <2>3, RunLinks DEF Settled
  <2> QED BY <2>2, <2>4 DEF Settled
<1> QED BY <1>2, <1>6, <1>7, <1>8 DEF SipTurn

LEMMA SettledStep ==
  ASSUME TypeOK, HandlersInv, SettledWhenQuiet, [Next]_vars
  PROVE  SettledWhenQuiet'
<1>1. CASE \E t \in Thread : Begins(t) /\ UNCHANGED <<active, sipQ, pjsua>>
  BY <1>1, BeginsSettled
<1>2. CASE mediaServicesWereReset
  BY <1>2 DEF mediaServicesWereReset, SettledWhenQuiet
<1>3. CASE \E t \in Thread : Handler(t)
  BY <1>3, HandlerSettled
<1>4. CASE (\E c \in Call : answered(c) \/ ended(c) \/ mediaState(c)) \/ hostStops \/ hostStarts
  BY <1>4, CallsSettled
<1>5. CASE SipTurn
  BY <1>5, SipTurnSettled
<1>6. CASE UNCHANGED vars
  BY <1>6 DEF vars, pjsua, history, SettledWhenQuiet, DeviceWillFollow, CallsWillBeLinked,
              IsLastRequest, IsRequest, Links
<1> QED BY <1>1, <1>2, <1>3, <1>4, <1>5, <1>6, HowHandlersStep DEF CallStep
-----------------------------------------------------------------------------
LEMMA InductionStep == IInv /\ [Next]_vars => IInv'
<1> SUFFICES ASSUME IInv, [Next]_vars PROVE IInv'
  OBVIOUS
<1>1. TypeOK /\ HandlersInv /\ SettledWhenQuiet BY DEF IInv, HandlersInv
<1>2. HandlersInv' BY <1>1, HandlersStep
<1>3. TypeOK' BY <1>1, <1>2, TypeStep
<1>4. SettledWhenQuiet' BY <1>1, SettledStep
<1> QED BY <1>2, <1>3, <1>4 DEF IInv, HandlersInv

(* The variables of the audio session keep their types, only calls of the  *)
(* registry have media and only those with media are linked, and without   *)
(* the engine there is no sound device: for every set of calls and every   *)
(* mixture of events.                                                      *)
THEOREM AudioTypeCorrect == Spec => []TypeOK
<1>1. IInv => TypeOK BY DEF IInv
<1> QED BY <1>1, InitInvariant, InductionStep, PTL DEF Spec

(* Once no handler runs and sipQueue is empty, PJSUA has the sound device  *)
(* exactly when audioSessionActive says so, and an active session plays    *)
(* every call that has media: whatever the order of activation, media,     *)
(* interruption and stop.                                                  *)
THEOREM AudioSettles == Spec => []DeviceFollowsFlag
<1>1. IInv => DeviceFollowsFlag
  <2> SUFFICES ASSUME IInv, sipQ = <<>>, \A t \in Thread : todo[t] = <<>>, engine, ~apart
               PROVE  device = active /\ (active => media \subseteq heard)
    BY DEF DeviceFollowsFlag, AtRest
  <2>1. Len(sipQ) = 0 /\ 1..Len(sipQ) = {} OBVIOUS
  <2>2. DeviceWillFollow /\ CallsWillBeLinked
    BY RemaindersDiffer DEF IInv, SettledWhenQuiet
  <2> QED BY <2>1, <2>2 DEF DeviceWillFollow, CallsWillBeLinked
<1> QED BY <1>1, InitInvariant, InductionStep, PTL DEF Spec
=============================================================================
