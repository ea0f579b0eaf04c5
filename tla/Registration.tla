---------------------------- MODULE Registration ----------------------------
(***************************************************************************)
(* One client's account on the registrar and what the client says of it    *)
(* (CallWaveClient.m, "Engine and account lifecycle" and "Network and      *)
(* application lifecycle"; CallWaveClient+Async.swift).                    *)
(*                                                                         *)
(* registrationState has two writers that do not wait for one another: the *)
(* operations, in their turn on sipQueue, and the answers of the server,   *)
(* which PJSIP's thread passes on to the main queue.  A turn and a block   *)
(* of the main queue interleave at every write.                            *)
(***************************************************************************)
EXTENDS Naturals, Sequences

CONSTANTS
  Path,    \* satisfied network paths with different signatures
  Offline, \* an unsatisfied path
  First,   \* the paths the device may be on at first
  Setups   \* how often each kind of event happens

Event == {"update", "engineFails", "updateFails", "unregister", "logout", "stop", "wake",
          "foreground", "refused", "renewal", "wait", "move"}

Unseen == "unseen"

ASSUME RegistrationAssumption ==
  /\ Offline \notin Path /\ First \subseteq Path \cup {Offline}
  /\ Unseen \notin Path \cup {Offline}
  /\ Setups \subseteq [Event -> Nat]

VARIABLES
  left,        \* what is left of the setup
  state,       \* registrationState
  error,       \* registrationError is there
  engine,      \* isRunning, gPJSUAStarted
  configured,  \* configuration is there
  account,     \* gAccountId is valid
  reg,         \* PJSUA's registration: off, active, or failed and to be retried
  request,     \* the REGISTER under way; PJSUA has at most one
  sip,         \* how far the turn on sipQueue has come
  host,        \* an update that has started the engine and waits for its turn
  wakes,       \* blocks of wakeRegistration on sipQueue
  nudges,      \* blocks of applicationDidBecomeActive
  mainQ,       \* blocks on the main queue
  main,        \* the answer whose block has written the state only
  waiter,      \* waitUntilRegistered
  path,        \* the network
  built,       \* the path the transports were built for
  monitor,     \* the path monitor
  reports,     \* its reports on sipQueue
  observed,    \* hasObservedPath and lastPathSignature
  outrun,      \* history: the state is that of an answer older than the last turn
  early        \* history: the path changed after the engine started, before the monitor did

published == <<state, error, outrun>>
pjsua == <<engine, account, reg, request>>
blocks == <<host, wakes, nudges>>
network == <<path, built, monitor, reports, observed, early>>
vars == <<left, published, configured, pjsua, sip, blocks, mainQ, main, waiter, network>>

State == {"stopped", "registering", "registered", "failed"}
Answer == {"active", "refused", "unregistered"}

Init ==
  /\ left \in Setups
  /\ state = "stopped" /\ error = FALSE /\ outrun = FALSE
  /\ configured \in BOOLEAN
  /\ engine = FALSE /\ account = FALSE /\ reg = "off" /\ request = "none"
  /\ sip = "idle" /\ host = "idle" /\ wakes = 0 /\ nudges = 0
  /\ mainQ = <<>> /\ main = "idle" /\ waiter = "off"
  /\ path \in First
  /\ built = Offline /\ monitor = "off" /\ reports = <<>>
  /\ observed = Unseen /\ early = FALSE
-----------------------------------------------------------------------------
Spend(e) == left[e] > 0 /\ left' = [left EXCEPT ![e] = @ - 1]

(* A turn writes the state: the answers on their way are older than that.  *)
TurnWrites(s) ==
  /\ state' = s /\ outrun' = FALSE
  /\ mainQ' = [i \in DOMAIN mainQ |-> [what |-> mainQ[i].what, stale |-> TRUE]]

Post(what) == mainQ' = Append(mainQ, [what |-> what, stale |-> FALSE])

(* pjsua_acc_set_registration: PJSIP_EBUSY while another REGISTER is out.  *)
Send(kind) == request' = IF request = "none" THEN kind ELSE request

AccountIsValid == engine /\ account

(* A monitor is started by a block queued behind the engine's own turn.    *)
EngineStarts ==
  /\ engine' = TRUE
  /\ built' = IF engine THEN built ELSE path
  /\ monitor' = IF monitor = "off" THEN "starting" ELSE monitor
  /\ early' = (engine /\ early)
  /\ UNCHANGED <<path, reports, observed>>

(* handleNetworkChangeLocked: pjsua_handle_ip_change rebuilds and          *)
(* registers again.                                                        *)
IpChange ==
  IF engine
  THEN /\ built' = path /\ early' = FALSE
       /\ IF account THEN Send("register") ELSE UNCHANGED request
  ELSE UNCHANGED <<built, early, request>>
-----------------------------------------------------------------------------
(* Operations of the host, each from a thread of its own.                  *)

(* startWithError, loginWithConfiguration and updateConfiguration: start   *)
(* the engine, if need be; the account has its turn later.                 *)
startEngine ==
  /\ host = "idle" /\ sip = "idle" /\ Spend("update")
  /\ host' = "updating"
  /\ EngineStarts
  /\ UNCHANGED <<published, configured, account, reg, request, sip, wakes, nudges,
                 mainQ, main, waiter>>

startEngineFails ==
  /\ host = "idle" /\ sip = "idle" /\ ~engine /\ Spend("engineFails")
  /\ \/ configured /\ host' = "failing"
     \/ UNCHANGED host
  /\ UNCHANGED <<published, configured, pjsua, sip, wakes, nudges, mainQ, main, waiter,
                 network>>

(* Only startWithError says so, and not in the turn that failed.           *)
startFailed ==
  /\ host = "failing"
  /\ host' = "idle" /\ TurnWrites("failed")
  /\ UNCHANGED <<left, error, configured, pjsua, sip, wakes, nudges, main, waiter, network>>

updateTurn ==
  /\ host = "updating" /\ sip = "idle"
  /\ host' = "idle"
  /\ IF engine THEN sip' = "configuring" /\ TurnWrites("registering")
     ELSE UNCHANGED <<sip, state, outrun, mainQ>>
  /\ UNCHANGED <<left, error, configured, pjsua, wakes, nudges, main, waiter, network>>

(* applyConfigurationLocked: an account that is the same is registered     *)
(* again; one that is not is replaced by another.                          *)
applySame ==
  /\ sip = "configuring" /\ account /\ configured
  /\ IF request = "none" THEN sip' = "idle" ELSE sip' = "failing"
  /\ Send("register")
  /\ UNCHANGED <<left, published, configured, engine, account, reg, blocks, mainQ, main,
                 waiter, network>>

applyNew ==
  /\ sip = "configuring"
  /\ sip' = "idle"
  /\ configured' = TRUE /\ account' = TRUE /\ reg' = "off" /\ request' = "register"
  /\ UNCHANGED <<left, published, engine, blocks, mainQ, main, waiter, network>>

(* No transport: the former account is still there.  No account: it is not. *)
applyFails ==
  /\ sip = "configuring" /\ Spend("updateFails")
  /\ sip' = "failing"
  /\ \/ UNCHANGED <<account, reg, request>>
     \/ account' = FALSE /\ reg' = "off" /\ request' = "none"
  /\ UNCHANGED <<published, configured, engine, blocks, mainQ, main, waiter, network>>

(* Mutant of updateFailed: only the error is recorded.                     *)
updateFailsSilently ==
  /\ sip = "failing"
  /\ sip' = "failed"
  /\ UNCHANGED <<state, outrun, mainQ, left, error, configured, pjsua, blocks, main, waiter,
                 network>>

updateFailed ==
  /\ sip = "failing"
  /\ sip' = "failed" /\ TurnWrites("failed")
  /\ UNCHANGED <<left, error, configured, pjsua, blocks, main, waiter, network>>

updateFailedError ==
  /\ sip = "failed"
  /\ sip' = "idle" /\ error' = TRUE
  /\ UNCHANGED <<left, state, outrun, configured, pjsua, blocks, mainQ, main, waiter, network>>

unregister ==
  /\ sip = "idle" /\ AccountIsValid /\ Spend("unregister")
  /\ IF reg # "active" THEN TurnWrites("stopped") /\ UNCHANGED request
     ELSE Send("unregister") /\ UNCHANGED <<state, outrun, mainQ>>
  /\ UNCHANGED <<error, configured, engine, account, reg, sip, blocks, main, waiter, network>>

logout ==
  /\ sip = "idle" /\ AccountIsValid /\ Spend("logout")
  /\ account' = FALSE /\ reg' = "off" /\ request' = "none"
  /\ configured' = FALSE
  /\ sip' = "releasing"
  /\ UNCHANGED <<published, engine, blocks, mainQ, main, waiter, network>>

(* Mutant of stop: gAccountId outlives the runtime.                        *)
stopKeepsAccount ==
  /\ sip = "idle" /\ engine /\ Spend("stop")
  /\ engine' = FALSE /\ UNCHANGED <<account, reg, request>>
  /\ IF monitor = "on" THEN monitor' = "off" /\ observed' = Unseen
     ELSE UNCHANGED <<monitor, observed>>
  /\ sip' = "releasing"
  /\ UNCHANGED <<published, configured, blocks, mainQ, main, waiter, path, built, reports,
                 early>>

stop ==
  /\ sip = "idle" /\ engine /\ Spend("stop")
  /\ engine' = FALSE /\ account' = FALSE /\ reg' = "off" /\ request' = "none"
  /\ IF monitor = "on" THEN monitor' = "off" /\ observed' = Unseen
     ELSE UNCHANGED <<monitor, observed>>
  /\ sip' = "releasing"
  /\ UNCHANGED <<published, configured, blocks, mainQ, main, waiter, path, built, reports,
                 early>>

released ==
  /\ sip = "releasing"
  /\ sip' = "released" /\ TurnWrites("stopped")
  /\ UNCHANGED <<left, error, configured, pjsua, blocks, main, waiter, network>>

releasedError ==
  /\ sip = "released"
  /\ sip' = "idle" /\ error' = FALSE
  /\ UNCHANGED <<left, state, outrun, configured, pjsua, blocks, mainQ, main, waiter, network>>
-----------------------------------------------------------------------------
(* A push, and the application in the foreground.                          *)

push ==
  /\ Spend("wake")
  /\ wakes' = wakes + 1
  /\ UNCHANGED <<published, configured, pjsua, sip, host, nudges, mainQ, main, waiter, network>>

(* wakeRegistration: its turn goes on to be that of startWithError.        *)
wakeRegistration ==
  /\ wakes > 0 /\ sip = "idle"
  /\ wakes' = wakes - 1
  /\ \/ /\ AccountIsValid /\ Send("register")
        /\ UNCHANGED <<left, state, outrun, mainQ, engine, sip, network>>
     \/ /\ ~AccountIsValid /\ ~configured
        /\ UNCHANGED <<left, state, outrun, mainQ, engine, request, sip, network>>
     \/ /\ ~AccountIsValid /\ configured /\ EngineStarts
        /\ sip' = "configuring" /\ TurnWrites("registering")
        /\ UNCHANGED <<left, request>>
     \/ /\ ~engine /\ configured /\ Spend("engineFails") /\ TurnWrites("failed")
        /\ UNCHANGED <<engine, request, sip, network>>
  /\ UNCHANGED <<error, configured, account, reg, host, nudges, main, waiter>>

applicationDidBecomeActive ==
  /\ engine /\ account /\ state # "registered" /\ Spend("foreground")
  /\ nudges' = nudges + 1
  /\ UNCHANGED <<published, configured, pjsua, sip, host, wakes, mainQ, main, waiter, network>>

nudge ==
  /\ nudges > 0 /\ sip = "idle"
  /\ nudges' = nudges - 1
  /\ IF AccountIsValid THEN Send("register") ELSE UNCHANGED request
  /\ UNCHANGED <<left, published, configured, engine, account, reg, sip, host, wakes, mainQ,
                 main, waiter, network>>
-----------------------------------------------------------------------------
(* The server answers; PJSIP's thread reports it in onRegistrationState.   *)

accepted ==
  /\ request # "none"
  /\ request' = "none"
  /\ IF request = "register" THEN reg' = "active" /\ Post("active")
     ELSE reg' = "off" /\ Post("unregistered")
  /\ UNCHANGED <<left, published, configured, engine, account, sip, blocks, main, waiter,
                 network>>

refused ==
  /\ request # "none" /\ Spend("refused")
  /\ request' = "none"
  /\ reg' = IF request = "register" THEN "failed" ELSE "off"
  /\ Post("refused")
  /\ UNCHANGED <<published, configured, engine, account, sip, blocks, main, waiter, network>>

(* PJSUA renews a registration before it expires and retries a failed one. *)
renewal ==
  /\ account /\ reg # "off" /\ request = "none" /\ Spend("renewal")
  /\ request' = "register"
  /\ UNCHANGED <<published, configured, engine, account, reg, sip, blocks, mainQ, main, waiter,
                 network>>

(* Mutant of Meaning: any 200 is a registration.                           *)
MeaningOfStatus(a) == IF a = "refused" THEN "failed" ELSE "registered"

(* handleRegistrationStatus:active:reason: in the main queue.              *)
Meaning(a) ==
  CASE a = "active" -> "registered"
    [] a = "refused" -> "failed"
    [] a = "unregistered" -> "stopped"

statusArrives ==
  /\ main = "idle" /\ mainQ # <<>> /\ Head(mainQ).what \in Answer
  /\ state' = Meaning(Head(mainQ).what)
  /\ outrun' = Head(mainQ).stale
  /\ main' = Head(mainQ).what
  /\ mainQ' = Tail(mainQ)
  /\ UNCHANGED <<left, error, configured, pjsua, sip, blocks, waiter, network>>

(* ... the error follows, and the event tells the observers.               *)
statusPublished ==
  /\ main # "idle"
  /\ error' = (main = "refused")
  /\ waiter' = IF waiter = "observing" /\ main = "active" THEN "returned" ELSE waiter
  /\ main' = "idle"
  /\ UNCHANGED <<left, state, outrun, configured, pjsua, sip, blocks, mainQ, network>>
-----------------------------------------------------------------------------
(* waitUntilRegistered: looks, then observes.                              *)

waitUntilRegistered ==
  /\ waiter = "off" /\ Spend("wait")
  /\ waiter' = IF state = "registered" THEN "returned" ELSE "looked"
  /\ UNCHANGED <<published, configured, pjsua, sip, blocks, mainQ, main, network>>

(* registrationStates: addEventObserver hands the handler to the main queue. *)
registrationStates ==
  /\ waiter = "looked"
  /\ waiter' = "subscribing" /\ Post("observe")
  /\ UNCHANGED <<left, published, configured, pjsua, sip, blocks, main, network>>

addEventObserver ==
  /\ main = "idle" /\ mainQ # <<>> /\ Head(mainQ).what = "observe"
  /\ mainQ' = Tail(mainQ)
  /\ waiter' = IF waiter = "subscribing" THEN "observing" ELSE waiter
  /\ UNCHANGED <<left, published, configured, pjsua, sip, blocks, main, network>>

timedOut ==
  /\ waiter \in {"subscribing", "observing"}
  /\ waiter' = "timedOut"
  /\ UNCHANGED <<left, published, configured, pjsua, sip, blocks, mainQ, main, network>>
-----------------------------------------------------------------------------
(* The path monitor, all of it on sipQueue.  A monitor reports the path it *)
(* starts with and every change.                                           *)

startPathMonitor ==
  /\ monitor = "starting" /\ sip = "idle"
  /\ IF engine THEN monitor' = "on" /\ reports' = Append(reports, path)
     ELSE monitor' = "off" /\ UNCHANGED reports
  /\ UNCHANGED <<left, published, configured, pjsua, sip, blocks, mainQ, main, waiter,
                 path, built, observed, early>>

(* The device moves to another network, or out of reach.                   *)
pathChanges ==
  /\ Spend("move")
  /\ path' \in (Path \cup {Offline}) \ {path}
  /\ IF monitor = "on" THEN reports' = Append(reports, path') /\ UNCHANGED early
     ELSE early' = engine /\ UNCHANGED reports
  /\ UNCHANGED <<published, configured, pjsua, sip, blocks, mainQ, main, waiter,
                 built, monitor, observed>>

(* hasObservedPath and a signature that is neither the last nor none.      *)
IsHandover(p) == observed \notin {Unseen, p} /\ p # Offline

(* Mutant of handleObservedPath: a change is not remembered.               *)
handleFirstPath ==
  /\ reports # <<>> /\ sip = "idle"
  /\ reports' = Tail(reports)
  /\ observed' = IF observed = Unseen THEN Head(reports) ELSE observed
  /\ IF IsHandover(Head(reports)) THEN IpChange ELSE UNCHANGED <<built, early, request>>
  /\ UNCHANGED <<left, published, configured, engine, account, reg, sip, blocks, mainQ, main,
                 waiter, path, monitor>>

(* A report may still be on the queue when stop cancels the monitor.       *)
handleObservedPath ==
  /\ reports # <<>> /\ sip = "idle"
  /\ reports' = Tail(reports) /\ observed' = Head(reports)
  /\ IF IsHandover(Head(reports)) THEN IpChange ELSE UNCHANGED <<built, early, request>>
  /\ UNCHANGED <<left, published, configured, engine, account, reg, sip, blocks, mainQ, main,
                 waiter, path, monitor>>
-----------------------------------------------------------------------------
SipQueue ==
  \/ updateTurn \/ applySame \/ applyNew \/ applyFails \/ updateFailed \/ updateFailedError
  \/ released \/ releasedError \/ wakeRegistration \/ nudge
  \/ startPathMonitor \/ handleObservedPath

MainQueue == statusArrives \/ statusPublished \/ addEventObserver

Server == accepted \/ refused

Next ==
  \/ startEngine \/ startEngineFails \/ startFailed \/ unregister \/ logout \/ stop
  \/ push \/ applicationDidBecomeActive \/ renewal
  \/ waitUntilRegistered \/ registrationStates \/ timedOut
  \/ pathChanges
  \/ SipQueue \/ MainQueue \/ Server

Spec == Init /\ [][Next]_vars

(* Both queues run what is on them, and a server that is gone is a timeout *)
(* of the transaction: every REGISTER has an answer.                       *)
FairSpec == Spec /\ WF_vars(SipQueue) /\ WF_vars(MainQueue) /\ WF_vars(Server)
-----------------------------------------------------------------------------
PublishedOK ==
  /\ state \in State /\ error \in BOOLEAN /\ outrun \in BOOLEAN
  /\ mainQ \in Seq([what : Answer \cup {"observe"}, stale : BOOLEAN])
  /\ main \in Answer \cup {"idle"}
  /\ waiter \in {"off", "looked", "subscribing", "observing", "returned", "timedOut"}

PjsuaOK ==
  /\ configured \in BOOLEAN /\ engine \in BOOLEAN /\ account \in BOOLEAN
  /\ reg \in {"off", "active", "failed"}
  /\ request \in {"none", "register", "unregister"}
  /\ ~account => reg = "off" /\ request = "none"
  /\ account => engine
  /\ sip = "configuring" => engine

TurnsOK ==
  /\ sip \in {"idle", "configuring", "failing", "failed", "releasing", "released"}
  /\ host \in {"idle", "updating", "failing"} /\ wakes \in Nat /\ nudges \in Nat

NetworkOK ==
  /\ monitor \in {"off", "starting", "on"} /\ early \in BOOLEAN
  /\ path \in Path \cup {Offline} /\ built \in Path \cup {Offline}
  /\ observed \in Path \cup {Offline, Unseen} /\ reports \in Seq(Path \cup {Offline})

(* Every variable has its type; PJSUA has a registration only for an       *)
(* account, and an account only while it runs (CallWaveClient.m:1419,      *)
(* 1575).                                                                  *)
TypeOK == PublishedOK /\ PjsuaOK /\ TurnsOK /\ NetworkOK

(* Nothing is under way.                                                   *)
AtRest ==
  /\ sip = "idle" /\ main = "idle" /\ mainQ = <<>> /\ request = "none"
  /\ host = "idle" /\ wakes = 0 /\ nudges = 0

(* With nothing under way the state says what PJSUA has: it claims a       *)
(* registration only if there is one, and denies one only because an       *)
(* update failed.  This leaves out what RegisteredIsBelievable is about:   *)
(* an answer that a later turn has overtaken (CallWaveClient.m:3278).      *)
SettledStateIsTrue ==
  AtRest /\ ~outrun =>
    /\ state = "registered" => reg = "active"
    /\ reg = "active" => state \in {"registered", "failed"}

(* With nothing under way the transports are those of the network the      *)
(* device is on, whatever it did in between and however often the engine   *)
(* was stopped.  This leaves out what HandoverIsSeen is about: a change    *)
(* before the monitor starts (CallWaveClient.m:1614).                      *)
Watched == monitor = "on" /\ reports = <<>> /\ path # Offline

TransportsFollowPath == sip = "idle" /\ engine /\ Watched /\ ~early => built = path

(* The state does not stay at registering: every way out of an update      *)
(* leads to an answer or to a failure.                                     *)
RegisteringEnds == state = "registering" ~> state # "registering"
-----------------------------------------------------------------------------
(* Claims of the documents that the code does not keep.                    *)

(* "The state that follows has to be believable: a client that claims to   *)
(* be registered when it is not ..." (FIELD-TESTING.md:271-274)            *)
RegisteredIsBelievable == AtRest /\ state = "registered" => reg = "active"

(* The monitor "watches for Wi-Fi/cellular handovers and drives            *)
(* pjsua_handle_ip_change()" (CallWaveKit/README.md:416-417).              *)
HandoverIsSeen == sip = "idle" /\ engine /\ Watched => built = path

(* registrationError "holds the last registration failure while            *)
(* registrationState == .failed" (CallWaveKit/README.md:435-436).          *)
FailedHasError == AtRest /\ state = "failed" => error

(* waitUntilRegistered "suspends until the account is registered"          *)
(* (CallWaveClient+Async.swift:107): it does not wait on when it is.       *)
WaiterIsTold == AtRest /\ state = "registered" => waiter # "observing"

(* A push "re-registers so the intercom's INVITE can reach the device"     *)
(* (CallWaveClient.m:3329): after the last unregister, and with a server   *)
(* that says yes, it leads to a registration that stays.                   *)
WakeRegisters ==
  wakes > 0 /\ account /\ left["unregister"] = 0 ~> [](reg = "active")
=============================================================================
