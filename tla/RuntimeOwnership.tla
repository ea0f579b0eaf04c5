-------------------------- MODULE RuntimeOwnership --------------------------
(***************************************************************************)
(* PJSUA is one per process and clients are many: which client may touch   *)
(* it (CallWaveClient.m, "Engine and account lifecycle").  A client claims *)
(* gRuntimeOwnerToken under @synchronized, but does its PJSUA work on its  *)
(* own sipQueue, where only its own calls exclude one another.  Any thread *)
(* may call any client; what it does between two points where it gives up  *)
(* the class lock or waits for the queue is one action.                    *)
(***************************************************************************)
CONSTANTS
  Client,  \* the clients, each with its token and its queue
  Nobody,  \* a nil token; no thread
  Thread,  \* the threads that call them, and those their queues run on
  Notice   \* which of "network" and "foreground" the platform reports

ASSUME OwnershipAssumption ==
  /\ Nobody \notin Client \cup Thread
  /\ Notice \subseteq {"network", "foreground"}

VARIABLES
  owner,     \* gRuntimeOwnerToken
  runtime,   \* gPJSUACreated and gPJSUAStarted
  account,   \* whose account gAccountId is
  running,   \* isRunning of every client
  alive,     \* clients not deallocated
  turn,      \* the thread whose block every sipQueue runs
  pc,        \* where every thread is
  on,        \* the client it called
  purpose    \* what it starts the engine for

vars == <<owner, runtime, account, running, alive, turn, pc, on, purpose>>

Point == {"idle", "startEngine", "recover", "claim", "startTurn", "starting", "startFailed",
          "configure", "updateTurn", "applying", "accountTurn", "usingAccount",
          "stopTurn", "stopping", "stopped", "release",
          "dealloc", "tearingDown", "deallocated", "wakeTurn",
          "networkTurn", "changingNetwork", "foregroundTurn", "foregrounding"}

(* Inside PJSUA with the runtime to itself, as far as the code can tell.   *)
Inside == {"starting", "startFailed", "applying", "usingAccount", "stopping", "tearingDown"}

(* Inside PJSUA without a look at the owner.                               *)
Uninvited == {"changingNetwork", "foregrounding"}

(* In a block on the queue of the client it called.                        *)
InTurn == Inside \cup Uninvited \cup {"stopped", "release"}

(* Mutant of Init: gAccountId is left at 0 instead of PJSUA_INVALID_ID.    *)
AccountUninitialised ==
  /\ owner = Nobody
  /\ runtime = "down"
  /\ account = "0"
  /\ running = [c \in Client |-> FALSE]
  /\ alive = Client
  /\ turn = [c \in Client |-> Nobody]
  /\ pc = [t \in Thread |-> "idle"]
  /\ on \in [Thread -> Client]
  /\ purpose = [t \in Thread |-> "start"]

Init ==
  /\ owner = Nobody
  /\ runtime = "down"
  /\ account = Nobody
  /\ running = [c \in Client |-> FALSE]
  /\ alive = Client
  /\ turn = [c \in Client |-> Nobody]
  /\ pc = [t \in Thread |-> "idle"]
  /\ on \in [Thread -> Client]
  /\ purpose = [t \in Thread |-> "start"]
-----------------------------------------------------------------------------
At(t, p) == pc[t] = p
Go(t, p) == pc' = [pc EXCEPT ![t] = p]

native == <<runtime, account>>
call == <<on, purpose>>

(* The queue is free, or this thread is in a block on it already.          *)
MayEnter(t) == turn[on[t]] \in {Nobody, t}

(* performSIPSync: its block starts.                                       *)
Enter(t) == MayEnter(t) /\ turn' = [turn EXCEPT ![on[t]] = t]

(* Its block ends; one that ran inline leaves its thread in the outer one. *)
Leave(t) ==
  turn' = IF purpose[t] = "wake" THEN turn ELSE [turn EXCEPT ![on[t]] = Nobody]

(* The call returns; the block of wakeRegistration ends with it.           *)
Return(t) ==
  /\ Go(t, "idle")
  /\ turn' = [turn EXCEPT ![on[t]] = IF @ = t THEN Nobody ELSE @]

(* The block starts and finds nothing to do.                               *)
Pass(t) == MayEnter(t) /\ Return(t)

Owns(c) == owner = c

(* A thread calls an operation of a client it holds a reference to.        *)
Calls(t, c, p, why) ==
  /\ At(t, "idle") /\ c \in alive
  /\ \A s \in Thread : on[s] = c => pc[s] \notin {"dealloc", "tearingDown", "deallocated"}
  /\ on' = [on EXCEPT ![t] = c]
  /\ purpose' = [purpose EXCEPT ![t] = why]
  /\ Go(t, p)
  /\ UNCHANGED <<owner, native, running, alive, turn>>
-----------------------------------------------------------------------------
(* startEngineWithError:                                                   *)

(* Where a thread goes on once the engine runs: startWithError, which      *)
(* wakeRegistration calls, goes on to updateConfiguration.                 *)
GoOn(t) ==
  Go(t, CASE purpose[t] = "start" -> "idle"
          [] purpose[t] = "update" -> "updateTurn"
          [] purpose[t] = "wake" -> "configure")

startEngine(t) ==
  /\ At(t, "startEngine")
  /\ IF running[on[t]] /\ Owns(on[t]) THEN GoOn(t)
     ELSE Go(t, IF running[on[t]] THEN "recover" ELSE "claim")
  /\ UNCHANGED <<owner, native, running, alive, turn, call>>

recoverStale(t) ==
  /\ At(t, "recover")
  /\ running' = [running EXCEPT ![on[t]] = FALSE]
  /\ Go(t, "claim")
  /\ UNCHANGED <<owner, native, alive, turn, call>>

(* Mutant of claimRuntime: only a client that runs is in the way.          *)
claimUnlessRunning(t) ==
  /\ At(t, "claim")
  /\ IF \E c \in Client \ {on[t]} : owner = c /\ running[c]
     THEN Return(t) /\ UNCHANGED owner
     ELSE owner' = on[t] /\ Go(t, "startTurn") /\ UNCHANGED turn
  /\ UNCHANGED <<native, running, alive, call>>

claimRuntime(t) ==
  /\ At(t, "claim")
  /\ IF owner \notin {Nobody, on[t]}
     THEN Return(t) /\ UNCHANGED owner
     ELSE owner' = on[t] /\ Go(t, "startTurn") /\ UNCHANGED turn
  /\ UNCHANGED <<native, running, alive, call>>

(* Mutant of startTurn: a start that a stop overtook is tried again.       *)
startTurnRetries(t) ==
  /\ At(t, "startTurn")
  /\ IF Owns(on[t])
     THEN /\ Enter(t) /\ Go(t, "starting")
          /\ runtime' = IF runtime = "down" THEN "created" ELSE runtime
     ELSE Go(t, "claim") /\ UNCHANGED <<runtime, turn>>
  /\ UNCHANGED <<owner, account, running, alive, call>>

startTurn(t) ==
  /\ At(t, "startTurn")
  /\ IF Owns(on[t])
     THEN /\ Enter(t) /\ Go(t, "starting")
          /\ runtime' = IF runtime = "down" THEN "created" ELSE runtime
     ELSE Pass(t) /\ UNCHANGED runtime
  /\ UNCHANGED <<owner, account, running, alive, call>>

(* startEngineLocked returns; it may fail at any point, and also when the  *)
(* runtime was up already and only the thread could not be registered.     *)
started(t) ==
  /\ At(t, "starting")
  /\ \/ /\ runtime' = "started"
        /\ running' = [running EXCEPT ![on[t]] = TRUE]
        /\ GoOn(t) /\ Leave(t)
     \/ /\ Go(t, "startFailed")
        /\ UNCHANGED <<runtime, running, turn>>
  /\ UNCHANGED <<owner, account, alive, call>>

(* Mutant of DestroyRuntime: gAccountId is not reset.                      *)
DestroyKeepsAccount == runtime' = "down" /\ UNCHANGED account

(* destroyRuntimeOnQueue:                                                  *)
DestroyRuntime == runtime' = "down" /\ account' = Nobody

(* Mutant of startFailed: the claim is kept for the next attempt.          *)
failedKeepsClaim(t) ==
  /\ At(t, "startFailed")
  /\ DestroyRuntime
  /\ Return(t)
  /\ UNCHANGED <<owner, running, alive, call>>

startFailed(t) ==
  /\ At(t, "startFailed")
  /\ DestroyRuntime
  /\ Go(t, "release")
  /\ UNCHANGED <<owner, running, alive, turn, call>>

(* The last @synchronized section of a failed start and of a stop.         *)
release(t) ==
  /\ At(t, "release")
  /\ owner' = IF Owns(on[t]) THEN Nobody ELSE owner
  /\ Return(t)
  /\ UNCHANGED <<native, running, alive, call>>
-----------------------------------------------------------------------------
(* updateConfiguration: and the operations on the account.                 *)

configure(t) ==
  /\ At(t, "configure")
  /\ Go(t, IF running[on[t]] THEN "updateTurn" ELSE "startEngine")
  /\ UNCHANGED <<owner, native, running, alive, turn, call>>

updateTurn(t) ==
  /\ At(t, "updateTurn")
  /\ IF Owns(on[t]) /\ running[on[t]] THEN Enter(t) /\ Go(t, "applying") ELSE Pass(t)
  /\ UNCHANGED <<owner, native, running, alive, call>>

(* applyConfigurationLocked; it may fail before it has an account.         *)
applyConfiguration(t) ==
  /\ At(t, "applying")
  /\ account' \in IF Owns(on[t]) /\ runtime = "started" THEN {account, Nobody, on[t]}
                 ELSE {account}
  /\ Return(t)
  /\ UNCHANGED <<owner, runtime, running, alive, call>>

(* validateAccountWithError:                                               *)
AccountIsValid(c) == Owns(c) /\ running[c] /\ runtime = "started" /\ account # Nobody

(* The block of refresh, unregister, logout and isRegistered.              *)
accountTurn(t) ==
  /\ At(t, "accountTurn")
  /\ IF AccountIsValid(on[t]) THEN Enter(t) /\ Go(t, "usingAccount") ELSE Pass(t)
  /\ UNCHANGED <<owner, native, running, alive, call>>

useAccount(t) ==
  /\ At(t, "usingAccount")
  /\ account' \in IF purpose[t] = "wake" THEN {account}
                 ELSE {account, Nobody}    \* logoutWithError: deletes it
  /\ Return(t)
  /\ UNCHANGED <<owner, runtime, running, alive, call>>

(* The block of wakeRegistration.  Without a valid account it starts the   *)
(* engine from inside its own turn - unless there is no configuration,     *)
(* which this model does not keep.                                         *)
wakeTurn(t) ==
  /\ At(t, "wakeTurn")
  /\ \/ AccountIsValid(on[t]) /\ Enter(t) /\ Go(t, "usingAccount")
     \/ ~AccountIsValid(on[t]) /\ Enter(t) /\ Go(t, "startEngine")
     \/ ~AccountIsValid(on[t]) /\ Pass(t)
  /\ UNCHANGED <<owner, native, running, alive, call>>
-----------------------------------------------------------------------------
(* stop                                                                    *)

stop(t, c) == (running[c] \/ Owns(c)) /\ Calls(t, c, "stopTurn", "start")

stopTurn(t) ==
  /\ At(t, "stopTurn")
  /\ IF Owns(on[t]) THEN Enter(t) /\ Go(t, "stopping")
     ELSE IF running[on[t]] THEN Enter(t) /\ Go(t, "stopped")
     ELSE Pass(t)
  /\ UNCHANGED <<owner, native, running, alive, call>>

stopping(t) ==
  /\ At(t, "stopping")
  /\ DestroyRuntime
  /\ Go(t, "stopped")
  /\ UNCHANGED <<owner, running, alive, turn, call>>

stopped(t) ==
  /\ At(t, "stopped")
  /\ running' = [running EXCEPT ![on[t]] = FALSE]
  /\ Go(t, "release")
  /\ UNCHANGED <<owner, native, alive, turn, call>>
-----------------------------------------------------------------------------
(* dealloc runs on the thread that drops the last reference: no call of    *)
(* the client is in progress.                                              *)

dealloc(t, c) ==
  /\ \A s \in Thread : on[s] = c => At(s, "idle")
  /\ Calls(t, c, "dealloc", "start")

(* Mutant of deallocTurn: ownership is dropped before the runtime.         *)
deallocReleasesFirst(t) ==
  /\ At(t, "dealloc")
  /\ IF Owns(on[t]) THEN Enter(t) /\ Go(t, "tearingDown") /\ owner' = Nobody
     ELSE Go(t, "deallocated") /\ UNCHANGED <<turn, owner>>
  /\ UNCHANGED <<native, running, alive, call>>

deallocTurn(t) ==
  /\ At(t, "dealloc")
  /\ IF Owns(on[t]) THEN Enter(t) /\ Go(t, "tearingDown")
     ELSE Go(t, "deallocated") /\ UNCHANGED turn
  /\ UNCHANGED <<owner, native, running, alive, call>>

tearDown(t) ==
  /\ At(t, "tearingDown")
  /\ DestroyRuntime
  /\ Leave(t) /\ Go(t, "deallocated")
  /\ UNCHANGED <<owner, running, alive, call>>

deallocated(t) ==
  /\ At(t, "deallocated")
  /\ owner' = IF Owns(on[t]) THEN Nobody ELSE owner
  /\ alive' = alive \ {on[t]}
  /\ Go(t, "idle")
  /\ UNCHANGED <<native, running, turn, call>>

(* A new client takes the place of a deallocated one, with a new token.    *)
init(c) ==
  /\ c \notin alive
  /\ alive' = alive \cup {c}
  /\ running' = [running EXCEPT ![c] = FALSE]
  /\ UNCHANGED <<owner, native, turn, pc, call>>
-----------------------------------------------------------------------------
(* handleNetworkChange asks only whether the process has a runtime.        *)

networkTurn(t) ==
  /\ At(t, "networkTurn")
  /\ IF runtime = "started" THEN Enter(t) /\ Go(t, "changingNetwork") ELSE Pass(t)
  /\ UNCHANGED <<owner, native, running, alive, call>>

(* applicationDidBecomeActive looks at the globals off the queue first.    *)
applicationDidBecomeActive(t, c) ==
  running[c] /\ account # Nobody /\ Calls(t, c, "foregroundTurn", "start")

foregroundTurn(t) ==
  /\ At(t, "foregroundTurn")
  /\ IF runtime = "started" /\ account # Nobody
     THEN Enter(t) /\ Go(t, "foregrounding") ELSE Pass(t)
  /\ UNCHANGED <<owner, native, running, alive, call>>

(* pjsua_handle_ip_change, pjsua_acc_set_registration.                     *)
noticed(t) ==
  /\ pc[t] \in Uninvited
  /\ Return(t)
  /\ UNCHANGED <<owner, native, running, alive, call>>
-----------------------------------------------------------------------------
Proceeds(t) ==
  \/ startEngine(t) \/ recoverStale(t) \/ claimRuntime(t)
  \/ startTurn(t) \/ started(t) \/ startFailed(t) \/ release(t)
  \/ configure(t) \/ updateTurn(t) \/ applyConfiguration(t)
  \/ accountTurn(t) \/ useAccount(t) \/ wakeTurn(t)
  \/ stopTurn(t) \/ stopping(t) \/ stopped(t)
  \/ deallocTurn(t) \/ tearDown(t) \/ deallocated(t)
  \/ networkTurn(t) \/ foregroundTurn(t) \/ noticed(t)

Begins(t, c) ==
  \/ Calls(t, c, "startEngine", "start")
  \/ Calls(t, c, "configure", "update")
  \/ Calls(t, c, "accountTurn", "start")
  \/ Calls(t, c, "wakeTurn", "wake")
  \/ stop(t, c)
  \/ dealloc(t, c)
  \/ "network" \in Notice /\ Calls(t, c, "networkTurn", "start")
  \/ "foreground" \in Notice /\ applicationDidBecomeActive(t, c)

Next ==
  \/ \E t \in Thread : Proceeds(t) \/ \E c \in Client : Begins(t, c)
  \/ \E c \in Client : init(c)

Spec == Init /\ [][Next]_vars

(* A call goes on, and a serial queue comes round to every block.          *)
FairSpec == Spec /\ \A t \in Thread : SF_vars(Proceeds(t))
-----------------------------------------------------------------------------
(* Every variable has its type.                                            *)
TypeOK ==
  /\ owner \in Client \cup {Nobody}
  /\ runtime \in {"down", "created", "started"}
  /\ account \in Client \cup {Nobody}
  /\ running \in [Client -> BOOLEAN]
  /\ alive \subseteq Client
  /\ turn \in [Client -> Thread \cup {Nobody}]
  /\ pc \in [Thread -> Point]
  /\ on \in [Thread -> Client]
  /\ purpose \in [Thread -> {"start", "update", "wake"}]

(* Two threads are never inside PJSUA at once, whatever clients and queues *)
(* they came through (CallWaveClient.m:904-906): each of them found its    *)
(* client to be the owner when its block began, and nobody can take the    *)
(* ownership away until the block ends.                                    *)
OneInsideRuntime ==
  \A s, t \in Thread : pc[s] \in Inside /\ pc[t] \in Inside => s = t

(* A client that finds the runtime unowned finds it clean: nothing is left *)
(* of the former owner that startEngineLocked would take for its own.      *)
UnownedIsDown == owner = Nobody => runtime = "down" /\ account = Nobody

(* The account on the registrar is the owner's, never that of a client     *)
(* whose update was overtaken by its own stop and by another's start.      *)
AccountIsOwners == account # Nobody => account = owner

(* No claim is leaked: a client that owns the runtime runs, or somebody is *)
(* in a call of it that will start the engine or give the runtime back.    *)
OwnerRunsOrIsBusy ==
  \A c \in Client :
    owner = c =>
      \/ running[c] /\ runtime = "started"
      \/ \E t \in Thread : on[t] = c /\ pc[t] # "idle"

(* Every call returns: a stop is not shut out for good by those that start *)
(* again, and a wake-up that starts the engine does not wait for the queue *)
(* whose block it is.                                                      *)
CallsReturn == \A t \in Thread : pc[t] # "idle" ~> pc[t] = "idle"
Lease == INSTANCE RuntimeLease WITH inside <- {t \in Thread : pc[t] \in Inside}

(* Ownership is a lease: nothing changes in PJSUA but by the one thread    *)
(* inside, for the owner, and it changes hands empty (CallWaveClient.m:    *)
(* 902, 951, 1211, 1437).                                                  *)
IsALease == Lease!Spec
-----------------------------------------------------------------------------
(* "two clients mutate the process-global runtime from different queues"   *)
(* (CallWaveClient.m:905-906) is what ownership is there to prevent.       *)
OneClientAtATime ==
  \A s, t \in Thread :
    pc[s] \in Inside /\ pc[t] \in Inside \cup Uninvited => on[s] = on[t]
=============================================================================
