# CallWaveKit in TLA+

Specifications of the concurrent core of CallWaveKit, the iOS framework that turns VoIP pushes
and SIP INVITEs into calls on CallKit or on the host's own screens. The models are translated
from `src/CallWaveKit`; line numbers below are of `CallWaveClient.m` unless a file is named.
`PROJECT.json` maps every definition to its lines.

## The system

Four kinds of thread meet in one `CallWaveClient`:

- the **main queue**, FIFO; pushes, CallKit actions and most host calls arrive on the main thread,
  and `dispatchMain` runs inline there;
- **sipQueue**, a serial queue of each client, for every PJSUA call (`performSIPSync/Async`);
- **PJSIP's worker** (`thread_cnt = 1`), which runs the callbacks of what the peer does - while
  `pjsua_call_hangup` and a final response run the `DISCONNECTED` callback on the caller's thread,
  before they return;
- timers (`dispatch_after`), the `CXProvider`, PushKit and AVAudioSession's notifications.

A block captures a UUID or a call id when it is dispatched and reads everything else when it runs.
PJSUA itself, its account and the table of pending final responses are process-global, while
clients may be several.

| component | state | operations | interacts with | what makes it correct |
|---|---|---|---|---|
| call registry (`CallWaveCallRegistry`) | records by UUID, call id to UUID, expiring cancellations, under one lock | register, bind, remove, mark and take cancelled, remove all, lookups | every other part, from every thread | the index agrees both ways although call ids are reused; a cancellation is taken once and in time |
| call state machine (`CallWaveCallStateMachine`) | current UUID, published state | publish, adopt, detach, clear, reset, resolve | the registry; the host's getters | the projection follows the calls there are |
| incoming calls, host's CallKit | the two above, blocks on two queues, timers, PJSUA's dialogs | announce, retract, accept, end, INVITE, confirmation, disconnection, ring timeout, poll, settle | PJSUA, host | no dialog without a record, no call that rings for ever, a rejection outlives the wait for its INVITE, a push and its INVITE find each other, nothing is answered that nobody accepted |
| incoming calls, client's CallKit | also the reports CallKit has not processed and the screens it shows | report, refusal, taps, reset, cancellation push | CallKit, PushKit | what rings is shown, what is over is dismissed |
| runtime ownership | owner token, PJSUA globals, `isRunning` | start, update, account operations, stop, dealloc, network change | all clients of the process | one client in the runtime, a clean handover, no leaked claim, calls return |
| push acknowledgement (`CallWavePushCompletionGate`) | flag, handler, lock | finish | CallKit's answer, the deadline | the handler runs exactly once |
| call teardown and its observer | table of 8 responses waiting for an ACK | send, retransmit, acknowledge, count, drain | PJSIP's transactions, stop and logout | success of the drain means nothing is left |
| audio session coordinator | `audioSessionActive`, fallback timers | activate, deactivate, interrupt, reset, answer | sipQueue's sound device, the calls' media | at rest the device is what the flag says and every call is linked to it; a call is heard even if CallKit never activates |
| registration and wake-up | `registrationState` and its error, PJSUA's account and REGISTER | update, unregister, logout, stop, wake, foreground, the registrar's answers | runtime, network, `waitUntilRegistered` | the state, written from two queues, settles on what PJSUA has; it does not stay at registering |
| path monitor | path signature, reports on sipQueue | start, report, cancel | PJSUA's transports | the transports are those of the network the device is on |
| mute and hold | flags of a call, the projection, the bridge | set from three threads | conference bridge, PJSUA's media | microphone, flag and button agree; a call shown as held is held |
| statistics and quality | sampling timer, latches | sample, warn, end the call | mute and hold's calls | a call whose peer is silent is ended |
| Swift async wrapper, events | an observer on the main queue | add, time out | registration | a waiter is told |
| DTMF, configuration, logging, errors | none a step of two actors depends on | | | not modelled |

Hard behaviour: main-thread decisions applied a queue hop later; callbacks that run before the
call that caused them returns; call ids PJSUA gives to the next INVITE; timers nobody cancels;
pushes twice, late or after their retraction; CallKit answering after the fact; a runtime shared
by clients with a queue each. PROJECT.json lists the hazards line by line.

## The modules

| module | models |
|---|---|
| `CallRegistry` | the registry as a value; every method is an operator |
| `CallRegistryAPI` | the registry on its own: any thread calls any method while time passes |
| `CallStateMachine` | the state machine over a registry, again as operators |
| `CallLifecycle` | incoming calls with CallKit owned by the host |
| `ManagedCalls` | extends `CallLifecycle` with the CXProvider and PushKit |
| `RuntimeLease` | what the ownership of PJSUA promises |
| `RuntimeOwnership` | clients and threads against the process-global runtime; implements the former |
| `Registration` | one client's account against the registrar and the network: sipQueue, main queue, wake-ups, path monitor, `waitUntilRegistered` |
| `AudioSession` | the session's handlers on two threads, the sound device, the media of the calls |
| `CallControls` | mute, hold and the statistics timer of answered calls |
| `PushAcknowledgement` | what the acknowledgement of a push promises |
| `PushCompletionGate` | `finish`, statement by statement; implements the former |
| `CallTeardown` | transactions, the observer's table, the drain |
| `CallRegistryProofs`, `RuntimeOwnershipProofs`, `RegistrationProofs`, `PushCompletionGateProofs`, `CallTeardownProofs`, `AudioSessionProofs`, `CallControlsProofs` | the theorems about the module of that name |
| `CallLifecycleProofs` | the theorems about `CallLifecycle` and `ManagedCalls` |
| `MC*` | instances for TLC |

`CallLifecycle` composes `CallRegistry` and `CallStateMachine` (through EXTENDS); `ManagedCalls`
reuses its SIP side, blocks and peers and replaces announcement, termination and INVITE.

**Registry.** A record keeps state, call id, creation date, the date of its cancellation and
whether it was reported; caller names, mute and hold are left out. `cancelledAt` is 0 for none.
`callAwaitingInvite`, `mostRecentCall` and `take` compare dates, so equal dates leave a choice; the
operators return the set of possible answers. A method holds the lock from beginning to end, so it
is one step. Dates only order and expire, so a small clock does.

**Lifecycle.** `mainQ` and `sipQ` are sequences of blocks `[op, uuid, id]`; an action takes the
head and does all of that block. `delayed` is the bag of blocks `dispatch_after` holds. `dialog[i]`
is what PJSUA has in slot i: `early`, `connecting` (200 sent), `confirmed`, `closing` (hung up, BYE
in flight); a final response frees the slot at once, a hangup when its BYE is done. A callback on
PJSIP's thread is one action that looks its call up and appends a block, as the code does. The
half of `onIncomingCall` on that thread and the half on the main queue are two actions. The
deadline of the poll is a choice, taken only when there is no INVITE yet, where the code tests it.
An INVITE carries, as history only, the announced call it is meant for: the code cannot see it.

`stop()` is its two halves on sipQueue, the registry first and PJSUA's dialogs one by one after it,
with the main queue and PJSIP's thread running in between, and a block on the main queue that
reports the calls. Called on the main thread it holds that thread until it is done
(`MainThreadFree`) and reports inline. Whether there is an engine is not kept: without one there is
no dialog and no INVITE comes, and the next wake-up starts it, so a model that always has one has
every behaviour.

**CallKit.** `reports` is the FIFO of what the provider was told; each is accepted or refused, by
a choice, except that a call on the screen is always refused as a duplicate. The completion runs
on CallKit's own queue, hence is one action with the answer. A cancellation push is reported
first and applied after CallKit's answer, whatever that was.

**Ownership.** An operation is cut where the code leaves `@synchronized` or waits for a queue. A
thread holds a client's turn from `performSIPSync` to the end of the block; a block that is on the
queue already runs inline (`MayEnter`, `Leave`), which is how `wakeRegistration` starts the engine
from its own turn. A client that is deallocated has no other caller; a new one may take its place.
`handleNetworkChange` and `applicationDidBecomeActive` enter PJSUA without a look at the owner
(`Uninvited`); they change nothing the model keeps.

**Registration.** Here the client has the runtime to itself and the question is what it says of its
account. A turn of sipQueue is cut between `registrationState` and `registrationError` (two
`dispatchMain`s off the main thread) and around the work of an update; a block of the main queue is
cut the same way. `request` is the one REGISTER PJSUA lets be under way; an answer is posted with
what PJSIP's thread saw of it. `outrun` and `early` are history: the state is that of an answer a
later turn has overtaken; the network changed before the monitor was started, in a block of its own.

**Audio.** A handler of the coordinator is a list of steps - write the flag, ask for the device, look
for calls, `setActive` - and handlers of the main thread and of AVAudioSession's interleave between
steps. What it asks for is a block on sipQueue. `apart` is history: flag and device were last set by
handlers that overlapped, by a reset, a restart or a device that did not open.

**Controls.** Every control is asked for on the main thread, applied in a turn of sipQueue and shown
in a block of the main queue; `setMicrophoneMuted:error:` waits for its turn on a thread of the host
and posts afterwards (`unposted`). The media moves underneath. Each life of a call has a slot of its
own in PJSUA: call ids that come back are `CallLifecycle`'s matter.

**Teardown.** PJSUA's count and the table are read one after the other under different locks;
sending a response is reclaim, track, send, as in `onFinalResponseSent`. Both sipQueue and the
worker send. Timer H and the lifetime of 32 s are one step, `timerH`, between the two.

## What is checked

| run | asks | states |
|---|---|---|
| `MCCallRegistry` | 2 UUIDs, 2 call ids, clock to 4, window 1: any order of methods keeps the index; refusals are in time | 10^5 |
| `MCCallLifecycle` | four surroundings: two INVITEs on one slot with a repeated push, a retraction, an accept and an end; two INVITEs on two slots; a rejection that may expire; a stop between two INVITEs and two pushes | 2.6 million |
| `MCCallTimers` | liveness with the ring timeout, with and without failures of PJSUA to send, and with a stop | 429,000 |
| `MCManagedCalls` | CallKit that may refuse, against repeated pushes, retraction, taps, reset, ring timeout, stop | 546,000 |
| `MCRuntimeOwnership` | 2 clients, 2 threads, every operation, any number of times: the invariants, the refinement of `RuntimeLease`, and every call returns | 44,000 |
| `MCRegistration` | 2 networks and none; updates that fail or are overtaken, sessions that end in every way, pushes and the foreground, moves against stops | 337,000 |
| `MCAudioSession` | 1 or 2 calls; CallKit late or never, an interruption, a media reset, a restart, failures of each | 292,000 |
| `MCCallControls` | a call muted from two threads, two calls at once, holds that fail, a silent call that comes back, a provider reset | 594,000 |
| `MCPushGate` | 4 sources race for one push; refinement of the acknowledgement; the handler runs | small, complete |
| `MCCallTeardown` | 4 transactions, a table of 2, 2 senders | 92,000 up to symmetry |

**Bounds.** `Setups` lists the surroundings of a lifecycle run: slots, ring timeout, failures and a
`budget` - how often each kind of outside event may happen. Queues, timers and the clock are
bounded through it alone. One announced call with up to two INVITEs is enough for every pairing the
properties are about: call against its repetition, call against the next one in its slot, call
against an orphan. The second slot is looked at with two INVITEs. `Window = 9` is longer than any
run without a `pause`, which is longer than the window, so a rejection is either fresh or expired.
The table of final responses has 2 entries for 8 in the code: full with two responses, with a third
not tracked and a fourth to come. (`CallWaveMaxTrackedFinalResponses` is the limit; the theorems
hold for any.) Ownership and gate have no bound but the number of clients, threads and sources.
Two threads are a race within a client or between two; a third adds none, and the invariants are
proved for any number. The budgets of `Registration`, `AudioSession` and `CallControls` are chosen
so that each handler can meet each other one once more than its race needs: two turns around an
answer, two or three moves around a stop, two calls of which one becomes current. Every action of
each module fires in its run.

**Fairness.** Serial queues run their blocks and the ring timer fires: WF of `MainQueue`,
`SIPQueue` and of each timer. Host, peer, server and user owe nothing - that is the point of the
timer. CallKit runs every completion (WF). SF of `acceptTimedOut`: polls recur and the deadline is
a date, so it is found passed in the end. In `Registration` both queues run what is on them and every
REGISTER is answered, since a server that is gone is a timeout of PJSIP's transaction; in
`AudioSession` a handler that has begun goes on and the fallback fires; in `CallControls` the sampler
does. Moves of the device, pushes, CallKit and the host are owed by nobody. In `RuntimeOwnership` each thread proceeds under SF: a
serial queue is FIFO, so a block is not passed over for ever. In the gate only the deadline is
certain to ask; `os_unfair_lock` is taken to be fair enough for a lock held for four statements (SF).

**Deadlock** is checked except in the runs with a budget, where a behaviour ends when its budget does.

### What the code does not keep

Two statements of the repository's documents are refuted by listed runs:

- `RegisteredIsBelievable` (`VRegistered`): `registrationState` says registered when there is no
  engine any more. The answer to a REGISTER is on the main queue when `stop` has its turn; its block
  writes what PJSIP's thread saw (3294). FIELD-TESTING.md:271-274 wants the state believable.
- `MutedIsSilent` (`VMuted`): the button says muted and the other side hears everything. An unmute
  while the call has no port writes the flag, fails, and leaves the button; when the media comes up
  the microphone is connected by the flag (2757). FIELD-TESTING.md:321-322 calls that a bug.

More are stated at the end of the modules. Those with a configuration are not standing runs; the
others are checked by putting the claim and the set of surroundings named here into the
configuration of the same MC module. TLC has each counterexample in a minute at most.

| claim | configuration or surroundings | what happens |
|---|---|---|
| `AnsweredOnlyIfAccepted` | `VAnsweredUnasked` | a caller cancels during the settle pause and another INVITE takes its call id; line 2218 asks whether *that id* can be answered |
| `NoSecondIncoming` | `VSecondIncoming` | a decline between `onIncomingCall`'s look for cancellations and the INVITE's block; the block finds no waiting call, invents a UUID and rings |
| `EndReportedOnce` | `VEndReportedOnce` | a retraction or a timeout reports the end, and the `DISCONNECTED` of its own refusal reports it again |
| `OneClientAtATime` | `VNetworkChange`, `VForeground` | both ask whether there is a runtime or an account, not whose (1680, 1701) |
| `HandoverIsSeen` | `VHandover` | the network changes between the start of the engine and that of the monitor, whose first report only sets the signature (1652) |
| `WakeRegisters` | `VWake` | the push finds an un-REGISTER under way; PJSUA refuses a second request, and nobody tries again (3354) |
| `WaiterIsTold` | `VWaiter` | the registration arrives between the look at the state and the observer's block (CallWaveClient+Async.swift:113) |
| `FlagIsTheDevice` | `VOverlap` | activation and interruption overlap: flags in one order, device in the other (Coordinator.m:152, 182) |
| `NoStrayRefusal` | `VStrayRefusal` | a retraction of a call that is over leaves a tombstone (3013) which refuses the next caller |
| `AnsweredNeverRingsAgain` | `VAnsweredRings` | a repeated push finds the call connecting, not incoming (2857), and publishes `incoming` |
| `StateIsOfSomeCall` | `VStaleState` | `connecting` is published after the call was cleared (2237) |
| `IdleWithoutCall` | `VStopIdle` | the block `stop()` leaves to the main queue (1592) resets the projection of a call that was announced in the meantime |
| `AllRingingIsShown` | `StopAgain` | that block reports the end of the first announcement of a call that was announced again in the meantime (1592), and the screen of the second goes with it |
| `FailedHasError` | `NotStarted` | a wake-up or a start that fails publishes the state and no error |
| `NotStolenBack` | `Unasked` | a fallback armed before the interruption takes the session back (Coordinator.m:160) |
| `LatchIsOfACall` | `Restored` | a provider reset keeps the quality latches; the next call of the UUID is not warned of |
| `GhostStopsRinging` | `Nobody`, FairSpec | a disconnection looked up before the INVITE's block bound the id is dropped (3253); with the timeout off the call rings for ever, with it on until then |
| `RetractionIsIdempotent` | `OneInvite` | the same retraction registers the call again and reports its end again |
| `RejectionIsRemembered` | `TwoEndings` | declining twice ahead of the INVITE clears the tombstone of the first (2274) |
| `RejectionIsRemembered` | `Retracted` | CallKit refuses the report of a call retracted meanwhile; the tombstone goes with the record (2962) |
| `RejectionIsRemembered` | `DeclinedStop` | a stop between the rejection and the INVITE empties the registry, rejections and all (1559) |
| `NoStrandedDialog` | `ThreeOnTwo` | the disconnection of a cancelled INVITE is looked up under the call that had the slot before (3253) and clears that call after it has got another slot |
| `RejectedOnScreenStaysSilent` | `Ended` | the end action ahead of the INVITE leaves no tombstone (3141) |
| `CurrentIsTracked` | `Refused` | a refused report removes the record but not the projection (2962) |
| `AcceptedDoesNotRingOut` | `Hurried` | the timeout looks at the published state (3049), still incoming in the settle pause |
| `DuplicateOpensNoScreen` | `Duplicated` | a duplicate report processed after the end of its call (3443) opens a screen |
| `CancellationOpensNoScreen` | `Cancelling` | a cancellation push of a call CallKit does not show opens one until it is ended |
| `DrainWaitsForAll` | 3 transactions, 2 slots | a response that found the table full is not waited for (297) |

The passing properties say where these end. `OneRejectionIsRemembered` is for a host that rejects
once and stops nothing, and for the first INVITE, since an INVITE does not name its call. `PushMeetsInvite`
excepts a call whose slot PJSUA has used again before its end was noticed: the disconnection of a
cancelled INVITE is looked up before the block that binds its id has run, finds no call (3253) and is
lost; the next INVITE's block takes the id away, and the call, which somebody may have accepted, waits
for an INVITE again, beside the one made up for that next INVITE. `ScreensFollowCalls` excludes
repeated pushes and resets, `RingingIsShown` a repeated push around a stop. `DrainedIsDone` excepts untracked responses. `NoStrandedDialog` is for a
PJSUA that sends. With one slot, which is what the client runs with unless it is told otherwise
(CallWaveEngineConfiguration.m:9, CallWaveClient.m:1109), it is a theorem. With two it fails once a
call can get a second slot between its end and the block that clears it: by the third INVITE
(`ThreeOnTwo`), or by a repeated push, which adopts another call's dialog under a UUID that is about
to be cleared. So the surroundings with two slots have two INVITEs and no push twice. In managed mode `acceptFailed` after the
INVITE was bound (3117-3120) clears a record whose dialog rings on; `NoStrandedDialog` is not claimed
there. The comment at 241-243 speaks of a server with "32 peers"; the table has 8 entries.
`SettledStateIsTrue` excepts an answer that was overtaken, `TransportsFollowPath` a change the monitor
was too late for, `DeviceFollowsFlag` handlers that overlap and what closes the device without the
flag, `ButtonFollowsFlag` a mute that was refused or overtaken by another: just what the claims are
about, and each exception is a history variable that is set nowhere else.

## What is proved

For every set of UUIDs, slots, clients, threads, sources, transactions and entries, by TLAPS:

- **Registry** (`TypeCorrect`, `IndexAlwaysConsistent`, `RefusalsInTime`). One lemma per method: it maps well-typed to well-typed and two-way
  to two-way; `Bind`, which may steal an id and drop another, is the case with content. That a
  refusal is in time needs `HistoryMatches`: the deadline a tracked record carries is that of its
  first cancellation, which marking again must not move.
- **Ownership** (`OwnershipTypeCorrect`, `RuntimeIsExclusive`, `HandoverIsClean`,
  `AccountStaysWithOwner`, `ClaimIsNeverLeaked`, `OwnershipIsALease`). Exclusion is not inductive: a thread inside holds its client's queue
  (`HoldsQueue`) and its client is the owner (`InsideOwns`), and a dealloc is alone with its client
  (`DeallocAlone`). The handover adds what holds between the
  teardown and the release (`TornDownIsClean`). That no claim leaks needs to know *which* calls answer
  for the owner: those past the claim and not past the release (`Answerable`), whose client is alive.
  The refinement of `RuntimeLease` follows from all of these: a thread that enters finds nobody
  inside, one that works is the only one, and an owner that lets go leaves PJSUA empty.
- **Registration** (`RegistrationTypeCorrect`, `SettledStateAlwaysTrue`, `TransportsAlwaysFollow`).
  What the state *will be* is stable where the state is not: the last answer on the main queue that no
  turn has overtaken, or the state if there is none, fits PJSUA's registration whenever no REGISTER is
  out and no turn half done (`StateWillFit`). For the network: the monitor's last report is the path the
  device is on (`LastReportIsPath`), hence transports of another path have a handover coming among
  the reports (`HandoverComes`, `TransportsWillFollow`). For any set of networks and any budget.
- **Gate** (`GateTypeCorrect`, `HandlerRunsOnce`, `GateImplements`). At most one source is past the
  marking; whoever is about to mark has seen the flag clear under the lock. The handler is kept until
  somebody has taken it (`HandlerIsKept`), so whoever is told YES has run it. Each step is an
  acknowledgement, a request or a stutter of `PushAcknowledgement`. (Safety part of the refinement.)
- **Teardown** (`TeardownTypeCorrect`, `OneEntryPerResponse`, `NoEntryIsStuck`, `DrainIsComplete`). A
  response is in the table before PJSUA forgets its call (`RefusedIsRemembered`), so a call that was
  there when the drain began and is counted no more is over or in the table - which is read second
  (`DrainKnows`). In the other order a call declined between the two would be seen by neither.

- **Audio session** (`AudioTypeCorrect`, `AudioSettles`). Flag and device are set apart from each
  other, and a call's media come up on a third thread. While no two handlers have overlapped (`apart`)
  one handler runs at most (`OneHandler`); one that has set the flag has the request that fits it still
  to make (`RequestFollowsFlag`); without such a handler the last request on sipQueue, or else the
  device, fits the flag, and every call with media is linked or a block that links it is queued
  (`DeviceWillFollow`, `CallsWillBeLinked`). For any set of calls.
- **Controls** (`ControlsTypeCorrect`, `MicrophoneFollows`, `ButtonFollows`, `HoldFollows`). What is
  stable is what the queues still hold. A microphone is as its flag says or a link is queued
  (`MicWillFollow`). The last mute of a call that is still to be posted, or else the last one on
  the main queue, or else the button, is the flag (`ButtonWillFollow`). A call is answered once, before
  it is held or resumed; after that the last hold on the main queue, or else what is shown, is what
  PJSUA has (`HoldWillShow`). For any set of calls and any budget.
- **Lifecycle** (`LifecycleTypeCorrect`, `RejectionsHoldNoSlot`, `RejectionRemembered`,
  `PushesMeetInvites`, `OneSlotStrandsNoDialog`). `CancelledHoldsNoSlot` is not
  inductive: a record must be known to be tracked before its dates say anything, and an adoption must
  know that the index is two-way. The invariant is `Formed`: the index is two-way, the registry
  finite, no record dated later than now, and a tracked record that is rejected has no slot.
  One lemma per method of the registry, lifted through every operator of the state machine to every
  action. For any number of slots, where TLC looks at two.
  That a rejection is remembered is proved from what holds until the first INVITE of a host that has
  stopped nothing (`Mindful`): no slot is used, the queues hold only what a call without a slot leaves
  there, and if one call was rejected its record is in the registry, ended, with the date of the
  rejection. The count of the budget says how many were rejected. Then the look for cancellations at
  the INVITE finds it (`OldestRefused`).
  That a push and an INVITE meet is about steps, and needs that a rejected record is an ended one
  (`EndsRejected`). Every handler carries over all calls but its own (`Carried`): none begins to wait,
  none loses its announcement. So a state is missed anew only by the call of the handler. A push that
  found no orphan found no unannounced call with a slot; one without a slot was waiting itself, so the
  state was missed before. An INVITE makes a call up only when none waits; bound to a call that waits,
  it leaves nothing new to be missed, but for the call whose slot it takes - the exception.
  That one slot strands no dialog is about rest, so its invariant (`Housed`) says where the call of a
  dialog is on the way there: in the registry, or in an INVITE on the main queue, with no block behind
  it that clears a call (`Claimed`); or sipQueue still holds a block that hangs the dialog up
  (`HangsUp`). With one slot a dialog has to be gone before the next INVITE can come, so a block that
  clears a call either is queued ahead of that INVITE or belongs to a hang-up of the slot, which takes
  whatever dialog it finds there; with two slots it may meet a dialog it knows nothing of.
  It was the attempt at these two proofs that showed both properties false in surroundings TLC had
  not been given: a stop after the rejection, and two slots with a third INVITE. The first is now
  part of the property, the second of the theorem.
- **Managed calls** (`ManagedTypeCorrect`, `RingingAlwaysShown`). A statement about rest, so the
  invariant says what holds on the way to it (`Ringing`): what a record's state may be (`States`); that a
  stop half done reports only calls that are known and over (`Spared`); and that for each call that rings
  CallKit was told of it after it was last told of its end, whether the report is still on its way or
  the screen is there (`AllShown`). It was this proof that found `AllRingingIsShown` to be false: the
  instances TLC had been given had a repeated push and a stop, but never in the same behaviour.

The assumptions are the ASSUMEs of the modules:
`NoUUID`, `InvalidId`, `Nobody`, `None` and `Unseen` are not values; the window is a natural number;
the deadline is one of the sources; an unsatisfied path is none of the networks.

Only model-checked: `NoStrandedDialog` where PJSUA has two slots and two INVITEs come, which is a
statement about that instance; and everything about liveness -
`CallsReturn`, `HandlerRuns`, `EveryInviteSettles`, `NoEndlessRinging`, `ScreensFollowCalls`,
`RegisteringEnds`, `CallIsHeard`, `SilentCallEnds` - since the prover handles neither ENABLED nor
induction over behaviours.
No module uses a RECURSIVE operator.

## Not modelled

- *DTMF*: digits are normalised and sent by one PJSUA call; it keeps no state.
- *Configuration objects, logging, errors, diagnostics, route values*: immutable values, validation
  and wording.
- *Events*: emitting is a loop over a dictionary on the main queue; adding an observer is in
  `Registration`. Of the *Swift wrapper* only what waits for a registration is.
- *A `settleDelay` of zero or less*: the code then answers inline (2197); the model always lets the
  settle timer fire in a turn of its own, the case with more in between.
- *Audio route and speaker preference*: they touch neither the flag nor the device.
- *Statistics*: the numbers, and the three warnings that only emit an event.
- Caller names and DTMF in the lifecycle; failures of `malloc` and of the observer's registration;
  transports, codecs and TLS.
- `startEngineLocked`'s steps are one action that may fail at any point (a start that fails on a
  runtime already up destroys it with `isRunning` set, which `recoverStale` repairs).
- *Demo, scripts, patches*: build tooling and an example.
- *PJSIP, CallKit, PushKit, AVAudioSession*: modelled as the client uses them and marked external in
  the map. The headers under `src/Vendor` are PJSIP's, twice, and make up nearly all of the
  repository's lines; they declare an interface this client uses a few dozen functions of, and have
  no behaviour to model. What can be modelled is `src/CallWaveKit`, of which `CallWaveClient.m` is
  the larger half.

## Plan

The components are modelled and their invariants are proved. What is left is the *abstract call*:
announced, ringing, answered, ended, as a specification `CallLifecycle` implements under a host that
does not repeat itself.
