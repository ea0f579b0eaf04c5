---------------------------- MODULE CallRegistry ----------------------------
(***************************************************************************)
(* The two-way index of the calls the client knows about: UUID -> call and *)
(* SIP call id -> call (CallWaveCallRegistry.m).  Every method of the      *)
(* class runs under one os_unfair_lock, so each is an operator that takes  *)
(* a registry value and returns the next one; the modules that extend this *)
(* one decide who calls it, on which thread, and in which order.           *)
(*                                                                         *)
(* A CallWaveCall is a heap object that outlives its registry entry, so a  *)
(* registry keeps the latest object of every UUID ("call") apart from the  *)
(* set of UUIDs the dictionary holds ("tracked").                          *)
(***************************************************************************)
EXTENDS Integers

CONSTANTS
  UUID,        \* every UUID a call can have
  NoUUID,      \* a nil UUID
  CallId,      \* the PJSUA call slots: 0 .. max_calls - 1
  InvalidId    \* CallWaveSIPCallIdInvalid

ASSUME RegistryAssumption ==
  /\ NoUUID \notin UUID
  /\ InvalidId \notin CallId

CallState == {"incoming", "connecting", "active", "held", "ended"}

(* cancelledAt = 0 stands for cancelledBeforeInvite = NO: the two are only  *)
(* ever written together, and the clock starts at 1.                        *)
Call == [callId      : CallId \cup {InvalidId},
         state       : CallState,
         reported    : BOOLEAN,      \* reportedToCallKit
         createdAt   : Nat,
         cancelledAt : Nat]

(* Mutant of NewCall: the state is left at the zero of its enum.           *)
UninitializedCall(t) == [callId |-> InvalidId, state |-> "idle", reported |-> FALSE,
                         createdAt |-> t, cancelledAt |-> 0]

NewCall(t) == [callId |-> InvalidId, state |-> "incoming", reported |-> FALSE,
               createdAt |-> t, cancelledAt |-> 0]

Registries == [tracked  : SUBSET UUID,
               call     : [UUID -> Call],
               byCallId : [CallId -> UUID \cup {NoUUID}]]

EmptyRegistry == [tracked  |-> {},
                  call     |-> [u \in UUID |-> NewCall(0)],
                  byCallId |-> [i \in CallId |-> NoUUID]]
-----------------------------------------------------------------------------
(* Lookups.                                                                *)

IdOf(r, u) == IF u \in r.tracked THEN r.call[u].callId ELSE InvalidId

CallForCallId(r, i) == IF i \in CallId THEN r.byCallId[i] ELSE NoUUID

Cancelled(r, u) == u \in r.tracked /\ r.call[u].cancelledAt # 0

StillRinging(r, u) == u \in r.tracked /\ r.call[u].state = "incoming"

(* Announced by a push, INVITE not seen, and nobody gave up on it.         *)
AwaitingInvite(r) ==
  {u \in r.tracked : /\ r.call[u].callId = InvalidId
                     /\ r.call[u].state # "ended"
                     /\ r.call[u].cancelledAt = 0}

Live(r) == {u \in r.tracked : r.call[u].state # "ended"}

(* Equal dates are told apart by dictionary order only, so each of the two  *)
(* lookups by age is the set of its possible answers; empty is nil.         *)
CallAwaitingInvite(r) ==
  {u \in AwaitingInvite(r) :
     \A v \in AwaitingInvite(r) : r.call[u].createdAt <= r.call[v].createdAt}

MostRecentCall(r) ==
  {u \in Live(r) : \A v \in Live(r) : r.call[v].createdAt <= r.call[u].createdAt}
-----------------------------------------------------------------------------
(* Updates.                                                                *)

Register(r, u, t) ==
  IF u \in r.tracked THEN r
  ELSE [r EXCEPT !.tracked = @ \cup {u}, !.call[u] = NewCall(t)]

SetState(r, u, s) == [r EXCEPT !.call[u].state = s]

SetReported(r, u) == [r EXCEPT !.call[u].reported = TRUE]

(* Mutant of Bind: the id the call held before stays mapped.               *)
BindKeepsOldId(r, i, u, t) ==
  LET known  == Register(r, u, t)
      holder == r.byCallId[i]
  IN  IF i = InvalidId THEN r
      ELSE [known EXCEPT
              !.call = [v \in UUID |->
                          IF v = u THEN [known.call[v] EXCEPT !.callId = i]
                          ELSE IF v = holder
                               THEN [known.call[v] EXCEPT !.callId = InvalidId]
                               ELSE known.call[v]],
              !.byCallId[i] = u]

(* The previous holder of i loses it, u is registered if need be, and the  *)
(* id u held before is unmapped.                                           *)
Bind(r, i, u, t) ==
  LET known  == Register(r, u, t)
      holder == r.byCallId[i]
      old    == known.call[u].callId
  IN  IF i = InvalidId THEN r
      ELSE [known EXCEPT
              !.call = [v \in UUID |->
                          IF v = u THEN [known.call[v] EXCEPT !.callId = i]
                          ELSE IF v = holder
                               THEN [known.call[v] EXCEPT !.callId = InvalidId]
                               ELSE known.call[v]],
              !.byCallId = [j \in CallId |->
                              IF j = i THEN u
                              ELSE IF j = old THEN NoUUID ELSE r.byCallId[j]]]

RemoveUUID(r, u) ==
  IF u \notin r.tracked THEN r
  ELSE [r EXCEPT !.tracked = @ \ {u},
                 !.byCallId = [j \in CallId |->
                                 IF j = r.call[u].callId THEN NoUUID ELSE @[j]]]

RemoveCallId(r, i) ==
  LET u == CallForCallId(r, i)
  IN  IF u = NoUUID THEN r
      ELSE [r EXCEPT !.tracked = @ \ {u}, !.byCallId[i] = NoUUID]

RemoveAll(r) == [r EXCEPT !.tracked = {},
                          !.byCallId = [j \in CallId |-> NoUUID]]

(* Mutant of MarkCancelled: marking again extends the deadline.            *)
RemarkCancelled(r, u, t) ==
  IF u \in r.tracked /\ r.call[u].callId = InvalidId
  THEN [r EXCEPT !.call[u].cancelledAt = t]
  ELSE r

MarkCancelled(r, u, t) ==
  IF u \in r.tracked /\ r.call[u].callId = InvalidId /\ r.call[u].cancelledAt = 0
  THEN [r EXCEPT !.call[u].cancelledAt = t]
  ELSE r
-----------------------------------------------------------------------------
(* takeCallCancelledBeforeInviteWithin: a cancellation older than the      *)
(* window is dropped whatever happens; the oldest one left is handed out,  *)
(* unless some call is still legitimately waiting for its INVITE.          *)

Tombstones(r) == {u \in r.tracked : /\ r.call[u].callId = InvalidId
                                    /\ r.call[u].cancelledAt # 0}

Expired(r, t, window) ==
  {u \in Tombstones(r) : t - r.call[u].cancelledAt > window}

CallToRefuse(r, t, window) ==
  LET fresh == Tombstones(r) \ Expired(r, t, window)
  IN  IF AwaitingInvite(r) # {} THEN {}
      ELSE {u \in fresh : \A v \in fresh :
              r.call[u].cancelledAt <= r.call[v].cancelledAt}

(* taken is the set of the one call handed out, or empty.                  *)
TakeCancelled(r, t, window, taken) ==
  [r EXCEPT !.tracked = @ \ (Expired(r, t, window) \cup taken)]
-----------------------------------------------------------------------------
(* The two directions of the index agree: a slot names the tracked call    *)
(* that holds it, and a tracked call that holds a slot is found under it.  *)
TwoWayIndex(r) ==
  /\ \A i \in CallId : r.byCallId[i] # NoUUID =>
       /\ r.byCallId[i] \in r.tracked
       /\ r.call[r.byCallId[i]].callId = i
  /\ \A u \in r.tracked : r.call[u].callId # InvalidId =>
       r.byCallId[r.call[u].callId] = u
=============================================================================
