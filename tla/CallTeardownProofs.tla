-------------------------- MODULE CallTeardownProofs --------------------------
(***************************************************************************)
(* For every set of transactions and every size of the table: a drain that *)
(* reports success leaves nothing behind, but for responses the table had  *)
(* no room for.                                                            *)
(*                                                                         *)
(* The argument is the one the code relies on without saying so.  A        *)
(* response is in the table before PJSUA forgets its call, so a call that  *)
(* was there when the drain began and is no longer counted is either over  *)
(* or in the table - which is looked at after the calls are counted.       *)
(***************************************************************************)
EXTENDS CallTeardown, TLAPS

Tracked(x) == \E s \in Slot : slot[s] = x
Remembered(x) == Tracked(x) \/ x \in untracked

Senders ==
  /\ \A t \in Thread : sending[t].at # "idle" => sending[t].tx \in Transaction
  /\ \A t \in Thread : sending[t].tx # None => tx[sending[t].tx] \in {"ringing", "refused"}
  /\ \A t \in Thread : sending[t].at = "idle" => sending[t].tx = None
  /\ drain # "idle" => sending["sipQueue"] = Silent

RefusedIsRemembered ==
  /\ \A x \in Transaction : tx[x] = "refused" => Remembered(x)
  /\ \A t \in Thread : sending[t].at = "send" => Remembered(sending[t].tx)

DrainKnows ==
  /\ \A x \in began : tx[x] # "new"
  /\ drain = "responses" => \A x \in began : tx[x] \notin Counted

IInv == TypeOK /\ Senders /\ OneEntryEach /\ EntriesCanGo /\ RefusedIsRemembered /\ DrainKnows
-----------------------------------------------------------------------------
LEMMA InitInvariant == Init => IInv
BY TeardownAssumption DEF Init, IInv, TypeOK, Senders, OneEntryEach, EntriesCanGo,
   RefusedIsRemembered, DrainKnows, Remembered, Tracked, Sent, Silent, Sending, State, Thread

(* Calls that change their state while no response of theirs is being sent. *)
LEMMA ChangesStep ==
  ASSUME IInv, NEW x \in Transaction,
         NEW from \in SUBSET (Counted \cup {"new", "refused"}),
         NEW to \in State \ {"new", "refused"},
         "refused" \in from => to = "expired",
         Changes(x, from, to)
  PROVE  IInv'
<1> USE TeardownAssumption DEF IInv, TypeOK, State, Thread, Counted
<1>1. /\ tx' = [tx EXCEPT ![x] = to] /\ tx[x] \in from /\ ~Sent(x)
      /\ UNCHANGED <<slot, sending, drain, began, untracked>>
  BY DEF Changes, Becomes
<1>2. TypeOK'
  BY <1>1
<1>3. Senders'
  BY <1>1 DEF Senders, Sent
<1>4. OneEntryEach'
  BY <1>1 DEF OneEntryEach
<1>5. EntriesCanGo'
  BY <1>1 DEF EntriesCanGo, Sent
<1>6. RefusedIsRemembered'
  BY <1>1 DEF RefusedIsRemembered, Remembered, Tracked
<1>7. DrainKnows'
  BY <1>1 DEF DrainKnows
<1> QED BY <1>2, <1>3, <1>4, <1>5, <1>6, <1>7

(* The table after a count holds what it held, but for expired responses.  *)
LEMMA ReclaimedTable ==
  ASSUME TypeOK
  PROVE  /\ Reclaimed \in [Slot -> Transaction \cup {None}]
         /\ \A s \in Slot : Reclaimed[s] = slot[s] \/ Reclaimed[s] = None
         /\ \A s \in Slot : slot[s] # None /\ tx[slot[s]] # "expired" => Reclaimed[s] = slot[s]
BY DEF TypeOK, Reclaimed

(* Sending a final response.                                               *)
LEMMA SendingStep ==
  ASSUME IInv, NEW t \in Thread,
         reclaim(t) \/ track(t) \/ send(t) \/ \E x \in Transaction : respond(t, x)
  PROVE  IInv'
<1> USE TeardownAssumption DEF IInv, TypeOK
<1> DEFINE x == sending[t].tx
<1>1. ASSUME NEW y \in Transaction, respond(t, y) PROVE IInv'
  <2>1. /\ sending' = [sending EXCEPT ![t] = [tx |-> y, at |-> "reclaim"]]
        /\ UNCHANGED <<tx, slot, drain, began, untracked>>
        /\ tx[y] \in {"ringing", "refused"} /\ Idle(t)
    BY <1>1 DEF respond
  <2>2. TypeOK'
    BY <2>1 DEF Sending
  <2>3. Senders'
    BY <2>1 DEF Senders, Idle, Silent, Thread, Sending
  <2>4. OneEntryEach' /\ DrainKnows'
    BY <2>1 DEF OneEntryEach, DrainKnows
  <2>5. EntriesCanGo'
    BY <2>1 DEF EntriesCanGo, Sent, Idle, Silent
  <2>6. RefusedIsRemembered'
    BY <2>1 DEF RefusedIsRemembered, Remembered, Tracked
  <2> QED BY <2>2, <2>3, <2>4, <2>5, <2>6
<1>2. CASE reclaim(t)
  <2>1. /\ slot' = Reclaimed /\ sending' = [sending EXCEPT ![t].at = "track"]
        /\ UNCHANGED <<tx, drain, began, untracked>> /\ sending[t].at = "reclaim"
    BY <1>2 DEF reclaim, Goes
  <2>2. TypeOK'
    BY <2>1, ReclaimedTable DEF Sending
  <2>3. Senders'
    BY <2>1 DEF Senders, Silent, Thread, Sending
  <2>4. OneEntryEach' /\ DrainKnows'
    BY <2>1, ReclaimedTable DEF OneEntryEach, DrainKnows
  <2>5. \A u \in Thread : sending'[u].tx = sending[u].tx
    BY <2>1 DEF Sending
  <2>6. EntriesCanGo'
    BY <2>1, <2>5, ReclaimedTable DEF EntriesCanGo, Sent
  <2>7. \A y \in Transaction : tx[y] # "expired" /\ Remembered(y) => Remembered(y)'
    BY <2>1, ReclaimedTable DEF Remembered, Tracked
  <2>8. RefusedIsRemembered'
    <3>1. \A y \in Transaction : tx'[y] = "refused" => Remembered(y)'
      BY <2>1, <2>7 DEF RefusedIsRemembered
    <3>2. ASSUME NEW u \in Thread, sending'[u].at = "send" PROVE Remembered(sending[u].tx)'
      <4>1. sending[u].at = "send" /\ sending[u].tx \in Transaction /\ sending[u].tx # None
        BY <2>1, <3>2 DEF Senders, Sending
      <4>2. tx[sending[u].tx] # "expired" /\ Remembered(sending[u].tx)
        BY <4>1 DEF Senders, RefusedIsRemembered
      <4>3. sending'[u].tx = sending[u].tx
        BY <2>5
      <4> QED BY <2>7, <4>1, <4>2, <4>3 DEF Remembered, Tracked
    <3> QED BY <3>1, <3>2 DEF RefusedIsRemembered
  <2> QED BY <2>2, <2>3, <2>4, <2>6, <2>8
<1>3. CASE track(t)
  <2>1. /\ sending' = [sending EXCEPT ![t].at = "send"] /\ sending[t].at = "track"
        /\ UNCHANGED <<tx, drain, began>>
    BY <1>3 DEF track, Goes
  <2>2. x \in Transaction /\ x # None /\ tx[x] \in {"ringing", "refused"}
    BY <2>1 DEF Senders
  <2>3. \A u \in Thread : sending'[u].tx = sending[u].tx
    BY <2>1 DEF Sending
  <2>4. \/ UNCHANGED slot
        \/ \E s \in Slot : /\ slot[s] = None /\ slot' = [slot EXCEPT ![s] = x]
                           /\ \A r \in Slot : slot[r] # x
    BY <1>3 DEF track, InUse
  <2>5. Remembered(x)' /\ untracked' \in SUBSET Transaction
    <3>1. untracked' \in SUBSET Transaction
      BY <1>3, <2>2 DEF track
    <3>2. CASE Tracked(x)
      <4>1. slot' = slot
        BY <1>3, <3>2 DEF track, Tracked
      <4> QED BY <2>3, <3>1, <3>2, <4>1 DEF Remembered, Tracked
    <3>3. CASE ~Tracked(x) /\ Slot \ InUse(slot) = {}
      <4>1. x \in untracked'
        BY <1>3, <3>3 DEF track, Tracked
      <4>2. x' = x
        BY <2>3
      <4> QED BY <3>1, <4>1, <4>2 DEF Remembered
    <3>4. CASE ~Tracked(x) /\ Slot \ InUse(slot) # {}
      <4>1. PICK s \in Slot \ InUse(slot) : slot' = [slot EXCEPT ![s] = x]
        BY <1>3, <3>4 DEF track, Tracked
      <4>2. s \in Slot /\ slot'[s] = x
        BY <4>1
      <4>3. x' = x
        BY <2>3
      <4> QED BY <3>1, <4>2, <4>3 DEF Remembered, Tracked
    <3> QED BY <3>2, <3>3, <3>4
  <2>6. \A y \in Transaction : y # x /\ Remembered(y) => Remembered(y)'
    BY <1>3, <2>2, <2>4 DEF track, Remembered, Tracked
  <2>7. TypeOK'
    BY <2>1, <2>2, <2>4, <2>5 DEF Sending
  <2>8. Senders'
    BY <2>1 DEF Senders, Silent, Thread, Sending
  <2>9. OneEntryEach' /\ DrainKnows'
    BY <2>1, <2>4 DEF OneEntryEach, DrainKnows
  <2>10. EntriesCanGo'
    BY <2>1, <2>3, <2>4 DEF EntriesCanGo, Sent
  <2>11. RefusedIsRemembered'
    <3>1. \A y \in Transaction : tx'[y] = "refused" => Remembered(y)'
      BY <2>1, <2>5, <2>6 DEF RefusedIsRemembered
    <3>2. ASSUME NEW u \in Thread, sending'[u].at = "send" PROVE Remembered(sending[u].tx)'
      <4>1. CASE u = t
        BY <4>1, <2>3, <2>5
      <4>2. CASE u # t
        <5>1. sending[u].at = "send" /\ sending[u].tx \in Transaction
          BY <2>1, <3>2, <4>2 DEF Senders, Sending
        <5>2. Remembered(sending[u].tx)
          BY <5>1 DEF RefusedIsRemembered
        <5> QED BY <2>3, <2>5, <2>6, <5>1, <5>2 DEF Remembered, Tracked
      <4> QED BY <4>1, <4>2
    <3> QED BY <3>1, <3>2 DEF RefusedIsRemembered
  <2> QED BY <2>7, <2>8, <2>9, <2>10, <2>11
<1>4. CASE send(t)
  <2>1. /\ tx' = [tx EXCEPT ![x] = "refused"] /\ sending' = [sending EXCEPT ![t] = Silent]
        /\ UNCHANGED <<slot, drain, began, untracked>> /\ sending[t].at = "send"
    BY <1>4 DEF send, Becomes
  <2>2. x \in Transaction /\ x # None /\ Remembered(x)
    BY <2>1 DEF Senders, RefusedIsRemembered
  <2>3. TypeOK'
    BY <2>1, <2>2 DEF Sending, Silent, State
  <2>4. Senders'
    BY <2>1, <2>2 DEF Senders, Silent, Thread, Sending
  <2>5. OneEntryEach' /\ DrainKnows'
    BY <2>1, <2>2 DEF OneEntryEach, DrainKnows, Counted
  <2>6. EntriesCanGo'
    BY <2>1, <2>2 DEF EntriesCanGo, Sent
  <2>7. RefusedIsRemembered'
    BY <2>1, <2>2 DEF RefusedIsRemembered, Remembered, Tracked, Silent
  <2> QED BY <2>3, <2>4, <2>5, <2>6, <2>7
<1> QED BY <1>1, <1>2, <1>3, <1>4

(* An ACK and the steps of a drain, until it has emptied the runtime.      *)
LEMMA DrainStep ==
  ASSUME IInv,
         \/ \E x \in Transaction : acknowledged(x)
         \/ drainCallTeardown \/ countCalls \/ countResponses \/ drainTimedOut
         \/ deleteAccount
  PROVE  IInv'
<1> USE TeardownAssumption DEF IInv, TypeOK
<1>1. ASSUME NEW x \in Transaction, acknowledged(x) PROVE IInv'
  <2>1. /\ tx[x] = "refused" /\ ~Sent(x) /\ tx' = [tx EXCEPT ![x] = "over"]
        /\ slot' = [s \in Slot |-> IF slot[s] = x THEN None ELSE slot[s]]
        /\ UNCHANGED <<sending, drain, began, untracked>>
    BY <1>1 DEF acknowledged, Becomes
  <2>2. TypeOK'
    BY <2>1 DEF State
  <2>3. Senders'
    BY <2>1 DEF Senders, Sent
  <2>4. OneEntryEach' /\ DrainKnows'
    BY <2>1 DEF OneEntryEach, DrainKnows, Counted
  <2>5. EntriesCanGo'
    BY <2>1 DEF EntriesCanGo, Sent
  <2>6. \A y \in Transaction : y # x /\ Remembered(y) => Remembered(y)'
    BY <2>1 DEF Remembered, Tracked
  <2>7. RefusedIsRemembered'
    <3>1. \A y \in Transaction : tx'[y] = "refused" => y # x /\ tx[y] = "refused"
      BY <2>1
    <3>2. \A u \in Thread : sending[u].at = "send" => sending[u].tx \in Transaction \ {x}
      BY <2>1 DEF Senders, Sent
    <3>3. \A u \in Thread : sending'[u].at = "send" => Remembered(sending[u].tx)'
      BY <2>1, <2>6, <3>2 DEF RefusedIsRemembered
    <3> QED BY <2>1, <2>6, <3>1, <3>3 DEF RefusedIsRemembered
  <2> QED BY <2>2, <2>3, <2>4, <2>5, <2>7
<1>2. CASE drainCallTeardown \/ countCalls \/ drainTimedOut \/ deleteAccount
  <2>1. UNCHANGED <<tx, slot, sending, untracked>>
    BY <1>2 DEF drainCallTeardown, countCalls, drainTimedOut, deleteAccount
  <2>2. TypeOK'
    BY <1>2, <2>1 DEF drainCallTeardown, countCalls, drainTimedOut, deleteAccount
  <2>3. Senders'
    BY <1>2, <2>1 DEF Senders, Idle, drainCallTeardown, countCalls, drainTimedOut, deleteAccount
  <2>4. OneEntryEach' /\ EntriesCanGo' /\ RefusedIsRemembered'
    BY <2>1 DEF OneEntryEach, EntriesCanGo, Sent, RefusedIsRemembered, Remembered, Tracked
  <2>5. DrainKnows'
    BY <1>2, <2>1
    DEF DrainKnows, Counted, drainCallTeardown, countCalls, drainTimedOut, deleteAccount
  <2> QED BY <2>2, <2>3, <2>4, <2>5
<1>3. CASE countResponses
  <2>1. /\ slot' = Reclaimed /\ drain # "idle" /\ drain' \in {"drained", "count"}
        /\ UNCHANGED <<tx, sending, began, untracked>>
    BY <1>3 DEF countResponses
  <2>2. TypeOK'
    BY <2>1, ReclaimedTable
  <2>3. Senders' /\ DrainKnows'
    BY <2>1 DEF Senders, DrainKnows
  <2>4. OneEntryEach' /\ EntriesCanGo'
    BY <2>1, ReclaimedTable DEF OneEntryEach, EntriesCanGo, Sent
  <2>5. \A y \in Transaction : tx[y] # "expired" /\ Remembered(y) => Remembered(y)'
    BY <2>1, ReclaimedTable DEF Remembered, Tracked
  <2>6. \A u \in Thread : sending[u].at = "send" =>
          sending[u].tx \in Transaction /\ tx[sending[u].tx] # "expired"
    BY DEF Senders
  <2>7. \A u \in Thread : sending'[u].at = "send" => Remembered(sending[u].tx)'
    BY <2>1, <2>5, <2>6 DEF RefusedIsRemembered
  <2>8. RefusedIsRemembered'
    BY <2>1, <2>5, <2>7 DEF RefusedIsRemembered
  <2> QED BY <2>2, <2>3, <2>4, <2>8
<1> QED BY <1>1, <1>2, <1>3

LEMMA DestroyStep == ASSUME IInv, destroyRuntime PROVE IInv'
<1> USE TeardownAssumption DEF IInv, TypeOK
<1>1. /\ drain # "idle" /\ drain' = "idle" /\ began' = {} /\ sending["worker"] = Silent
      /\ slot' = [s \in Slot |-> None]
      /\ tx' = [x \in Transaction |-> IF tx[x] = "new" THEN "new" ELSE "over"]
      /\ UNCHANGED <<sending, untracked>>
  BY DEF destroyRuntime
<1>2. \A t \in Thread : sending[t] = Silent
  BY <1>1 DEF Senders, Thread
<1>3. TypeOK'
  BY <1>1 DEF State
<1>4. Senders'
  BY <1>1, <1>2 DEF Senders, Silent
<1>5. OneEntryEach' /\ EntriesCanGo' /\ RefusedIsRemembered' /\ DrainKnows'
  BY <1>1, <1>2 DEF OneEntryEach, EntriesCanGo, RefusedIsRemembered, DrainKnows, Silent
<1> QED BY <1>3, <1>4, <1>5

LEMMA InvariantStep == IInv /\ [Next]_vars => IInv'
<1> SUFFICES ASSUME IInv, [Next]_vars PROVE IInv'
  OBVIOUS
<1>1. ASSUME NEW x \in Transaction,
             invite(x) \/ answered(x) \/ hangUp(x) \/ byeDone(x) \/ timerH(x)
      PROVE  IInv'
  <2>1. CASE invite(x)
    <3>1. Changes(x, {"new"}, "ringing")
      BY <2>1 DEF invite
    <3> QED BY <3>1, ChangesStep DEF State
  <2>2. CASE answered(x)
    <3>1. Changes(x, {"ringing"}, "up")
      BY <2>2 DEF answered
    <3> QED BY <3>1, ChangesStep DEF State, Counted
  <2>3. CASE hangUp(x)
    <3>1. Changes(x, {"up"}, "hangingUp")
      BY <2>3 DEF hangUp
    <3> QED BY <3>1, ChangesStep DEF State, Counted
  <2>4. CASE byeDone(x)
    <3>1. Changes(x, {"up", "hangingUp"}, "over")
      BY <2>4 DEF byeDone
    <3> QED BY <3>1, ChangesStep DEF State, Counted
  <2>5. CASE timerH(x)
    <3>1. Changes(x, {"refused"}, "expired")
      BY <2>5 DEF timerH
    <3> QED BY <3>1, ChangesStep DEF State
  <2> QED BY <1>1, <2>1, <2>2, <2>3, <2>4, <2>5
<1>2. ASSUME NEW t \in Thread,
             reclaim(t) \/ track(t) \/ send(t) \/ \E x \in Transaction : respond(t, x)
      PROVE  IInv'
  BY <1>2, SendingStep
<1>3. CASE \/ \E x \in Transaction : acknowledged(x)
           \/ drainCallTeardown \/ countCalls \/ countResponses \/ drainTimedOut
           \/ deleteAccount
  BY <1>3, DrainStep
<1>4. CASE destroyRuntime
  BY <1>4, DestroyStep
<1>5. CASE UNCHANGED vars
  BY <1>5 DEF vars, IInv, TypeOK, Senders, OneEntryEach, EntriesCanGo, Sent,
     RefusedIsRemembered, Remembered, Tracked, DrainKnows
<1> QED BY <1>1, <1>2, <1>3, <1>4, <1>5 DEF Next

LEMMA Invariant == Spec => []IInv
BY InitInvariant, InvariantStep, PTL DEF Spec
-----------------------------------------------------------------------------
(* Every variable has its type.                                            *)
THEOREM TeardownTypeCorrect == Spec => []TypeOK
<1>1. IInv => TypeOK
  BY DEF IInv
<1> QED BY <1>1, Invariant, PTL

(* However a count and a transmission interleave, one transaction has one  *)
(* entry: gFinalResponses is not filled up by its own retransmissions.     *)
THEOREM OneEntryPerResponse == Spec => []OneEntryEach
<1>1. IInv => OneEntryEach
  BY DEF IInv
<1> QED BY <1>1, Invariant, PTL

(* No entry is left that neither an ACK nor the next count frees.          *)
THEOREM NoEntryIsStuck == Spec => []EntriesCanGo
<1>1. IInv => EntriesCanGo
  BY DEF IInv
<1> QED BY <1>1, Invariant, PTL

(* drainCallTeardown reports success only when what was there is done.     *)
THEOREM DrainIsComplete == Spec => DrainedIsDone
<1> DEFINE Done == drain # "drained" /\ drain' = "drained" =>
                     \A x \in began : tx[x] \in {"expired", "over"} \/ x \in untracked
<1>1. IInv /\ [Next]_vars => [Done]_vars
  <2> SUFFICES ASSUME IInv, Next, drain # "drained", drain' = "drained",
                      NEW x \in began
               PROVE  tx[x] \in {"expired", "over"} \/ x \in untracked
    BY DEF Done
  <2>1. countResponses
    BY DEF Next, invite, answered, hangUp, byeDone, timerH, Changes, acknowledged, respond,
       reclaim, track, send, drainCallTeardown, countCalls, drainTimedOut, deleteAccount,
       destroyRuntime, TypeOK
  <2>2. drain = "responses" /\ InUse(Reclaimed) = {}
    BY <2>1 DEF countResponses
  <2>3. x \in Transaction /\ tx[x] \in {"refused", "expired", "over"}
    BY <2>2 DEF IInv, TypeOK, DrainKnows, State, Counted
  <2>4. ASSUME tx[x] = "refused", Tracked(x) PROVE FALSE
    <3>1. PICK s \in Slot : slot[s] = x
      BY <2>4 DEF Tracked
    <3>2. Reclaimed[s] = x /\ x # None
      BY <2>3, <2>4, <3>1, TeardownAssumption, ReclaimedTable DEF IInv
    <3> QED BY <2>2, <3>2 DEF InUse
  <2> QED BY <2>3, <2>4 DEF IInv, RefusedIsRemembered, Remembered
<1> QED BY <1>1, Invariant, PTL DEF Spec, DrainedIsDone
=============================================================================
