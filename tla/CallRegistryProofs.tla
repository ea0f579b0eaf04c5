------------------------- MODULE CallRegistryProofs -------------------------
(***************************************************************************)
(* Proofs about the call registry, for every set of calls and slots, every *)
(* window and every order of method calls.                                 *)
(*                                                                         *)
(* The argument: every update maps a well-typed registry to a well-typed   *)
(* one, and a consistent index to a consistent index (the lemmas, one per  *)
(* method); the state machine only steps through these methods.  That a    *)
(* refusal is in time needs the strengthening HistoryMatches: the deadline *)
(* a tracked record carries is the one its first cancellation set.         *)
(***************************************************************************)
EXTENDS CallRegistryAPI, TLAPS

(* A method returns a well-typed registry.                                 *)
LEMMA NewCallType ==
  ASSUME NEW t \in Nat
  PROVE  NewCall(t) \in Call
  BY DEF NewCall, Call, CallState

LEMMA RegisterType ==
  ASSUME NEW r \in Registries, NEW u \in UUID, NEW t \in Nat
  PROVE  Register(r, u, t) \in Registries
  BY NewCallType DEF Register, Registries

LEMMA BindType ==
  ASSUME NEW r \in Registries, NEW i \in CallId, NEW u \in UUID, NEW t \in Nat
  PROVE  Bind(r, i, u, t) \in Registries
<1> DEFINE known == Register(r, u, t)
<1>1. known \in Registries
  BY RegisterType
<1>2. \A v \in UUID : /\ [known.call[v] EXCEPT !.callId = i] \in Call
                      /\ [known.call[v] EXCEPT !.callId = InvalidId] \in Call
  BY <1>1 DEF Registries, Call
<1> QED
  BY <1>1, <1>2, RegistryAssumption DEF Bind, Registries

LEMMA RemoveUUIDType ==
  ASSUME NEW r \in Registries, NEW u \in UUID
  PROVE  RemoveUUID(r, u) \in Registries
  BY DEF RemoveUUID, Registries

LEMMA RemoveCallIdType ==
  ASSUME NEW r \in Registries, NEW i \in CallId
  PROVE  RemoveCallId(r, i) \in Registries
  BY DEF RemoveCallId, CallForCallId, Registries

LEMMA RemoveAllType ==
  ASSUME NEW r \in Registries
  PROVE  RemoveAll(r) \in Registries
  BY DEF RemoveAll, Registries

LEMMA MarkCancelledType ==
  ASSUME NEW r \in Registries, NEW u \in UUID, NEW t \in Nat
  PROVE  MarkCancelled(r, u, t) \in Registries
<1>1. [r.call[u] EXCEPT !.cancelledAt = t] \in Call
  BY DEF Registries, Call
<1> QED
  BY <1>1 DEF MarkCancelled, Registries

LEMMA SetStateType ==
  ASSUME NEW r \in Registries, NEW u \in UUID, NEW s \in CallState
  PROVE  SetState(r, u, s) \in Registries
<1>1. [r.call[u] EXCEPT !.state = s] \in Call
  BY DEF Registries, Call
<1> QED
  BY <1>1 DEF SetState, Registries

LEMMA TakeType ==
  ASSUME NEW r \in Registries, NEW t \in Nat, NEW taken
  PROVE  TakeCancelled(r, t, Window, taken) \in Registries
  BY DEF TakeCancelled, Registries
-----------------------------------------------------------------------------
(* A method keeps the two directions of the index in agreement.            *)
LEMMA RegisterIndex ==
  ASSUME NEW r \in Registries, NEW u \in UUID, NEW t \in Nat, TwoWayIndex(r)
  PROVE  TwoWayIndex(Register(r, u, t))
  BY RegistryAssumption DEF Register, Registries, TwoWayIndex, NewCall

LEMMA BindIndex ==
  ASSUME NEW r \in Registries, NEW i \in CallId, NEW u \in UUID, NEW t \in Nat,
         TwoWayIndex(r)
  PROVE  TwoWayIndex(Bind(r, i, u, t))
<1> DEFINE known == Register(r, u, t)
           bound == Bind(r, i, u, t)
           old   == known.call[u].callId
<1>1. known \in Registries /\ TwoWayIndex(known)
  BY RegisterType, RegisterIndex
<1>2. known.byCallId = r.byCallId /\ u \in known.tracked
  BY DEF Register, Registries
<1>3. i # InvalidId
  BY RegistryAssumption
<1>4. bound.tracked = known.tracked
  BY <1>1, <1>3 DEF Bind, Registries
<1>5. \A j \in CallId : bound.byCallId[j] =
        IF j = i THEN u ELSE IF j = old THEN NoUUID ELSE known.byCallId[j]
  BY <1>1, <1>2, <1>3 DEF Bind, Registries
<1>6. \A v \in UUID : bound.call[v].callId =
        IF v = u THEN i
        ELSE IF v = known.byCallId[i] THEN InvalidId ELSE known.call[v].callId
  BY <1>1, <1>2, <1>3 DEF Bind, Registries, Call
<1> HIDE DEF known, bound, old
<1>7. ASSUME NEW j \in CallId, bound.byCallId[j] # NoUUID
      PROVE  /\ bound.byCallId[j] \in bound.tracked
             /\ bound.call[bound.byCallId[j]].callId = j
  <2>1. CASE j = i
    BY <2>1, <1>2, <1>4, <1>5, <1>6
  <2>2. CASE j # i
    <3> DEFINE v == known.byCallId[j]
    <3>1. bound.byCallId[j] = v /\ j # old /\ v # NoUUID
      BY <1>5, <1>7, <2>2
    <3>2. v \in known.tracked /\ known.call[v].callId = j
      BY <1>1, <3>1 DEF TwoWayIndex
    <3>3. v \in UUID /\ v # u
      BY <1>1, <3>1, <3>2 DEF Registries, old
    <3>4. v # known.byCallId[i]
      BY <1>1, <2>2, <3>1, <3>2 DEF TwoWayIndex
    <3> QED
      BY <1>4, <1>6, <3>1, <3>2, <3>3, <3>4
  <2> QED
    BY <2>1, <2>2
<1>8. ASSUME NEW v \in bound.tracked, bound.call[v].callId # InvalidId
      PROVE  bound.byCallId[bound.call[v].callId] = v
  <2>0. v \in UUID
    BY <1>1, <1>4 DEF Registries
  <2>1. CASE v = u
    BY <2>0, <2>1, <1>5, <1>6
  <2>2. CASE v # u
    <3>1. v # known.byCallId[i] /\ bound.call[v].callId = known.call[v].callId
      BY <1>6, <1>8, <2>0, <2>2
    <3>2. known.byCallId[known.call[v].callId] = v
      BY <1>1, <1>4, <1>8, <3>1 DEF TwoWayIndex
    <3>3. known.call[v].callId \in CallId
      BY <1>1, <1>8, <2>0, <3>1 DEF Registries, Call
    <3>4. known.call[v].callId # i
      BY <3>1, <3>2
    <3>5. known.call[v].callId # old
      <4>1. old \in CallId => known.byCallId[old] = u
        BY <1>1, <1>2, RegistryAssumption DEF TwoWayIndex, old
      <4> QED
        BY <4>1, <3>2, <3>3, <2>2
    <3> QED
      BY <1>5, <3>1, <3>2, <3>3, <3>4, <3>5
  <2> QED
    BY <2>1, <2>2
<1> QED
  BY <1>7, <1>8 DEF TwoWayIndex, bound

LEMMA RemoveUUIDIndex ==
  ASSUME NEW r \in Registries, NEW u \in UUID, TwoWayIndex(r)
  PROVE  TwoWayIndex(RemoveUUID(r, u))
  BY RegistryAssumption DEF RemoveUUID, Registries, Call, TwoWayIndex

LEMMA RemoveCallIdIndex ==
  ASSUME NEW r \in Registries, NEW i \in CallId, TwoWayIndex(r)
  PROVE  TwoWayIndex(RemoveCallId(r, i))
  BY RegistryAssumption DEF RemoveCallId, CallForCallId, Registries, Call, TwoWayIndex

LEMMA RemoveAllIndex ==
  ASSUME NEW r \in Registries
  PROVE  TwoWayIndex(RemoveAll(r))
  BY DEF RemoveAll, Registries, TwoWayIndex

LEMMA MarkCancelledIndex ==
  ASSUME NEW r \in Registries, NEW u \in UUID, NEW t \in Nat, TwoWayIndex(r)
  PROVE  TwoWayIndex(MarkCancelled(r, u, t))
  BY DEF MarkCancelled, Registries, Call, TwoWayIndex

LEMMA SetStateIndex ==
  ASSUME NEW r \in Registries, NEW u \in UUID, NEW s \in CallState, TwoWayIndex(r)
  PROVE  TwoWayIndex(SetState(r, u, s))
  BY DEF SetState, Registries, Call, TwoWayIndex

(* What is taken holds no slot, so no slot is left naming it.              *)
LEMMA TakeIndex ==
  ASSUME NEW r \in Registries, NEW t \in Nat,
         NEW taken \in SUBSET Tombstones(r), TwoWayIndex(r)
  PROVE  TwoWayIndex(TakeCancelled(r, t, Window, taken))
  BY RegistryAssumption
     DEF TakeCancelled, Expired, Tombstones, Registries, Call, TwoWayIndex
-----------------------------------------------------------------------------
(* Each step of the shared registry is one of the methods above.           *)
LEMMA NextType == TypeOK /\ [Next]_vars => TypeOK'
<1> SUFFICES ASSUME TypeOK, [Next]_vars PROVE TypeOK'
  OBVIOUS
<1> USE DEF TypeOK, Step
<1>1. CASE Tick
  BY <1>1 DEF Tick
<1>2. CASE removeAllCalls
  BY <1>2, RemoveAllType DEF removeAllCalls
<1>3. CASE takeCallCancelledBeforeInvite
  <2>1. CallToRefuse(reg, now, Window) \subseteq UUID
    BY DEF CallToRefuse, Tombstones, Registries
  <2> QED
    BY <1>3, <2>1, TakeType DEF takeCallCancelledBeforeInvite
<1>4. ASSUME NEW u \in UUID, registerCallWithUUID(u) PROVE TypeOK'
  BY <1>4, RegisterType DEF registerCallWithUUID
<1>5. ASSUME NEW u \in UUID, removeCallWithUUID(u) PROVE TypeOK'
  BY <1>5, RemoveUUIDType DEF removeCallWithUUID
<1>6. ASSUME NEW u \in UUID, markCallCancelledBeforeInvite(u) PROVE TypeOK'
  BY <1>6, MarkCancelledType DEF markCallCancelledBeforeInvite
<1>7. ASSUME NEW u \in UUID, NEW i \in CallId, bindCallId(i, u) PROVE TypeOK'
  BY <1>7, BindType DEF bindCallId
<1>8. ASSUME NEW u \in UUID, NEW s \in CallState, publishState(u, s) PROVE TypeOK'
  BY <1>8, SetStateType DEF publishState
<1>9. ASSUME NEW i \in CallId, removeCallWithCallId(i) PROVE TypeOK'
  BY <1>9, RemoveCallIdType DEF removeCallWithCallId
<1>10. CASE UNCHANGED vars
  BY <1>10 DEF vars
<1> QED
  BY <1>1, <1>2, <1>3, <1>4, <1>5, <1>6, <1>7, <1>8, <1>9, <1>10 DEF Next

(* Every registry value the class can hold is well typed.                  *)
THEOREM TypeCorrect == Spec => []TypeOK
<1>1. Init => TypeOK
  BY NewCallType DEF Init, TypeOK, EmptyRegistry, Registries
<1> QED
  BY <1>1, NextType, PTL DEF Spec

LEMMA NextIndex == TypeOK /\ IndexConsistent /\ [Next]_vars => IndexConsistent'
<1> SUFFICES ASSUME TypeOK, IndexConsistent, [Next]_vars PROVE IndexConsistent'
  OBVIOUS
<1> USE DEF TypeOK, IndexConsistent, Step
<1>1. CASE Tick
  BY <1>1 DEF Tick
<1>2. CASE removeAllCalls
  BY <1>2, RemoveAllIndex DEF removeAllCalls
<1>3. CASE takeCallCancelledBeforeInvite
  <2>1. CallToRefuse(reg, now, Window) \subseteq Tombstones(reg)
    BY DEF CallToRefuse
  <2>2. \A u \in CallToRefuse(reg, now, Window) : {u} \in SUBSET Tombstones(reg)
    BY <2>1
  <2> QED
    BY <1>3, <2>2, TakeIndex DEF takeCallCancelledBeforeInvite
<1>4. ASSUME NEW u \in UUID, registerCallWithUUID(u) PROVE IndexConsistent'
  BY <1>4, RegisterIndex DEF registerCallWithUUID
<1>5. ASSUME NEW u \in UUID, removeCallWithUUID(u) PROVE IndexConsistent'
  BY <1>5, RemoveUUIDIndex DEF removeCallWithUUID
<1>6. ASSUME NEW u \in UUID, markCallCancelledBeforeInvite(u) PROVE IndexConsistent'
  BY <1>6, MarkCancelledIndex DEF markCallCancelledBeforeInvite
<1>7. ASSUME NEW u \in UUID, NEW i \in CallId, bindCallId(i, u) PROVE IndexConsistent'
  BY <1>7, BindIndex DEF bindCallId
<1>8. ASSUME NEW u \in UUID, NEW s \in CallState, publishState(u, s)
      PROVE  IndexConsistent'
  BY <1>8, SetStateIndex DEF publishState
<1>9. ASSUME NEW i \in CallId, removeCallWithCallId(i) PROVE IndexConsistent'
  BY <1>9, RemoveCallIdIndex DEF removeCallWithCallId
<1>10. CASE UNCHANGED vars
  BY <1>10 DEF vars
<1> QED
  BY <1>1, <1>2, <1>3, <1>4, <1>5, <1>6, <1>7, <1>8, <1>9, <1>10 DEF Next

(* Whatever the order of registrations, bindings, removals and recycled    *)
(* slots, a slot and the call that holds it name each other.               *)
THEOREM IndexAlwaysConsistent == Spec => []IndexConsistent
<1>1. Init => IndexConsistent
  BY DEF Init, IndexConsistent, TwoWayIndex, EmptyRegistry
<1> QED
  BY <1>1, NextIndex, TypeCorrect, PTL DEF Spec
-----------------------------------------------------------------------------
(* Binding a slot moves no deadline.                                       *)
LEMMA BindKeepsDates ==
  ASSUME NEW r \in Registries, NEW i \in CallId, NEW u \in UUID, NEW t \in Nat
  PROVE  /\ Bind(r, i, u, t).tracked = Register(r, u, t).tracked
         /\ \A v \in UUID : Bind(r, i, u, t).call[v].cancelledAt
                              = Register(r, u, t).call[v].cancelledAt
<1> DEFINE known == Register(r, u, t)
<1>1. known \in Registries
  BY RegisterType
<1>2. i # InvalidId
  BY RegistryAssumption
<1> HIDE DEF known
<1>3. \A v \in UUID, j \in CallId \cup {InvalidId} :
        [known.call[v] EXCEPT !.callId = j].cancelledAt = known.call[v].cancelledAt
  BY <1>1 DEF Registries, Call
<1>4. /\ Bind(r, i, u, t).tracked = known.tracked
      /\ \A v \in UUID : Bind(r, i, u, t).call[v].cancelledAt = known.call[v].cancelledAt
  BY <1>1, <1>2, <1>3 DEF Bind, Registries, known
<1> QED
  BY <1>4 DEF known

(* The strengthening behind RefusedInTime: a tracked record carries the    *)
(* deadline of its first cancellation.                                     *)
HistoryMatches ==
  /\ now >= 1
  /\ \A u \in reg.tracked : cancelledOn[u] = reg.call[u].cancelledAt

LEMMA NextHistory ==
  TypeOK /\ HistoryMatches /\ [Next]_vars => HistoryMatches' /\ (RefusedInTime' \/ UNCHANGED vars)
<1> SUFFICES ASSUME TypeOK, HistoryMatches, [Next]_vars
             PROVE  HistoryMatches' /\ (RefusedInTime' \/ UNCHANGED vars)
  OBVIOUS
<1> USE RegistryAssumption DEF TypeOK, HistoryMatches, RefusedInTime, Step
<1>1. CASE Tick
  BY <1>1 DEF Tick
<1>2. CASE removeAllCalls
  BY <1>2 DEF removeAllCalls, RemoveAll, Registries
<1>3. CASE takeCallCancelledBeforeInvite
  <2>1. \A u \in CallToRefuse(reg, now, Window) :
          /\ u \in reg.tracked
          /\ reg.call[u].cancelledAt # 0
          /\ now - reg.call[u].cancelledAt <= Window
    <3>1. \A u \in CallToRefuse(reg, now, Window) :
            u \in Tombstones(reg) /\ u \notin Expired(reg, now, Window)
      BY DEF CallToRefuse
    <3>2. \A u \in Tombstones(reg) : /\ u \in reg.tracked
                                     /\ reg.call[u].cancelledAt # 0
                                     /\ reg.call[u].cancelledAt \in Nat
      BY DEF Tombstones, Registries, Call
    <3> QED
      BY <3>1, <3>2, APIAssumption DEF Expired
  <2>2. UNCHANGED <<now, cancelledOn>>
    BY <1>3 DEF takeCallCancelledBeforeInvite
  <2>3. reg'.tracked \subseteq reg.tracked /\ reg'.call = reg.call
    BY <1>3 DEF takeCallCancelledBeforeInvite, TakeCancelled, Registries
  <2>4. refused' # NoUUID => refused' \in CallToRefuse(reg, now, Window)
    BY <1>3 DEF takeCallCancelledBeforeInvite
  <2>5. HistoryMatches'
    BY <2>2, <2>3
  <2>6. RefusedInTime'
    BY <2>1, <2>2, <2>4
  <2> QED
    BY <2>5, <2>6
<1>4. ASSUME NEW u \in UUID, registerCallWithUUID(u)
      PROVE  HistoryMatches' /\ RefusedInTime'
  BY <1>4 DEF registerCallWithUUID, Register, NewCall, Registries
<1>5. ASSUME NEW u \in UUID, removeCallWithUUID(u)
      PROVE  HistoryMatches' /\ RefusedInTime'
  BY <1>5 DEF removeCallWithUUID, RemoveUUID, Registries
<1>6. ASSUME NEW u \in UUID, markCallCancelledBeforeInvite(u)
      PROVE  HistoryMatches' /\ RefusedInTime'
  BY <1>6 DEF markCallCancelledBeforeInvite, MarkCancelled, IdOf, Registries, Call
<1>7. ASSUME NEW u \in UUID, NEW i \in CallId, bindCallId(i, u)
      PROVE  HistoryMatches' /\ RefusedInTime'
  <2>1. /\ Register(reg, u, now) \in Registries
        /\ reg'.tracked = Register(reg, u, now).tracked
        /\ \A v \in UUID : reg'.call[v].cancelledAt
                              = Register(reg, u, now).call[v].cancelledAt
    <3>1. reg' = Bind(reg, i, u, now)
      BY <1>7 DEF bindCallId
    <3>2. reg \in Registries /\ now \in Nat
      OBVIOUS
    <3> HIDE DEF TypeOK, HistoryMatches, RefusedInTime, Step
    <3>3. Register(reg, u, now) \in Registries
      BY <3>2, RegisterType
    <3>4. /\ Bind(reg, i, u, now).tracked = Register(reg, u, now).tracked
          /\ \A v \in UUID : Bind(reg, i, u, now).call[v].cancelledAt
                                = Register(reg, u, now).call[v].cancelledAt
      BY <3>2, BindKeepsDates
    <3> QED
      BY <3>1, <3>3, <3>4
  <2>2. \A v \in Register(reg, u, now).tracked :
          cancelledOn'[v] = Register(reg, u, now).call[v].cancelledAt
    BY <1>7 DEF bindCallId, Register, NewCall, Registries
  <2>3. reg'.tracked \subseteq UUID
    BY <2>1 DEF Registries
  <2> QED
    BY <1>7, <2>1, <2>2, <2>3 DEF bindCallId
<1>8. ASSUME NEW u \in UUID, NEW s \in CallState, publishState(u, s)
      PROVE  HistoryMatches' /\ RefusedInTime'
  BY <1>8 DEF publishState, SetState, Registries, Call
<1>9. ASSUME NEW i \in CallId, removeCallWithCallId(i)
      PROVE  HistoryMatches' /\ RefusedInTime'
  BY <1>9 DEF removeCallWithCallId, RemoveCallId, CallForCallId, Registries
<1>10. CASE UNCHANGED vars
  BY <1>10 DEF vars
<1> QED
  BY <1>1, <1>2, <1>3, <1>4, <1>5, <1>6, <1>7, <1>8, <1>9, <1>10 DEF Next

(* A cancellation never refuses an INVITE later than answerTimeout after   *)
(* the user or the server first gave up on the call.                       *)
THEOREM RefusalsInTime == Spec => []RefusedInTime
<1>1. Init => HistoryMatches /\ RefusedInTime
  BY DEF Init, HistoryMatches, RefusedInTime, EmptyRegistry
<1>2. RefusedInTime /\ UNCHANGED vars => RefusedInTime'
  BY DEF RefusedInTime, vars
<1> QED
  BY <1>1, <1>2, NextHistory, TypeCorrect, PTL DEF Spec
=============================================================================
