------------------------- MODULE CallLifecycleProofs -------------------------
(***************************************************************************)
(* For any set of calls, any number of slots and any surroundings, of the  *)
(* client with a host that owns CallKit and of the one that owns it        *)
(* itself: every variable keeps its type, a call rejected ahead of its     *)
(* INVITE never holds a slot, one rejection is remembered until the INVITE *)
(* comes, a push and an INVITE find each other, and a call that rings has  *)
(* its screen. With one slot, no dialog is left without a call.            *)
(*                                                                         *)
(* That a rejected call holds no slot rests on dates. A new record is told *)
(* from one that comes back by createdAt, and a record that may be bound   *)
(* has not been rejected (Formed).                                         *)
(*                                                                         *)
(* What becomes of a rejection is followed from the start to the first     *)
(* INVITE (Mindful): until then no slot is used, so every action either    *)
(* keeps the registry or touches one call.                                 *)
(*                                                                         *)
(* That a push and an INVITE find each other is about each step by itself, *)
(* given that a record which ended was rejected (EndsRejected): a handler  *)
(* carries every call but its own over (Carried), and the two that bring a *)
(* push and an INVITE together are looked at call by call.                 *)
(*                                                                         *)
(* The last two are about a state at rest, so their invariants say what    *)
(* holds on the way there. Of a dialog (Housed): its call is in the        *)
(* registry or will be, and nothing queued behind clears it, or sipQueue   *)
(* is about to hang it up. Of a call that rings (Ringing): what a record   *)
(* may say of a rejected call, which calls a stop() still under way may    *)
(* report, and that the provider was told of every call not given up, and  *)
(* of no end since.                                                        *)
(*                                                                         *)
(* Every operator has a lemma that says what it does to the records        *)
(* (..How), one that keeps the registry formed (..Formed) and one for the  *)
(* state machine around it (..Sound); every action then has one that it    *)
(* keeps the types (..Typed), and one for each of the others (..Mindful,   *)
(* ..Housed, ..Meets, ..Told) that it can disturb.                         *)
(***************************************************************************)
EXTENDS ManagedCalls, FiniteSetTheorems, WellFoundedInduction, SequenceTheorems, TLAPS

(* The lemmas about the registry, for the one inside the state machine.    *)
Index == INSTANCE CallRegistryProofs
  WITH MaxNow <- 0, reg <- sm.reg, refused <- NoUUID, cancelledOn <- rejectedAt

Date == Nat \ {0}

Formed(r, t) ==
  /\ r \in Registries /\ TwoWayIndex(r) /\ IsFiniteSet(r.tracked)
  /\ \A u \in UUID : r.call[u].createdAt <= t
  /\ \A u \in r.tracked : /\ r.call[u].createdAt # 0
                          /\ r.call[u].cancelledAt # 0 => r.call[u].callId = InvalidId

Sound(s, t) == s \in StateMachines /\ Formed(s.reg, t)
-----------------------------------------------------------------------------
(* CallRegistryProofs is taken by INSTANCE: its operators are these.       *)
LEMMA SameRegistry ==
  /\ Registries = Index!Registries
  /\ \A r : TwoWayIndex(r) = Index!TwoWayIndex(r)
  /\ \A r, u, t : Register(r, u, t) = Index!Register(r, u, t)
  /\ \A r, i, u, t : Bind(r, i, u, t) = Index!Bind(r, i, u, t)
  /\ \A r, u : RemoveUUID(r, u) = Index!RemoveUUID(r, u)
  /\ \A r : RemoveAll(r) = Index!RemoveAll(r)
  /\ \A r, u, t : MarkCancelled(r, u, t) = Index!MarkCancelled(r, u, t)
  /\ \A r, u, st : SetState(r, u, st) = Index!SetState(r, u, st)
  /\ \A r : Tombstones(r) = Index!Tombstones(r)
  /\ \A r, t, w, taken : TakeCancelled(r, t, w, taken) = Index!TakeCancelled(r, t, w, taken)
  /\ \A r : AwaitingInvite(r) = Index!AwaitingInvite(r)
<1>1. Registries = Index!Registries
  BY DEF Registries, Index!Registries, Call, Index!Call, CallState, Index!CallState
<1>2. \A r : TwoWayIndex(r) = Index!TwoWayIndex(r)
  BY DEF TwoWayIndex, Index!TwoWayIndex
<1>3. \A r, u, t : Register(r, u, t) = Index!Register(r, u, t)
  BY DEF Register, Index!Register, NewCall, Index!NewCall
<1>4. \A r, i, u, t : Bind(r, i, u, t) = Index!Bind(r, i, u, t)
  BY DEF Register, Index!Register, NewCall, Index!NewCall, Bind, Index!Bind
<1>5. \A r, u : RemoveUUID(r, u) = Index!RemoveUUID(r, u)
  BY DEF RemoveUUID, Index!RemoveUUID
<1>6. \A r : RemoveAll(r) = Index!RemoveAll(r)
  BY DEF RemoveAll, Index!RemoveAll
<1>7. \A r, u, t : MarkCancelled(r, u, t) = Index!MarkCancelled(r, u, t)
  BY DEF MarkCancelled, Index!MarkCancelled
<1>8. \A r, u, st : SetState(r, u, st) = Index!SetState(r, u, st)
  BY DEF SetState, Index!SetState
<1>9. \A r : Tombstones(r) = Index!Tombstones(r)
  BY DEF Tombstones, Index!Tombstones
<1>10. \A r, t, w, taken : TakeCancelled(r, t, w, taken) = Index!TakeCancelled(r, t, w, taken)
  BY DEF TakeCancelled, Index!TakeCancelled, Expired, Index!Expired, Tombstones, Index!Tombstones
<1>11. \A r : AwaitingInvite(r) = Index!AwaitingInvite(r)
  BY DEF AwaitingInvite, Index!AwaitingInvite
<1> QED BY <1>1, <1>2, <1>3, <1>4, <1>5, <1>6, <1>7, <1>8, <1>9, <1>10, <1>11

(* Every method of the registry keeps it well typed and its index two-way. *)
LEMMA Consistent ==
  ASSUME NEW r \in Registries, TwoWayIndex(r), NEW u \in UUID, NEW t \in Nat
  PROVE  /\ Register(r, u, t) \in Registries /\ TwoWayIndex(Register(r, u, t))
         /\ \A i \in CallId : Bind(r, i, u, t) \in Registries /\ TwoWayIndex(Bind(r, i, u, t))
         /\ RemoveUUID(r, u) \in Registries /\ TwoWayIndex(RemoveUUID(r, u))
         /\ RemoveAll(r) \in Registries /\ TwoWayIndex(RemoveAll(r))
         /\ MarkCancelled(r, u, t) \in Registries /\ TwoWayIndex(MarkCancelled(r, u, t))
         /\ \A st \in CallState : SetState(r, u, st) \in Registries /\ TwoWayIndex(SetState(r, u, st))
<1> USE RegistryAssumption, LifecycleAssumption, SameRegistry
<1>0. r \in Index!Registries /\ Index!TwoWayIndex(r) /\ 0 \in Nat
  OBVIOUS
<1>1. Register(r, u, t) \in Registries /\ TwoWayIndex(Register(r, u, t))
  BY <1>0, Index!RegisterType, Index!RegisterIndex
<1>2. \A i \in CallId : Bind(r, i, u, t) \in Registries /\ TwoWayIndex(Bind(r, i, u, t))
  BY <1>0, Index!BindType, Index!BindIndex
<1>3. RemoveUUID(r, u) \in Registries /\ TwoWayIndex(RemoveUUID(r, u))
  BY <1>0, Index!RemoveUUIDType, Index!RemoveUUIDIndex
<1>4. RemoveAll(r) \in Registries /\ TwoWayIndex(RemoveAll(r))
  BY <1>0, Index!RemoveAllType, Index!RemoveAllIndex
<1>5. MarkCancelled(r, u, t) \in Registries /\ TwoWayIndex(MarkCancelled(r, u, t))
  BY <1>0, Index!MarkCancelledType, Index!MarkCancelledIndex
<1>6. \A st \in CallState : SetState(r, u, st) \in Registries /\ TwoWayIndex(SetState(r, u, st))
  <2>1. CallState = Index!CallState BY DEF CallState, Index!CallState
  <2> QED BY <1>0, <2>1, Index!SetStateType, Index!SetStateIndex
<1> QED BY <1>1, <1>2, <1>3, <1>4, <1>5, <1>6
-----------------------------------------------------------------------------
(* What a method does to the records.                                      *)
LEMMA RegisterHow ==
  ASSUME NEW r \in Registries, NEW u \in UUID, NEW t \in Nat
  PROVE  /\ Register(r, u, t).tracked = r.tracked \cup {u}
         /\ \A v \in UUID : Register(r, u, t).call[v]
                              = IF v = u /\ u \notin r.tracked THEN NewCall(t) ELSE r.call[v]
  BY DEF Register, Registries

LEMMA BindHow ==
  ASSUME NEW r \in Registries, NEW u \in UUID, NEW i \in CallId, NEW t \in Nat
  PROVE  LET k == Register(r, u, t)
             b == Bind(r, i, u, t)
         IN  /\ b.tracked = r.tracked \cup {u}
             /\ \A v \in UUID : /\ b.call[v].state = k.call[v].state
                                /\ b.call[v].reported = k.call[v].reported
                                /\ b.call[v].createdAt = k.call[v].createdAt
                                /\ b.call[v].cancelledAt = k.call[v].cancelledAt
             /\ \A v \in UUID \ {u} : b.call[v].callId \in {k.call[v].callId, InvalidId}
<1> DEFINE k == Register(r, u, t)
           b == Bind(r, i, u, t)
<1>1. k \in Registries BY SameRegistry, Index!RegisterType, RegistryAssumption, LifecycleAssumption
<1>2. i # InvalidId BY RegistryAssumption
<1>3. k.tracked = r.tracked \cup {u} BY RegisterHow
<1> HIDE DEF k
<1>4. /\ b.tracked = k.tracked
      /\ \A v \in UUID : b.call[v] = IF v = u THEN [k.call[v] EXCEPT !.callId = i]
                                     ELSE IF v = r.byCallId[i] THEN [k.call[v] EXCEPT !.callId = InvalidId]
                                     ELSE k.call[v]
  BY <1>1, <1>2 DEF Bind, k, Registries
<1> HIDE DEF b
<1>5. \A v \in UUID : k.call[v] \in Call BY <1>1 DEF Registries
<1>6. \A e : \A c \in Call, j \in {i, InvalidId} :
        e = [c EXCEPT !.callId = j] =>
          /\ e.state = c.state /\ e.reported = c.reported /\ e.createdAt = c.createdAt
          /\ e.cancelledAt = c.cancelledAt /\ e.callId = j
  BY DEF Call
<1>7. ASSUME NEW v \in UUID
      PROVE  /\ b.call[v].state = k.call[v].state /\ b.call[v].reported = k.call[v].reported
             /\ b.call[v].createdAt = k.call[v].createdAt
             /\ b.call[v].cancelledAt = k.call[v].cancelledAt
             /\ v # u => b.call[v].callId \in {k.call[v].callId, InvalidId}
  <2> DEFINE c == k.call[v]
             d == b.call[v]
  <2>1. c \in Call BY <1>5
  <2>2. d = c \/ \E j \in {i, InvalidId} : d = [c EXCEPT !.callId = j] /\ (v # u => j = InvalidId)
    BY <1>4
  <2> HIDE DEF c, d
  <2>3. /\ d.state = c.state /\ d.reported = c.reported /\ d.createdAt = c.createdAt
        /\ d.cancelledAt = c.cancelledAt /\ (v # u => d.callId \in {c.callId, InvalidId})
    BY <2>1, <2>2, <1>6
  <2> QED BY <2>3 DEF c, d
<1> QED BY <1>3, <1>4, <1>7 DEF k, b

LEMMA RemoveHow ==
  ASSUME NEW r \in Registries, NEW u \in UUID
  PROVE  /\ RemoveUUID(r, u).tracked = r.tracked \ {u} /\ RemoveUUID(r, u).call = r.call
         /\ RemoveAll(r).tracked = {} /\ RemoveAll(r).call = r.call
  BY DEF RemoveUUID, RemoveAll, Registries

LEMMA MarkHow ==
  ASSUME NEW r \in Registries, NEW u \in UUID, NEW t \in Nat
  PROVE  LET m == MarkCancelled(r, u, t)
         IN  /\ m.tracked = r.tracked
             /\ \A v \in UUID : /\ m.call[v].callId = r.call[v].callId
                                /\ m.call[v].state = r.call[v].state
                                /\ m.call[v].createdAt = r.call[v].createdAt
                                /\ m.call[v].reported = r.call[v].reported
                                /\ v # u => m.call[v].cancelledAt = r.call[v].cancelledAt
             /\ m.call[u].cancelledAt
                  = IF u \in r.tracked /\ r.call[u].callId = InvalidId /\ r.call[u].cancelledAt = 0
                    THEN t ELSE r.call[u].cancelledAt
  BY DEF MarkCancelled, Registries, Call

LEMMA SetStateHow ==
  ASSUME NEW r \in Registries, NEW u \in UUID, NEW st \in CallState
  PROVE  LET m == SetState(r, u, st)
         IN  /\ m.tracked = r.tracked
             /\ \A v \in UUID : /\ m.call[v].callId = r.call[v].callId
                                /\ m.call[v].state = IF v = u THEN st ELSE r.call[v].state
                                /\ m.call[v].createdAt = r.call[v].createdAt
                                /\ m.call[v].cancelledAt = r.call[v].cancelledAt
  BY DEF SetState, Registries, Call

LEMMA SetReportedHow ==
  ASSUME NEW r \in Registries, NEW u \in UUID
  PROVE  LET m == SetReported(r, u)
         IN  /\ m \in Registries /\ m.tracked = r.tracked /\ m.byCallId = r.byCallId
             /\ \A v \in UUID : /\ m.call[v].callId = r.call[v].callId
                                /\ m.call[v].state = r.call[v].state
                                /\ m.call[v].createdAt = r.call[v].createdAt
                                /\ m.call[v].cancelledAt = r.call[v].cancelledAt
  BY DEF SetReported, Registries, Call

LEMMA TakeHow ==
  ASSUME NEW r \in Registries, NEW t \in Nat, NEW taken \in SUBSET Tombstones(r), TwoWayIndex(r)
  PROVE  LET m == TakeCancelled(r, t, Window, taken)
         IN  /\ m \in Registries /\ TwoWayIndex(m)
             /\ m.tracked \subseteq r.tracked /\ m.call = r.call
<1>1. r \in Index!Registries /\ Index!TwoWayIndex(r) /\ taken \in SUBSET Index!Tombstones(r) /\ 0 \in Nat
  BY SameRegistry
<1>2. TakeCancelled(r, t, Window, taken) \in Registries
  BY <1>1, SameRegistry, Index!TakeType, RegistryAssumption, LifecycleAssumption
<1>3. TwoWayIndex(TakeCancelled(r, t, Window, taken))
  BY <1>1, SameRegistry, Index!TakeIndex, RegistryAssumption, LifecycleAssumption
<1>4. TakeCancelled(r, t, Window, taken).tracked \subseteq r.tracked
      /\ TakeCancelled(r, t, Window, taken).call = r.call
  BY DEF TakeCancelled, Registries
<1> QED BY <1>2, <1>3, <1>4
-----------------------------------------------------------------------------
(* ... and keeps it formed.                                                *)
LEMMA RegisterFormed ==
  ASSUME NEW t \in Date, NEW r, Formed(r, t), NEW u \in UUID
  PROVE  Formed(Register(r, u, t), t)
<1>1. Register(r, u, t) \in Registries /\ TwoWayIndex(Register(r, u, t))
  BY Consistent DEF Formed, Date
<1>0. IsFiniteSet(r.tracked) /\ r \in Registries /\ t \in Nat BY DEF Formed, Date
<1>2. IsFiniteSet(r.tracked \cup {u}) BY <1>0, FS_AddElement
<1>3. NewCall(t).createdAt = t /\ NewCall(t).cancelledAt = 0 BY DEF NewCall
<1> DEFINE m == Register(r, u, t)
<1>4. /\ m.tracked = r.tracked \cup {u}
      /\ \A v \in UUID : m.call[v] = IF v = u /\ u \notin r.tracked THEN NewCall(t) ELSE r.call[v]
  BY <1>0, RegisterHow
<1> HIDE DEF m
<1>5. Formed(m, t) BY <1>0, <1>1, <1>2, <1>3, <1>4 DEF Formed, Registries, Date, m
<1> QED BY <1>5 DEF m

LEMMA BindFormed ==
  ASSUME NEW t \in Date, NEW r, Formed(r, t), NEW u \in UUID, NEW i \in CallId,
         Register(r, u, t).call[u].cancelledAt = 0
  PROVE  Formed(Bind(r, i, u, t), t)
<1> DEFINE k == Register(r, u, t)
           b == Bind(r, i, u, t)
<1>1. r \in Registries /\ TwoWayIndex(r) /\ t \in Nat BY DEF Formed, Date
<1>2. b \in Registries /\ TwoWayIndex(b) BY <1>1, Consistent
<1>3. Formed(k, t) /\ k.tracked = r.tracked \cup {u} BY <1>1, RegisterFormed, RegisterHow
<1>4. /\ b.tracked = r.tracked \cup {u}
      /\ \A v \in UUID : /\ b.call[v].createdAt = k.call[v].createdAt
                         /\ b.call[v].cancelledAt = k.call[v].cancelledAt
      /\ \A v \in UUID \ {u} : b.call[v].callId \in {k.call[v].callId, InvalidId}
  BY <1>1, BindHow
<1>5. k.call[u].cancelledAt = 0 OBVIOUS
<1> HIDE DEF k, b
<1>6. k.tracked \subseteq UUID BY <1>3 DEF Formed, Registries
<1>7. Formed(b, t) BY <1>2, <1>3, <1>4, <1>5, <1>6 DEF Formed
<1> QED BY <1>7 DEF b

LEMMA RemoveFormed ==
  ASSUME NEW t \in Date, NEW r, Formed(r, t), NEW u \in UUID
  PROVE  Formed(RemoveUUID(r, u), t)
<1>1. r \in Registries /\ TwoWayIndex(r) /\ t \in Nat BY DEF Formed, Date
<1>2. RemoveUUID(r, u) \in Registries /\ TwoWayIndex(RemoveUUID(r, u)) BY <1>1, Consistent
<1>3. IsFiniteSet(r.tracked) BY DEF Formed
<1>4. IsFiniteSet(r.tracked \ {u}) BY <1>3, FS_RemoveElement
<1> DEFINE m == RemoveUUID(r, u)
<1>5. m.tracked = r.tracked \ {u} /\ m.call = r.call BY <1>1, RemoveHow
<1> HIDE DEF m
<1>6. Formed(m, t) BY <1>1, <1>2, <1>4, <1>5 DEF Formed, m
<1> QED BY <1>6 DEF m

LEMMA RemoveAllFormed ==
  ASSUME NEW t \in Date, NEW r, Formed(r, t)
  PROVE  Formed(RemoveAll(r), t)
<1>1. RemoveAll(r) \in Registries /\ TwoWayIndex(RemoveAll(r))
      /\ RemoveAll(r).tracked = {} /\ RemoveAll(r).call = r.call
  BY DEF Formed, RemoveAll, Registries, TwoWayIndex
<1>2. IsFiniteSet({}) BY FS_EmptySet
<1> QED BY <1>1, <1>2 DEF Formed

LEMMA MarkFormed ==
  ASSUME NEW t \in Date, NEW r, Formed(r, t), NEW u \in UUID
  PROVE  Formed(MarkCancelled(r, u, t), t)
<1> DEFINE m == MarkCancelled(r, u, t)
<1>1. r \in Registries /\ TwoWayIndex(r) /\ t \in Nat /\ r.tracked \subseteq UUID
  BY DEF Formed, Date, Registries
<1>2. m \in Registries /\ TwoWayIndex(m) BY <1>1, Consistent
<1>3. /\ m.tracked = r.tracked
      /\ \A v \in UUID : /\ m.call[v].callId = r.call[v].callId
                         /\ m.call[v].createdAt = r.call[v].createdAt
                         /\ v # u => m.call[v].cancelledAt = r.call[v].cancelledAt
      /\ m.call[u].cancelledAt
           = IF u \in r.tracked /\ r.call[u].callId = InvalidId /\ r.call[u].cancelledAt = 0
             THEN t ELSE r.call[u].cancelledAt
  BY <1>1, MarkHow
<1> HIDE DEF m
<1>4. Formed(m, t) BY <1>1, <1>2, <1>3 DEF Formed
<1> QED BY <1>4 DEF m

LEMMA SetStateFormed ==
  ASSUME NEW t \in Date, NEW r, Formed(r, t), NEW u \in UUID, NEW st \in CallState
  PROVE  Formed(SetState(r, u, st), t)
<1> DEFINE m == SetState(r, u, st)
<1>1. r \in Registries /\ TwoWayIndex(r) /\ t \in Nat /\ r.tracked \subseteq UUID
  BY DEF Formed, Date, Registries
<1>2. m \in Registries /\ TwoWayIndex(m) BY <1>1, Consistent
<1>3. /\ m.tracked = r.tracked
      /\ \A v \in UUID : /\ m.call[v].callId = r.call[v].callId
                         /\ m.call[v].createdAt = r.call[v].createdAt
                         /\ m.call[v].cancelledAt = r.call[v].cancelledAt
  BY <1>1, SetStateHow
<1> HIDE DEF m
<1>4. Formed(m, t) BY <1>1, <1>2, <1>3 DEF Formed
<1> QED BY <1>4 DEF m

LEMMA SetReportedFormed ==
  ASSUME NEW t \in Date, NEW r, Formed(r, t), NEW u \in UUID
  PROVE  Formed(SetReported(r, u), t)
<1> DEFINE m == SetReported(r, u)
<1>1. r \in Registries /\ TwoWayIndex(r) /\ t \in Nat /\ r.tracked \subseteq UUID
  BY DEF Formed, Date, Registries
<1>2. /\ m \in Registries /\ m.tracked = r.tracked /\ m.byCallId = r.byCallId
      /\ \A v \in UUID : /\ m.call[v].callId = r.call[v].callId
                         /\ m.call[v].createdAt = r.call[v].createdAt
                         /\ m.call[v].cancelledAt = r.call[v].cancelledAt
  BY <1>1, SetReportedHow
<1> HIDE DEF m
<1>3. TwoWayIndex(m) BY <1>1, <1>2 DEF TwoWayIndex, Registries
<1>4. Formed(m, t) BY <1>1, <1>2, <1>3 DEF Formed
<1> QED BY <1>4 DEF m

LEMMA TakeFormed ==
  ASSUME NEW t \in Date, NEW r, Formed(r, t), NEW taken \in SUBSET Tombstones(r)
  PROVE  Formed(TakeCancelled(r, t, Window, taken), t)
<1> DEFINE m == TakeCancelled(r, t, Window, taken)
<1>1. r \in Registries /\ TwoWayIndex(r) /\ t \in Nat BY DEF Formed, Date
<1>2. m \in Registries /\ TwoWayIndex(m) /\ m.tracked \subseteq r.tracked /\ m.call = r.call
  BY <1>1, TakeHow
<1> HIDE DEF m
<1>5. IsFiniteSet(r.tracked) BY DEF Formed
<1>3. IsFiniteSet(m.tracked) BY <1>2, <1>5, FS_Subset
<1>4. Formed(m, t) BY <1>1, <1>2, <1>3 DEF Formed
<1> QED BY <1>4 DEF m
-----------------------------------------------------------------------------
(* No call but u is touched, except that others may go; none is forgotten. *)
Only(r, n, u) ==
  /\ \A v \in UUID \ {u} : /\ v \in n.tracked => v \in r.tracked
                           /\ n.call[v].state = r.call[v].state
                           /\ n.call[v].cancelledAt = r.call[v].cancelledAt
  /\ \A v \in UUID : r.call[v].createdAt # 0 => n.call[v].createdAt # 0

(* ... over two steps, and by every method of the registry.                *)
LEMMA OnlyTransitive ==
  ASSUME NEW a, NEW b, NEW c, NEW u \in UUID, Only(a, b, u), Only(b, c, u)
  PROVE  Only(a, c, u)
  BY DEF Only

LEMMA OnlyOne ==
  ASSUME NEW t \in Date, NEW r, Formed(r, t), NEW u \in UUID
  PROVE  /\ Only(r, r, u) /\ Only(r, Register(r, u, t), u)
         /\ \A i \in CallId : Only(r, Bind(r, i, u, t), u)
         /\ \A v \in UUID : Only(r, RemoveUUID(r, v), u)
         /\ Only(r, RemoveAll(r), u) /\ Only(r, MarkCancelled(r, u, t), u)
         /\ \A st \in CallState : Only(r, SetState(r, u, st), u)
         /\ Only(r, SetReported(r, u), u)
         /\ \A taken \in SUBSET Tombstones(r) : Only(r, TakeCancelled(r, t, Window, taken), u)
<1>1. r \in Registries /\ TwoWayIndex(r) /\ t \in Nat /\ t # 0 BY DEF Formed, Date
<1>2. Only(r, r, u) BY DEF Only
<1>3. Only(r, Register(r, u, t), u)
  <2>1. NewCall(t).createdAt = t BY DEF NewCall
  <2> QED BY <1>1, <2>1, RegisterHow DEF Only
<1>4. ASSUME NEW i \in CallId PROVE Only(r, Bind(r, i, u, t), u)
  <2> DEFINE k == Register(r, u, t)
             b == Bind(r, i, u, t)
  <2>1. /\ b.tracked = r.tracked \cup {u}
        /\ \A v \in UUID : /\ b.call[v].state = k.call[v].state
                           /\ b.call[v].createdAt = k.call[v].createdAt
                           /\ b.call[v].cancelledAt = k.call[v].cancelledAt
    BY <1>1, BindHow
  <2> HIDE DEF b, k
  <2>2. Only(r, k, u) BY <1>3 DEF k
  <2>3. Only(r, b, u) BY <2>1, <2>2 DEF Only
  <2> QED BY <2>3 DEF b
<1>5. \A v \in UUID : Only(r, RemoveUUID(r, v), u) BY <1>1, RemoveHow DEF Only
<1>6. Only(r, RemoveAll(r), u) BY <1>1, RemoveHow DEF Only
<1>7. Only(r, MarkCancelled(r, u, t), u)
  <2> DEFINE m == MarkCancelled(r, u, t)
  <2>1. /\ m.tracked = r.tracked
        /\ \A v \in UUID : /\ m.call[v].state = r.call[v].state
                           /\ m.call[v].createdAt = r.call[v].createdAt
                           /\ v # u => m.call[v].cancelledAt = r.call[v].cancelledAt
    BY <1>1, MarkHow
  <2> HIDE DEF m
  <2>2. Only(r, m, u) BY <2>1 DEF Only
  <2> QED BY <2>2 DEF m
<1>8. ASSUME NEW st \in CallState PROVE Only(r, SetState(r, u, st), u)
  BY <1>1, SetStateHow DEF Only
<1>9. Only(r, SetReported(r, u), u)
  BY <1>1, SetReportedHow DEF Only
<1>10. ASSUME NEW taken \in SUBSET Tombstones(r)
       PROVE  Only(r, TakeCancelled(r, t, Window, taken), u)
  BY <1>1, TakeHow DEF Only
<1> QED BY <1>2, <1>3, <1>4, <1>5, <1>6, <1>7, <1>8, <1>9, <1>10
-----------------------------------------------------------------------------
(* Natural numbers have a least one.                                       *)
LEMMA LeastNatural ==
  ASSUME NEW S \in SUBSET Nat, S # {}
  PROVE  \E n \in S : \A m \in S : n <= m
<1> DEFINE R == OpToRel(<, Nat)
<1>1. IsWellFoundedOn(R, Nat) BY NatLessThanWellFounded
<1>2. \A x, y \in Nat : x < y => <<x, y>> \in R BY DEF OpToRel
<1> HIDE DEF R
<1>3. PICK n \in S : \A y \in S : ~(<<y, n>> \in R) BY <1>1, WFMin
<1>4. ASSUME NEW m \in S PROVE n <= m
  <2>1. n \in Nat /\ m \in Nat OBVIOUS
  <2>2. ~(<<m, n>> \in R) BY <1>3
  <2>3. ~(m < n) BY <1>2, <2>1, <2>2
  <2> QED BY <2>1, <2>3
<1> QED BY <1>4

(* Dates are natural numbers, so one of several live calls is the newest.  *)
LEMMA NewestType ==
  ASSUME NEW t \in Date, NEW r, Formed(r, t)
  PROVE  Newest(r) \in UUID \cup {NoUUID}
<1> DEFINE Age(u) == t - r.call[u].createdAt
           Ages == {Age(u) : u \in Live(r)}
<1>1. Live(r) \subseteq UUID BY DEF Live, Formed, Registries
<1>2. \A u \in UUID : r.call[u].createdAt \in Nat /\ r.call[u].createdAt <= t
  BY DEF Formed, Registries, Call
<1>3. CASE Live(r) = {} BY <1>3 DEF Newest
<1>4. CASE Live(r) # {}
  <2>1. Ages \in SUBSET Nat BY <1>1, <1>2 DEF Date
  <2>2. Ages # {} BY <1>4
  <2>3. PICK n \in Ages : \A m \in Ages : n <= m
    <3> HIDE DEF Ages
    <3> QED BY <2>1, <2>2, LeastNatural
  <2>4. PICK u \in Live(r) : n = Age(u) BY <2>3
  <2>5. \A v \in Live(r) : Age(u) <= Age(v) BY <2>3, <2>4
  <2>6. u \in MostRecentCall(r) BY <1>1, <1>2, <2>5 DEF MostRecentCall, Date
  <2>7. MostRecentCall(r) \subseteq UUID BY <1>1 DEF MostRecentCall
  <2> QED BY <1>4, <2>6, <2>7 DEF Newest
<1> QED BY <1>3, <1>4

(* The mutators of the state machine.                                      *)
LEMMA WithRegistry ==
  ASSUME NEW t \in Date, NEW s, Sound(s, t), NEW r, Formed(r, t)
  PROVE  /\ Sound([s EXCEPT !.reg = r], t) /\ [s EXCEPT !.reg = r].reg = r
         /\ [s EXCEPT !.reg = r].current = s.current
  BY DEF Sound, StateMachines, Formed

(* The mutators of the state machine.                                      *)
LEMMA PublishSound ==
  ASSUME NEW t \in Date, NEW s, Sound(s, t), NEW u \in UUID, NEW st \in CallState
  PROVE  /\ Sound(PublishState(s, u, st), t)
         /\ PublishState(s, u, st).reg = IF u \in s.reg.tracked THEN SetState(s.reg, u, st) ELSE s.reg
         /\ Only(s.reg, PublishState(s, u, st).reg, u)
<1>1. Formed(s.reg, t) BY DEF Sound
<1>2. Formed(SetState(s.reg, u, st), t) /\ Only(s.reg, SetState(s.reg, u, st), u)
      /\ Only(s.reg, s.reg, u)
  BY <1>1, SetStateFormed, OnlyOne
<1>3. PublishState(s, u, st).reg = IF u \in s.reg.tracked THEN SetState(s.reg, u, st) ELSE s.reg
  BY DEF PublishState
<1>4. PublishState(s, u, st) \in StateMachines
  <2>1. SetState(s.reg, u, st) \in Registries BY <1>2 DEF Formed
  <2> QED BY <2>1 DEF PublishState, Sound, StateMachines, AggregateState
<1> QED BY <1>1, <1>2, <1>3, <1>4 DEF Sound

LEMMA AdoptSound ==
  ASSUME NEW t \in Date, NEW s, Sound(s, t), NEW u \in UUID
  PROVE  /\ Sound(AdoptCurrentCall(s, u), t) /\ AdoptCurrentCall(s, u).reg = s.reg
  BY DEF Sound, AdoptCurrentCall, StateMachines

LEMMA DetachSound ==
  ASSUME NEW t \in Date, NEW s, Sound(s, t), NEW u \in UUID
  PROVE  /\ Sound(DetachIfCurrent(s, u), t) /\ DetachIfCurrent(s, u).reg = s.reg
<1>1. Newest(s.reg) \in UUID \cup {NoUUID} BY NewestType DEF Sound
<1> QED BY <1>1 DEF Sound, DetachIfCurrent, StateMachines

LEMMA ClearSound ==
  ASSUME NEW t \in Date, NEW s, Sound(s, t), NEW u \in UUID
  PROVE  /\ Sound(ClearCall(s, u), t) /\ ClearCall(s, u).reg = RemoveUUID(s.reg, u)
<1>1. Formed(RemoveUUID(s.reg, u), t) BY RemoveFormed DEF Sound
<1>2. [s EXCEPT !.reg = RemoveUUID(@, u)] = [s EXCEPT !.reg = RemoveUUID(s.reg, u)]
  BY DEF Sound, StateMachines
<1>3. /\ Sound([s EXCEPT !.reg = RemoveUUID(@, u)], t)
      /\ [s EXCEPT !.reg = RemoveUUID(@, u)].reg = RemoveUUID(s.reg, u)
  BY <1>1, <1>2, WithRegistry
<1> QED BY <1>3, DetachSound DEF ClearCall

LEMMA ResetSound ==
  ASSUME NEW t \in Date, NEW s, Sound(s, t)
  PROVE  /\ Sound(ResetToIdle(s), t) /\ ResetToIdle(s).reg = s.reg
  BY DEF Sound, ResetToIdle, StateMachines, AggregateState
-----------------------------------------------------------------------------
(* What the handlers make of the state machine.                            *)
Wanted(r, u) == u \in r.tracked /\ r.call[u].cancelledAt = 0

RingsFresh(r, u) == Wanted(r, u) /\ r.call[u].state = "incoming"

Gone(r, u) == u \notin r.tracked

Rejected(r, u) == r.call[u].cancelledAt # 0 /\ r.call[u].state = "ended"

(* An INVITE, bound to a call nobody has given up on.                      *)
LEMMA BindInviteSound ==
  ASSUME NEW t \in Date, NEW s, Sound(s, t), NEW u \in UUID, NEW i \in CallId,
         Register(s.reg, u, t).call[u].cancelledAt = 0
  PROVE  LET p == BindInvite(s, i, u, t)
         IN  Sound(p, t) /\ Only(s.reg, p.reg, u) /\ RingsFresh(p.reg, u)
<1> DEFINE b == Bind(s.reg, i, u, t)
           x == [s EXCEPT !.reg = b]
           y == AdoptCurrentCall(x, u)
           p == PublishState(y, u, "incoming")
<1>1. Formed(s.reg, t) /\ s.reg \in Registries /\ t \in Nat BY DEF Sound, Formed, Date
<1>2. Formed(b, t) /\ Only(s.reg, b, u) BY <1>1, BindFormed, OnlyOne
<1>3. b.tracked = s.reg.tracked \cup {u} /\ b.call[u].cancelledAt = 0 /\ b \in Registries
  BY <1>1, <1>2, BindHow DEF Formed
<1>4. BindInvite(s, i, u, t) = p BY DEF BindInvite, Sound, StateMachines
<1> HIDE DEF b
<1>5. Sound(x, t) /\ x.reg = b BY <1>2, WithRegistry
<1> HIDE DEF x
<1>6. Sound(y, t) /\ y.reg = b BY <1>5, AdoptSound
<1> HIDE DEF y
<1>7. "incoming" \in CallState BY DEF CallState
<1>8. Sound(p, t) /\ p.reg = SetState(b, u, "incoming") /\ Only(b, p.reg, u)
  BY <1>3, <1>6, <1>7, PublishSound
<1> HIDE DEF p
<1>9. RingsFresh(p.reg, u) BY <1>3, <1>7, <1>8, SetStateHow DEF RingsFresh, Wanted
<1>10. Only(s.reg, p.reg, u) BY <1>2, <1>8, OnlyTransitive
<1> QED BY <1>4, <1>8, <1>9, <1>10

(* A push that takes its call on, with or without the dialog of an orphan. *)
LEMMA PrepareSound ==
  ASSUME NEW t \in Date, NEW s, Sound(s, t), NEW u \in UUID, NEW p \in PrepareIncoming(s, u, t)
  PROVE  Sound(p, t) /\ Only(s.reg, p.reg, u) /\ RingsFresh(p.reg, u)
<1> DEFINE k == Register(s.reg, u, t)
           known == [s EXCEPT !.reg = k]
           taken == SetReported(k, u)
           end(r) == PublishState(AdoptCurrentCall([known EXCEPT !.reg = r], u), u, "incoming")
<1>1. Formed(s.reg, t) /\ s.reg \in Registries /\ t \in Nat BY DEF Sound, Formed, Date
<1>2. Formed(k, t) /\ k \in Registries /\ Only(s.reg, k, u) /\ k.tracked = s.reg.tracked \cup {u}
  BY <1>1, RegisterFormed, OnlyOne, RegisterHow DEF Formed
<1>3. [s EXCEPT !.reg = Register(@, u, t)] = known /\ known.reg = k BY DEF Sound, StateMachines
<1>4. Sound(known, t) BY <1>2, WithRegistry
<1>5. /\ k.call[u].cancelledAt = 0
      /\ \/ p = end(taken)
         \/ \E v \in Orphans(taken, u) : p = end(RemoveUUID(Bind(taken, taken.call[v].callId, u, t), v))
  BY <1>3 DEF PrepareIncoming
<1> HIDE DEF k, known
<1>6. /\ Formed(taken, t) /\ taken \in Registries /\ Only(k, taken, u)
      /\ taken.tracked = k.tracked /\ taken.call[u].cancelledAt = k.call[u].cancelledAt
  <2>1. Formed(taken, t) /\ Only(k, taken, u) BY <1>2, SetReportedFormed, OnlyOne
  <2>2. taken \in Registries /\ taken.tracked = k.tracked
        /\ \A v \in UUID : taken.call[v].cancelledAt = k.call[v].cancelledAt
    BY <1>2, SetReportedHow
  <2> QED BY <2>1, <2>2
<1> HIDE DEF taken
<1>7. ASSUME NEW r, Formed(r, t), Only(s.reg, r, u), u \in r.tracked, r.call[u].cancelledAt = 0
      PROVE  LET q == end(r)
             IN  Sound(q, t) /\ Only(s.reg, q.reg, u) /\ RingsFresh(q.reg, u)
  <2> DEFINE x == [known EXCEPT !.reg = r]
             y == AdoptCurrentCall(x, u)
             q == PublishState(y, u, "incoming")
  <2>1. Sound(x, t) /\ x.reg = r BY <1>4, <1>7, WithRegistry
  <2> HIDE DEF x
  <2>2. Sound(y, t) /\ y.reg = r BY <2>1, AdoptSound
  <2> HIDE DEF y
  <2>3. "incoming" \in CallState /\ r \in Registries BY <1>7 DEF CallState, Formed
  <2>4. Sound(q, t) /\ q.reg = SetState(r, u, "incoming") /\ Only(r, q.reg, u)
    BY <1>7, <2>2, <2>3, PublishSound
  <2> HIDE DEF q
  <2>5. RingsFresh(q.reg, u) BY <1>7, <2>3, <2>4, SetStateHow DEF RingsFresh, Wanted
  <2>6. Only(s.reg, q.reg, u) BY <1>7, <2>4, OnlyTransitive
  <2> QED BY <2>4, <2>5, <2>6 DEF x, y, q
<1> HIDE DEF end
<1>8. Only(s.reg, taken, u) BY <1>2, <1>6, OnlyTransitive
<1>9. CASE p = end(taken) BY <1>2, <1>5, <1>6, <1>7, <1>8, <1>9
<1>10. ASSUME NEW v \in Orphans(taken, u), p = end(RemoveUUID(Bind(taken, taken.call[v].callId, u, t), v))
       PROVE  Sound(p, t) /\ Only(s.reg, p.reg, u) /\ RingsFresh(p.reg, u)
  <2> DEFINE i == taken.call[v].callId
             b == Bind(taken, i, u, t)
             r == RemoveUUID(b, v)
  <2>1. v \in UUID /\ v # u /\ i \in CallId
    BY <1>6 DEF Orphans, Live, Registries, Call
  <2> HIDE DEF i
  <2>2. Register(taken, u, t) = taken BY <1>2, <1>6 DEF Register
  <2>3. Formed(b, t) /\ Only(taken, b, u) BY <1>5, <1>6, <2>1, <2>2, BindFormed, OnlyOne
  <2>4. u \in b.tracked /\ b.call[u].cancelledAt = 0 /\ b \in Registries
    BY <1>1, <1>5, <1>6, <2>1, <2>2, <2>3, BindHow DEF Formed
  <2> HIDE DEF b
  <2>5. Formed(r, t) /\ Only(b, r, u) BY <2>1, <2>3, RemoveFormed, OnlyOne
  <2>6. u \in r.tracked /\ r.call[u].cancelledAt = 0 BY <2>1, <2>4, RemoveHow
  <2>7. p = end(r) BY <1>10 DEF i, b
  <2> HIDE DEF r
  <2>8. Only(s.reg, r, u) BY <1>8, <2>3, <2>5, OnlyTransitive
  <2> QED BY <1>7, <2>5, <2>6, <2>7, <2>8
<1> QED BY <1>5, <1>9, <1>10

(* A retraction, or a push that comes after its cancellation: the call is  *)
(* remembered as cancelled, or goes with its dialog.                       *)
LEMMA RetractSound ==
  ASSUME NEW t \in Date, NEW s, Sound(s, t), NEW u \in UUID
  PROVE  LET p == RetractCall(s, u, t)
         IN  Sound(p, t) /\ Only(s.reg, p.reg, u) /\ (Rejected(p.reg, u) \/ Gone(p.reg, u))
<1> DEFINE k == Register(s.reg, u, t)
           known == [s EXCEPT !.reg = k]
           m == MarkCancelled(k, u, t)
           marked == [known EXCEPT !.reg = m]
           p == RetractCall(s, u, t)
<1>1. Formed(s.reg, t) /\ s.reg \in Registries /\ t \in Nat /\ t # 0 BY DEF Sound, Formed, Date
<1>2. Formed(k, t) /\ k \in Registries /\ Only(s.reg, k, u) /\ k.tracked = s.reg.tracked \cup {u}
  BY <1>1, RegisterFormed, OnlyOne, RegisterHow DEF Formed
<1>3. [s EXCEPT !.reg = Register(@, u, t)] = known /\ known.reg = k
      /\ [known EXCEPT !.reg = MarkCancelled(@, u, t)] = marked
  BY DEF Sound, StateMachines
<1>4. Sound(known, t) BY <1>2, WithRegistry
<1>5. p = IF k.call[u].callId = InvalidId
          THEN DetachIfCurrent(PublishState(marked, u, "ended"), u)
          ELSE ClearCall(PublishState(known, u, "ended"), u)
  BY <1>3 DEF RetractCall
<1>6. "ended" \in CallState BY DEF CallState
<1> HIDE DEF k, known, p
<1>7. CASE k.call[u].callId = InvalidId
  <2>1. Formed(m, t) /\ m \in Registries /\ Only(k, m, u) BY <1>2, MarkFormed, OnlyOne DEF Formed
  <2>2. m.tracked = k.tracked /\ m.call[u].cancelledAt # 0 BY <1>1, <1>2, <1>7, MarkHow
  <2> HIDE DEF m
  <2>3. Sound(marked, t) /\ marked.reg = m BY <1>4, <2>1, WithRegistry
  <2> HIDE DEF marked
  <2> DEFINE x == PublishState(marked, u, "ended")
  <2>4. Sound(x, t) /\ x.reg = SetState(m, u, "ended") /\ Only(m, x.reg, u)
    BY <1>2, <1>6, <2>2, <2>3, PublishSound
  <2> HIDE DEF x
  <2>5. Sound(p, t) /\ p.reg = x.reg
    BY <1>5, <1>7, <2>4, DetachSound DEF x
  <2>6. Rejected(p.reg, u) BY <1>6, <2>1, <2>2, <2>4, <2>5, SetStateHow DEF Rejected
  <2>7. Only(s.reg, p.reg, u) BY <1>2, <2>1, <2>4, <2>5, OnlyTransitive
  <2> QED BY <2>5, <2>6, <2>7 DEF p
<1>8. CASE k.call[u].callId # InvalidId
  <2> DEFINE x == PublishState(known, u, "ended")
  <2>1. Sound(x, t) /\ Only(k, x.reg, u) BY <1>3, <1>4, <1>6, PublishSound
  <2> HIDE DEF x
  <2>2. Sound(p, t) /\ p.reg = RemoveUUID(x.reg, u) BY <1>5, <1>8, <2>1, ClearSound DEF x
  <2>3. Formed(x.reg, t) /\ x.reg \in Registries BY <2>1 DEF Sound, Formed
  <2>4. Only(x.reg, p.reg, u) /\ Gone(p.reg, u) BY <2>2, <2>3, OnlyOne, RemoveHow DEF Gone
  <2>5. Only(s.reg, p.reg, u) BY <1>2, <2>1, <2>4, OnlyTransitive
  <2> QED BY <2>2, <2>4, <2>5 DEF p
<1> QED BY <1>7, <1>8

(* A call the host ends before there is an INVITE.                         *)
LEMMA RejectSound ==
  ASSUME NEW t \in Date, NEW s, Sound(s, t), NEW u \in UUID,
         [s EXCEPT !.reg = MarkCancelled(@, u, t)] # s
  PROVE  LET p == DetachIfCurrent(PublishState([s EXCEPT !.reg = MarkCancelled(@, u, t)], u, "ended"), u)
         IN  Sound(p, t) /\ Only(s.reg, p.reg, u) /\ Rejected(p.reg, u)
<1> DEFINE m == MarkCancelled(s.reg, u, t)
           marked == [s EXCEPT !.reg = m]
           x == PublishState(marked, u, "ended")
           p == DetachIfCurrent(x, u)
<1>1. Formed(s.reg, t) /\ s.reg \in Registries /\ t \in Nat /\ t # 0 BY DEF Sound, Formed, Date
<1>2. [s EXCEPT !.reg = MarkCancelled(@, u, t)] = marked BY DEF Sound, StateMachines
<1>3. m # s.reg BY <1>2 DEF Sound, StateMachines
<1>4. u \in s.reg.tracked /\ s.reg.call[u].callId = InvalidId /\ s.reg.call[u].cancelledAt = 0
  BY <1>3 DEF MarkCancelled
<1>5. Formed(m, t) /\ m \in Registries /\ Only(s.reg, m, u) BY <1>1, MarkFormed, OnlyOne DEF Formed
<1>6. m.tracked = s.reg.tracked /\ m.call[u].cancelledAt # 0 BY <1>1, <1>4, MarkHow
<1> HIDE DEF m
<1>7. Sound(marked, t) /\ marked.reg = m BY <1>5, WithRegistry
<1> HIDE DEF marked
<1>8. "ended" \in CallState BY DEF CallState
<1>9. Sound(x, t) /\ x.reg = SetState(m, u, "ended") /\ Only(m, x.reg, u)
  BY <1>4, <1>6, <1>7, <1>8, PublishSound
<1> HIDE DEF x
<1>10. Sound(p, t) /\ p.reg = x.reg BY <1>9, DetachSound
<1> HIDE DEF p
<1>11. Rejected(p.reg, u) BY <1>5, <1>6, <1>8, <1>9, <1>10, SetStateHow DEF Rejected
<1>12. Only(s.reg, p.reg, u) BY <1>5, <1>9, <1>10, OnlyTransitive
<1> QED BY <1>2, <1>10, <1>11, <1>12 DEF p, x

(* A call that is over, and one that is cleared as it is.                  *)
LEMMA ClearedSound ==
  ASSUME NEW t \in Date, NEW s, Sound(s, t), NEW u \in UUID
  PROVE  LET p == ClearCall(s, u)
         IN  Sound(p, t) /\ Only(s.reg, p.reg, u) /\ Gone(p.reg, u)
<1>1. Formed(s.reg, t) /\ s.reg \in Registries BY DEF Sound, Formed
<1> QED BY <1>1, ClearSound, OnlyOne, RemoveHow DEF Gone

LEMMA EndAndClearSound ==
  ASSUME NEW t \in Date, NEW s, Sound(s, t), NEW u \in UUID
  PROVE  LET p == EndAndClear(s, u)
         IN  Sound(p, t) /\ Only(s.reg, p.reg, u) /\ Gone(p.reg, u)
<1> DEFINE x == PublishState(s, u, "ended")
           p == ClearCall(x, u)
<1>1. "ended" \in CallState BY DEF CallState
<1>2. Sound(x, t) /\ Only(s.reg, x.reg, u) BY <1>1, PublishSound
<1>3. Sound(p, t) /\ Only(x.reg, p.reg, u) /\ Gone(p.reg, u)
  <2> HIDE DEF x
  <2> QED BY <1>2, ClearedSound
<1> HIDE DEF x
<1>4. Only(s.reg, p.reg, u) BY <1>2, <1>3, OnlyTransitive
<1> QED BY <1>3, <1>4 DEF EndAndClear, x

(* A state the call has reached: its record, where there is one, says so.  *)
LEMMA ReachedSound ==
  ASSUME NEW t \in Date, NEW s, Sound(s, t), NEW u \in UUID, NEW st \in {"connecting", "active"}
  PROVE  LET p == PublishState(s, u, st)
         IN  /\ Sound(p, t) /\ Only(s.reg, p.reg, u)
             /\ p.reg.tracked = s.reg.tracked
             /\ p.reg.call[u].cancelledAt = s.reg.call[u].cancelledAt
             /\ u \in s.reg.tracked => p.reg.call[u].state = st
<1>1. st \in CallState BY DEF CallState
<1>2. s.reg \in Registries BY DEF Sound, Formed
<1> QED BY <1>1, <1>2, PublishSound, SetStateHow
-----------------------------------------------------------------------------
(* Time passes: nothing was registered in the future.                      *)
LEMMA LaterSound ==
  ASSUME NEW t \in Date, NEW s, Sound(s, t), NEW n \in Nat, t <= n
  PROVE  n \in Date /\ Sound(s, n)
<1>1. \A u \in UUID : s.reg.call[u].createdAt \in Nat
  BY DEF Sound, Formed, Registries, Call
<1>2. \A u \in UUID : s.reg.call[u].createdAt <= t
  BY DEF Sound, Formed
<1>3. t \in Nat /\ n \in Date BY DEF Date
<1>4. ASSUME NEW u \in UUID PROVE s.reg.call[u].createdAt <= n
  <2> DEFINE d == s.reg.call[u].createdAt
  <2>1. d \in Nat /\ d <= t BY <1>1, <1>2
  <2> HIDE DEF d
  <2>2. d <= n BY <1>3, <2>1 DEF Date
  <2> QED BY <2>2 DEF d
<1> QED BY <1>3, <1>4 DEF Sound, Formed

(* The calls that stop() takes along are finite in number.                 *)
MainBlock == Block \cup {b \in StoppedBlock : IsFiniteSet(b.calls)}
QueuedBlock == SIPBlock \cup {b \in StopBlock : IsFiniteSet(b.calls)}

Timed(bag) == IsABag(bag) /\ BagToSet(bag) \subseteq Block

Typed ==
  /\ setup \in Setups /\ left \in [DOMAIN setup.budget -> Nat]
  /\ now \in Date /\ Sound(sm, now)
  /\ mainQ \in Seq(MainBlock) /\ sipQ \in Seq(QueuedBlock)
  /\ Timed(delayed)
  /\ dialog \in [CallId -> Dialog]
  /\ accepted \subseteq Nat
  /\ rejectedAt \in [UUID -> Nat] /\ ends \in [UUID -> Nat]
  /\ seen \subseteq UUID /\ stray \in BOOLEAN

LEMMA WiderSequence ==
  ASSUME NEW S, NEW T, S \subseteq T
  PROVE  Seq(S) \subseteq Seq(T)
  OBVIOUS

(* ... and that is TypeOK.                                                 *)
LEMMA TypedIsTypeOK ==
  ASSUME Typed
  PROVE  TypeOK
<1>1. MainBlock \subseteq Block \cup StoppedBlock /\ QueuedBlock \subseteq SIPBlock \cup StopBlock
  BY DEF MainBlock, QueuedBlock
<1>2. Seq(MainBlock) \subseteq Seq(Block \cup StoppedBlock)
      /\ Seq(QueuedBlock) \subseteq Seq(SIPBlock \cup StopBlock)
  BY <1>1, WiderSequence
<1> QED BY <1>2 DEF Typed, TypeOK, Timed, Date, Sound

(* What a block names, and what it takes to be one.                        *)
LEMMA Blocks ==
  /\ \A u \in UUID, op \in Op \ {"invite", "settled"} : Run(op, u, InvalidId) \in Block
  /\ \A i \in CallId : Run("invite", NoUUID, i) \in Block /\ \A u \in UUID : Run("settled", u, i) \in Block
  /\ \A u \in UUID, i \in CallId, op \in SIPOp : Run(op, u, i) \in QueuedBlock
  /\ Block \subseteq MainBlock
<1>1. \A u \in UUID, op \in Op \ {"invite", "settled"} : Run(op, u, InvalidId) \in Block
  BY DEF Run, Block
<1>2. \A i \in CallId : Run("invite", NoUUID, i) \in Block /\ \A u \in UUID : Run("settled", u, i) \in Block
  BY DEF Run, Block
<1>3. \A u \in UUID, i \in CallId, op \in SIPOp : Run(op, u, i) \in QueuedBlock
  BY DEF Run, SIPBlock, QueuedBlock
<1> QED BY <1>1, <1>2, <1>3 DEF MainBlock

LEMMA MainHead ==
  ASSUME Typed, mainQ # <<>>
  PROVE  LET b == Head(mainQ)
         IN  /\ b \in MainBlock /\ Tail(mainQ) \in Seq(MainBlock) /\ mainQ = <<b>> \o Tail(mainQ)
             /\ b.op \in {"invite", "settled"} => b.id \in CallId
             /\ b.op \notin {"invite", "stopped"} => b.uuid \in UUID
             /\ b.op = "stopped" => b.calls \subseteq UUID /\ IsFiniteSet(b.calls)
<1>1. Head(mainQ) \in MainBlock /\ Tail(mainQ) \in Seq(MainBlock) /\ mainQ = <<Head(mainQ)>> \o Tail(mainQ)
  BY DEF Typed
<1>2. ASSUME NEW b \in MainBlock
      PROVE  /\ b.op \in {"invite", "settled"} => b.id \in CallId
             /\ b.op \notin {"invite", "stopped"} => b.uuid \in UUID
             /\ b.op = "stopped" => b.calls \subseteq UUID /\ IsFiniteSet(b.calls)
  BY DEF MainBlock, Block, StoppedBlock, Op
<1> QED BY <1>1, <1>2

LEMMA SIPHead ==
  ASSUME Typed, sipQ # <<>>
  PROVE  LET b == Head(sipQ)
         IN  /\ b \in QueuedBlock /\ Tail(sipQ) \in Seq(QueuedBlock) /\ sipQ = <<b>> \o Tail(sipQ)
             /\ b.op \in SIPOp => b.uuid \in UUID /\ b.id \in CallId
             /\ b.op \in {"stop", "destroy"} =>
                  /\ b \in StopBlock /\ b.calls \subseteq UUID /\ IsFiniteSet(b.calls)
                  /\ b.onMain \in BOOLEAN
<1>1. Head(sipQ) \in QueuedBlock /\ Tail(sipQ) \in Seq(QueuedBlock) /\ sipQ = <<Head(sipQ)>> \o Tail(sipQ)
  BY DEF Typed
<1>2. ASSUME NEW b \in QueuedBlock
      PROVE  /\ b.op \in SIPOp => b.uuid \in UUID /\ b.id \in CallId
             /\ b.op \in {"stop", "destroy"} =>
                  /\ b \in StopBlock /\ b.calls \subseteq UUID /\ IsFiniteSet(b.calls)
                  /\ b.onMain \in BOOLEAN
  BY DEF QueuedBlock, SIPBlock, StopBlock, SIPOp
<1> QED BY <1>1, <1>2
-----------------------------------------------------------------------------
(* The shared steps keep the variables they assign typed.                  *)
LEMMA SpendTyped ==
  ASSUME Typed, NEW kind, Spend(kind)
  PROVE  /\ setup' \in Setups /\ left' \in [DOMAIN setup'.budget -> Nat] /\ setup' = setup
         /\ \A k \in DOMAIN setup.budget : left'[k] <= left[k]
<1>1. setup' = setup /\ setup \in Setups /\ left' = [left EXCEPT ![kind] = @ - 1] /\ left[kind] > 0
  BY DEF Spend, Typed
<1> DEFINE D == DOMAIN setup.budget
<1>2. left \in [D -> Nat] BY DEF Typed
<1> HIDE DEF D
<1>3. left' = [k \in D |-> IF k = kind THEN left[k] - 1 ELSE left[k]]
  BY <1>1, <1>2
<1>4. \A k \in D : /\ left[k] \in Nat /\ left[k] <= left[k]
                   /\ k = kind => left[k] - 1 \in Nat /\ left[k] - 1 <= left[k]
  BY <1>1, <1>2
<1>5. left' \in [D -> Nat] /\ \A k \in D : left'[k] <= left[k]
  BY <1>3, <1>4
<1> QED BY <1>1, <1>5 DEF D

LEMMA ScheduleTyped ==
  ASSUME Typed, NEW b \in Block, Schedule(b)
  PROVE  Timed(delayed')
<1>1. delayed' = [e \in DOMAIN delayed \cup {b} |->
                    (IF e \in DOMAIN delayed THEN delayed[e] ELSE 0)
                      + (IF e \in {b} THEN 1 ELSE 0)]
  BY DEF Schedule, (+), SetToBag
<1> QED BY <1>1 DEF Typed, Timed, IsABag, BagToSet

LEMMA RingTimeoutTyped ==
  ASSUME Typed, NEW u \in UUID, ScheduleRingTimeout(u)
  PROVE  Timed(delayed')
<1>1. Run("ringTimeout", u, InvalidId) \in Block BY Blocks DEF Op
<1> QED BY <1>1, ScheduleTyped DEF ScheduleRingTimeout, Typed

LEMMA FiresTyped ==
  ASSUME Typed, NEW b, Fires(b)
  PROVE  Timed(delayed') /\ b \in Block
<1>1. delayed' = delayed (-) SetToBag({b}) /\ b \in DOMAIN delayed
  BY DEF Fires, BagIn, BagToSet
<1>2. b \in Block BY <1>1 DEF Typed, Timed, BagToSet
<1> DEFINE f == [e \in DOMAIN delayed |-> IF e \in {b} THEN delayed[e] - 1 ELSE delayed[e]]
<1>3. delayed' = [e \in {d \in DOMAIN f : f[d] > 0} |-> f[e]]
  BY <1>1 DEF (-), SetToBag
<1>4. \A e \in DOMAIN f : f[e] \in Int /\ e \in Block
  BY DEF Typed, Timed, IsABag, BagToSet
<1> HIDE DEF f
<1>5. Timed(delayed') BY <1>3, <1>4 DEF Timed, IsABag, BagToSet
<1> QED BY <1>2, <1>5

LEMMA SettleTyped ==
  ASSUME Typed, NEW s, Sound(s, now), Settle(s)
  PROVE  now' \in Date /\ now <= now' /\ sm' = s /\ Sound(sm', now')
<1>1. now' \in {now, now + 1} /\ sm' = s BY DEF Settle, AdvanceClock
<1>2. now' \in Nat /\ now <= now' BY <1>1 DEF Typed, Date
<1> QED BY <1>1, <1>2, LaterSound DEF Typed

(* What a lookup may answer.                                               *)
LEMMA Lookups ==
  ASSUME Typed
  PROVE  /\ \A u \in UUID : IdOf(sm.reg, u) \in CallId \cup {InvalidId}
         /\ \A i : CallForCallId(sm.reg, i) \in UUID \cup {NoUUID}
         /\ \A arg \in UUID \cup {NoUUID} : ResolveCall(sm, arg) \in UUID \cup {NoUUID}
         /\ \A u : IdOf(sm.reg, u) # InvalidId => u \in sm.reg.tracked /\ u \in UUID
<1>1. sm.reg \in Registries /\ sm.reg.tracked \subseteq UUID /\ now \in Date /\ Formed(sm.reg, now)
      /\ sm.current \in UUID \cup {NoUUID}
  BY DEF Typed, Sound, Formed, Registries, StateMachines
<1>2. \A u \in UUID : IdOf(sm.reg, u) \in CallId \cup {InvalidId}
  BY <1>1 DEF IdOf, Registries, Call
<1>3. \A i : CallForCallId(sm.reg, i) \in UUID \cup {NoUUID}
  BY <1>1 DEF CallForCallId, Registries
<1>4. Newest(sm.reg) \in UUID \cup {NoUUID} BY <1>1, NewestType
<1>5. \A arg \in UUID \cup {NoUUID} : ResolveCall(sm, arg) \in UUID \cup {NoUUID}
  BY <1>1, <1>4 DEF ResolveCall
<1>6. \A u : IdOf(sm.reg, u) # InvalidId => u \in sm.reg.tracked /\ u \in UUID
  BY <1>1 DEF IdOf
<1> QED BY <1>2, <1>3, <1>5, <1>6

LEMMA PerformTyped ==
  ASSUME Typed, NEW op \in SIPOp, NEW u \in UUID, NEW i \in CallId, PerformSIPAsync(op, u, i)
  PROVE  sipQ' \in Seq(QueuedBlock)
<1>1. Run(op, u, i) \in QueuedBlock BY Blocks
<1> QED BY <1>1 DEF Typed, PerformSIPAsync

LEMMA ReportTyped ==
  ASSUME Typed, NEW u \in UUID, ReportCallEnded(u)
  PROVE  ends' \in [UUID -> Nat] /\ \A v \in UUID \ {u} : ends'[v] = ends[v]
  BY DEF Typed, ReportCallEnded

LEMMA StoppedTyped ==
  ASSUME Typed, NEW calls \in SUBSET UUID, ReportStopped(calls)
  PROVE  Sound(sm', now) /\ sm'.reg = sm.reg /\ ends' \in [UUID -> Nat]
         /\ \A v \in UUID \ calls : ends'[v] = ends[v]
<1>1. Sound(sm', now) /\ sm'.reg = sm.reg BY ResetSound DEF Typed, ReportStopped
<1> QED BY <1>1 DEF Typed, ReportStopped

LEMMA DisconnectedTyped ==
  ASSUME Typed, NEW i
  PROVE  \/ WithDisconnected(mainQ, i) = mainQ
         \/ \E u \in UUID : /\ u = CallForCallId(sm.reg, i)
                            /\ Run("disconnected", u, InvalidId) \in MainBlock
                            /\ WithDisconnected(mainQ, i)
                                 = Append(mainQ, Run("disconnected", u, InvalidId))
<1>1. \A u \in UUID : Run("disconnected", u, InvalidId) \in MainBlock BY Blocks DEF Op
<1> QED BY <1>1, Lookups DEF WithDisconnected

LEMMA AttemptTyped ==
  ASSUME Typed, NEW u \in UUID, AttemptAccept(u)
  PROVE  Timed(delayed') /\ accepted' \subseteq Nat
<1> DEFINE id == IdOf(sm.reg, u)
           b == IF id = InvalidId THEN Run("poll", u, InvalidId) ELSE Run("settled", u, id)
<1>1. id \in CallId \cup {InvalidId} BY Lookups
<1>2. Schedule(b) /\ accepted' = IF id = InvalidId \/ dialog[id].state = "free" THEN accepted
                                 ELSE accepted \cup {dialog[id].nth}
  BY DEF AttemptAccept
<1> HIDE DEF id
<1>3. b \in Block BY <1>1, Blocks DEF Op
<1>4. Timed(delayed') BY <1>2, <1>3, ScheduleTyped
<1>5. accepted' \subseteq Nat BY <1>1, <1>2 DEF Typed, Dialog
<1> QED BY <1>4, <1>5

LEMMA HandleTyped ==
  ASSUME Typed, NEW u \in UUID, HandleCancelled(u)
  PROVE  /\ now' \in Date /\ now <= now' /\ Sound(sm', now')
         /\ sipQ' \in Seq(QueuedBlock)
         /\ rejectedAt' \in [UUID -> Nat] /\ ends' \in [UUID -> Nat]
         /\ \A v \in UUID \ {u} : ends'[v] = ends[v]
<1> DEFINE id == IdOf(sm.reg, u)
<1>0. now \in Nat /\ now <= now BY DEF Typed, Date
<1>1. CASE u \in sm.reg.tracked /\ sm.reg.call[u].state = "ended"
  <2>1. UNCHANGED <<sm, now, sipQ, ends, rejectedAt>> BY <1>1 DEF HandleCancelled
  <2> QED BY <1>0, <2>1 DEF Typed
<1>2. CASE ~(u \in sm.reg.tracked /\ sm.reg.call[u].state = "ended")
  <2>1. /\ Settle(RetractCall(sm, u, now))
        /\ IF id = InvalidId THEN UNCHANGED sipQ ELSE PerformSIPAsync("end", u, id)
        /\ rejectedAt' = IF id = InvalidId /\ rejectedAt[u] = 0
                         THEN [rejectedAt EXCEPT ![u] = now] ELSE rejectedAt
        /\ ReportCallEnded(u)
    BY <1>2 DEF HandleCancelled
  <2>2. id \in CallId \cup {InvalidId} BY Lookups
  <2> HIDE DEF id
  <2>3. Sound(RetractCall(sm, u, now), now) BY RetractSound DEF Typed
  <2>4. now' \in Date /\ now <= now' /\ Sound(sm', now') BY <2>1, <2>3, SettleTyped
  <2>5. sipQ' \in Seq(QueuedBlock) BY <2>1, <2>2, PerformTyped DEF Typed, SIPOp
  <2>6. rejectedAt' \in [UUID -> Nat] BY <1>0, <2>1 DEF Typed
  <2> QED BY <2>1, <2>4, <2>5, <2>6, ReportTyped
<1> QED BY <1>1, <1>2

LEMMA DialogTyped ==
  ASSUME Typed, NEW i \in CallId
  PROVE  /\ [dialog EXCEPT ![i] = NoDialog] \in [CallId -> Dialog]
         /\ \A st \in DialogState : [dialog EXCEPT ![i].state = st] \in [CallId -> Dialog]
  BY DEF Typed, Dialog, NoDialog, DialogState

LEMMA EndSIPCallTyped ==
  ASSUME Typed, NEW i \in CallId, NEW then \in Seq(MainBlock), EndSIPCall(i, then)
  PROVE  dialog' \in [CallId -> Dialog] /\ mainQ' \in Seq(MainBlock)
<1>0. mainQ \in Seq(MainBlock) BY DEF Typed
<1>1. WithDisconnected(mainQ, i) \in Seq(MainBlock) /\ mainQ \in Seq(MainBlock)
  <2>1. \A b \in MainBlock : Append(mainQ, b) \in Seq(MainBlock) BY <1>0
  <2> QED BY <1>0, <2>1, DisconnectedTyped
<1>2. \/ mainQ' = mainQ \o then
      \/ mainQ' = WithDisconnected(mainQ, i) \o then
  BY DEF EndSIPCall
<1>3. mainQ' \in Seq(MainBlock)
  <2> DEFINE q == WithDisconnected(mainQ, i)
  <2>1. q \in Seq(MainBlock) BY <1>1
  <2>2. mainQ' = mainQ \o then \/ mainQ' = q \o then BY <1>2
  <2> HIDE DEF q
  <2> QED BY <1>1, <2>1, <2>2, ConcatProperties
<1>4. \/ dialog' = dialog \/ dialog' = [dialog EXCEPT ![i] = NoDialog]
      \/ dialog' = [dialog EXCEPT ![i].state = "closing"]
  BY DEF EndSIPCall
<1>5. dialog' \in [CallId -> Dialog] BY <1>4, DialogTyped DEF Typed, DialogState
<1> QED BY <1>3, <1>5
-----------------------------------------------------------------------------
(* A call that waits for an INVITE, and one nobody has heard of, may be    *)
(* bound: neither has been given up.                                       *)
LEMMA MayBind ==
  ASSUME Typed
  PROVE  /\ \A u \in CallAwaitingInvite(sm.reg) :
              u \in UUID /\ Register(sm.reg, u, now).call[u].cancelledAt = 0
         /\ \A u \in UUID : ~Known(u) =>
              /\ u \notin sm.reg.tracked
              /\ Register(sm.reg, u, now).call[u].cancelledAt = 0
              /\ ~Register(sm.reg, u, now).call[u].reported
<1>1. sm.reg \in Registries /\ now \in Nat /\ Formed(sm.reg, now)
  BY DEF Typed, Sound, Formed, Date
<1>2. ASSUME NEW u \in CallAwaitingInvite(sm.reg)
      PROVE  u \in UUID /\ Register(sm.reg, u, now).call[u].cancelledAt = 0
  <2>1. u \in sm.reg.tracked /\ sm.reg.call[u].cancelledAt = 0
    BY DEF CallAwaitingInvite, AwaitingInvite
  <2> QED BY <1>1, <2>1 DEF Register, Registries
<1>3. ASSUME NEW u \in UUID, ~Known(u)
      PROVE  /\ u \notin sm.reg.tracked
             /\ Register(sm.reg, u, now).call[u].cancelledAt = 0
             /\ ~Register(sm.reg, u, now).call[u].reported
  <2>1. u \notin sm.reg.tracked BY <1>1, <1>3 DEF Known, Formed
  <2>2. Register(sm.reg, u, now).call[u] = NewCall(now) BY <1>1, <2>1, RegisterHow
  <2> QED BY <2>1, <2>2 DEF NewCall
<1> QED BY <1>2, <1>3

LEMMA FreshType ==
  ASSUME Typed, Fresh # {}
  PROVE  (CHOOSE v \in Fresh : TRUE) \in UUID /\ ~Known(CHOOSE v \in Fresh : TRUE)
  BY LifecycleAssumption DEF Fresh

LEMMA InviteTyped ==
  ASSUME Typed, handleIncomingSIPCall
  PROVE  Typed'
<1> DEFINE id == Head(mainQ).id
<1>1. mainQ # <<>> /\ Head(mainQ).op = "invite" /\ mainQ' = Tail(mainQ)
      /\ UNCHANGED <<sipQ, dialog, bounds, history>>
  BY DEF handleIncomingSIPCall, HeadIs, Done
<1>2. id \in CallId /\ mainQ' \in Seq(MainBlock) BY <1>1, MainHead
<1>3. now' \in Date /\ Sound(sm', now') /\ Timed(delayed')
  <2>1. ASSUME NEW u \in CallAwaitingInvite(sm.reg), Settle(BindInvite(sm, id, u, now)),
               UNCHANGED delayed
        PROVE  now' \in Date /\ Sound(sm', now') /\ Timed(delayed')
    <3>1. Sound(BindInvite(sm, id, u, now), now) BY <1>2, MayBind, BindInviteSound DEF Typed
    <3> QED BY <2>1, <3>1, SettleTyped DEF Typed
  <2>2. ASSUME NEW u \in UUID, ~Known(u), Settle(BindInvite(sm, id, u, now)), ScheduleRingTimeout(u)
        PROVE  now' \in Date /\ Sound(sm', now') /\ Timed(delayed')
    <3>1. Sound(BindInvite(sm, id, u, now), now) BY <1>2, <2>2, MayBind, BindInviteSound DEF Typed
    <3> QED BY <2>2, <3>1, SettleTyped, RingTimeoutTyped
  <2> QED BY <2>1, <2>2, FreshType DEF handleIncomingSIPCall
<1> QED BY <1>1, <1>2, <1>3 DEF Typed, bounds, history, inviteHistory

(* The blocks whose effect does not depend on who owns CallKit.            *)
SharedBlock ==
  \/ callConfirmed \/ callDisconnected \/ callConnecting \/ callTerminated
  \/ incomingCallTimeout \/ attemptAccept \/ acceptTimedOut \/ answerCall \/ acceptFailed \/ stopped

LEMMA BlockTyped ==
  ASSUME Typed, SharedBlock
  PROVE  Typed'
<1> DEFINE b == Head(mainQ)
<1>1. mainQ # <<>>
  BY DEF SharedBlock, callConfirmed, callDisconnected, callConnecting, callTerminated,
         incomingCallTimeout, attemptAccept, acceptTimedOut, answerCall, acceptFailed, stopped, HeadIs
<1>2. /\ Tail(mainQ) \in Seq(MainBlock)
      /\ b.op = "settled" => b.id \in CallId
      /\ b.op \notin {"invite", "stopped"} => b.uuid \in UUID
      /\ b.op = "stopped" => b.calls \in SUBSET UUID
  BY <1>1, MainHead
<1> HIDE DEF b
<1>3. now \in Date /\ Sound(sm, now) BY DEF Typed
<1>4. CASE callConfirmed \/ callConnecting
  <2>1. /\ mainQ' = Tail(mainQ) /\ UNCHANGED <<now, sipQ, delayed, dialog, bounds, history>>
        /\ b.uuid \in UUID /\ \E st \in {"connecting", "active"} : sm' = PublishState(sm, b.uuid, st)
    BY <1>2, <1>4 DEF callConfirmed, callConnecting, HeadIs, Done, b
  <2>2. Sound(sm', now) BY <1>3, <2>1, ReachedSound
  <2> QED BY <1>2, <2>1, <2>2 DEF Typed, bounds, history, inviteHistory
<1>5. CASE callDisconnected
  <2>1. /\ mainQ' = Tail(mainQ)
        /\ UNCHANGED <<now, sipQ, delayed, dialog, bounds, accepted, rejectedAt, inviteHistory>>
        /\ b.uuid \in UUID /\ sm' = EndAndClear(sm, b.uuid) /\ ReportCallEnded(b.uuid)
    BY <1>2, <1>5 DEF callDisconnected, HeadIs, Done, b
  <2>2. Sound(sm', now) BY <1>3, <2>1, EndAndClearSound
  <2>3. ends' \in [UUID -> Nat] BY <2>1, ReportTyped
  <2> QED BY <1>2, <2>1, <2>2, <2>3 DEF Typed, bounds, inviteHistory
<1>6. CASE callTerminated
  <2>1. /\ mainQ' = Tail(mainQ)
        /\ UNCHANGED <<now, sipQ, delayed, dialog, bounds, history>>
        /\ b.uuid \in UUID /\ sm' = EndAndClear(sm, b.uuid)
    BY <1>2, <1>6 DEF callTerminated, HeadIs, Done, b
  <2>2. Sound(sm', now) BY <1>3, <2>1, EndAndClearSound
  <2> QED BY <1>2, <2>1, <2>2 DEF Typed, bounds, history, inviteHistory
<1>7. CASE incomingCallTimeout
  <2> DEFINE id == IdOf(sm.reg, b.uuid)
  <2>1. /\ mainQ' = Tail(mainQ) /\ b.uuid \in UUID
        /\ UNCHANGED <<now, delayed, dialog, bounds, accepted, rejectedAt, inviteHistory>>
        /\ \/ UNCHANGED <<sm, sipQ, ends>>
           \/ /\ IF id = InvalidId THEN UNCHANGED sipQ ELSE PerformSIPAsync("end", b.uuid, id)
              /\ ReportCallEnded(b.uuid) /\ sm' = EndAndClear(sm, b.uuid)
    BY <1>2, <1>7 DEF incomingCallTimeout, HeadIs, Done, b
  <2>2. id \in CallId \cup {InvalidId} BY <2>1, Lookups
  <2> HIDE DEF id
  <2>3. Sound(sm', now) BY <1>3, <2>1, EndAndClearSound
  <2>4. ends' \in [UUID -> Nat] BY <2>1, ReportTyped DEF Typed
  <2>5. sipQ' \in Seq(QueuedBlock) BY <2>1, <2>2, PerformTyped DEF Typed, SIPOp
  <2> QED BY <1>2, <2>1, <2>3, <2>4, <2>5 DEF Typed, bounds, inviteHistory
<1>8. CASE attemptAccept
  <2>1. /\ mainQ' = Tail(mainQ) /\ b.uuid \in UUID /\ AttemptAccept(b.uuid)
        /\ UNCHANGED <<sm, now, sipQ, dialog, bounds, rejectedAt, ends, inviteHistory>>
    BY <1>2, <1>8 DEF attemptAccept, HeadIs, Done, b
  <2>2. Timed(delayed') /\ accepted' \subseteq Nat BY <2>1, AttemptTyped
  <2> QED BY <1>2, <2>1, <2>2 DEF Typed, bounds, inviteHistory
<1>9. CASE acceptTimedOut
  <2>1. /\ b.uuid \in UUID /\ mainQ' = Append(Tail(mainQ), Run("acceptFailed", b.uuid, InvalidId))
        /\ UNCHANGED <<sm, now, sipQ, delayed, dialog, bounds, history>>
    BY <1>2, <1>9 DEF acceptTimedOut, HeadIs, b
  <2>2. Run("acceptFailed", b.uuid, InvalidId) \in MainBlock BY <2>1, Blocks DEF Op
  <2>3. mainQ' \in Seq(MainBlock) BY <1>2, <2>1, <2>2
  <2> QED BY <2>1, <2>3 DEF Typed, bounds, history, inviteHistory
<1>10. CASE answerCall
  <2>1. /\ b.uuid \in UUID /\ b.id \in CallId /\ mainQ' = Tail(mainQ)
        /\ PerformSIPAsync("answer", b.uuid, b.id)
        /\ UNCHANGED <<sm, now, delayed, dialog, bounds, history>>
    BY <1>2, <1>10 DEF answerCall, HeadIs, Done, b
  <2>2. sipQ' \in Seq(QueuedBlock) BY <2>1, PerformTyped DEF SIPOp
  <2> QED BY <1>2, <2>1, <2>2 DEF Typed, bounds, history, inviteHistory
<1>11. CASE acceptFailed
  <2>1. mainQ' = Tail(mainQ) /\ UNCHANGED <<sm, now, sipQ, delayed, dialog, bounds, history>>
    BY <1>11 DEF acceptFailed, Done
  <2> QED BY <1>2, <2>1 DEF Typed, bounds, history, inviteHistory
<1>12. CASE stopped
  <2>1. /\ mainQ' = Tail(mainQ) /\ b.calls \in SUBSET UUID /\ ReportStopped(b.calls)
        /\ UNCHANGED <<now, sipQ, delayed, dialog, bounds, accepted, rejectedAt, inviteHistory>>
    BY <1>2, <1>12 DEF stopped, HeadIs, Done, b
  <2>2. Sound(sm', now) /\ ends' \in [UUID -> Nat] BY <2>1, StoppedTyped
  <2> QED BY <1>2, <2>1, <2>2 DEF Typed, bounds, inviteHistory
<1> QED BY <1>4, <1>5, <1>6, <1>7, <1>8, <1>9, <1>10, <1>11, <1>12 DEF SharedBlock
-----------------------------------------------------------------------------
LEMMA SIPQueueTyped ==
  ASSUME Typed, sipEnd \/ sipEndThenClear \/ sipAnswer
  PROVE  Typed'
<1> DEFINE b == Head(sipQ)
<1>1. sipQ # <<>> BY DEF sipEnd, sipEndThenClear, sipAnswer, NextSIP
<1>2. /\ Tail(sipQ) \in Seq(QueuedBlock)
      /\ b.op \in SIPOp => b.uuid \in UUID /\ b.id \in CallId
  BY <1>1, SIPHead
<1> HIDE DEF b
<1>3. b.uuid \in UUID /\ b.id \in CallId /\ sipQ' = Tail(sipQ)
      /\ UNCHANGED <<sm, now, delayed, bounds, history>>
  BY <1>2 DEF sipEnd, sipEndThenClear, sipAnswer, NextSIP, SIPOp, b
<1>4. dialog' \in [CallId -> Dialog] /\ mainQ' \in Seq(MainBlock)
  <2>1. \A op \in {"ended", "connecting", "acceptFailed"} : Run(op, b.uuid, InvalidId) \in MainBlock
    BY <1>3, Blocks DEF Op
  <2>2. CASE sipEnd
    <3>1. EndSIPCall(b.id, <<>>) BY <2>2 DEF sipEnd, b
    <3>2. <<>> \in Seq(MainBlock) OBVIOUS
    <3> QED BY <1>3, <3>1, <3>2, EndSIPCallTyped
  <2>3. CASE sipEndThenClear
    <3>1. EndSIPCall(b.id, <<Run("ended", b.uuid, InvalidId)>>) BY <2>3 DEF sipEndThenClear, b
    <3>2. <<Run("ended", b.uuid, InvalidId)>> \in Seq(MainBlock) BY <2>1
    <3> QED BY <1>3, <3>1, <3>2, EndSIPCallTyped
  <2>4. CASE sipAnswer
    <3>1. /\ dialog' = dialog \/ dialog' = [dialog EXCEPT ![b.id].state = "connecting"]
          /\ \E op \in {"connecting", "acceptFailed"} :
               mainQ' = Append(mainQ, Run(op, b.uuid, InvalidId))
      BY <2>4 DEF sipAnswer, b
    <3>2. dialog' \in [CallId -> Dialog]
      <4>1. "connecting" \in DialogState /\ dialog \in [CallId -> Dialog] BY DEF DialogState, Typed
      <4>2. [dialog EXCEPT ![b.id].state = "connecting"] \in [CallId -> Dialog]
        BY <1>3, <4>1, DialogTyped
      <4> QED BY <3>1, <4>1, <4>2
    <3>3. mainQ' \in Seq(MainBlock) BY <2>1, <3>1 DEF Typed
    <3> QED BY <3>2, <3>3
  <2> QED BY <2>2, <2>3, <2>4
<1> QED BY <1>2, <1>3, <1>4 DEF Typed, bounds, history, inviteHistory

LEMMA StopTyped ==
  ASSUME Typed, NEW onMain \in BOOLEAN, stop(onMain)
  PROVE  Typed'
<1> DEFINE b == [op |-> "stop", calls |-> {}, onMain |-> onMain]
<1>1. IsFiniteSet({}) BY FS_EmptySet
<1>2. b \in QueuedBlock BY <1>1 DEF QueuedBlock, StopBlock
<1>3. /\ Spend("stop") /\ sipQ' = Append(sipQ, b)
      /\ UNCHANGED <<sm, now, mainQ, delayed, dialog, history>>
  BY DEF stop
<1> HIDE DEF b
<1>4. sipQ' \in Seq(QueuedBlock) BY <1>2, <1>3 DEF Typed
<1> QED BY <1>3, <1>4, SpendTyped DEF Typed, history, inviteHistory

(* stop() takes finitely many calls along.                                 *)
LEMMA LiveFinite ==
  ASSUME Typed
  PROVE  Live(sm.reg) \subseteq UUID /\ IsFiniteSet(Live(sm.reg))
<1>1. IsFiniteSet(sm.reg.tracked) /\ sm.reg.tracked \subseteq UUID
  BY DEF Typed, Sound, Formed, Registries
<1>2. Live(sm.reg) \subseteq sm.reg.tracked BY DEF Live
<1>3. IsFiniteSet(Live(sm.reg)) BY <1>1, <1>2, FS_Subset
<1> QED BY <1>1, <1>2, <1>3

LEMMA EmptiedSound ==
  ASSUME NEW t \in Date, NEW s, Sound(s, t)
  PROVE  LET p == [s EXCEPT !.reg = RemoveAll(@)]
         IN  Sound(p, t) /\ p.reg = RemoveAll(s.reg)
<1>1. Formed(RemoveAll(s.reg), t) BY RemoveAllFormed DEF Sound
<1>2. [s EXCEPT !.reg = RemoveAll(@)] = [s EXCEPT !.reg = RemoveAll(s.reg)]
  BY DEF Sound, StateMachines
<1> QED BY <1>1, <1>2, WithRegistry

LEMMA StopOnQueueTyped ==
  ASSUME Typed, StopOnQueue
  PROVE  Typed'
<1> DEFINE b == Head(sipQ)
<1>1. sipQ # <<>> BY DEF StopOnQueue, sipStop, sipDestroy, sipHangUp, NextSIP
<1>2. /\ Tail(sipQ) \in Seq(QueuedBlock)
      /\ b.op \in {"stop", "destroy"} =>
           b \in StopBlock /\ b.calls \in SUBSET UUID /\ IsFiniteSet(b.calls)
  BY <1>1, SIPHead
<1> HIDE DEF b
<1>3. CASE sipStop
  <2> DEFINE d == [b EXCEPT !.op = "destroy", !.calls = Live(sm.reg)]
  <2>1. /\ b \in StopBlock /\ sipQ' = <<d>> \o Tail(sipQ)
        /\ sm' = [sm EXCEPT !.reg = RemoveAll(@)]
        /\ UNCHANGED <<now, mainQ, delayed, dialog, bounds, history>>
    BY <1>2, <1>3 DEF sipStop, b
  <2>2. d \in QueuedBlock BY <2>1, LiveFinite DEF StopBlock, QueuedBlock
  <2> HIDE DEF d
  <2>3. <<d>> \in Seq(QueuedBlock) BY <2>2
  <2>4. sipQ' \in Seq(QueuedBlock) BY <1>2, <2>1, <2>3, ConcatProperties
  <2>5. Sound(sm', now) BY <2>1, EmptiedSound DEF Typed
  <2> QED BY <2>1, <2>4, <2>5 DEF Typed, bounds, history, inviteHistory
<1>4. ASSUME NEW i \in CallId, sipHangUp(i) PROVE Typed'
  <2>1. /\ dialog' = [dialog EXCEPT ![i] = NoDialog]
        /\ mainQ' = mainQ \/ mainQ' = WithDisconnected(mainQ, i)
        /\ UNCHANGED <<sm, now, sipQ, delayed, bounds, history>>
    BY <1>4 DEF sipHangUp
  <2>2. mainQ \in Seq(MainBlock) BY DEF Typed
  <2>3. \A e \in MainBlock : Append(mainQ, e) \in Seq(MainBlock) BY <2>2
  <2>4. mainQ' \in Seq(MainBlock) BY <2>1, <2>2, <2>3, DisconnectedTyped
  <2> QED BY <2>1, <2>4, DialogTyped DEF Typed, bounds, history, inviteHistory
<1>5. CASE sipDestroy
  <2>0. /\ b.calls \in SUBSET UUID /\ IsFiniteSet(b.calls) /\ sipQ' = Tail(sipQ)
        /\ UNCHANGED <<now, delayed, dialog, bounds, accepted, rejectedAt, inviteHistory>>
    BY <1>2, <1>5 DEF sipDestroy, NextSIP, b
  <2>1. CASE ReportStopped(b.calls) /\ UNCHANGED mainQ
    <3>1. Sound(sm', now) /\ ends' \in [UUID -> Nat] BY <2>0, <2>1, StoppedTyped
    <3> QED BY <1>2, <2>0, <2>1, <3>1 DEF Typed, bounds, inviteHistory
  <2>2. CASE mainQ' = Append(mainQ, [op |-> "stopped", calls |-> b.calls]) /\ UNCHANGED <<sm, ends>>
    <3>1. [op |-> "stopped", calls |-> b.calls] \in MainBlock BY <2>0 DEF MainBlock, StoppedBlock
    <3>2. mainQ' \in Seq(MainBlock) BY <2>2, <3>1 DEF Typed
    <3> QED BY <1>2, <2>0, <2>2, <3>2 DEF Typed, bounds, inviteHistory
  <2> QED BY <1>5, <2>1, <2>2 DEF sipDestroy, b
<1> QED BY <1>3, <1>4, <1>5 DEF StopOnQueue

LEMMA TakenSound ==
  ASSUME Typed, NEW taken \in SUBSET Tombstones(sm.reg)
  PROVE  LET p == [sm EXCEPT !.reg = TakeCancelled(@, now, Window, taken)]
         IN  Sound(p, now) /\ p.reg = TakeCancelled(sm.reg, now, Window, taken)
<1>1. Formed(TakeCancelled(sm.reg, now, Window, taken), now)
  BY TakeFormed DEF Typed, Sound
<1>2. [sm EXCEPT !.reg = TakeCancelled(@, now, Window, taken)]
        = [sm EXCEPT !.reg = TakeCancelled(sm.reg, now, Window, taken)]
  BY DEF Typed, Sound, StateMachines
<1> QED BY <1>1, <1>2, WithRegistry DEF Typed

LEMMA PeerTyped ==
  ASSUME Typed, Peer
  PROVE  Typed'
<1>1. mainQ \in Seq(MainBlock) BY DEF Typed
<1>2. \A e \in MainBlock : Append(mainQ, e) \in Seq(MainBlock) BY <1>1
<1>3. \A i : WithDisconnected(mainQ, i) \in Seq(MainBlock)
  BY <1>1, <1>2, DisconnectedTyped
<1>4. ASSUME NEW i \in CallId, onCallConfirmed(i) PROVE Typed'
  <2>1. mainQ' \in Seq(MainBlock)
    <3>1. \A u \in UUID : Run("confirmed", u, InvalidId) \in MainBlock BY Blocks DEF Op
    <3>2. \/ mainQ' = mainQ
          \/ \E u \in UUID : mainQ' = Append(mainQ, Run("confirmed", u, InvalidId))
      BY <1>4, Lookups DEF onCallConfirmed
    <3> QED BY <1>1, <1>2, <3>1, <3>2
  <2> QED BY <1>4, <2>1, DialogTyped
      DEF onCallConfirmed, Typed, bounds, history, inviteHistory, DialogState
<1>5. ASSUME NEW i \in CallId, onCallDisconnected(i) PROVE Typed'
  BY <1>3, <1>5, DialogTyped DEF onCallDisconnected, Typed, bounds, history, inviteHistory
<1>6. ASSUME NEW i \in CallId, slotFreed(i) PROVE Typed'
  BY <1>6, DialogTyped DEF slotFreed, Typed, bounds, history, inviteHistory
<1>7. ASSUME NEW i \in CallId, NEW u \in Announced \cup {NoUUID}, onIncomingCall(i, u)
      PROVE  Typed'
  <2>0. u \in UUID \cup {NoUUID} BY LifecycleAssumption
  <2>1. /\ Spend("invite") /\ seen' \subseteq UUID
        /\ UNCHANGED <<now, sipQ, delayed, accepted, rejectedAt, ends>>
    BY <1>7, <2>0 DEF onIncomingCall, Typed
  <2>2. \E taken \in SUBSET Tombstones(sm.reg) :
          sm' = [sm EXCEPT !.reg = TakeCancelled(@, now, Window, taken)]
    <3>1. CallToRefuse(sm.reg, now, Window) \subseteq Tombstones(sm.reg) BY DEF CallToRefuse
    <3>2. ASSUME NEW c \in CallToRefuse(sm.reg, now, Window),
                 sm' = [sm EXCEPT !.reg = TakeCancelled(@, now, Window, {c})]
          PROVE  \E taken \in SUBSET Tombstones(sm.reg) :
                   sm' = [sm EXCEPT !.reg = TakeCancelled(@, now, Window, taken)]
      <4>1. {c} \in SUBSET Tombstones(sm.reg) BY <3>1
      <4> QED BY <3>2, <4>1
    <3>3. {} \in SUBSET Tombstones(sm.reg) OBVIOUS
    <3>4. [sm EXCEPT !.reg = TakeCancelled(sm.reg, now, Window, {})]
            = [sm EXCEPT !.reg = TakeCancelled(@, now, Window, {})]
      BY DEF Typed, Sound, StateMachines
    <3> QED BY <1>7, <3>2, <3>3, <3>4 DEF onIncomingCall
  <2>3. Sound(sm', now) BY <2>2, TakenSound
  <2>4. stray' \in BOOLEAN
    <3>1. stray \in BOOLEAN BY DEF Typed
    <3> QED BY <1>7, <3>1, Zenon DEF onIncomingCall
  <2>5. \/ dialog' = dialog /\ mainQ' = WithDisconnected(mainQ, i)
        \/ /\ dialog' = [dialog EXCEPT ![i] = [state |-> "early", nth |-> left["invite"], intended |-> u]]
           /\ mainQ' = Append(mainQ, Run("invite", NoUUID, i))
    BY <1>7 DEF onIncomingCall
  <2>6. mainQ' \in Seq(MainBlock)
    <3>2. WithDisconnected(mainQ, i) \in Seq(MainBlock) BY <1>3
    <3>3. mainQ' # WithDisconnected(mainQ, i) => mainQ' = Append(mainQ, Run("invite", NoUUID, i))
      BY <2>5
    <3>4. Run("invite", NoUUID, i) \in MainBlock BY Blocks
    <3>5. Append(mainQ, Run("invite", NoUUID, i)) \in Seq(MainBlock) BY <1>2, <3>4
    <3> QED BY <3>2, <3>3, <3>5
  <2>7. dialog' \in [CallId -> Dialog]
    <3>1. left["invite"] \in Nat
      <4>1. "invite" \in DOMAIN setup.budget BY LifecycleAssumption DEF Typed
      <4> QED BY <4>1 DEF Typed
    <3>2. [state |-> "early", nth |-> left["invite"], intended |-> u] \in Dialog
      BY <2>0, <3>1 DEF Dialog, DialogState
    <3> QED BY <2>5, <3>2 DEF Typed
  <2> QED BY <2>1, <2>3, <2>4, <2>6, <2>7, SpendTyped DEF Typed
<1> QED BY <1>4, <1>5, <1>6, <1>7 DEF Peer

LEMMA TimeTyped ==
  ASSUME Typed, Pause \/ \E b \in BagToSet(delayed) : Fires(b)
  PROVE  Typed'
<1>1. CASE Pause
  <2>1. now' = now + Window + 1 /\ Window \in Nat /\ now \in Date /\ sm' = sm /\ Sound(sm, now)
    BY <1>1, LifecycleAssumption DEF Pause, Typed
  <2>2. now' \in Nat /\ now <= now' BY <2>1 DEF Date
  <2>3. now' \in Date /\ Sound(sm', now') BY <2>1, <2>2, LaterSound
  <2>4. Spend("pause") /\ UNCHANGED <<mainQ, sipQ, delayed, dialog, history>> BY <1>1 DEF Pause
  <2> QED BY <2>3, <2>4, SpendTyped DEF Typed, history, inviteHistory
<1>2. ASSUME NEW b, Fires(b) PROVE Typed'
  <2>1. Timed(delayed') /\ b \in Block BY <1>2, FiresTyped
  <2>2. mainQ' = Append(mainQ, b) /\ UNCHANGED <<sm, now, sipQ, dialog, bounds, history>>
    BY <1>2 DEF Fires
  <2>3. mainQ' \in Seq(MainBlock) BY <2>1, <2>2, Blocks DEF Typed
  <2> QED BY <2>1, <2>2, <2>3 DEF Typed, bounds, history, inviteHistory
<1> QED BY <1>1, <1>2
-----------------------------------------------------------------------------
LEMMA PushTyped ==
  ASSUME Typed, NEW u \in UUID, prepareIncomingCall(u)
  PROVE  Typed'
<1>1. UNCHANGED <<mainQ, sipQ, dialog, history>> /\ \E kind : Spend(kind)
  BY DEF prepareIncomingCall
<1>2. now' \in Date /\ Sound(sm', now') /\ Timed(delayed')
  <2>1. CASE UNCHANGED <<sm, now, delayed>> BY <2>1 DEF Typed
  <2>2. ASSUME NEW s \in PrepareIncoming(sm, u, now), Settle(s), ScheduleRingTimeout(u)
        PROVE  now' \in Date /\ Sound(sm', now') /\ Timed(delayed')
    <3>1. Sound(s, now) BY PrepareSound DEF Typed
    <3> QED BY <2>2, <3>1, SettleTyped, RingTimeoutTyped
  <2> QED BY <2>1, <2>2 DEF prepareIncomingCall
<1> QED BY <1>1, <1>2, SpendTyped DEF Typed, history, inviteHistory

LEMMA RetractTyped ==
  ASSUME Typed, NEW u \in UUID, handleCancelledIncomingCall(u)
  PROVE  Typed'
<1>1. /\ Spend("retract") /\ HandleCancelled(u)
      /\ UNCHANGED <<mainQ, delayed, dialog, accepted, inviteHistory>>
  BY DEF handleCancelledIncomingCall
<1> QED BY <1>1, SpendTyped, HandleTyped DEF Typed, inviteHistory

LEMMA TerminateTyped ==
  ASSUME Typed, NEW arg \in UUID \cup {NoUUID}, terminateCall(arg)
  PROVE  Typed'
<1> DEFINE call == ResolveCall(sm, arg)
           target == IF call # NoUUID THEN call ELSE arg
           id == IdOf(sm.reg, call)
           marked == [sm EXCEPT !.reg = MarkCancelled(@, target, now)]
<1>1. call \in UUID \cup {NoUUID} BY Lookups
<1>2. /\ Spend("end") /\ target # NoUUID
      /\ \/ /\ id # InvalidId /\ PerformSIPAsync("endThenClear", target, id)
            /\ UNCHANGED <<sm, rejectedAt>>
         \/ /\ \/ /\ marked # sm
                  /\ sm' = DetachIfCurrent(PublishState(marked, target, "ended"), target)
               \/ sm' = ClearCall(sm, target)
            /\ rejectedAt' = rejectedAt \/ rejectedAt' = [rejectedAt EXCEPT ![target] = now]
            /\ UNCHANGED sipQ
      /\ UNCHANGED <<now, mainQ, delayed, dialog, accepted, ends, inviteHistory>>
  BY DEF terminateCall
<1>3. target \in UUID BY <1>1, <1>2
<1>4. id # InvalidId => id \in CallId
  <2>1. NoUUID \notin sm.reg.tracked BY RegistryAssumption DEF Typed, Sound, Formed, Registries
  <2>2. call \in UUID => id \in CallId \cup {InvalidId} BY Lookups
  <2>3. call = NoUUID => id = InvalidId BY <2>1 DEF IdOf
  <2> QED BY <1>1, <2>2, <2>3
<1> HIDE DEF id, target
<1>5. sipQ' \in Seq(QueuedBlock) BY <1>2, <1>3, <1>4, PerformTyped DEF Typed, SIPOp
<1>6. Sound(sm', now)
  <2>1. Sound(sm, now) /\ now \in Date BY DEF Typed
  <2>2. Sound(ClearCall(sm, target), now) BY <1>3, <2>1, ClearedSound
  <2>3. marked # sm => Sound(DetachIfCurrent(PublishState(marked, target, "ended"), target), now)
    BY <1>3, <2>1, RejectSound
  <2> QED BY <1>2, <2>1, <2>2, <2>3
<1>7. rejectedAt' \in [UUID -> Nat] BY <1>2 DEF Typed, Date
<1> QED BY <1>2, <1>5, <1>6, <1>7, SpendTyped DEF Typed, inviteHistory

LEMMA AcceptTyped ==
  ASSUME Typed, NEW arg \in UUID \cup {NoUUID}, acceptCall(arg)
  PROVE  Typed'
<1> DEFINE call == ResolveCall(sm, arg)
           target == IF call # NoUUID THEN call ELSE arg
<1>1. call \in UUID \cup {NoUUID} BY Lookups
<1>2. /\ Spend("accept") /\ target # NoUUID /\ AttemptAccept(target)
      /\ UNCHANGED <<sm, now, mainQ, sipQ, dialog, rejectedAt, ends, inviteHistory>>
  BY DEF acceptCall
<1>3. target \in UUID BY <1>1, <1>2
<1> HIDE DEF target
<1>4. Timed(delayed') /\ accepted' \subseteq Nat BY <1>2, <1>3, AttemptTyped
<1> QED BY <1>2, <1>4, SpendTyped DEF Typed, inviteHistory

LEMMA InitTyped ==
  ASSUME Init
  PROVE  Typed
<1>1. sm = Idle /\ now = 1 /\ setup \in Setups /\ left = setup.budget BY DEF Init
<1>2. Sound(Idle, 1)
  <2>1. EmptyRegistry \in Registries
    BY DEF EmptyRegistry, Registries, NewCall, Call, CallState
  <2>2. TwoWayIndex(EmptyRegistry) BY DEF EmptyRegistry, TwoWayIndex
  <2>3. EmptyRegistry.tracked = {} /\ \A u \in UUID : EmptyRegistry.call[u].createdAt = 0
    BY DEF EmptyRegistry, NewCall
  <2>4. IsFiniteSet({}) BY FS_EmptySet
  <2>5. Formed(EmptyRegistry, 1) BY <2>1, <2>2, <2>3, <2>4 DEF Formed
  <2> QED BY <2>1, <2>5 DEF Sound, Idle, StateMachines, AggregateState
<1>3. setup.budget \in [DOMAIN setup.budget -> Nat] BY <1>1, LifecycleAssumption
<1>4. Timed(EmptyBag) BY DEF Timed, EmptyBag, SetToBag, IsABag, BagToSet
<1>5. dialog \in [CallId -> Dialog] BY DEF Init, NoDialog, Dialog, DialogState
<1>6. 1 \in Date BY DEF Date
<1>7. mainQ \in Seq(MainBlock) /\ sipQ \in Seq(QueuedBlock) BY DEF Init
<1>8. rejectedAt \in [UUID -> Nat] /\ ends \in [UUID -> Nat] /\ accepted \subseteq Nat
      /\ seen \subseteq UUID /\ stray \in BOOLEAN /\ delayed = EmptyBag
  BY DEF Init
<1> QED BY <1>1, <1>2, <1>3, <1>4, <1>5, <1>6, <1>7, <1>8 DEF Typed

LEMMA StutterTyped ==
  ASSUME Typed, UNCHANGED vars
  PROVE  Typed'
  BY DEF Typed, vars, bounds, inviteHistory

(* Every action keeps every variable in its type.                          *)
LEMMA NextTyped ==
  ASSUME Typed, [Next]_vars
  PROVE  Typed'
<1>1. CASE MainQueue
  BY <1>1, InviteTyped, BlockTyped DEF MainQueue, SharedBlock
<1>2. CASE SIPQueue BY <1>2, SIPQueueTyped, StopOnQueueTyped DEF SIPQueue
<1>3. CASE Host
  <2>1. Announced \subseteq UUID BY LifecycleAssumption
  <2> QED BY <1>3, <2>1, PushTyped, RetractTyped, TerminateTyped, AcceptTyped DEF Host
<1>4. ASSUME NEW onMain \in BOOLEAN, stop(onMain) PROVE Typed' BY <1>4, StopTyped
<1>5. CASE Peer BY <1>5, PeerTyped
<1>6. CASE Pause \/ \E b \in BagToSet(delayed) : Fires(b) BY <1>6, TimeTyped
<1>7. CASE UNCHANGED vars BY <1>7, StutterTyped
<1> QED BY <1>1, <1>2, <1>3, <1>4, <1>5, <1>6, <1>7 DEF Next

(* Every behaviour keeps every variable in its type (CallLifecycle, with   *)
(* the host as the owner of CallKit).                                      *)
THEOREM LifecycleTypeCorrect == Spec => []TypeOK
<1>1. Init => Typed BY InitTyped
<1>2. Typed /\ [Next]_vars => Typed' BY NextTyped
<1>3. Typed => TypeOK BY TypedIsTypeOK
<1> QED BY <1>1, <1>2, <1>3, PTL DEF Spec

(* A call rejected before its INVITE never gets one.  A push registers the *)
(* call and takes an orphan's dialog, an INVITE takes the call that waited *)
(* longest, a retraction registers a call only to remember it: whatever    *)
(* their order, a slot is bound to no call that was given up              *)
(* (CallWaveClient.m:2854, 3204).                                          *)
THEOREM RejectionsHoldNoSlot == Spec => []CancelledHoldsNoSlot
<1>1. Init => Typed BY InitTyped
<1>2. Typed /\ [Next]_vars => Typed' BY NextTyped
<1>3. Typed => CancelledHoldsNoSlot
  BY DEF Typed, Sound, Formed, CancelledHoldsNoSlot, Cancelled
<1> QED BY <1>1, <1>2, <1>3, PTL DEF Spec
-----------------------------------------------------------------------------
(* No budget grows.                                                        *)
Budgeted == \A k \in DOMAIN setup.budget : left[k] <= setup.budget[k]

Kind == {"push", "again", "retract", "invite", "accept", "end", "pause", "reset", "stop"}

(* No INVITE has come and nobody has asked for a stop.                     *)
NothingYet == left["invite"] = setup.budget["invite"] /\ left["stop"] = setup.budget["stop"]

(* Until then nobody has a slot, and no block ends a call but a timer's.   *)
WaitingBlock == {b \in Block : b.op \in {"ringTimeout", "poll", "acceptFailed"}}

SlotsUnused ==
  /\ sipQ = <<>> /\ mainQ \in Seq(WaitingBlock) /\ BagToSet(delayed) \subseteq WaitingBlock
  /\ \A u \in sm.reg.tracked : sm.reg.call[u].callId = InvalidId
  /\ \A i \in CallId : dialog[i].state = "free"

(* The record of a rejection, with its date.                               *)
Remembered(r, u, d) ==
  u \in r.tracked /\ r.call[u].state = "ended" /\ r.call[u].cancelledAt = d

Remembers(r, dates) == \A u \in UUID : dates[u] # 0 => Remembered(r, u, dates[u])

Unrejected(r, dates) ==
  \A u \in UUID : dates[u] = 0 /\ (u \in r.tracked => r.call[u].cancelledAt = 0)

Mindful ==
  /\ Typed /\ Budgeted
  /\ NothingYet =>
       /\ SlotsUnused
       /\ Rejections = 0 => Unrejected(sm.reg, rejectedAt)
       /\ Rejections = 1 => Remembers(sm.reg, rejectedAt)
-----------------------------------------------------------------------------
(* The budget is counted down, one event at a time.                        *)
LEMMA Counts ==
  ASSUME Typed, Budgeted
  PROVE  /\ DOMAIN setup.budget = Kind
         /\ \A k \in Kind : left[k] \in Nat /\ setup.budget[k] \in Nat /\ left[k] <= setup.budget[k]
         /\ Rejections \in Nat
<1>1. setup.budget \in [Kind -> Nat] BY LifecycleAssumption DEF Typed, Kind
<1>2. DOMAIN setup.budget = Kind BY <1>1
<1>3. \A k \in Kind : left[k] \in Nat /\ setup.budget[k] \in Nat /\ left[k] <= setup.budget[k]
  BY <1>1, <1>2 DEF Typed, Budgeted
<1>4. "end" \in Kind /\ "retract" \in Kind BY DEF Kind
<1>5. Rejections \in Nat BY <1>3, <1>4 DEF Rejections
<1> QED BY <1>2, <1>3, <1>5

LEMMA SpendHow ==
  ASSUME Typed, Budgeted, NEW kind \in Kind, Spend(kind)
  PROVE  /\ setup' = setup /\ Budgeted'
         /\ NothingYet' => NothingYet /\ kind \notin {"invite", "stop"}
         /\ Rejections' = IF kind \in {"end", "retract"} THEN Rejections + 1 ELSE Rejections
<1>1. setup' = setup /\ left[kind] > 0 /\ left' = [left EXCEPT ![kind] = @ - 1] BY DEF Spend
<1>2. /\ DOMAIN setup.budget = Kind
      /\ \A k \in Kind : left[k] \in Nat /\ setup.budget[k] \in Nat /\ left[k] <= setup.budget[k]
  BY Counts
<1>3. left \in [Kind -> Nat] BY <1>2 DEF Typed
<1>4. \A k \in Kind : left'[k] = IF k = kind THEN left[k] - 1 ELSE left[k] BY <1>1, <1>3
<1>5. Budgeted' BY <1>1, <1>2, <1>4 DEF Budgeted
<1>6. {"invite", "stop", "end", "retract"} \subseteq Kind BY DEF Kind
<1>7. NothingYet' => NothingYet /\ kind \notin {"invite", "stop"}
  BY <1>1, <1>2, <1>4, <1>6 DEF NothingYet
<1>8. Rejections' = IF kind \in {"end", "retract"} THEN Rejections + 1 ELSE Rejections
  <2>1. /\ left'["end"] = IF "end" = kind THEN left["end"] - 1 ELSE left["end"]
        /\ left'["retract"] = IF "retract" = kind THEN left["retract"] - 1 ELSE left["retract"]
        /\ left["end"] \in Nat /\ left["retract"] \in Nat
        /\ setup.budget["end"] \in Nat /\ setup.budget["retract"] \in Nat
    BY <1>2, <1>4, <1>6
  <2> QED BY <1>1, <2>1 DEF Rejections
<1> QED BY <1>1, <1>5, <1>7, <1>8

LEMMA NothingSpent ==
  ASSUME Typed, Budgeted, UNCHANGED bounds
  PROVE  setup' = setup /\ Budgeted' /\ NothingYet' = NothingYet /\ Rejections' = Rejections
  BY DEF bounds, Budgeted, NothingYet, Rejections
-----------------------------------------------------------------------------
(* What an operator does to the records where nobody has a slot: it adds u *)
(* or drops it, and leaves the others alone.                               *)
Apart(r, n, u) ==
  \A v \in UUID \ {u} : /\ v \in n.tracked <=> v \in r.tracked
                        /\ n.call[v].callId = r.call[v].callId
                        /\ n.call[v].state = r.call[v].state
                        /\ n.call[v].cancelledAt = r.call[v].cancelledAt

LEMMA ApartTransitive ==
  ASSUME NEW a, NEW b, NEW c, NEW u \in UUID, Apart(a, b, u), Apart(b, c, u)
  PROVE  Apart(a, c, u)
  BY DEF Apart

LEMMA ApartOne ==
  ASSUME NEW t \in Date, NEW r, Formed(r, t), NEW u \in UUID
  PROVE  /\ Apart(r, r, u) /\ Apart(r, Register(r, u, t), u) /\ Apart(r, RemoveUUID(r, u), u)
         /\ Apart(r, MarkCancelled(r, u, t), u) /\ Apart(r, SetReported(r, u), u)
         /\ \A st \in CallState : Apart(r, SetState(r, u, st), u)
<1>1. r \in Registries /\ t \in Nat BY DEF Formed, Date
<1>2. Apart(r, r, u) BY DEF Apart
<1>3. Apart(r, Register(r, u, t), u) BY <1>1, RegisterHow DEF Apart
<1>4. Apart(r, RemoveUUID(r, u), u) BY <1>1, RemoveHow DEF Apart
<1>5. Apart(r, MarkCancelled(r, u, t), u)
  <2> DEFINE m == MarkCancelled(r, u, t)
  <2>1. /\ m.tracked = r.tracked
        /\ \A v \in UUID : /\ m.call[v].callId = r.call[v].callId
                           /\ m.call[v].state = r.call[v].state
                           /\ v # u => m.call[v].cancelledAt = r.call[v].cancelledAt
    BY <1>1, MarkHow
  <2> HIDE DEF m
  <2>2. Apart(r, m, u) BY <2>1 DEF Apart
  <2> QED BY <2>2 DEF m
<1>6. Apart(r, SetReported(r, u), u) BY <1>1, SetReportedHow DEF Apart
<1>7. ASSUME NEW st \in CallState PROVE Apart(r, SetState(r, u, st), u)
  BY <1>1, SetStateHow DEF Apart
<1> QED BY <1>2, <1>3, <1>4, <1>5, <1>6, <1>7

(* A push takes on a call that was not given up, and finds no orphan.      *)
LEMMA PrepareApart ==
  ASSUME NEW t \in Date, NEW s, Sound(s, t), NEW u \in UUID, NEW p \in PrepareIncoming(s, u, t),
         \A v \in s.reg.tracked : s.reg.call[v].callId = InvalidId
  PROVE  /\ Apart(s.reg, p.reg, u)
         /\ p.reg.call[u].callId = InvalidId /\ p.reg.call[u].cancelledAt = 0
         /\ u \in s.reg.tracked => s.reg.call[u].cancelledAt = 0
<1> DEFINE k == Register(s.reg, u, t)
           known == [s EXCEPT !.reg = k]
           taken == SetReported(k, u)
           x == [known EXCEPT !.reg = taken]
           y == AdoptCurrentCall(x, u)
<1>1. Formed(s.reg, t) /\ s.reg \in Registries /\ t \in Nat BY DEF Sound, Formed, Date
<1>2. Formed(k, t) /\ k \in Registries /\ k.tracked = s.reg.tracked \cup {u} /\ Apart(s.reg, k, u)
      /\ \A v \in UUID : k.call[v] = IF v = u /\ u \notin s.reg.tracked THEN NewCall(t) ELSE s.reg.call[v]
  BY <1>1, RegisterFormed, RegisterHow, ApartOne DEF Formed
<1>3. [s EXCEPT !.reg = Register(@, u, t)] = known /\ known.reg = k BY DEF Sound, StateMachines
<1>4. Sound(known, t) BY <1>2, WithRegistry
<1>5. NewCall(t).callId = InvalidId BY DEF NewCall
<1>6. s.reg.tracked \subseteq UUID BY <1>1 DEF Registries
<1>7. \A v \in k.tracked : k.call[v].callId = InvalidId BY <1>2, <1>5, <1>6
<1>8. /\ Formed(taken, t) /\ taken \in Registries /\ Apart(k, taken, u) /\ taken.tracked = k.tracked
      /\ \A v \in UUID : /\ taken.call[v].callId = k.call[v].callId
                         /\ taken.call[v].cancelledAt = k.call[v].cancelledAt
  BY <1>2, SetReportedFormed, SetReportedHow, ApartOne
<1>9. Orphans(taken, u) = {}
  <2>1. \A v \in taken.tracked : v \in UUID /\ taken.call[v].callId = InvalidId
    BY <1>2, <1>6, <1>7, <1>8
  <2> HIDE DEF taken
  <2> QED BY <2>1 DEF Orphans, Live
<1>10. k.call[u].cancelledAt = 0 /\ p = PublishState(y, u, "incoming")
  BY <1>3, <1>9 DEF PrepareIncoming
<1> HIDE DEF k, known, taken
<1>11. Sound(x, t) /\ x.reg = taken BY <1>4, <1>8, WithRegistry
<1> HIDE DEF x
<1>12. Sound(y, t) /\ y.reg = taken BY <1>11, AdoptSound
<1> HIDE DEF y
<1>13. "incoming" \in CallState BY DEF CallState
<1>14. p.reg = SetState(taken, u, "incoming")
  BY <1>2, <1>8, <1>10, <1>12, <1>13, PublishSound
<1>15. Apart(taken, p.reg, u) BY <1>8, <1>13, <1>14, ApartOne
<1>16. p.reg.call[u].callId = InvalidId /\ p.reg.call[u].cancelledAt = 0
  BY <1>2, <1>7, <1>8, <1>10, <1>13, <1>14, SetStateHow
<1>17. Apart(s.reg, p.reg, u) BY <1>2, <1>8, <1>15, ApartTransitive
<1> QED BY <1>2, <1>10, <1>16, <1>17

(* A retraction, and a refusal by the host, leave the record of a          *)
(* rejection.                                                              *)
LEMMA MarkedApart ==
  ASSUME NEW t \in Date, NEW s, Sound(s, t), NEW u \in UUID, u \in s.reg.tracked,
         s.reg.call[u].callId = InvalidId
  PROVE  LET m == [s EXCEPT !.reg = MarkCancelled(s.reg, u, t)]
             p == DetachIfCurrent(PublishState(m, u, "ended"), u)
         IN  /\ Apart(s.reg, p.reg, u) /\ p.reg.call[u].callId = InvalidId
             /\ s.reg.call[u].cancelledAt = 0 => m # s /\ Remembered(p.reg, u, t)
<1> DEFINE n == MarkCancelled(s.reg, u, t)
           m == [s EXCEPT !.reg = n]
           x == PublishState(m, u, "ended")
           p == DetachIfCurrent(x, u)
<1>1. Formed(s.reg, t) /\ s.reg \in Registries /\ t \in Nat /\ t # 0 BY DEF Sound, Formed, Date
<1>2. Formed(n, t) /\ n \in Registries /\ Apart(s.reg, n, u) BY <1>1, MarkFormed, ApartOne DEF Formed
<1>3. /\ n.tracked = s.reg.tracked /\ n.call[u].callId = InvalidId
      /\ s.reg.call[u].cancelledAt = 0 => n.call[u].cancelledAt = t
  BY <1>1, MarkHow
<1> HIDE DEF n
<1>4. Sound(m, t) /\ m.reg = n BY <1>2, WithRegistry
<1>5. s.reg.call[u].cancelledAt = 0 => m # s BY <1>1, <1>3, <1>4
<1> HIDE DEF m
<1>6. "ended" \in CallState BY DEF CallState
<1>7. Sound(x, t) /\ x.reg = SetState(n, u, "ended") BY <1>3, <1>4, <1>6, PublishSound
<1>8. Apart(n, x.reg, u) BY <1>2, <1>6, <1>7, ApartOne
<1> HIDE DEF x
<1>9. p.reg = x.reg BY <1>7, DetachSound
<1> HIDE DEF p
<1>10. /\ p.reg.call[u].callId = InvalidId
       /\ s.reg.call[u].cancelledAt = 0 => Remembered(p.reg, u, t)
  BY <1>2, <1>3, <1>6, <1>7, <1>9, SetStateHow DEF Remembered
<1>11. Apart(s.reg, p.reg, u) BY <1>2, <1>8, <1>9, ApartTransitive
<1> QED BY <1>5, <1>10, <1>11 DEF p, x, m, n

LEMMA RetractApart ==
  ASSUME NEW t \in Date, NEW s, Sound(s, t), NEW u \in UUID,
         u \in s.reg.tracked => s.reg.call[u].callId = InvalidId
  PROVE  LET p == RetractCall(s, u, t)
         IN  /\ Apart(s.reg, p.reg, u) /\ p.reg.call[u].callId = InvalidId
             /\ (u \in s.reg.tracked => s.reg.call[u].cancelledAt = 0) => Remembered(p.reg, u, t)
<1> DEFINE k == Register(s.reg, u, t)
           known == [s EXCEPT !.reg = k]
           m == MarkCancelled(k, u, t)
           marked == [known EXCEPT !.reg = m]
           p == DetachIfCurrent(PublishState(marked, u, "ended"), u)
<1>1. Formed(s.reg, t) /\ s.reg \in Registries /\ t \in Nat BY DEF Sound, Formed, Date
<1>2. Formed(k, t) /\ k.tracked = s.reg.tracked \cup {u} /\ Apart(s.reg, k, u)
      /\ \A v \in UUID : k.call[v] = IF v = u /\ u \notin s.reg.tracked THEN NewCall(t) ELSE s.reg.call[v]
  BY <1>1, RegisterFormed, RegisterHow, ApartOne
<1>3. [s EXCEPT !.reg = Register(@, u, t)] = known /\ known.reg = k
      /\ [known EXCEPT !.reg = MarkCancelled(@, u, t)] = marked
  BY DEF Sound, StateMachines
<1>4. Sound(known, t) BY <1>2, WithRegistry
<1>5. /\ k.call[u].callId = InvalidId
      /\ (u \in s.reg.tracked => s.reg.call[u].cancelledAt = 0) => k.call[u].cancelledAt = 0
  BY <1>2 DEF NewCall
<1>6. RetractCall(s, u, t) = p BY <1>3, <1>5 DEF RetractCall
<1> HIDE DEF k
<1>7. /\ Apart(k, p.reg, u) /\ p.reg.call[u].callId = InvalidId
      /\ k.call[u].cancelledAt = 0 => Remembered(p.reg, u, t)
  <2> HIDE DEF known
  <2>1. u \in k.tracked BY <1>2
  <2> QED BY <1>3, <1>4, <1>5, <2>1, MarkedApart
<1> HIDE DEF p
<1>8. Apart(s.reg, p.reg, u) BY <1>2, <1>7, ApartTransitive
<1> QED BY <1>5, <1>6, <1>7, <1>8

LEMMA ClearApart ==
  ASSUME NEW t \in Date, NEW s, Sound(s, t), NEW u \in UUID
  PROVE  LET p == EndAndClear(s, u) IN Apart(s.reg, p.reg, u) /\ u \notin p.reg.tracked
<1> DEFINE x == PublishState(s, u, "ended")
<1>1. "ended" \in CallState BY DEF CallState
<1>2. Formed(s.reg, t) /\ s.reg \in Registries BY DEF Sound, Formed
<1>3. Sound(x, t) /\ x.reg = IF u \in s.reg.tracked THEN SetState(s.reg, u, "ended") ELSE s.reg
  BY <1>1, PublishSound
<1>4. Apart(s.reg, x.reg, u) BY <1>1, <1>2, <1>3, ApartOne
<1> HIDE DEF x
<1>5. EndAndClear(s, u).reg = RemoveUUID(x.reg, u) BY <1>3, ClearSound DEF EndAndClear, x
<1>6. Formed(x.reg, t) /\ x.reg \in Registries BY <1>3 DEF Sound, Formed
<1>7. Apart(x.reg, RemoveUUID(x.reg, u), u) /\ u \notin RemoveUUID(x.reg, u).tracked
  BY <1>6, ApartOne, RemoveHow
<1>8. Apart(s.reg, RemoveUUID(x.reg, u), u) BY <1>4, <1>7, ApartTransitive
<1> QED BY <1>5, <1>7, <1>8

(* What dispatch_after holds after a block was added or taken.             *)
LEMMA ScheduleHow ==
  ASSUME Typed, NEW b, Schedule(b)
  PROVE  BagToSet(delayed') = BagToSet(delayed) \cup {b}
<1>1. delayed' = [e \in DOMAIN delayed \cup {b} |->
                    (IF e \in DOMAIN delayed THEN delayed[e] ELSE 0)
                      + (IF e \in {b} THEN 1 ELSE 0)]
  BY DEF Schedule, (+), SetToBag
<1> QED BY <1>1 DEF BagToSet

LEMMA FiresHow ==
  ASSUME Typed, NEW b, Fires(b)
  PROVE  b \in BagToSet(delayed) /\ BagToSet(delayed') \subseteq BagToSet(delayed)
<1>1. delayed' = delayed (-) SetToBag({b}) /\ b \in DOMAIN delayed
  BY DEF Fires, BagIn, BagToSet
<1> DEFINE f == [e \in DOMAIN delayed |-> IF e \in {b} THEN delayed[e] - 1 ELSE delayed[e]]
<1>2. delayed' = [e \in {d \in DOMAIN f : f[d] > 0} |-> f[e]]
  BY <1>1 DEF (-), SetToBag
<1>3. DOMAIN f = DOMAIN delayed OBVIOUS
<1> HIDE DEF f
<1> QED BY <1>1, <1>2, <1>3 DEF BagToSet

(* A step that rejects nothing keeps what is remembered if it touches one  *)
(* call at most, and not one whose rejection is.                           *)
LEMMA MindfulKept ==
  ASSUME Mindful, Typed', Budgeted', NothingYet' => NothingYet,
         NothingYet' =>
           /\ sipQ' = sipQ /\ dialog' = dialog
           /\ mainQ' \in Seq(WaitingBlock) /\ BagToSet(delayed') \subseteq WaitingBlock
           /\ Rejections' = Rejections /\ rejectedAt' = rejectedAt
           /\ \/ sm'.reg = sm.reg
              \/ \E u \in UUID :
                   /\ Apart(sm.reg, sm'.reg, u)
                   /\ u \in sm'.reg.tracked =>
                        sm'.reg.call[u].callId = InvalidId /\ sm'.reg.call[u].cancelledAt = 0
                   /\ u \in sm.reg.tracked =>
                        sm.reg.call[u].state # "ended" \/ sm.reg.call[u].cancelledAt = 0
  PROVE  Mindful'
<1> SUFFICES ASSUME NothingYet'
             PROVE  /\ SlotsUnused'
                    /\ Rejections' = 0 => Unrejected(sm'.reg, rejectedAt')
                    /\ Rejections' = 1 => Remembers(sm'.reg, rejectedAt')
  BY DEF Mindful
<1>1. /\ SlotsUnused
      /\ Rejections = 0 => Unrejected(sm.reg, rejectedAt)
      /\ Rejections = 1 => Remembers(sm.reg, rejectedAt)
  BY DEF Mindful
<1>2. sm.reg.tracked \subseteq UUID /\ sm'.reg.tracked \subseteq UUID
  BY DEF Mindful, Typed, Sound, Formed, Registries
<1>3. CASE sm'.reg = sm.reg
  <2>1. SlotsUnused' BY <1>1, <1>3 DEF SlotsUnused
  <2> QED BY <1>1, <1>3, <2>1
<1>4. ASSUME NEW u \in UUID,
             Apart(sm.reg, sm'.reg, u),
             u \in sm'.reg.tracked =>
               sm'.reg.call[u].callId = InvalidId /\ sm'.reg.call[u].cancelledAt = 0,
             u \in sm.reg.tracked =>
               sm.reg.call[u].state # "ended" \/ sm.reg.call[u].cancelledAt = 0
      PROVE  /\ SlotsUnused'
             /\ Rejections' = 0 => Unrejected(sm'.reg, rejectedAt')
             /\ Rejections' = 1 => Remembers(sm'.reg, rejectedAt')
  <2>1. SlotsUnused' BY <1>1, <1>2, <1>4 DEF SlotsUnused, Apart
  <2>2. Rejections' = 0 => Unrejected(sm'.reg, rejectedAt')
    BY <1>1, <1>4 DEF Unrejected, Apart
  <2>3. Rejections' = 1 => Remembers(sm'.reg, rejectedAt')
    BY <1>1, <1>4 DEF Remembers, Remembered, Apart
  <2> QED BY <2>1, <2>2, <2>3
<1> QED BY <1>3, <1>4

(* While nobody has a slot the main queue only ends calls that rang out.   *)
LEMMA WaitingHead ==
  ASSUME Typed, SlotsUnused, mainQ # <<>>
  PROVE  LET b == Head(mainQ)
         IN  /\ b \in WaitingBlock /\ b.uuid \in UUID /\ Tail(mainQ) \in Seq(WaitingBlock)
             /\ IdOf(sm.reg, b.uuid) = InvalidId
<1>1. Head(mainQ) \in WaitingBlock /\ Tail(mainQ) \in Seq(WaitingBlock) BY DEF SlotsUnused
<1>2. Head(mainQ).uuid \in UUID BY <1>1, MainHead DEF WaitingBlock
<1>3. \A u : IdOf(sm.reg, u) = InvalidId BY DEF SlotsUnused, IdOf
<1> QED BY <1>1, <1>2, <1>3

LEMMA WaitingBlocks ==
  \A u \in UUID, op \in {"ringTimeout", "poll", "acceptFailed"} :
    Run(op, u, InvalidId) \in WaitingBlock
  BY DEF Run, WaitingBlock, Block, Op

LEMMA AttemptWaits ==
  ASSUME Typed, SlotsUnused, NEW u \in UUID, AttemptAccept(u)
  PROVE  BagToSet(delayed') \subseteq WaitingBlock
<1>1. IdOf(sm.reg, u) = InvalidId BY DEF SlotsUnused, IdOf
<1>2. Schedule(Run("poll", u, InvalidId)) BY <1>1 DEF AttemptAccept
<1>3. BagToSet(delayed') = BagToSet(delayed) \cup {Run("poll", u, InvalidId)}
  BY <1>2, ScheduleHow
<1> QED BY <1>3, WaitingBlocks DEF SlotsUnused

LEMMA MainMindful ==
  ASSUME Mindful, Typed', MainQueue
  PROVE  Mindful'
<1>0. Typed /\ Budgeted BY DEF Mindful
<1>1. UNCHANGED <<bounds, rejectedAt>> /\ mainQ # <<>>
  BY DEF MainQueue, handleIncomingSIPCall, callConfirmed, callDisconnected, callConnecting,
         callTerminated, incomingCallTimeout, attemptAccept, acceptTimedOut, answerCall,
         acceptFailed, stopped, history, HeadIs
<1>2. Budgeted' /\ NothingYet' = NothingYet /\ Rejections' = Rejections BY <1>0, <1>1, NothingSpent
<1> DEFINE b == Head(mainQ)
<1>3. ASSUME NothingYet
      PROVE  /\ sipQ' = sipQ /\ dialog' = dialog
             /\ mainQ' \in Seq(WaitingBlock) /\ BagToSet(delayed') \subseteq WaitingBlock
             /\ \/ sm'.reg = sm.reg
                \/ \E u \in UUID :
                     /\ Apart(sm.reg, sm'.reg, u) /\ u \notin sm'.reg.tracked
                     /\ u \in sm.reg.tracked => sm.reg.call[u].state # "ended"
  <2>1. SlotsUnused BY <1>3 DEF Mindful
  <2>2. b \in WaitingBlock /\ b.uuid \in UUID /\ Tail(mainQ) \in Seq(WaitingBlock)
        /\ IdOf(sm.reg, b.uuid) = InvalidId
    BY <1>0, <1>1, <2>1, WaitingHead
  <2>3. incomingCallTimeout \/ attemptAccept \/ acceptTimedOut \/ acceptFailed
    BY <2>2 DEF MainQueue, handleIncomingSIPCall, callConfirmed, callDisconnected, callConnecting,
         callTerminated, answerCall, stopped, HeadIs, WaitingBlock
  <2> HIDE DEF b
  <2>4. BagToSet(delayed) \subseteq WaitingBlock BY <2>1 DEF SlotsUnused
  <2>5. CASE incomingCallTimeout
    <3>1. /\ mainQ' = Tail(mainQ) /\ sipQ' = sipQ /\ UNCHANGED <<delayed, dialog>>
          /\ \/ sm' = sm
             \/ StillRinging(sm.reg, b.uuid) /\ sm' = EndAndClear(sm, b.uuid)
      BY <2>2, <2>5 DEF incomingCallTimeout, Done, b
    <3>2. ASSUME StillRinging(sm.reg, b.uuid), sm' = EndAndClear(sm, b.uuid)
          PROVE  /\ Apart(sm.reg, sm'.reg, b.uuid) /\ b.uuid \notin sm'.reg.tracked
                 /\ sm.reg.call[b.uuid].state # "ended"
      <4>1. Sound(sm, now) /\ now \in Date BY <1>0 DEF Typed
      <4> QED BY <2>2, <3>2, <4>1, ClearApart DEF StillRinging
    <3> QED BY <2>2, <2>4, <3>1, <3>2
  <2>6. CASE attemptAccept
    <3>1. AttemptAccept(b.uuid) /\ mainQ' = Tail(mainQ) /\ UNCHANGED <<sm, sipQ, dialog>>
      BY <2>6 DEF attemptAccept, Done, b
    <3> QED BY <1>0, <2>1, <2>2, <3>1, AttemptWaits
  <2>7. CASE acceptTimedOut
    <3>1. /\ mainQ' = Append(Tail(mainQ), Run("acceptFailed", b.uuid, InvalidId))
          /\ UNCHANGED <<sm, sipQ, delayed, dialog>>
      BY <2>7 DEF acceptTimedOut, b
    <3>2. Run("acceptFailed", b.uuid, InvalidId) \in WaitingBlock BY <2>2, WaitingBlocks
    <3>3. mainQ' \in Seq(WaitingBlock) BY <2>2, <3>1, <3>2
    <3> QED BY <2>4, <3>1, <3>3
  <2>8. CASE acceptFailed
    BY <2>2, <2>4, <2>8 DEF acceptFailed, Done
  <2> QED BY <2>3, <2>5, <2>6, <2>7, <2>8
<1>4. NothingYet' =>
        \/ sm'.reg = sm.reg
        \/ \E u \in UUID :
             /\ Apart(sm.reg, sm'.reg, u)
             /\ u \in sm'.reg.tracked =>
                  sm'.reg.call[u].callId = InvalidId /\ sm'.reg.call[u].cancelledAt = 0
             /\ u \in sm.reg.tracked =>
                  sm.reg.call[u].state # "ended" \/ sm.reg.call[u].cancelledAt = 0
  BY <1>2, <1>3
<1> QED BY <1>1, <1>2, <1>3, <1>4, MindfulKept

(* Nothing is on sipQueue.                                                 *)
LEMMA SIPMindful ==
  ASSUME Mindful, Typed', SIPQueue
  PROVE  Mindful'
<1>1. UNCHANGED bounds /\ sipQ # <<>>
  BY DEF SIPQueue, StopOnQueue, sipEnd, sipEndThenClear, sipAnswer, sipStop, sipHangUp, sipDestroy,
         NextSIP
<1>2. Budgeted' /\ NothingYet' = NothingYet BY <1>1, NothingSpent DEF Mindful
<1>3. ~NothingYet BY <1>1 DEF Mindful, SlotsUnused
<1> QED BY <1>2, <1>3 DEF Mindful

(* A rejection: if it is the first it is remembered, and no slot is        *)
(* touched.                                                                *)
LEMMA RejectKept ==
  ASSUME Mindful, Typed', NEW kind \in {"end", "retract"}, Spend(kind), NEW u \in UUID,
         NothingYet =>
           /\ UNCHANGED <<mainQ, sipQ, delayed, dialog>>
           /\ Apart(sm.reg, sm'.reg, u) /\ (u \in sm'.reg.tracked => sm'.reg.call[u].callId = InvalidId)
           /\ Unrejected(sm.reg, rejectedAt) =>
                \/ rejectedAt' = rejectedAt
                \/ rejectedAt' = [rejectedAt EXCEPT ![u] = now] /\ Remembered(sm'.reg, u, now)
  PROVE  Mindful'
<1>0. Typed /\ Budgeted /\ kind \in Kind BY DEF Mindful, Kind
<1>1. Budgeted' /\ (NothingYet' => NothingYet) /\ Rejections' = Rejections + 1
  BY <1>0, SpendHow
<1>2. Rejections \in Nat BY <1>0, Counts
<1> SUFFICES ASSUME NothingYet'
             PROVE  SlotsUnused' /\ (Rejections' = 1 => Remembers(sm'.reg, rejectedAt'))
  BY <1>1, <1>2 DEF Mindful
<1>3. SlotsUnused /\ (Rejections = 0 => Unrejected(sm.reg, rejectedAt))
  BY <1>1 DEF Mindful
<1>4. sm.reg.tracked \subseteq UUID /\ sm'.reg.tracked \subseteq UUID
  BY <1>0 DEF Typed, Sound, Formed, Registries
<1>5. SlotsUnused' BY <1>1, <1>3, <1>4 DEF SlotsUnused, Apart
<1>6. ASSUME Rejections' = 1 PROVE Remembers(sm'.reg, rejectedAt')
  <2>1. Unrejected(sm.reg, rejectedAt) BY <1>1, <1>2, <1>3, <1>6
  <2>2. rejectedAt \in [UUID -> Nat] BY <1>0 DEF Typed
  <2> QED BY <1>1, <2>1, <2>2 DEF Remembers, Unrejected
<1> QED BY <1>5, <1>6

LEMMA HostRetracts ==
  ASSUME Mindful, Typed', NEW u \in Announced, handleCancelledIncomingCall(u)
  PROVE  Mindful'
<1>0. Typed /\ u \in UUID BY LifecycleAssumption DEF Mindful
<1>1. Spend("retract") /\ HandleCancelled(u) /\ UNCHANGED <<mainQ, delayed, dialog>>
  BY DEF handleCancelledIncomingCall
<1>2. ASSUME NothingYet
      PROVE  /\ UNCHANGED <<mainQ, sipQ, delayed, dialog>>
             /\ Apart(sm.reg, sm'.reg, u) /\ (u \in sm'.reg.tracked => sm'.reg.call[u].callId = InvalidId)
             /\ Unrejected(sm.reg, rejectedAt) =>
                  \/ rejectedAt' = rejectedAt
                  \/ rejectedAt' = [rejectedAt EXCEPT ![u] = now] /\ Remembered(sm'.reg, u, now)
  <2>1. IdOf(sm.reg, u) = InvalidId /\ (u \in sm.reg.tracked => sm.reg.call[u].callId = InvalidId)
    BY <1>2 DEF Mindful, SlotsUnused, IdOf
  <2>2. CASE u \in sm.reg.tracked /\ sm.reg.call[u].state = "ended"
    <3>1. UNCHANGED <<sm, sipQ, rejectedAt>> BY <1>1, <2>2 DEF HandleCancelled
    <3> QED BY <1>1, <2>1, <3>1 DEF Apart
  <2>3. CASE ~(u \in sm.reg.tracked /\ sm.reg.call[u].state = "ended")
    <3>1. /\ sm' = RetractCall(sm, u, now) /\ sipQ' = sipQ
          /\ rejectedAt' = IF rejectedAt[u] = 0 THEN [rejectedAt EXCEPT ![u] = now] ELSE rejectedAt
      BY <1>1, <2>1, <2>3 DEF HandleCancelled, Settle
    <3>2. Sound(sm, now) /\ now \in Date BY <1>0 DEF Typed
    <3>3. /\ Apart(sm.reg, sm'.reg, u) /\ sm'.reg.call[u].callId = InvalidId
          /\ (u \in sm.reg.tracked => sm.reg.call[u].cancelledAt = 0) => Remembered(sm'.reg, u, now)
      BY <1>0, <2>1, <3>1, <3>2, RetractApart
    <3> QED BY <1>0, <1>1, <3>1, <3>3 DEF Unrejected
  <2> QED BY <2>2, <2>3
<1> QED BY <1>0, <1>1, <1>2, RejectKept

LEMMA HostEnds ==
  ASSUME Mindful, Typed', NEW arg \in UUID \cup {NoUUID}, terminateCall(arg)
  PROVE  Mindful'
<1> DEFINE call   == ResolveCall(sm, arg)
           target == IF call # NoUUID THEN call ELSE arg
           marked == [sm EXCEPT !.reg = MarkCancelled(@, target, now)]
<1>0. Typed BY DEF Mindful
<1>1. /\ Spend("end") /\ target # NoUUID /\ UNCHANGED <<mainQ, delayed, dialog>>
      /\ IF IdOf(sm.reg, call) # InvalidId
         THEN UNCHANGED <<sm, rejectedAt>>
         ELSE /\ sm' = IF marked # sm
                       THEN DetachIfCurrent(PublishState(marked, target, "ended"), target)
                       ELSE ClearCall(sm, target)
              /\ rejectedAt' = IF marked # sm /\ rejectedAt[target] = 0
                               THEN [rejectedAt EXCEPT ![target] = now] ELSE rejectedAt
              /\ UNCHANGED sipQ
  BY DEF terminateCall
<1>2. Sound(sm, now) /\ now \in Date /\ Formed(sm.reg, now) /\ sm.reg \in Registries
  BY <1>0 DEF Typed, Sound, Formed
<1>3. target \in UUID BY <1>0, <1>1, <1>2, Lookups
<1>4. marked = [sm EXCEPT !.reg = MarkCancelled(sm.reg, target, now)]
  BY <1>2 DEF Sound, StateMachines
<1> HIDE DEF target, marked, call
<1>5. ASSUME NothingYet
      PROVE  /\ UNCHANGED <<mainQ, sipQ, delayed, dialog>>
             /\ Apart(sm.reg, sm'.reg, target)
             /\ target \in sm'.reg.tracked => sm'.reg.call[target].callId = InvalidId
             /\ Unrejected(sm.reg, rejectedAt) =>
                  \/ rejectedAt' = rejectedAt
                  \/ rejectedAt' = [rejectedAt EXCEPT ![target] = now] /\ Remembered(sm'.reg, target, now)
  <2>1. /\ IdOf(sm.reg, call) = InvalidId
        /\ target \in sm.reg.tracked => sm.reg.call[target].callId = InvalidId
    BY <1>5 DEF Mindful, SlotsUnused, IdOf
  <2>2. CASE marked = sm
    <3>1. sm' = ClearCall(sm, target) /\ rejectedAt' = rejectedAt /\ sipQ' = sipQ
      BY <1>1, <2>1, <2>2
    <3>2. sm'.reg = RemoveUUID(sm.reg, target) BY <1>2, <1>3, <3>1, ClearSound
    <3>3. Apart(sm.reg, sm'.reg, target) /\ target \notin sm'.reg.tracked
      BY <1>2, <1>3, <3>2, ApartOne, RemoveHow
    <3> QED BY <1>1, <3>1, <3>3
  <2>3. CASE marked # sm
    <3>1. /\ sm' = DetachIfCurrent(PublishState(marked, target, "ended"), target) /\ sipQ' = sipQ
          /\ rejectedAt' = IF rejectedAt[target] = 0 THEN [rejectedAt EXCEPT ![target] = now] ELSE rejectedAt
      BY <1>1, <2>1, <2>3
    <3>2. target \in sm.reg.tracked /\ sm.reg.call[target].cancelledAt = 0
      BY <1>2, <1>4, <2>3 DEF MarkCancelled, Sound, StateMachines
    <3>3. /\ Apart(sm.reg, sm'.reg, target) /\ sm'.reg.call[target].callId = InvalidId
          /\ Remembered(sm'.reg, target, now)
      BY <1>2, <1>3, <1>4, <2>1, <3>1, <3>2, MarkedApart
    <3> QED BY <1>1, <3>1, <3>3
  <2> QED BY <2>2, <2>3
<1> QED BY <1>1, <1>3, <1>5, RejectKept

LEMMA HostAnnounces ==
  ASSUME Mindful, Typed', NEW u \in Announced, prepareIncomingCall(u)
  PROVE  Mindful'
<1>0. Typed /\ Budgeted /\ u \in UUID BY LifecycleAssumption DEF Mindful
<1> DEFINE kind == IF Known(u) THEN "again" ELSE "push"
<1>1. /\ Spend(kind) /\ UNCHANGED <<mainQ, sipQ, dialog, rejectedAt>>
      /\ \/ UNCHANGED <<sm, delayed>>
         \/ \E s \in PrepareIncoming(sm, u, now) : sm' = s /\ ScheduleRingTimeout(u)
  BY DEF prepareIncomingCall, Settle, history
<1>2. kind \in Kind /\ kind \notin {"end", "retract"} BY DEF Kind
<1> HIDE DEF kind
<1>3. Budgeted' /\ (NothingYet' => NothingYet) /\ Rejections' = Rejections
  BY <1>0, <1>1, <1>2, SpendHow
<1>4. ASSUME NothingYet
      PROVE  /\ mainQ' \in Seq(WaitingBlock) /\ BagToSet(delayed') \subseteq WaitingBlock
             /\ \/ sm'.reg = sm.reg
                \/ /\ Apart(sm.reg, sm'.reg, u)
                   /\ sm'.reg.call[u].callId = InvalidId /\ sm'.reg.call[u].cancelledAt = 0
                   /\ u \in sm.reg.tracked => sm.reg.call[u].cancelledAt = 0
  <2>1. SlotsUnused BY <1>4 DEF Mindful
  <2>2. mainQ' \in Seq(WaitingBlock) BY <1>1, <2>1 DEF SlotsUnused
  <2>3. CASE UNCHANGED <<sm, delayed>> BY <2>1, <2>2, <2>3 DEF SlotsUnused
  <2>4. ASSUME NEW s \in PrepareIncoming(sm, u, now), sm' = s, ScheduleRingTimeout(u)
        PROVE  /\ BagToSet(delayed') \subseteq WaitingBlock
               /\ Apart(sm.reg, sm'.reg, u)
               /\ sm'.reg.call[u].callId = InvalidId /\ sm'.reg.call[u].cancelledAt = 0
               /\ u \in sm.reg.tracked => sm.reg.call[u].cancelledAt = 0
    <3>1. BagToSet(delayed') \subseteq BagToSet(delayed) \cup {Run("ringTimeout", u, InvalidId)}
      BY <1>0, <2>4, ScheduleHow DEF ScheduleRingTimeout
    <3>2. BagToSet(delayed') \subseteq WaitingBlock
      BY <1>0, <2>1, <3>1, WaitingBlocks DEF SlotsUnused
    <3>3. Sound(sm, now) /\ now \in Date BY <1>0 DEF Typed
    <3>4. \A v \in sm.reg.tracked : sm.reg.call[v].callId = InvalidId BY <2>1 DEF SlotsUnused
    <3> QED BY <1>0, <2>4, <3>2, <3>3, <3>4, PrepareApart
  <2> QED BY <1>1, <2>2, <2>3, <2>4
<1>5. NothingYet' =>
        \/ sm'.reg = sm.reg
        \/ \E v \in UUID :
             /\ Apart(sm.reg, sm'.reg, v)
             /\ v \in sm'.reg.tracked =>
                  sm'.reg.call[v].callId = InvalidId /\ sm'.reg.call[v].cancelledAt = 0
             /\ v \in sm.reg.tracked =>
                  sm.reg.call[v].state # "ended" \/ sm.reg.call[v].cancelledAt = 0
  BY <1>0, <1>3, <1>4
<1> QED BY <1>1, <1>3, <1>4, <1>5, MindfulKept

LEMMA HostAccepts ==
  ASSUME Mindful, Typed', NEW arg \in UUID \cup {NoUUID}, acceptCall(arg)
  PROVE  Mindful'
<1> DEFINE call   == ResolveCall(sm, arg)
           target == IF call # NoUUID THEN call ELSE arg
<1>0. Typed /\ Budgeted BY DEF Mindful
<1>1. /\ Spend("accept") /\ target # NoUUID /\ AttemptAccept(target)
      /\ UNCHANGED <<sm, mainQ, sipQ, dialog, rejectedAt>>
  BY DEF acceptCall
<1>2. Sound(sm, now) BY <1>0 DEF Typed
<1>3. target \in UUID BY <1>0, <1>1, <1>2, Lookups
<1> HIDE DEF target, call
<1>4. Budgeted' /\ (NothingYet' => NothingYet) /\ Rejections' = Rejections
  <2>1. "accept" \in Kind BY DEF Kind
  <2> QED BY <1>0, <1>1, <2>1, SpendHow
<1>5. ASSUME NothingYet PROVE mainQ' \in Seq(WaitingBlock) /\ BagToSet(delayed') \subseteq WaitingBlock
  <2>1. SlotsUnused BY <1>5 DEF Mindful
  <2>2. BagToSet(delayed') \subseteq WaitingBlock BY <1>0, <1>1, <1>3, <2>1, AttemptWaits
  <2> QED BY <1>1, <2>1, <2>2 DEF SlotsUnused
<1> QED BY <1>1, <1>4, <1>5, MindfulKept

LEMMA OthersMindful ==
  ASSUME Mindful, Typed',
         \/ \E onMain \in BOOLEAN : stop(onMain)
         \/ Peer
         \/ Pause
         \/ \E b \in BagToSet(delayed) : Fires(b)
         \/ UNCHANGED vars
  PROVE  Mindful'
<1>0. Typed /\ Budgeted /\ {"stop", "invite", "pause"} \subseteq Kind BY DEF Mindful, Kind
<1>1. ASSUME NEW onMain \in BOOLEAN, stop(onMain) PROVE Mindful'
  <2>1. Spend("stop") BY <1>1 DEF stop
  <2>2. Budgeted' /\ ~NothingYet' BY <1>0, <2>1, SpendHow
  <2> QED BY <2>2 DEF Mindful
<1>2. ASSUME NEW i \in CallId, NEW u, onIncomingCall(i, u) PROVE Mindful'
  <2>1. Spend("invite") BY <1>2 DEF onIncomingCall
  <2>2. Budgeted' /\ ~NothingYet' BY <1>0, <2>1, SpendHow
  <2> QED BY <2>2 DEF Mindful
<1>3. ASSUME NEW i \in CallId, onCallConfirmed(i) \/ onCallDisconnected(i) \/ slotFreed(i)
      PROVE  Mindful'
  <2>1. dialog[i].state # "free" /\ UNCHANGED bounds
    BY <1>3 DEF onCallConfirmed, onCallDisconnected, slotFreed
  <2>2. ~NothingYet BY <2>1 DEF Mindful, SlotsUnused
  <2>3. Budgeted' /\ NothingYet' = NothingYet BY <1>0, <2>1, NothingSpent
  <2> QED BY <2>2, <2>3 DEF Mindful
<1>4. CASE Pause
  <2>1. Spend("pause") /\ UNCHANGED <<sm, mainQ, sipQ, delayed, dialog, rejectedAt>>
    BY <1>4 DEF Pause, history
  <2>2. Budgeted' /\ (NothingYet' => NothingYet) /\ Rejections' = Rejections
    BY <1>0, <2>1, SpendHow
  <2>3. NothingYet => mainQ \in Seq(WaitingBlock) /\ BagToSet(delayed) \subseteq WaitingBlock
    BY DEF Mindful, SlotsUnused
  <2> QED BY <2>1, <2>2, <2>3, MindfulKept
<1>5. ASSUME NEW b, Fires(b) PROVE Mindful'
  <2>1. mainQ' = Append(mainQ, b) /\ UNCHANGED <<sm, sipQ, dialog, bounds, rejectedAt>>
    BY <1>5 DEF Fires, history
  <2>2. Budgeted' /\ NothingYet' = NothingYet /\ Rejections' = Rejections
    BY <1>0, <2>1, NothingSpent
  <2>3. ASSUME NothingYet
        PROVE  mainQ' \in Seq(WaitingBlock) /\ BagToSet(delayed') \subseteq WaitingBlock
    <3>1. mainQ \in Seq(WaitingBlock) /\ BagToSet(delayed) \subseteq WaitingBlock
      BY <2>3 DEF Mindful, SlotsUnused
    <3>2. b \in BagToSet(delayed) /\ BagToSet(delayed') \subseteq BagToSet(delayed)
      BY <1>0, <1>5, FiresHow
    <3>3. b \in WaitingBlock BY <3>1, <3>2
    <3>4. mainQ' \in Seq(WaitingBlock) BY <2>1, <3>1, <3>3
    <3> QED BY <3>1, <3>2, <3>4
  <2> QED BY <2>1, <2>2, <2>3, MindfulKept
<1>6. CASE UNCHANGED vars
  <2>1. UNCHANGED <<sm, mainQ, sipQ, delayed, dialog, bounds, rejectedAt>>
    BY <1>6 DEF vars, history
  <2>2. Budgeted' /\ NothingYet' = NothingYet /\ Rejections' = Rejections
    BY <1>0, <2>1, NothingSpent
  <2>3. NothingYet => mainQ \in Seq(WaitingBlock) /\ BagToSet(delayed) \subseteq WaitingBlock
    BY DEF Mindful, SlotsUnused
  <2> QED BY <2>1, <2>2, <2>3, MindfulKept
<1> QED BY <1>1, <1>2, <1>3, <1>4, <1>5, <1>6 DEF Peer

LEMMA InitMindful ==
  ASSUME Init
  PROVE  Mindful
<1>1. Typed BY InitTyped
<1>2. setup.budget \in [Kind -> Nat] /\ left = setup.budget
  BY LifecycleAssumption DEF Init, Kind
<1>3. Budgeted BY <1>2 DEF Budgeted
<1>4. Rejections = 0
  <2>1. setup.budget["end"] \in Nat /\ setup.budget["retract"] \in Nat BY <1>2 DEF Kind
  <2> QED BY <1>2, <2>1 DEF Rejections
<1>5. sm.reg.tracked = {} BY DEF Init, Idle, EmptyRegistry
<1>6. BagToSet(delayed) = {} BY DEF Init, EmptyBag, SetToBag, BagToSet
<1>7. SlotsUnused BY <1>5, <1>6 DEF SlotsUnused, Init, NoDialog
<1>8. Unrejected(sm.reg, rejectedAt) BY <1>5 DEF Unrejected, Init
<1> QED BY <1>1, <1>3, <1>4, <1>7, <1>8 DEF Mindful

LEMMA NextMindful ==
  ASSUME Mindful, [Next]_vars
  PROVE  Mindful'
<1>1. Typed' BY NextTyped DEF Mindful
<1>2. CASE MainQueue BY <1>1, <1>2, MainMindful
<1>3. CASE SIPQueue BY <1>1, <1>3, SIPMindful
<1>4. CASE Host BY <1>1, <1>4, HostAnnounces, HostRetracts, HostEnds, HostAccepts DEF Host
<1>5. CASE \/ \E onMain \in BOOLEAN : stop(onMain)
           \/ Peer
           \/ Pause
           \/ \E b \in BagToSet(delayed) : Fires(b)
           \/ UNCHANGED vars
  BY <1>1, <1>5, OthersMindful
<1> QED BY <1>2, <1>3, <1>4, <1>5 DEF Next

(* Only an INVITE that is not refused makes a free slot ring.              *)
LEMMA RingsHow ==
  ASSUME Typed, [Next]_vars, NEW i \in CallId,
         dialog[i].state = "free", dialog'[i].state = "early"
  PROVE  /\ Spend("invite") /\ dialog'[i].nth = left["invite"]
         /\ CallToRefuse(sm.reg, now, Window) = {} /\ UNCHANGED rejectedAt
<1>1. dialog \in [CallId -> Dialog] BY DEF Typed
<1>2. ASSUME NEW j \in CallId, NEW st \in DialogState \ {"early"},
             dialog' = [dialog EXCEPT ![j].state = st] \/ dialog' = [dialog EXCEPT ![j] = NoDialog]
      PROVE  FALSE
  BY <1>1, <1>2 DEF NoDialog, Dialog
<1>3. dialog' # dialog OBVIOUS
<1>4. ~MainQueue
  BY <1>3 DEF MainQueue, handleIncomingSIPCall, callConfirmed, callDisconnected, callConnecting,
         callTerminated, incomingCallTimeout, attemptAccept, acceptTimedOut, answerCall,
         acceptFailed, stopped, HeadIs
<1>5. ~Host
  BY <1>3 DEF Host, prepareIncomingCall, handleCancelledIncomingCall, terminateCall, acceptCall
<1>6. ~(Pause \/ (\E b \in BagToSet(delayed) : Fires(b)) \/ (\E m \in BOOLEAN : stop(m))
          \/ UNCHANGED vars)
  BY <1>3 DEF Pause, Fires, stop, vars
<1>7. ~SIPQueue
  <2>1. ASSUME NEW j \in CallId, NEW then, EndSIPCall(j, then) PROVE FALSE
    BY <1>2, <1>3, <2>1 DEF EndSIPCall, DialogState
  <2>2. sipQ # <<>> => /\ Head(sipQ) \in QueuedBlock
                       /\ Head(sipQ).op \in {"end", "endThenClear", "answer"} => Head(sipQ).id \in CallId
    BY SIPHead DEF SIPOp
  <2>3. ~sipEnd /\ ~sipEndThenClear BY <2>1, <2>2 DEF sipEnd, sipEndThenClear, NextSIP
  <2>4. ~sipAnswer
    <3> SUFFICES ASSUME sipAnswer PROVE FALSE OBVIOUS
    <3>1. PICK j \in CallId : dialog' = dialog \/ dialog' = [dialog EXCEPT ![j].state = "connecting"]
      BY <2>2 DEF sipAnswer, NextSIP
    <3> QED BY <1>2, <1>3, <3>1 DEF DialogState
  <2>5. ~sipStop /\ ~sipDestroy BY <1>3 DEF sipStop, sipDestroy
  <2>6. \A j \in CallId : ~sipHangUp(j) BY <1>2 DEF sipHangUp, DialogState
  <2> QED BY <2>3, <2>4, <2>5, <2>6 DEF SIPQueue, StopOnQueue
<1>8. Peer BY <1>4, <1>5, <1>6, <1>7 DEF Next
<1>9. \A j \in CallId : ~(onCallConfirmed(j) \/ onCallDisconnected(j) \/ slotFreed(j))
  BY <1>2 DEF onCallConfirmed, onCallDisconnected, slotFreed, DialogState
<1>10. PICK j \in CallId, u \in Announced \cup {NoUUID} : onIncomingCall(j, u)
  BY <1>8, <1>9 DEF Peer
<1>11. /\ Spend("invite") /\ CallToRefuse(sm.reg, now, Window) = {} /\ UNCHANGED rejectedAt
       /\ dialog' = [dialog EXCEPT ![j] = [state |-> "early", nth |-> left["invite"], intended |-> u]]
  BY <1>3, <1>10 DEF onIncomingCall
<1> QED BY <1>1, <1>11

(* The oldest of the rejections that live is found.                        *)
LEMMA OldestRefused ==
  ASSUME Typed, NEW u \in Tombstones(sm.reg) \ Expired(sm.reg, now, Window),
         AwaitingInvite(sm.reg) = {}
  PROVE  CallToRefuse(sm.reg, now, Window) # {}
<1> DEFINE fresh == Tombstones(sm.reg) \ Expired(sm.reg, now, Window)
           dates == {sm.reg.call[v].cancelledAt : v \in fresh}
<1>1. fresh \subseteq UUID /\ \A v \in UUID : sm.reg.call[v].cancelledAt \in Nat
  BY DEF Typed, Sound, Formed, Registries, Tombstones, Call
<1>2. dates \in SUBSET Nat /\ dates # {} BY <1>1
<1>3. PICK d \in dates : \A e \in dates : d <= e
  <2> HIDE DEF dates
  <2> QED BY <1>2, LeastNatural
<1>4. PICK v \in fresh : sm.reg.call[v].cancelledAt = d BY <1>3
<1>5. \A w \in fresh : sm.reg.call[v].cancelledAt <= sm.reg.call[w].cancelledAt BY <1>3, <1>4
<1> QED BY <1>4, <1>5 DEF CallToRefuse

(* A host that rejects one call and stops nothing is not asked again by    *)
(* the first INVITE: the record of the rejection stays in the registry     *)
(* with its date (CallWaveClient.m:2265, 3016) whatever pushes come again  *)
(* (2854) and whatever timers fire, so the INVITE of the call, if it comes *)
(* in time and finds no other call waiting, is refused before it rings.    *)
THEOREM RejectionRemembered == Spec => OneRejectionIsRemembered
<1>1. Init => Mindful BY InitMindful
<1>2. Mindful /\ [Next]_vars => Mindful' BY NextMindful
<1>3. ASSUME Mindful, [Next]_vars, Rejections <= 1, left.stop = setup.budget.stop,
             NEW i \in CallId, RingsThoughRejected(i)
      PROVE  dialog'[i].nth < setup.budget.invite
  <2> DEFINE u == dialog'[i].intended
  <2>0. Typed /\ Budgeted BY <1>3 DEF Mindful
  <2>1. /\ dialog[i].state = "free" /\ dialog'[i].state = "early"
        /\ u # NoUUID /\ rejectedAt[u] # 0
        /\ now - rejectedAt[u] <= Window /\ AwaitingInvite(sm.reg) = {}
    BY <1>3 DEF RingsThoughRejected
  <2>2. /\ dialog'[i].nth = left["invite"]
        /\ CallToRefuse(sm.reg, now, Window) = {}
    BY <1>3, <2>0, <2>1, RingsHow
  <2>3. u \in UUID
    <3>1. Typed' BY <1>3, <2>0, NextTyped
    <3>2. dialog' \in [CallId -> Dialog] BY <3>1 DEF Typed
    <3> QED BY <2>1, <3>2 DEF Dialog
  <2> HIDE DEF u
  <2>4. /\ left["invite"] \in Nat /\ setup.budget["invite"] \in Nat
        /\ left["invite"] <= setup.budget["invite"] /\ Rejections \in Nat
    BY <2>0, Counts DEF Kind
  <2>5. ~NothingYet
    <3> SUFFICES ASSUME NothingYet PROVE FALSE OBVIOUS
    <3>1. Rejections = 1 BY <1>3, <2>1, <2>3, <2>4 DEF Mindful, Unrejected
    <3>2. Remembered(sm.reg, u, rejectedAt[u]) BY <1>3, <2>1, <2>3, <3>1 DEF Mindful, Remembers
    <3>3. sm.reg.call[u].callId = InvalidId BY <1>3, <3>2 DEF Mindful, SlotsUnused, Remembered
    <3>4. u \in Tombstones(sm.reg) \ Expired(sm.reg, now, Window)
      <4>1. now \in Nat /\ rejectedAt[u] \in Nat /\ Window \in Nat
        BY <2>0, <2>3, LifecycleAssumption DEF Typed, Date
      <4> QED BY <2>1, <3>2, <3>3, <4>1 DEF Tombstones, Expired, Remembered
    <3> QED BY <2>0, <2>1, <2>2, <3>4, OldestRefused
  <2> QED BY <1>3, <2>2, <2>4, <2>5 DEF NothingYet
<1>4. Mindful /\ [Next]_vars =>
        [Rejections <= 1 /\ left.stop = setup.budget.stop =>
           \A i \in CallId : RingsThoughRejected(i) => dialog'[i].nth < setup.budget.invite]_vars
  BY <1>3
<1> QED BY <1>1, <1>2, <1>4, PTL DEF Spec, OneRejectionIsRemembered
-----------------------------------------------------------------------------
(* At most one call at a time, which is what the client asks of PJSUA when *)
(* it is not configured (CallWaveEngineConfiguration.m:9).                 *)
OneSlot == \A i, j \in setup.slots : i = j

Up(i) == dialog[i].state \in {"early", "connecting", "confirmed"}

(* The blocks that may be queued: they speak of the slots there are.       *)
Clearing == {"disconnected", "ended"}
Hanging == {"end", "endThenClear"}

HomeBlock(slots) == {b \in MainBlock : b.op = "invite" => b.id \in slots}
HomeSIP(slots) == {b \in QueuedBlock : b.op \in Hanging => b.id \in slots}
TimerBlock == {b \in Block : b.op \in {"ringTimeout", "poll", "settled"}}

(* The call of slot i is in the registry, or its INVITE on the main queue  *)
(* will put it there; and nothing queued behind clears a call.             *)
Claimed(q, r, i) ==
  \/ \E k \in 1..Len(q) : /\ q[k].op = "invite" /\ q[k].id = i
                          /\ \A l \in 1..Len(q) : k < l => q[l].op \notin Clearing
  \/ r.byCallId[i] # NoUUID /\ \A l \in 1..Len(q) : q[l].op \notin Clearing

(* Or sipQueue is about to hang it up.                                     *)
HangsUp(q, i) ==
  \E k \in 1..Len(q) : \/ q[k].op \in {"stop", "destroy"}
                       \/ q[k].op \in Hanging /\ q[k].id = i

InPlace ==
  /\ mainQ \in Seq(HomeBlock(setup.slots)) /\ sipQ \in Seq(HomeSIP(setup.slots))
  /\ BagToSet(delayed) \subseteq TimerBlock
  /\ \A i \in CallId \ setup.slots : sm.reg.byCallId[i] = NoUUID /\ ~Up(i)

Housed ==
  /\ Typed
  /\ OneSlot /\ ~setup.sipFailures =>
       /\ InPlace
       /\ \A i \in CallId : Up(i) => Claimed(mainQ, sm.reg, i) \/ HangsUp(sipQ, i)
-----------------------------------------------------------------------------
(* What becomes of a claim when the queue moves on.                        *)
LEMMA ClaimedTail ==
  ASSUME NEW q \in Seq(MainBlock), q # <<>>, NEW r, NEW n, NEW i, Claimed(q, r, i),
         Head(q).op \in Clearing \/ (r.byCallId[i] # NoUUID => n.byCallId[i] # NoUUID),
         Head(q).op = "invite" /\ Head(q).id = i => n.byCallId[i] # NoUUID
  PROVE  Claimed(Tail(q), n, i)
<1> DEFINE t == Tail(q)
<1>1. t \in Seq(MainBlock) /\ Len(t) \in Nat /\ Len(q) = Len(t) + 1 /\ Head(q) = q[1]
  OBVIOUS
<1>2. \A l \in 1..Len(t) : t[l] = q[l + 1] /\ l + 1 \in 1..Len(q) OBVIOUS
<1> HIDE DEF t
<1>3. CASE r.byCallId[i] # NoUUID /\ \A l \in 1..Len(q) : q[l].op \notin Clearing
  <2>1. 1 \in 1..Len(q) BY <1>1
  <2>2. n.byCallId[i] # NoUUID BY <1>1, <1>3, <2>1
  <2>3. \A l \in 1..Len(t) : t[l].op \notin Clearing BY <1>2, <1>3
  <2> QED BY <2>2, <2>3 DEF Claimed, t
<1>4. ASSUME NEW k \in 1..Len(q), q[k].op = "invite", q[k].id = i,
             \A l \in 1..Len(q) : k < l => q[l].op \notin Clearing
      PROVE  Claimed(t, n, i)
  <2>1. CASE k = 1
    <3>1. n.byCallId[i] # NoUUID BY <1>1, <1>4, <2>1
    <3>2. \A l \in 1..Len(t) : t[l].op \notin Clearing
      <4>1. \A l \in 1..Len(t) : k < l + 1 BY <2>1
      <4> QED BY <1>2, <1>4, <4>1
    <3> QED BY <3>1, <3>2 DEF Claimed
  <2>2. CASE k # 1
    <3>1. k - 1 \in 1..Len(t) /\ (k - 1) + 1 = k BY <1>1, <2>2
    <3>2. t[k - 1].op = "invite" /\ t[k - 1].id = i BY <1>2, <1>4, <3>1
    <3>3. \A l \in 1..Len(t) : k - 1 < l => t[l].op \notin Clearing
      <4>1. \A l \in 1..Len(t) : k - 1 < l => k < l + 1 BY <1>1
      <4> QED BY <1>2, <1>4, <4>1
    <3> QED BY <3>1, <3>2, <3>3 DEF Claimed
  <2> QED BY <2>1, <2>2
<1> QED BY <1>3, <1>4 DEF Claimed, t

LEMMA ClaimedAppend ==
  ASSUME NEW q \in Seq(MainBlock), NEW b \in MainBlock, b.op \notin Clearing,
         NEW r, NEW i, Claimed(q, r, i)
  PROVE  Claimed(Append(q, b), r, i)
<1> DEFINE a == Append(q, b)
<1>1. Len(q) \in Nat /\ Len(a) = Len(q) + 1 OBVIOUS
<1>2. \A l \in 1..Len(q) : a[l] = q[l] /\ l \in 1..Len(a) OBVIOUS
<1>3. a[Len(q) + 1] = b OBVIOUS
<1> HIDE DEF a
<1>4. \A l \in 1..Len(a) : l \in 1..Len(q) \/ l = Len(q) + 1 BY <1>1
<1>5. \A l \in 1..Len(a) : l \in 1..Len(q) \/ a[l].op \notin Clearing BY <1>3, <1>4
<1> QED BY <1>2, <1>5 DEF Claimed, a

LEMMA ClaimedNew ==
  ASSUME NEW q \in Seq(MainBlock), NEW r, NEW i
  PROVE  Claimed(Append(q, Run("invite", NoUUID, i)), r, i)
<1> DEFINE a == Append(q, Run("invite", NoUUID, i))
<1>1. Len(a) = Len(q) + 1 /\ Len(q) \in Nat /\ a[Len(q) + 1] = Run("invite", NoUUID, i) OBVIOUS
<1> HIDE DEF a
<1>2. Len(q) + 1 \in 1..Len(a) /\ \A l \in 1..Len(a) : ~(Len(q) + 1 < l) BY <1>1
<1> QED BY <1>1, <1>2 DEF Claimed, Run, a

LEMMA ClaimedKeeps ==
  ASSUME NEW q, NEW r, NEW n, NEW i, Claimed(q, r, i),
         r.byCallId[i] # NoUUID => n.byCallId[i] # NoUUID
  PROVE  Claimed(q, n, i)
  BY DEF Claimed

LEMMA HangsUpAppend ==
  ASSUME NEW q \in Seq(QueuedBlock), NEW b \in QueuedBlock, NEW i
  PROVE  /\ HangsUp(q, i) => HangsUp(Append(q, b), i)
         /\ b.op \in {"stop", "destroy"} \/ (b.op \in Hanging /\ b.id = i) => HangsUp(Append(q, b), i)
<1> DEFINE a == Append(q, b)
<1>1. Len(a) = Len(q) + 1 /\ Len(q) \in Nat /\ a[Len(q) + 1] = b OBVIOUS
<1>2. \A l \in 1..Len(q) : a[l] = q[l] /\ l \in 1..Len(a) OBVIOUS
<1> HIDE DEF a
<1>3. Len(q) + 1 \in 1..Len(a) BY <1>1
<1> QED BY <1>1, <1>2, <1>3 DEF HangsUp, a

LEMMA HangsUpTail ==
  ASSUME NEW q \in Seq(QueuedBlock), q # <<>>, NEW i, HangsUp(q, i),
         Head(q).op \notin {"stop", "destroy"}, ~(Head(q).op \in Hanging /\ Head(q).id = i)
  PROVE  HangsUp(Tail(q), i)
<1> DEFINE t == Tail(q)
<1>1. t \in Seq(QueuedBlock) /\ Len(t) \in Nat /\ Len(q) = Len(t) + 1 /\ Head(q) = q[1]
  OBVIOUS
<1>2. \A l \in 1..Len(t) : t[l] = q[l + 1] OBVIOUS
<1> HIDE DEF t
<1>3. PICK k \in 1..Len(q) : \/ q[k].op \in {"stop", "destroy"}
                             \/ q[k].op \in Hanging /\ q[k].id = i
  BY DEF HangsUp
<1>4. k - 1 \in 1..Len(t) /\ (k - 1) + 1 = k BY <1>1, <1>3
<1>5. t[k - 1] = q[k] BY <1>2, <1>4
<1> QED BY <1>3, <1>4, <1>5 DEF HangsUp, t
-----------------------------------------------------------------------------
(* What a method does to the slots.                                        *)
LEMMA SameSlots ==
  ASSUME NEW r \in Registries, NEW u \in UUID, NEW t \in Nat
  PROVE  /\ Register(r, u, t).byCallId = r.byCallId
         /\ MarkCancelled(r, u, t).byCallId = r.byCallId
         /\ SetReported(r, u).byCallId = r.byCallId
         /\ \A st : SetState(r, u, st).byCallId = r.byCallId
         /\ \A taken : TakeCancelled(r, t, Window, taken).byCallId = r.byCallId
  BY DEF Register, MarkCancelled, SetReported, SetState, TakeCancelled, Registries

LEMMA RemoveSlots ==
  ASSUME NEW r \in Registries, NEW u \in UUID, NEW i \in CallId
  PROVE  RemoveUUID(r, u).byCallId[i]
           = IF u \in r.tracked /\ i = r.call[u].callId THEN NoUUID ELSE r.byCallId[i]
  BY DEF RemoveUUID, Registries

LEMMA BindSlots ==
  ASSUME NEW r \in Registries, NEW i \in CallId, NEW u \in UUID, NEW t \in Nat
  PROVE  LET b == Bind(r, i, u, t)
         IN  \A j \in CallId : b.byCallId[j] = IF j = i THEN u
                                               ELSE IF j = Register(r, u, t).call[u].callId THEN NoUUID
                                               ELSE r.byCallId[j]
<1>1. i # InvalidId BY RegistryAssumption
<1>2. Register(r, u, t) \in Registries
  BY SameRegistry, Index!RegisterType, RegistryAssumption, LifecycleAssumption
<1>3. \A k \in Registries : \A c, f : [k EXCEPT !.call = c, !.byCallId = f].byCallId = f BY DEF Registries
<1> QED BY <1>1, <1>2, <1>3 DEF Bind

(* Publishing a state, and clearing a call.                                *)
LEMMA PublishSlots ==
  ASSUME NEW t \in Date, NEW s, Sound(s, t), NEW u \in UUID, NEW st \in CallState
  PROVE  PublishState(s, u, st).reg.byCallId = s.reg.byCallId
<1>1. s.reg \in Registries /\ t \in Nat BY DEF Sound, Formed, Date
<1> QED BY <1>1, PublishSound, SameSlots

LEMMA ClearSlots ==
  ASSUME NEW t \in Date, NEW s, Sound(s, t), NEW u \in UUID, NEW i \in CallId
  PROVE  EndAndClear(s, u).reg.byCallId[i]
           = IF u \in s.reg.tracked /\ i = s.reg.call[u].callId THEN NoUUID ELSE s.reg.byCallId[i]
<1> DEFINE x == PublishState(s, u, "ended")
<1>1. "ended" \in CallState BY DEF CallState
<1>2. s.reg \in Registries BY DEF Sound, Formed
<1>3. Sound(x, t) /\ x.reg = (IF u \in s.reg.tracked THEN SetState(s.reg, u, "ended") ELSE s.reg)
      /\ x.reg.byCallId = s.reg.byCallId
  BY <1>1, PublishSound, PublishSlots
<1>4. x.reg.tracked = s.reg.tracked /\ x.reg.call[u].callId = s.reg.call[u].callId
  BY <1>1, <1>2, <1>3, SetStateHow
<1> HIDE DEF x
<1>5. EndAndClear(s, u).reg = RemoveUUID(x.reg, u) BY <1>3, ClearSound DEF EndAndClear, x
<1>6. x.reg \in Registries BY <1>3 DEF Sound, Formed
<1> QED BY <1>3, <1>4, <1>5, <1>6, RemoveSlots

(* A push gives an orphan's slot to its own call, and touches no other.    *)
LEMMA PrepareSlots ==
  ASSUME NEW t \in Date, NEW s, Sound(s, t), NEW u \in UUID, NEW p \in PrepareIncoming(s, u, t)
  PROVE  \A i \in CallId : p.reg.byCallId[i] = NoUUID <=> s.reg.byCallId[i] = NoUUID
<1> DEFINE k == Register(s.reg, u, t)
           known == [s EXCEPT !.reg = k]
           taken == SetReported(k, u)
           orphans == IF k.call[u].callId # InvalidId THEN {} ELSE Orphans(taken, u)
           next(r) == PublishState(AdoptCurrentCall([known EXCEPT !.reg = r], u), u, "incoming")
<1>1. Formed(s.reg, t) /\ s.reg \in Registries /\ t \in Nat BY DEF Sound, Formed, Date
<1>2. Formed(k, t) /\ k \in Registries /\ k.tracked = s.reg.tracked \cup {u}
      /\ k.byCallId = s.reg.byCallId
  BY <1>1, RegisterFormed, RegisterHow, SameSlots DEF Formed
<1>3. [s EXCEPT !.reg = Register(@, u, t)] = known /\ known.reg = k BY DEF Sound, StateMachines
<1>4. Sound(known, t) BY <1>2, WithRegistry
<1>5. /\ Formed(taken, t) /\ taken \in Registries /\ taken.tracked = k.tracked
      /\ taken.byCallId = k.byCallId /\ taken.call[u].callId = k.call[u].callId
  BY <1>2, SetReportedFormed, SetReportedHow
<1>6. p \in IF orphans = {} THEN {next(taken)}
            ELSE {next(RemoveUUID(Bind(taken, taken.call[v].callId, u, t), v)) : v \in orphans}
  BY <1>3 DEF PrepareIncoming
<1> HIDE DEF k, known, taken
<1>7. "incoming" \in CallState BY DEF CallState
<1>8. ASSUME NEW r, Formed(r, t) PROVE next(r).reg.byCallId = r.byCallId
  <2>1. Sound([known EXCEPT !.reg = r], t) /\ [known EXCEPT !.reg = r].reg = r
    BY <1>4, <1>8, WithRegistry
  <2>2. /\ Sound(AdoptCurrentCall([known EXCEPT !.reg = r], u), t)
        /\ AdoptCurrentCall([known EXCEPT !.reg = r], u).reg = r
    BY <2>1, AdoptSound
  <2> QED BY <1>7, <2>2, PublishSlots
<1>9. CASE orphans = {}
  <2>1. p = next(taken) BY <1>6, <1>9
  <2> QED BY <1>2, <1>5, <1>8, <2>1
<1>10. ASSUME NEW v \in orphans, p = next(RemoveUUID(Bind(taken, taken.call[v].callId, u, t), v))
       PROVE  \A i \in CallId : p.reg.byCallId[i] = NoUUID <=> s.reg.byCallId[i] = NoUUID
  <2> DEFINE j == taken.call[v].callId
             b == Bind(taken, j, u, t)
             n == RemoveUUID(b, v)
  <2>1. k.call[u].callId = InvalidId /\ v \in Orphans(taken, u) BY <1>10
  <2>2. v \in taken.tracked /\ v # u /\ v \in UUID /\ j \in CallId
    <3>1. v \in taken.tracked /\ v # u /\ j # InvalidId BY <2>1 DEF Orphans, Live
    <3> QED BY <1>5, <3>1 DEF Registries, Call
  <2>3. taken.byCallId[j] = v
    <3>1. j # InvalidId BY <2>2, RegistryAssumption
    <3> QED BY <1>5, <2>2, <3>1 DEF Formed, TwoWayIndex
  <2>4. u \in taken.tracked /\ taken.call[u].callId = InvalidId /\ taken.call[u].cancelledAt = 0
    <3>1. u \in taken.tracked BY <1>2, <1>5
    <3>2. k.call[u].cancelledAt = 0 BY <1>3 DEF PrepareIncoming
    <3>3. taken.call[u].cancelledAt = k.call[u].cancelledAt BY <1>2, SetReportedHow DEF taken
    <3> QED BY <1>5, <2>1, <3>1, <3>2, <3>3
  <2>5. Register(taken, u, t) = taken BY <2>4 DEF Register
  <2>6. Formed(b, t) /\ b \in Registries
    <3> HIDE DEF j
    <3>1. Register(taken, u, t).call[u].cancelledAt = 0 BY <2>4, <2>5
    <3> QED BY <1>5, <2>2, <3>1, BindFormed DEF Formed
  <2>7. \A i \in CallId : b.byCallId[i] = IF i = j THEN u ELSE taken.byCallId[i]
    <3> HIDE DEF j
    <3>1. InvalidId \notin CallId BY RegistryAssumption
    <3> QED BY <1>1, <1>5, <2>2, <2>4, <2>5, <3>1, BindSlots
  <2>8. b.call[v].callId = InvalidId
    <3> HIDE DEF j
    <3>1. j # InvalidId BY <2>2, RegistryAssumption
    <3> QED BY <1>5, <2>2, <2>3, <2>5, <3>1 DEF Bind, Registries, Call
  <2> HIDE DEF j, b
  <2>9. Formed(n, t) BY <2>2, <2>6, RemoveFormed
  <2>10. \A i \in CallId : n.byCallId[i] = b.byCallId[i]
    BY <2>2, <2>6, <2>8, RemoveSlots, RegistryAssumption
  <2>11. p.reg.byCallId = n.byCallId BY <1>8, <1>10, <2>9 DEF b, j
  <2>12. u # NoUUID /\ v # NoUUID BY <2>2, RegistryAssumption
  <2> QED BY <1>2, <1>5, <2>3, <2>7, <2>10, <2>11, <2>12
<1> QED BY <1>6, <1>9, <1>10

(* A queue that grows, or loses its head.                                  *)
LEMMA HomeQueues ==
  ASSUME Typed, NEW slots
  PROVE  /\ mainQ \in Seq(HomeBlock(slots)) =>
              /\ \A b \in HomeBlock(slots) : Append(mainQ, b) \in Seq(HomeBlock(slots))
              /\ mainQ # <<>> =>
                   /\ Head(mainQ) \in HomeBlock(slots) /\ Tail(mainQ) \in Seq(HomeBlock(slots))
                   /\ \A b \in HomeBlock(slots) : Append(Tail(mainQ), b) \in Seq(HomeBlock(slots))
         /\ sipQ \in Seq(HomeSIP(slots)) =>
              /\ \A b \in HomeSIP(slots) : Append(sipQ, b) \in Seq(HomeSIP(slots))
              /\ sipQ # <<>> => Head(sipQ) \in HomeSIP(slots) /\ Tail(sipQ) \in Seq(HomeSIP(slots))
<1> DEFINE M == HomeBlock(slots)
           S == HomeSIP(slots)
<1> HIDE DEF M, S
<1>1. mainQ \in Seq(M) =>
        /\ \A b \in M : Append(mainQ, b) \in Seq(M)
        /\ mainQ # <<>> => Head(mainQ) \in M /\ Tail(mainQ) \in Seq(M)
  OBVIOUS
<1>2. \A q \in Seq(M), b \in M : Append(q, b) \in Seq(M) OBVIOUS
<1>3. sipQ \in Seq(S) =>
        /\ \A b \in S : Append(sipQ, b) \in Seq(S)
        /\ sipQ # <<>> => Head(sipQ) \in S /\ Tail(sipQ) \in Seq(S)
  OBVIOUS
<1> QED BY <1>1, <1>2, <1>3 DEF M, S

(* A step that makes no dialog ring or come up.                            *)
LEMMA HousedKept ==
  ASSUME Housed, Typed', setup' = setup,
         OneSlot /\ ~setup.sipFailures /\ InPlace =>
           /\ mainQ' \in Seq(HomeBlock(setup.slots)) /\ sipQ' \in Seq(HomeSIP(setup.slots))
           /\ BagToSet(delayed') \subseteq TimerBlock
           /\ \A i \in CallId \ setup.slots : sm'.reg.byCallId[i] = NoUUID /\ ~Up(i)'
           /\ \A i \in CallId :
                Up(i)' =>
                  \/ Claimed(mainQ', sm'.reg, i) \/ HangsUp(sipQ', i)
                  \/ /\ Up(i)
                     /\ Claimed(mainQ, sm.reg, i) => Claimed(mainQ', sm'.reg, i) \/ HangsUp(sipQ', i)
                     /\ HangsUp(sipQ, i) => HangsUp(sipQ', i)
  PROVE  Housed'
<1> SUFFICES ASSUME OneSlot', ~setup'.sipFailures
             PROVE  /\ InPlace'
                    /\ \A i \in CallId : Up(i)' => Claimed(mainQ', sm'.reg, i) \/ HangsUp(sipQ', i)
  BY DEF Housed
<1>1. OneSlot /\ ~setup.sipFailures BY DEF OneSlot
<1>2. InPlace /\ \A i \in CallId : Up(i) => Claimed(mainQ, sm.reg, i) \/ HangsUp(sipQ, i)
  BY <1>1 DEF Housed
<1>3. InPlace' BY <1>1, <1>2 DEF InPlace
<1> QED BY <1>1, <1>2, <1>3

(* ... and leaves sipQueue and the dialogs alone, and the timers.          *)
LEMMA HousedMain ==
  ASSUME Housed, Typed', setup' = setup, dialog' = dialog,
         OneSlot /\ ~setup.sipFailures /\ InPlace =>
           /\ mainQ' \in Seq(HomeBlock(setup.slots))
           /\ sipQ' = sipQ \/ \E b \in HomeSIP(setup.slots) : sipQ' = Append(sipQ, b)
           /\ BagToSet(delayed') \subseteq TimerBlock
           /\ \A i \in CallId \ setup.slots : sm'.reg.byCallId[i] = NoUUID
           /\ \A i \in CallId :
                Claimed(mainQ, sm.reg, i) => Claimed(mainQ', sm'.reg, i) \/ HangsUp(sipQ', i)
  PROVE  Housed'
<1>1. \A i : Up(i)' <=> Up(i) BY DEF Up
<1>2. ASSUME OneSlot, ~setup.sipFailures, InPlace
      PROVE  sipQ' \in Seq(HomeSIP(setup.slots)) /\ \A i : HangsUp(sipQ, i) => HangsUp(sipQ', i)
  <2>1. sipQ \in Seq(HomeSIP(setup.slots)) /\ sipQ \in Seq(QueuedBlock)
    BY <1>2 DEF InPlace, Housed, Typed
  <2>2. HomeSIP(setup.slots) \subseteq QueuedBlock BY DEF HomeSIP
  <2>3. CASE sipQ' = sipQ BY <2>1, <2>3
  <2>4. ASSUME NEW b \in HomeSIP(setup.slots), sipQ' = Append(sipQ, b)
        PROVE  sipQ' \in Seq(HomeSIP(setup.slots)) /\ \A i : HangsUp(sipQ, i) => HangsUp(sipQ', i)
    <3>1. sipQ' \in Seq(HomeSIP(setup.slots)) BY <2>1, <2>4, HomeQueues DEF Housed
    <3>2. b \in QueuedBlock BY <2>2
    <3> QED BY <2>1, <2>4, <3>1, <3>2, HangsUpAppend
  <2> QED BY <1>2, <2>3, <2>4
<1>3. InPlace => \A i \in CallId \ setup.slots : ~Up(i) BY DEF InPlace
<1> QED BY <1>1, <1>2, <1>3, HousedKept

(* The blocks that do not clear: the registry keeps its slots.             *)
LEMMA TimerBlocks ==
  \A u \in UUID : /\ \A op \in {"ringTimeout", "poll"} : Run(op, u, InvalidId) \in TimerBlock
                  /\ \A i \in CallId : Run("settled", u, i) \in TimerBlock
  BY Blocks DEF TimerBlock, Run, Op

LEMMA TimersFollow ==
  ASSUME Typed, BagToSet(delayed) \subseteq TimerBlock, NEW u \in UUID,
         delayed' = delayed \/ ScheduleRingTimeout(u) \/ AttemptAccept(u)
  PROVE  BagToSet(delayed') \subseteq TimerBlock
<1>1. CASE delayed' = delayed BY <1>1
<1>2. CASE ScheduleRingTimeout(u)
  BY <1>2, TimerBlocks, ScheduleHow DEF ScheduleRingTimeout
<1>3. CASE AttemptAccept(u)
  <2>1. IdOf(sm.reg, u) \in CallId \cup {InvalidId} BY Lookups
  <2>2. \E b \in TimerBlock : Schedule(b) BY <1>3, <2>1, TimerBlocks DEF AttemptAccept
  <2> QED BY <2>2, ScheduleHow
<1> QED BY <1>1, <1>2, <1>3

(* Taking a call out leaves its slot to sipQueue, if it holds one.         *)
LEMMA ClearedHoused ==
  ASSUME Housed, Typed', setup' = setup, dialog' = dialog, delayed' = delayed, NEW u \in UUID,
         NEW id, id = IdOf(sm.reg, u),
         \A i \in CallId : sm'.reg.byCallId[i] = sm.reg.byCallId[i] \/ (i = id /\ sm'.reg.byCallId[i] = NoUUID),
         IF id = InvalidId THEN sipQ' = sipQ ELSE PerformSIPAsync("end", u, id),
         mainQ' = mainQ \/ (mainQ # <<>> /\ Head(mainQ).op # "invite" /\ mainQ' = Tail(mainQ))
  PROVE  Housed'
<1>0. Typed /\ mainQ \in Seq(MainBlock) /\ sipQ \in Seq(QueuedBlock) BY DEF Housed, Typed
<1>1. id \in CallId \cup {InvalidId} BY <1>0, Lookups
<1>2. ASSUME OneSlot, ~setup.sipFailures, InPlace
      PROVE  /\ mainQ' \in Seq(HomeBlock(setup.slots))
             /\ sipQ' = sipQ \/ \E b \in HomeSIP(setup.slots) : sipQ' = Append(sipQ, b)
             /\ BagToSet(delayed') \subseteq TimerBlock
             /\ \A i \in CallId \ setup.slots : sm'.reg.byCallId[i] = NoUUID
             /\ \A i \in CallId :
                  Claimed(mainQ, sm.reg, i) => Claimed(mainQ', sm'.reg, i) \/ HangsUp(sipQ', i)
  <2>1. id # InvalidId =>
          id \in setup.slots /\ Run("end", u, id) \in HomeSIP(setup.slots)
          /\ sipQ' = Append(sipQ, Run("end", u, id))
    <3> SUFFICES ASSUME id # InvalidId
                 PROVE  id \in setup.slots /\ Run("end", u, id) \in HomeSIP(setup.slots)
                        /\ sipQ' = Append(sipQ, Run("end", u, id))
      OBVIOUS
    <3>1. u \in sm.reg.tracked /\ sm.reg.call[u].callId = id BY DEF IdOf
    <3>2. sm.reg.byCallId[id] = u BY <1>0, <3>1 DEF Typed, Sound, Formed, TwoWayIndex
    <3>3. id \in setup.slots BY <1>1, <1>2, <3>2, RegistryAssumption DEF InPlace
    <3>4. Run("end", u, id) \in QueuedBlock BY <1>1, Blocks DEF SIPOp
    <3> QED BY <3>3, <3>4 DEF HomeSIP, Run, PerformSIPAsync
  <2>2. mainQ' \in Seq(HomeBlock(setup.slots)) /\ BagToSet(delayed') \subseteq TimerBlock
    BY <1>0, <1>2, HomeQueues DEF InPlace
  <2>3. \A i \in CallId \ setup.slots : sm'.reg.byCallId[i] = NoUUID BY <1>2 DEF InPlace
  <2>4. ASSUME NEW i \in CallId, Claimed(mainQ, sm.reg, i)
        PROVE  Claimed(mainQ', sm'.reg, i) \/ HangsUp(sipQ', i)
    <3>1. CASE sm'.reg.byCallId[i] = sm.reg.byCallId[i]
      <4>1. CASE mainQ' = mainQ BY <2>4, <3>1, <4>1, ClaimedKeeps
      <4>2. CASE mainQ # <<>> /\ Head(mainQ).op # "invite" /\ mainQ' = Tail(mainQ)
        BY <1>0, <2>4, <3>1, <4>2, ClaimedTail
      <4> QED BY <4>1, <4>2
    <3>2. CASE i = id
      <4>1. Run("end", u, id) \in QueuedBlock BY <3>2, Blocks DEF SIPOp
      <4>2. Run("end", u, id).op = "end" /\ Run("end", u, id).id = i BY <3>2 DEF Run
      <4>3. sipQ' = Append(sipQ, Run("end", u, id)) BY <2>1, <3>2, RegistryAssumption
      <4> QED BY <1>0, <4>1, <4>2, <4>3, HangsUpAppend DEF Hanging
    <3> QED BY <3>1, <3>2
  <2> QED BY <2>1, <2>2, <2>3, <2>4
<1> QED BY <1>2, HousedMain

(* A block that leaves the slots of the registry alone.                    *)
LEMMA PlainHoused ==
  ASSUME Housed, Typed', setup' = setup, dialog' = dialog, sm'.reg.byCallId = sm.reg.byCallId,
         sipQ' = sipQ \/ \E b \in QueuedBlock : b.op = "answer" /\ sipQ' = Append(sipQ, b),
         BagToSet(delayed) \subseteq TimerBlock => BagToSet(delayed') \subseteq TimerBlock,
         mainQ # <<>>, Head(mainQ).op # "invite",
         \/ mainQ' = Tail(mainQ)
         \/ \E u \in UUID : mainQ' = Append(Tail(mainQ), Run("acceptFailed", u, InvalidId))
  PROVE  Housed'
<1>0. Typed /\ mainQ \in Seq(MainBlock) BY DEF Housed, Typed
<1>1. \A b \in QueuedBlock : b.op = "answer" => b \in HomeSIP(setup.slots) BY DEF HomeSIP, Hanging
<1>2. ASSUME NEW u \in UUID
      PROVE  LET b == Run("acceptFailed", u, InvalidId)
             IN  b \in MainBlock /\ b.op \notin Clearing /\ b \in HomeBlock(setup.slots)
  <2>1. Run("acceptFailed", u, InvalidId) \in MainBlock BY Blocks DEF Op
  <2> QED BY <2>1 DEF Run, Clearing, HomeBlock
<1>3. ASSUME InPlace
      PROVE  /\ mainQ' \in Seq(HomeBlock(setup.slots))
             /\ sipQ' = sipQ \/ \E b \in HomeSIP(setup.slots) : sipQ' = Append(sipQ, b)
             /\ BagToSet(delayed') \subseteq TimerBlock
             /\ \A i \in CallId \ setup.slots : sm'.reg.byCallId[i] = NoUUID
             /\ \A i \in CallId : Claimed(mainQ, sm.reg, i) => Claimed(mainQ', sm'.reg, i)
  <2>1. mainQ' \in Seq(HomeBlock(setup.slots)) BY <1>0, <1>2, <1>3, HomeQueues DEF InPlace
  <2>2. ASSUME NEW i \in CallId, Claimed(mainQ, sm.reg, i) PROVE Claimed(mainQ', sm'.reg, i)
    <3>1. Claimed(Tail(mainQ), sm'.reg, i) /\ Tail(mainQ) \in Seq(MainBlock) BY <1>0, <2>2, ClaimedTail
    <3> QED BY <1>2, <3>1, ClaimedAppend
  <2> QED BY <1>1, <1>3, <2>1, <2>2 DEF InPlace
<1> QED BY <1>3, HousedMain

(* A clearing block is the last of them while a dialog is up.              *)
LEMMA ClearingHoused ==
  ASSUME Housed, Typed', callDisconnected \/ callTerminated
  PROVE  Housed'
<1> DEFINE b == Head(mainQ)
<1>0. Typed /\ mainQ \in Seq(MainBlock) BY DEF Housed, Typed
<1>1. /\ mainQ # <<>> /\ b.op \in Clearing /\ mainQ' = Tail(mainQ) /\ sm' = EndAndClear(sm, b.uuid)
      /\ UNCHANGED <<sipQ, delayed, dialog, bounds>>
  BY DEF callDisconnected, callTerminated, HeadIs, Done, Clearing
<1>2. b.uuid \in UUID BY <1>0, <1>1, MainHead DEF Clearing
<1>3. \A i \in CallId : sm'.reg.byCallId[i] \in {sm.reg.byCallId[i], NoUUID}
  BY <1>0, <1>1, <1>2, ClearSlots DEF Typed
<1>4. \A i \in CallId : Claimed(mainQ, sm.reg, i) => Claimed(mainQ', sm'.reg, i)
  BY <1>0, <1>1, ClaimedTail DEF Clearing
<1>5. InPlace => mainQ' \in Seq(HomeBlock(setup.slots)) BY <1>0, <1>1, HomeQueues DEF InPlace
<1> QED BY <1>1, <1>3, <1>4, <1>5, HousedMain DEF InPlace, bounds

(* An INVITE puts its call into the registry.                              *)
LEMMA BoundHoused ==
  ASSUME Housed, Typed', handleIncomingSIPCall
  PROVE  Housed'
<1> DEFINE id == Head(mainQ).id
<1>0. Typed /\ mainQ \in Seq(MainBlock) BY DEF Housed, Typed
<1>1. /\ mainQ # <<>> /\ Head(mainQ).op = "invite" /\ mainQ' = Tail(mainQ)
      /\ UNCHANGED <<sipQ, dialog, bounds>>
  BY DEF handleIncomingSIPCall, HeadIs, Done
<1>2. id \in CallId BY <1>0, <1>1, MainHead
<1>3. PICK u \in UUID : /\ Register(sm.reg, u, now).call[u].callId = InvalidId
                        /\ Register(sm.reg, u, now).call[u].cancelledAt = 0
                        /\ sm' = BindInvite(sm, id, u, now)
                        /\ delayed' = delayed \/ ScheduleRingTimeout(u)
  <2>0. Sound(sm, now) /\ sm.reg \in Registries /\ now \in Nat BY <1>0 DEF Typed, Sound, Formed, Date
  <2>1. ASSUME NEW u \in CallAwaitingInvite(sm.reg)
        PROVE  u \in UUID /\ Register(sm.reg, u, now).call[u].callId = InvalidId
               /\ Register(sm.reg, u, now).call[u].cancelledAt = 0
    <3>1. u \in sm.reg.tracked /\ sm.reg.call[u].callId = InvalidId
      BY DEF CallAwaitingInvite, AwaitingInvite
    <3> QED BY <1>0, <3>1, MayBind DEF Register
  <2>2. ASSUME NEW u \in UUID, ~Known(u)
        PROVE  Register(sm.reg, u, now).call[u].callId = InvalidId
               /\ Register(sm.reg, u, now).call[u].cancelledAt = 0
    <3>1. u \notin sm.reg.tracked /\ Register(sm.reg, u, now).call[u].cancelledAt = 0
      BY <1>0, <2>2, MayBind
    <3>2. Register(sm.reg, u, now).call[u] = NewCall(now) BY <2>0, <3>1, RegisterHow
    <3> QED BY <3>1, <3>2 DEF NewCall
  <2> QED BY <1>0, <2>1, <2>2, FreshType DEF handleIncomingSIPCall, Settle
<1> HIDE DEF id
<1>4. \A i \in CallId : sm'.reg.byCallId[i] = IF i = id THEN u ELSE sm.reg.byCallId[i]
  <2> DEFINE k == Bind(sm.reg, id, u, now)
             x == [sm EXCEPT !.reg = k]
  <2>1. Sound(sm, now) /\ Formed(sm.reg, now) /\ sm.reg \in Registries /\ now \in Date /\ now \in Nat
    BY <1>0 DEF Typed, Sound, Formed, Date
  <2>2. Formed(k, now) BY <1>2, <1>3, <2>1, BindFormed
  <2>3. \A i \in CallId : k.byCallId[i] = IF i = id THEN u ELSE sm.reg.byCallId[i]
    BY <1>2, <1>3, <2>1, BindSlots, RegistryAssumption
  <2>4. sm' = PublishState(AdoptCurrentCall(x, u), u, "incoming")
    <3>1. [sm EXCEPT !.reg = Bind(@, id, u, now)] = x BY <2>1 DEF Sound, StateMachines
    <3> QED BY <1>3, <3>1 DEF BindInvite
  <2> HIDE DEF k
  <2>5. Sound(x, now) /\ x.reg = k BY <2>1, <2>2, WithRegistry
  <2> HIDE DEF x
  <2>6. Sound(AdoptCurrentCall(x, u), now) /\ AdoptCurrentCall(x, u).reg = k BY <2>1, <2>5, AdoptSound
  <2>7. "incoming" \in CallState BY DEF CallState
  <2>8. sm'.reg.byCallId = k.byCallId BY <2>1, <2>4, <2>6, <2>7, PublishSlots
  <2> QED BY <2>3, <2>8
<1>5. u # NoUUID BY RegistryAssumption
<1>6. ASSUME InPlace
      PROVE  /\ mainQ' \in Seq(HomeBlock(setup.slots))
             /\ BagToSet(delayed') \subseteq TimerBlock
             /\ \A i \in CallId \ setup.slots : sm'.reg.byCallId[i] = NoUUID
             /\ \A i \in CallId : Claimed(mainQ, sm.reg, i) => Claimed(mainQ', sm'.reg, i)
  <2>1. Head(mainQ) \in HomeBlock(setup.slots) /\ mainQ' \in Seq(HomeBlock(setup.slots))
    BY <1>0, <1>1, <1>6, HomeQueues DEF InPlace
  <2>2. id \in setup.slots BY <1>1, <2>1 DEF HomeBlock, id
  <2>3. \A i \in CallId \ setup.slots : sm'.reg.byCallId[i] = NoUUID
    BY <1>4, <1>6, <2>2 DEF InPlace
  <2>4. BagToSet(delayed') \subseteq TimerBlock BY <1>0, <1>3, <1>6, TimersFollow DEF InPlace
  <2>5. \A i \in CallId : Claimed(mainQ, sm.reg, i) => Claimed(mainQ', sm'.reg, i)
    BY <1>0, <1>1, <1>4, <1>5, ClaimedTail DEF id
  <2> QED BY <2>1, <2>3, <2>4, <2>5
<1> QED BY <1>1, <1>6, HousedMain DEF bounds

LEMMA MainHoused ==
  ASSUME Housed, Typed', MainQueue
  PROVE  Housed'
<1> DEFINE b == Head(mainQ)
<1>0. Typed BY DEF Housed
<1>1. mainQ # <<>> /\ UNCHANGED <<setup, dialog>>
  BY DEF MainQueue, handleIncomingSIPCall, callConfirmed, callDisconnected, callConnecting,
         callTerminated, incomingCallTimeout, attemptAccept, acceptTimedOut, answerCall,
         acceptFailed, stopped, bounds, HeadIs
<1>2. /\ b.op = "settled" => b.id \in CallId
      /\ b.op \notin {"invite", "stopped"} => b.uuid \in UUID
  BY <1>0, <1>1, MainHead
<1>3. Sound(sm, now) /\ now \in Date BY <1>0 DEF Typed
<1> HIDE DEF b
<1>4. CASE handleIncomingSIPCall BY <1>4, BoundHoused
<1>5. CASE callDisconnected \/ callTerminated BY <1>5, ClearingHoused
<1>6. CASE callConfirmed \/ callConnecting
  <2>1. /\ mainQ' = Tail(mainQ) /\ UNCHANGED <<sipQ, delayed>> /\ Head(mainQ).op # "invite"
        /\ b.uuid \in UUID /\ \E st \in CallState : sm' = PublishState(sm, b.uuid, st)
    BY <1>2, <1>6 DEF callConfirmed, callConnecting, HeadIs, Done, b, CallState
  <2>2. sm'.reg.byCallId = sm.reg.byCallId BY <1>3, <2>1, PublishSlots
  <2> QED BY <1>1, <2>1, <2>2, PlainHoused
<1>7. CASE incomingCallTimeout
  <2> DEFINE id == IdOf(sm.reg, b.uuid)
  <2>1. /\ mainQ' = Tail(mainQ) /\ b.uuid \in UUID /\ delayed' = delayed
        /\ Head(mainQ).op # "invite"
        /\ \/ UNCHANGED <<sm, sipQ>>
           \/ /\ IF id = InvalidId THEN sipQ' = sipQ ELSE PerformSIPAsync("end", b.uuid, id)
              /\ sm' = EndAndClear(sm, b.uuid)
    BY <1>2, <1>7 DEF incomingCallTimeout, HeadIs, Done, b
  <2>2. CASE UNCHANGED <<sm, sipQ>>
    BY <1>1, <2>1, <2>2, PlainHoused
  <2>3. ASSUME sm' = EndAndClear(sm, b.uuid),
               IF id = InvalidId THEN sipQ' = sipQ ELSE PerformSIPAsync("end", b.uuid, id)
        PROVE  Housed'
    <3>1. \A i \in CallId :
            \/ sm'.reg.byCallId[i] = sm.reg.byCallId[i]
            \/ i = id /\ sm'.reg.byCallId[i] = NoUUID
      BY <1>3, <2>1, <2>3, ClearSlots DEF IdOf
    <3> HIDE DEF id
    <3> QED BY <1>1, <2>1, <2>3, <3>1, ClearedHoused DEF id
  <2> QED BY <2>1, <2>2, <2>3
<1>8. CASE attemptAccept
  <2>1. /\ mainQ' = Tail(mainQ) /\ b.uuid \in UUID /\ AttemptAccept(b.uuid)
        /\ UNCHANGED <<sm, sipQ>> /\ Head(mainQ).op # "invite"
    BY <1>2, <1>8 DEF attemptAccept, HeadIs, Done, b
  <2>2. BagToSet(delayed) \subseteq TimerBlock => BagToSet(delayed') \subseteq TimerBlock
    BY <1>0, <2>1, TimersFollow
  <2> QED BY <1>1, <2>1, <2>2, PlainHoused
<1>9. CASE acceptTimedOut
  <2>1. /\ b.uuid \in UUID /\ mainQ' = Append(Tail(mainQ), Run("acceptFailed", b.uuid, InvalidId))
        /\ UNCHANGED <<sm, sipQ, delayed>> /\ Head(mainQ).op # "invite"
    BY <1>2, <1>9 DEF acceptTimedOut, HeadIs, b
  <2> QED BY <1>1, <2>1, PlainHoused
<1>10. CASE answerCall
  <2>1. /\ b.uuid \in UUID /\ b.id \in CallId /\ mainQ' = Tail(mainQ)
        /\ sipQ' = Append(sipQ, Run("answer", b.uuid, b.id))
        /\ UNCHANGED <<sm, delayed>> /\ Head(mainQ).op # "invite"
    BY <1>2, <1>10 DEF answerCall, HeadIs, Done, b, PerformSIPAsync
  <2>2. Run("answer", b.uuid, b.id) \in QueuedBlock BY <2>1, Blocks DEF SIPOp
  <2>3. Run("answer", b.uuid, b.id).op = "answer" BY DEF Run
  <2> QED BY <1>1, <2>1, <2>2, <2>3, PlainHoused
<1>11. CASE acceptFailed
  BY <1>1, <1>11, PlainHoused DEF acceptFailed, HeadIs, Done
<1>12. CASE stopped
  <2>1. /\ mainQ' = Tail(mainQ) /\ sm' = ResetToIdle(sm) /\ UNCHANGED <<sipQ, delayed>>
        /\ Head(mainQ).op # "invite"
    BY <1>12 DEF stopped, ReportStopped, HeadIs, Done
  <2>2. sm'.reg = sm.reg BY <1>3, <2>1, ResetSound
  <2> QED BY <1>1, <2>1, <2>2, PlainHoused
<1> QED BY <1>4, <1>5, <1>6, <1>7, <1>8, <1>9, <1>10, <1>11, <1>12 DEF MainQueue

(* What the host asks for.                                                 *)
LEMMA HostHoused ==
  ASSUME Housed, Typed', Host
  PROVE  Housed'
<1>0. Typed /\ mainQ \in Seq(MainBlock) /\ Announced \subseteq UUID
  BY LifecycleAssumption DEF Housed, Typed
<1>1. Sound(sm, now) /\ now \in Date /\ Formed(sm.reg, now) /\ sm.reg \in Registries /\ now \in Nat
  BY <1>0 DEF Typed, Sound, Formed, Date
<1>2. ASSUME setup' = setup, UNCHANGED <<mainQ, sipQ, dialog>>, NEW u \in UUID,
             delayed' = delayed \/ ScheduleRingTimeout(u) \/ AttemptAccept(u),
             \A i \in CallId : sm'.reg.byCallId[i] = NoUUID <=> sm.reg.byCallId[i] = NoUUID
      PROVE  Housed'
  <2>1. \A i \in CallId : Claimed(mainQ, sm.reg, i) => Claimed(mainQ', sm'.reg, i)
    BY <1>2, ClaimedKeeps
  <2>2. InPlace => BagToSet(delayed') \subseteq TimerBlock BY <1>0, <1>2, TimersFollow DEF InPlace
  <2> QED BY <1>2, <2>1, <2>2, HousedMain DEF InPlace
<1>3. ASSUME NEW u \in UUID, prepareIncomingCall(u) PROVE Housed'
  <2>1. /\ setup' = setup /\ UNCHANGED <<mainQ, sipQ, dialog>>
        /\ \/ UNCHANGED <<sm, delayed>>
           \/ \E s \in PrepareIncoming(sm, u, now) : sm' = s /\ ScheduleRingTimeout(u)
    BY <1>3 DEF prepareIncomingCall, Settle, Spend
  <2>2. \A i \in CallId : sm'.reg.byCallId[i] = NoUUID <=> sm.reg.byCallId[i] = NoUUID
    BY <1>1, <2>1, PrepareSlots
  <2> QED BY <1>2, <2>1, <2>2
<1>4. ASSUME NEW u \in UUID, handleCancelledIncomingCall(u) PROVE Housed'
  <2>1. setup' = setup /\ HandleCancelled(u) /\ UNCHANGED <<mainQ, delayed, dialog>>
    BY <1>4 DEF handleCancelledIncomingCall, Spend
  <2>2. CASE u \in sm.reg.tracked /\ sm.reg.call[u].state = "ended"
    <3>1. UNCHANGED <<sm, sipQ>> BY <2>1, <2>2 DEF HandleCancelled
    <3> QED BY <1>2, <2>1, <3>1
  <2>3. CASE ~(u \in sm.reg.tracked /\ sm.reg.call[u].state = "ended")
    <3> DEFINE id == IdOf(sm.reg, u)
               k == Register(sm.reg, u, now)
               known == [sm EXCEPT !.reg = k]
               n == MarkCancelled(k, u, now)
               marked == [known EXCEPT !.reg = n]
    <3>1. /\ sm' = RetractCall(sm, u, now)
          /\ IF id = InvalidId THEN sipQ' = sipQ ELSE PerformSIPAsync("end", u, id)
      BY <2>1, <2>3 DEF HandleCancelled, Settle
    <3>2. /\ Formed(k, now) /\ k \in Registries /\ k.byCallId = sm.reg.byCallId
          /\ k.tracked = sm.reg.tracked \cup {u}
          /\ k.call[u].callId = id
      <4>1. NewCall(now).callId = InvalidId BY DEF NewCall
      <4> QED BY <1>1, <4>1, RegisterFormed, RegisterHow, SameSlots DEF Formed, IdOf
    <3>3. [sm EXCEPT !.reg = Register(@, u, now)] = known /\ known.reg = k
          /\ [known EXCEPT !.reg = MarkCancelled(@, u, now)] = marked
      BY <1>1 DEF Sound, StateMachines
    <3>4. Sound(known, now) BY <1>1, <3>2, WithRegistry
    <3>5. sm' = IF id = InvalidId
                THEN DetachIfCurrent(PublishState(marked, u, "ended"), u)
                ELSE EndAndClear(known, u)
      BY <3>1, <3>2, <3>3 DEF RetractCall, EndAndClear
    <3>6. Formed(n, now) /\ n.byCallId = k.byCallId BY <1>1, <3>2, MarkFormed, SameSlots
    <3> HIDE DEF id, k, known, n
    <3>7. Sound(marked, now) /\ marked.reg = n BY <1>1, <3>4, <3>6, WithRegistry
    <3> HIDE DEF marked
    <3>8. "ended" \in CallState BY DEF CallState
    <3>9. CASE id = InvalidId
      <4>1. /\ Sound(PublishState(marked, u, "ended"), now)
            /\ PublishState(marked, u, "ended").reg.byCallId = n.byCallId
        BY <1>1, <3>7, <3>8, PublishSound, PublishSlots
      <4>2. sm'.reg = PublishState(marked, u, "ended").reg BY <1>1, <3>5, <3>9, <4>1, DetachSound
      <4> QED BY <1>2, <2>1, <3>1, <3>2, <3>6, <3>9, <4>1, <4>2
    <3>10. CASE id # InvalidId
      <4>1. \A i \in CallId :
              \/ sm'.reg.byCallId[i] = sm.reg.byCallId[i]
              \/ i = id /\ sm'.reg.byCallId[i] = NoUUID
        BY <1>1, <3>2, <3>3, <3>4, <3>5, <3>10, ClearSlots
      <4> QED BY <2>1, <3>1, <4>1, ClearedHoused DEF id
    <3> QED BY <3>9, <3>10
  <2> QED BY <2>2, <2>3
<1>5. ASSUME NEW arg \in UUID \cup {NoUUID}, terminateCall(arg) PROVE Housed'
  <2> DEFINE call   == ResolveCall(sm, arg)
             target == IF call # NoUUID THEN call ELSE arg
             id     == IdOf(sm.reg, call)
             n      == MarkCancelled(sm.reg, target, now)
             marked == [sm EXCEPT !.reg = n]
  <2>1. /\ setup' = setup /\ target # NoUUID /\ UNCHANGED <<mainQ, delayed, dialog>>
        /\ \/ /\ id # InvalidId
              /\ sipQ' = Append(sipQ, Run("endThenClear", target, id)) /\ UNCHANGED sm
           \/ /\ id = InvalidId
              /\ \/ sm' = DetachIfCurrent(PublishState(marked, target, "ended"), target)
                 \/ sm' = ClearCall(sm, target)
              /\ UNCHANGED sipQ
    <3>1. [sm EXCEPT !.reg = MarkCancelled(@, target, now)] = marked
      BY <1>1 DEF Sound, StateMachines
    <3> QED BY <1>5, <3>1 DEF terminateCall, Spend, PerformSIPAsync
  <2>2. target \in UUID /\ call \in UUID \cup {NoUUID} BY <1>0, <1>1, <2>1, Lookups
  <2>3. call # target => target \notin sm.reg.tracked
    <3>1. arg # NoUUID /\ call = NoUUID => arg \notin sm.reg.tracked BY DEF ResolveCall
    <3> QED BY <2>1, <3>1
  <2>4. Formed(n, now) /\ n.byCallId = sm.reg.byCallId BY <1>1, <2>2, MarkFormed, SameSlots
  <2> HIDE DEF call, n
  <2>5. Sound(marked, now) /\ marked.reg = n BY <1>1, <2>4, WithRegistry
  <2> HIDE DEF target, marked
  <2>6. CASE id = InvalidId
    <3>1. "ended" \in CallState BY DEF CallState
    <3>2. CASE sm' = DetachIfCurrent(PublishState(marked, target, "ended"), target)
      <4>1. /\ Sound(PublishState(marked, target, "ended"), now)
            /\ PublishState(marked, target, "ended").reg.byCallId = n.byCallId
        BY <1>1, <2>2, <2>5, <3>1, PublishSound, PublishSlots
      <4>2. sm'.reg = PublishState(marked, target, "ended").reg BY <1>1, <2>2, <3>2, <4>1, DetachSound
      <4> QED BY <1>2, <2>1, <2>2, <2>4, <2>6, <4>1, <4>2
    <3>3. CASE sm' = ClearCall(sm, target)
      <4>1. sm'.reg = RemoveUUID(sm.reg, target) BY <1>1, <2>2, <3>3, ClearSound
      <4>2. target \in sm.reg.tracked => sm.reg.call[target].callId = InvalidId
        BY <2>3, <2>6 DEF IdOf
      <4>3. \A i \in CallId : sm'.reg.byCallId[i] = sm.reg.byCallId[i]
        BY <1>1, <2>2, <4>1, <4>2, RemoveSlots, RegistryAssumption
      <4> QED BY <1>2, <2>1, <2>2, <2>6, <4>3
    <3> QED BY <2>1, <2>6, <3>2, <3>3
  <2>7. CASE id # InvalidId
    <3> DEFINE e == Run("endThenClear", target, id)
    <3>1. /\ id \in CallId /\ sipQ' = Append(sipQ, e) /\ UNCHANGED <<sm, mainQ, delayed, dialog>>
          /\ call \in sm.reg.tracked /\ sm.reg.call[call].callId = id
      BY <1>0, <2>1, <2>2, <2>7, Lookups DEF IdOf
    <3>2. sm.reg.byCallId[id] = call /\ call # NoUUID
      <4>1. call # NoUUID BY <1>1, <3>1, RegistryAssumption DEF Registries
      <4> QED BY <1>1, <2>7, <3>1, <4>1 DEF Formed, TwoWayIndex
    <3>3. e \in QueuedBlock BY <2>2, <3>1, Blocks DEF SIPOp
    <3>4. InPlace => e \in HomeSIP(setup.slots)
      BY <3>1, <3>2, <3>3 DEF InPlace, HomeSIP, Run
    <3> HIDE DEF e, id
    <3> QED BY <2>1, <3>1, <3>4, HousedMain DEF InPlace
  <2> QED BY <2>6, <2>7
<1>6. ASSUME NEW arg \in UUID \cup {NoUUID}, acceptCall(arg) PROVE Housed'
  <2> DEFINE call   == ResolveCall(sm, arg)
             target == IF call # NoUUID THEN call ELSE arg
  <2>1. /\ setup' = setup /\ UNCHANGED <<sm, mainQ, sipQ, dialog>>
        /\ target # NoUUID /\ AttemptAccept(target)
    BY <1>6 DEF acceptCall, Spend
  <2>2. target \in UUID BY <1>0, <1>1, <2>1, Lookups
  <2> HIDE DEF target
  <2> QED BY <1>2, <2>1, <2>2
<1> QED BY <1>0, <1>3, <1>4, <1>5, <1>6 DEF Host
-----------------------------------------------------------------------------
(* Where there is one slot, its dialog is the only one that may be up.     *)
LEMMA OnlyDialog ==
  ASSUME Housed, Typed', setup' = setup, NEW i \in CallId,
         \A j \in CallId \ {i} : dialog'[j] = dialog[j],
         OneSlot /\ ~setup.sipFailures /\ InPlace =>
           /\ i \in setup.slots /\ ~Up(i)'
           /\ mainQ' \in Seq(HomeBlock(setup.slots)) /\ sipQ' \in Seq(HomeSIP(setup.slots))
           /\ BagToSet(delayed') \subseteq TimerBlock
           /\ \A j \in CallId \ setup.slots : sm'.reg.byCallId[j] = NoUUID
  PROVE  Housed'
<1>1. ASSUME OneSlot, ~setup.sipFailures, InPlace, NEW j \in CallId PROVE ~Up(j)'
  <2>1. j # i => j \notin setup.slots BY <1>1 DEF OneSlot
  <2>2. j # i => ~Up(j) BY <1>1, <2>1 DEF InPlace
  <2> QED BY <1>1, <2>2 DEF Up
<1> QED BY <1>1, HousedKept

(* The callbacks put plain blocks on the main queue.                       *)
LEMMA CallbackBlocks ==
  ASSUME Typed, NEW slots, mainQ \in Seq(HomeBlock(slots)), NEW i
  PROVE  /\ WithDisconnected(mainQ, i) \in Seq(HomeBlock(slots))
         /\ \A u \in UUID, op \in {"connecting", "acceptFailed", "confirmed", "ended"} :
              Run(op, u, InvalidId) \in HomeBlock(slots)
<1>1. \A u \in UUID, op \in {"connecting", "acceptFailed", "confirmed", "ended", "disconnected"} :
        Run(op, u, InvalidId) \in HomeBlock(slots)
  <2>1. \A u \in UUID, op \in {"connecting", "acceptFailed", "confirmed", "ended", "disconnected"} :
          Run(op, u, InvalidId) \in MainBlock
    BY Blocks DEF Op
  <2> QED BY <2>1 DEF HomeBlock, Run
<1>2. WithDisconnected(mainQ, i) \in Seq(HomeBlock(slots))
  BY <1>1, DisconnectedTyped, HomeQueues
<1> QED BY <1>1, <1>2

LEMMA HangUpHoused ==
  ASSUME Housed, Typed', sipEnd \/ sipEndThenClear
  PROVE  Housed'
<1> DEFINE b == Head(sipQ)
<1>0. Typed BY DEF Housed
<1>1. /\ sipQ # <<>> /\ sipQ' = Tail(sipQ) /\ UNCHANGED <<sm, delayed, setup>>
      /\ b.op \in Hanging
      /\ \E then \in {<<>>, <<Run("ended", b.uuid, InvalidId)>>} : EndSIPCall(b.id, then)
  BY DEF sipEnd, sipEndThenClear, NextSIP, bounds, Hanging
<1>2. PICK u \in UUID, i \in CallId : b.uuid = u /\ b.id = i
  BY <1>0, <1>1, SIPHead DEF Hanging, SIPOp
<1> HIDE DEF b
<1>3. PICK then \in {<<>>, <<Run("ended", u, InvalidId)>>} : EndSIPCall(i, then) BY <1>1, <1>2
<1>4. \A j \in CallId \ {i} : dialog'[j] = dialog[j]
  BY <1>0, <1>3 DEF EndSIPCall, Typed
<1>5. ASSUME ~setup.sipFailures PROVE ~Up(i)'
  <2>1. dialog \in [CallId -> Dialog] BY <1>0 DEF Typed
  <2>2. \/ dialog[i].state \in {"free", "closing"} /\ dialog' = dialog
        \/ dialog' = [dialog EXCEPT ![i] = NoDialog]
        \/ dialog' = [dialog EXCEPT ![i].state = "closing"]
    BY <1>3, <1>5 DEF EndSIPCall
  <2>3. dialog'[i].state \in {"free", "closing"}
    BY <2>1, <2>2 DEF NoDialog, Dialog
  <2> QED BY <2>3 DEF Up
<1>6. ASSUME InPlace
      PROVE  /\ i \in setup.slots
             /\ mainQ' \in Seq(HomeBlock(setup.slots)) /\ sipQ' \in Seq(HomeSIP(setup.slots))
  <2>1. b \in HomeSIP(setup.slots) /\ sipQ' \in Seq(HomeSIP(setup.slots))
    BY <1>0, <1>1, <1>6, HomeQueues DEF InPlace, b
  <2>2. i \in setup.slots BY <1>1, <1>2, <2>1 DEF HomeSIP
  <2> DEFINE H == HomeBlock(setup.slots)
             e == Run("ended", u, InvalidId)
  <2>3. mainQ \in Seq(H) /\ WithDisconnected(mainQ, i) \in Seq(H) /\ e \in H
    BY <1>0, <1>6, CallbackBlocks DEF InPlace
  <2>4. then \in {<<>>, <<e>>} BY <1>3
  <2>5. mainQ' \in {mainQ \o then, WithDisconnected(mainQ, i) \o then}
    BY <1>3 DEF EndSIPCall
  <2> HIDE DEF H, e
  <2>6. then \in Seq(H)
    <3>1. <<>> \in Seq(H) /\ <<e>> \in Seq(H) BY <2>3
    <3> QED BY <2>4, <3>1, Zenon
  <2>7. mainQ' \in Seq(H) BY <2>3, <2>5, <2>6, ConcatProperties
  <2> QED BY <2>1, <2>2, <2>7 DEF H
<1> QED BY <1>1, <1>4, <1>5, <1>6, OnlyDialog DEF InPlace

LEMMA SIPHoused ==
  ASSUME Housed, Typed', SIPQueue
  PROVE  Housed'
<1> DEFINE b == Head(sipQ)
<1>0. Typed /\ dialog \in [CallId -> Dialog] /\ mainQ \in Seq(MainBlock) /\ sipQ \in Seq(QueuedBlock)
  BY DEF Housed, Typed
<1>1. CASE sipEnd \/ sipEndThenClear BY <1>1, HangUpHoused
<1>2. CASE sipAnswer
  <2>1. /\ sipQ # <<>> /\ b.op = "answer" /\ sipQ' = Tail(sipQ) /\ UNCHANGED <<sm, delayed, setup>>
        /\ \E op \in {"connecting", "acceptFailed"} : mainQ' = Append(mainQ, Run(op, b.uuid, InvalidId))
        /\ \/ dialog' = dialog
           \/ dialog[b.id].state = "early" /\ dialog' = [dialog EXCEPT ![b.id].state = "connecting"]
    BY <1>2 DEF sipAnswer, NextSIP, bounds
  <2>2. b.uuid \in UUID /\ b.id \in CallId BY <1>0, <2>1, SIPHead DEF SIPOp
  <2>3. \A i \in CallId : Up(i)' <=> Up(i) BY <1>0, <2>1, <2>2 DEF Up, Dialog
  <2>4. \A op \in {"connecting", "acceptFailed"} :
          Run(op, b.uuid, InvalidId) \in MainBlock /\ Run(op, b.uuid, InvalidId).op \notin Clearing
    <3>1. \A op \in {"connecting", "acceptFailed"} : Run(op, b.uuid, InvalidId) \in MainBlock
      BY <2>2, Blocks DEF Op
    <3> QED BY <3>1 DEF Run, Clearing
  <2>5. \A i \in CallId : Claimed(mainQ, sm.reg, i) => Claimed(mainQ', sm'.reg, i)
    BY <1>0, <2>1, <2>4, ClaimedAppend
  <2>6. \A i \in CallId : HangsUp(sipQ, i) => HangsUp(sipQ', i)
    BY <1>0, <2>1, HangsUpTail DEF Hanging
  <2>7. ASSUME InPlace
        PROVE  mainQ' \in Seq(HomeBlock(setup.slots)) /\ sipQ' \in Seq(HomeSIP(setup.slots))
    <3>1. \A op \in {"connecting", "acceptFailed"} :
            Run(op, b.uuid, InvalidId) \in HomeBlock(setup.slots)
      BY <1>0, <2>2, <2>7, CallbackBlocks DEF InPlace
    <3>2. mainQ' \in Seq(HomeBlock(setup.slots)) BY <1>0, <2>1, <2>7, <3>1, HomeQueues DEF InPlace
    <3>3. sipQ' \in Seq(HomeSIP(setup.slots)) BY <1>0, <2>1, <2>7, HomeQueues DEF InPlace
    <3> QED BY <3>2, <3>3
  <2> HIDE DEF b
  <2> QED BY <2>1, <2>3, <2>5, <2>6, <2>7, HousedKept DEF InPlace
<1>3. CASE sipStop
  <2> DEFINE d == [b EXCEPT !.op = "destroy", !.calls = Live(sm.reg)]
  <2>1. /\ sipQ # <<>> /\ b.op = "stop" /\ sipQ' = <<d>> \o Tail(sipQ)
        /\ sm' = [sm EXCEPT !.reg = RemoveAll(@)] /\ UNCHANGED <<mainQ, delayed, dialog, setup>>
    BY <1>3 DEF sipStop, bounds
  <2>2. b \in StopBlock /\ Tail(sipQ) \in Seq(QueuedBlock) BY <1>0, <2>1, SIPHead
  <2>3. d \in QueuedBlock /\ d.op = "destroy" BY <1>0, <2>2, LiveFinite DEF StopBlock, QueuedBlock, Typed
  <2> HIDE DEF d, b
  <2>4. sipQ'[1] = d /\ 1 \in 1..Len(sipQ') BY <2>1, <2>2, <2>3
  <2>5. \A i \in CallId : HangsUp(sipQ', i) BY <2>3, <2>4 DEF HangsUp
  <2>6. \A i \in CallId : sm'.reg.byCallId[i] = NoUUID
    <3>1. sm.reg \in Registries /\ sm \in StateMachines BY <1>0 DEF Typed, Sound, Formed
    <3>2. sm'.reg = RemoveAll(sm.reg) BY <2>1, <3>1 DEF StateMachines
    <3> QED BY <3>1, <3>2 DEF RemoveAll, Registries
  <2>7. ASSUME InPlace PROVE sipQ' \in Seq(HomeSIP(setup.slots))
    <3>1. d \in HomeSIP(setup.slots) BY <2>3 DEF HomeSIP, Hanging
    <3>2. Tail(sipQ) \in Seq(HomeSIP(setup.slots)) BY <1>0, <2>1, <2>7, HomeQueues DEF InPlace
    <3>3. <<d>> \in Seq(HomeSIP(setup.slots)) BY <3>1
    <3> QED BY <2>1, <3>2, <3>3, ConcatProperties
  <2>8. \A i : Up(i)' <=> Up(i) BY <2>1 DEF Up
  <2> QED BY <2>1, <2>5, <2>6, <2>7, <2>8, HousedKept DEF InPlace
<1>4. ASSUME NEW i \in CallId, sipHangUp(i) PROVE Housed'
  <2>1. /\ sipQ # <<>> /\ b.op = "destroy" /\ UNCHANGED <<sm, sipQ, delayed, setup>>
        /\ dialog' = [dialog EXCEPT ![i] = NoDialog]
        /\ mainQ' \in {mainQ, WithDisconnected(mainQ, i)}
    BY <1>4 DEF sipHangUp, bounds
  <2>2. sipQ[1] = b /\ 1 \in 1..Len(sipQ) BY <1>0, <2>1
  <2>3. \A j \in CallId : HangsUp(sipQ', j) BY <2>1, <2>2 DEF HangsUp
  <2>4. \A j \in CallId : Up(j)' => Up(j) BY <1>0, <2>1 DEF Up, NoDialog
  <2>5. InPlace => mainQ' \in Seq(HomeBlock(setup.slots)) BY <1>0, <2>1, CallbackBlocks DEF InPlace
  <2> QED BY <2>1, <2>3, <2>4, <2>5, HousedKept DEF InPlace
<1>5. CASE sipDestroy
  <2>1. /\ sipQ # <<>> /\ sipQ' = Tail(sipQ) /\ UNCHANGED <<delayed, dialog, setup>>
        /\ \A i \in CallId : dialog[i].state = "free"
        /\ \/ sm' = ResetToIdle(sm) /\ mainQ' = mainQ
           \/ sm' = sm /\ mainQ' = Append(mainQ, [op |-> "stopped", calls |-> b.calls])
        /\ b.op = "destroy"
    BY <1>5 DEF sipDestroy, NextSIP, ReportStopped, bounds
  <2>2. sm'.reg = sm.reg BY <1>0, <2>1, ResetSound DEF Typed
  <2>3. [op |-> "stopped", calls |-> b.calls] \in HomeBlock(setup.slots)
    <3>1. b.calls \in SUBSET UUID /\ IsFiniteSet(b.calls) BY <1>0, <2>1, SIPHead
    <3> QED BY <3>1 DEF HomeBlock, MainBlock, StoppedBlock
  <2> HIDE DEF b
  <2>4. InPlace => mainQ' \in Seq(HomeBlock(setup.slots)) /\ sipQ' \in Seq(HomeSIP(setup.slots))
    BY <1>0, <2>1, <2>3, HomeQueues DEF InPlace
  <2>5. \A i \in CallId : ~Up(i)' BY <2>1 DEF Up
  <2> QED BY <2>1, <2>2, <2>4, <2>5, HousedKept DEF InPlace
<1> QED BY <1>1, <1>2, <1>3, <1>4, <1>5 DEF SIPQueue, StopOnQueue

(* The peer: an INVITE that rings is on the main queue, behind whatever    *)
(* clears a call there; every other callback lets go of the dialog.        *)
LEMMA PeerHoused ==
  ASSUME Housed, Typed', Peer
  PROVE  Housed'
<1>0. Typed /\ dialog \in [CallId -> Dialog] /\ mainQ \in Seq(MainBlock)
  BY DEF Housed, Typed
<1>1. ASSUME NEW i \in CallId, onCallConfirmed(i) PROVE Housed'
  <2>1. /\ UNCHANGED <<sm, sipQ, delayed, setup>>
        /\ dialog[i].state = "connecting" /\ dialog' = [dialog EXCEPT ![i].state = "confirmed"]
        /\ \/ mainQ' = mainQ
           \/ \E u \in UUID : mainQ' = Append(mainQ, Run("confirmed", u, InvalidId))
    BY <1>0, <1>1, Lookups DEF onCallConfirmed, bounds
  <2>2. \A j \in CallId : Up(j)' <=> Up(j) BY <1>0, <2>1 DEF Up, Dialog
  <2>3. ASSUME NEW u \in UUID
        PROVE  Run("confirmed", u, InvalidId) \in MainBlock /\ Run("confirmed", u, InvalidId).op \notin Clearing
    <3>1. Run("confirmed", u, InvalidId) \in MainBlock BY Blocks DEF Op
    <3> QED BY <3>1 DEF Run, Clearing
  <2>4. \A j \in CallId : Claimed(mainQ, sm.reg, j) => Claimed(mainQ', sm'.reg, j)
    BY <1>0, <2>1, <2>3, ClaimedAppend
  <2>5. InPlace => mainQ' \in Seq(HomeBlock(setup.slots))
    BY <1>0, <2>1, CallbackBlocks, HomeQueues DEF InPlace
  <2> QED BY <2>1, <2>2, <2>4, <2>5, HousedKept DEF InPlace
<1>2. ASSUME NEW i \in CallId, onCallDisconnected(i) PROVE Housed'
  <2>1. /\ UNCHANGED <<sm, sipQ, delayed, setup>> /\ Up(i)
        /\ dialog' = [dialog EXCEPT ![i] = NoDialog] /\ mainQ' = WithDisconnected(mainQ, i)
    BY <1>2 DEF onCallDisconnected, bounds, Up
  <2>2. InPlace => i \in setup.slots BY <2>1 DEF InPlace
  <2>3. ~Up(i)' /\ \A j \in CallId \ {i} : dialog'[j] = dialog[j]
    BY <1>0, <2>1 DEF Up, NoDialog
  <2>4. InPlace => mainQ' \in Seq(HomeBlock(setup.slots)) BY <1>0, <2>1, CallbackBlocks DEF InPlace
  <2> QED BY <2>1, <2>2, <2>3, <2>4, OnlyDialog DEF InPlace
<1>3. ASSUME NEW i \in CallId, slotFreed(i) PROVE Housed'
  <2>1. /\ UNCHANGED <<sm, mainQ, sipQ, delayed, setup>> /\ dialog' = [dialog EXCEPT ![i] = NoDialog]
    BY <1>3 DEF slotFreed, bounds
  <2>2. \A j \in CallId : Up(j)' => Up(j) BY <1>0, <2>1 DEF Up, NoDialog
  <2> QED BY <2>1, <2>2, HousedKept DEF InPlace
<1>4. ASSUME NEW i \in CallId, NEW u \in Announced \cup {NoUUID}, onIncomingCall(i, u) PROVE Housed'
  <2>1. /\ setup' = setup /\ UNCHANGED <<sipQ, delayed>> /\ i \in setup.slots /\ dialog[i].state = "free"
        /\ \E taken : sm' = [sm EXCEPT !.reg = TakeCancelled(sm.reg, now, Window, taken)]
        /\ \/ dialog' = dialog /\ mainQ' = WithDisconnected(mainQ, i)
           \/ /\ dialog' = [dialog EXCEPT ![i] =
                             [state |-> "early", nth |-> left["invite"], intended |-> u]]
              /\ mainQ' = Append(mainQ, Run("invite", NoUUID, i))
    <3>1. \A taken : [sm EXCEPT !.reg = TakeCancelled(@, now, Window, taken)]
                       = [sm EXCEPT !.reg = TakeCancelled(sm.reg, now, Window, taken)]
      BY <1>0 DEF Typed, Sound, StateMachines
    <3> QED BY <1>4, <3>1 DEF onIncomingCall, Spend
  <2>2. sm'.reg.byCallId = sm.reg.byCallId
    <3>1. sm.reg \in Registries /\ now \in Nat /\ sm \in StateMachines
      BY <1>0 DEF Typed, Sound, Formed, Date
    <3>2. \E taken : sm'.reg = TakeCancelled(sm.reg, now, Window, taken)
      BY <2>1, <3>1 DEF StateMachines
    <3> QED BY <3>1, <3>2 DEF TakeCancelled, Registries
  <2>3. CASE dialog' = dialog /\ mainQ' = WithDisconnected(mainQ, i)
    <3>1. ~Up(i)' BY <2>1, <2>3 DEF Up
    <3>2. InPlace => mainQ' \in Seq(HomeBlock(setup.slots)) BY <1>0, <2>3, CallbackBlocks DEF InPlace
    <3> QED BY <2>1, <2>2, <2>3, <3>1, <3>2, OnlyDialog DEF InPlace
  <2>4. CASE /\ dialog' = [dialog EXCEPT ![i] =
                            [state |-> "early", nth |-> left["invite"], intended |-> u]]
             /\ mainQ' = Append(mainQ, Run("invite", NoUUID, i))
    <3> DEFINE b == Run("invite", NoUUID, i)
    <3>1. b \in MainBlock /\ b.op \notin Clearing /\ b \in HomeBlock(setup.slots)
      <4>1. b \in MainBlock BY Blocks
      <4> QED BY <2>1, <4>1 DEF Run, Clearing, HomeBlock
    <3>2. Claimed(mainQ', sm'.reg, i) BY <1>0, <2>4, ClaimedNew
    <3> HIDE DEF b
    <3>3. \A j \in CallId : Claimed(mainQ, sm.reg, j) => Claimed(mainQ', sm'.reg, j)
      <4>1. \A j \in CallId : Claimed(mainQ, sm.reg, j) => Claimed(mainQ, sm'.reg, j)
        BY <2>2, ClaimedKeeps
      <4> QED BY <1>0, <2>4, <3>1, <4>1, ClaimedAppend DEF b
    <3>4. \A j \in CallId \ {i} : Up(j)' <=> Up(j) BY <1>0, <2>4 DEF Up
    <3>5. InPlace => mainQ' \in Seq(HomeBlock(setup.slots))
      BY <1>0, <2>4, <3>1, HomeQueues DEF InPlace, b
    <3>6. \A j \in CallId \ setup.slots : j # i BY <2>1
    <3> QED BY <2>1, <2>2, <3>2, <3>3, <3>4, <3>5, <3>6, HousedKept DEF InPlace
  <2> QED BY <2>1, <2>3, <2>4
<1> QED BY <1>1, <1>2, <1>3, <1>4 DEF Peer

LEMMA OthersHoused ==
  ASSUME Housed, Typed',
         \/ \E onMain \in BOOLEAN : stop(onMain)
         \/ Pause
         \/ \E b \in BagToSet(delayed) : Fires(b)
         \/ UNCHANGED vars
  PROVE  Housed'
<1>0. Typed /\ mainQ \in Seq(MainBlock) BY DEF Housed, Typed
<1>1. ASSUME NEW onMain \in BOOLEAN, stop(onMain) PROVE Housed'
  <2> DEFINE b == [op |-> "stop", calls |-> {}, onMain |-> onMain]
  <2>1. setup' = setup /\ sipQ' = Append(sipQ, b) /\ UNCHANGED <<sm, mainQ, delayed, dialog>>
    BY <1>1 DEF stop, Spend
  <2>2. b \in HomeSIP(setup.slots)
    <3>1. IsFiniteSet({}) BY FS_EmptySet
    <3> QED BY <3>1 DEF HomeSIP, QueuedBlock, StopBlock, Hanging
  <2> HIDE DEF b
  <2> QED BY <2>1, <2>2, HousedMain DEF InPlace
<1>2. CASE Pause
  <2>1. setup' = setup /\ UNCHANGED <<sm, mainQ, sipQ, delayed, dialog>> BY <1>2 DEF Pause, Spend
  <2> QED BY <2>1, HousedMain DEF InPlace
<1>3. ASSUME NEW b, Fires(b) PROVE Housed'
  <2>1. mainQ' = Append(mainQ, b) /\ UNCHANGED <<sm, sipQ, dialog, setup>> BY <1>3 DEF Fires, bounds
  <2>2. b \in BagToSet(delayed) /\ BagToSet(delayed') \subseteq BagToSet(delayed)
    BY <1>0, <1>3, FiresHow
  <2>3. ASSUME InPlace
        PROVE  /\ mainQ' \in Seq(HomeBlock(setup.slots)) /\ BagToSet(delayed') \subseteq TimerBlock
               /\ \A i \in CallId : Claimed(mainQ, sm.reg, i) => Claimed(mainQ', sm'.reg, i)
    <3>1. b \in TimerBlock /\ BagToSet(delayed') \subseteq TimerBlock BY <2>2, <2>3 DEF InPlace
    <3>2. b \in MainBlock /\ b \in HomeBlock(setup.slots) /\ b.op \notin Clearing
      BY <3>1, Blocks DEF TimerBlock, HomeBlock, Clearing
    <3> QED BY <1>0, <2>1, <2>3, <3>1, <3>2, HomeQueues, ClaimedAppend DEF InPlace
  <2> QED BY <2>1, <2>3, HousedMain DEF InPlace
<1>4. CASE UNCHANGED vars
  <2>1. UNCHANGED <<setup, sm, mainQ, sipQ, delayed, dialog>> BY <1>4 DEF vars, bounds
  <2> QED BY <2>1, HousedMain DEF InPlace
<1> QED BY <1>1, <1>2, <1>3, <1>4

LEMMA NextHoused ==
  ASSUME Housed, [Next]_vars
  PROVE  Housed'
<1>1. Typed' BY NextTyped DEF Housed
<1>2. CASE MainQueue BY <1>1, <1>2, MainHoused
<1>3. CASE SIPQueue BY <1>1, <1>3, SIPHoused
<1>4. CASE Host BY <1>1, <1>4, HostHoused
<1>5. CASE Peer BY <1>1, <1>5, PeerHoused
<1>6. CASE \/ \E onMain \in BOOLEAN : stop(onMain)
           \/ Pause
           \/ \E b \in BagToSet(delayed) : Fires(b)
           \/ UNCHANGED vars
  BY <1>1, <1>6, OthersHoused
<1> QED BY <1>2, <1>3, <1>4, <1>5, <1>6 DEF Next

LEMMA InitHoused ==
  ASSUME Init
  PROVE  Housed
<1>1. Typed BY InitTyped
<1>2. \A i \in CallId : sm.reg.byCallId[i] = NoUUID BY DEF Init, Idle, EmptyRegistry
<1>3. \A i \in CallId : ~Up(i) BY DEF Init, NoDialog, Up
<1>4. BagToSet(delayed) = {} BY DEF Init, EmptyBag, SetToBag, BagToSet
<1>5. InPlace BY <1>2, <1>3, <1>4 DEF InPlace, Init
<1> QED BY <1>1, <1>3, <1>5 DEF Housed

(* With one call at a time, which is what the client runs with unless it   *)
(* is told otherwise, no dialog rings or is up without a call the host can *)
(* end, once the queues are empty: however pushes, INVITEs, retractions,   *)
(* ring timeouts and stops interleave, a record that is cleared            *)
(* (CallWaveClient.m:1559, 2289, 3034, 3064, 3262) has lost its dialog or  *)
(* hung it up.                                                             *)
THEOREM OneSlotStrandsNoDialog == Spec => [](OneSlot => NoStrandedDialog)
<1>1. Init => Housed BY InitHoused
<1>2. Housed /\ [Next]_vars => Housed' BY NextHoused
<1>3. Housed => (OneSlot => NoStrandedDialog)
  <2> SUFFICES ASSUME Housed, OneSlot, mainQ = <<>>, sipQ = <<>>, ~setup.sipFailures,
                      NEW i \in CallId, Up(i)
               PROVE  sm.reg.byCallId[i] # NoUUID
    BY DEF NoStrandedDialog, Up
  <2>1. Claimed(mainQ, sm.reg, i) \/ HangsUp(sipQ, i) BY DEF Housed
  <2>2. ~HangsUp(sipQ, i) BY DEF HangsUp
  <2> QED BY <2>1, <2>2 DEF Claimed
<1> QED BY <1>1, <1>2, <1>3, PTL DEF Spec
-----------------------------------------------------------------------------
(* A push and an INVITE find each other.  A record that ended was rejected *)
(* or is no longer in the registry, so a late block that says "connecting" *)
(* wakes no call that waits.                                               *)
EndsRejected(r) == \A u \in r.tracked : r.call[u].state = "ended" => r.call[u].cancelledAt # 0

(* The record of v went, was rejected, or is as it was but for its state.  *)
Carried(r, n, v) ==
  \/ Gone(n, v)
  \/ Rejected(n, v)
  \/ /\ v \in r.tracked
     /\ n.call[v].callId = r.call[v].callId
     /\ n.call[v].reported = r.call[v].reported
     /\ n.call[v].cancelledAt = r.call[v].cancelledAt
     /\ n.call[v].state \in {r.call[v].state, "connecting", "active"}

(* Such a call neither starts to wait nor becomes one made up for an       *)
(* INVITE.                                                                 *)
LEMMA CarriedMeets ==
  ASSUME NEW r, EndsRejected(r), NEW n, NEW v, Carried(r, n, v)
  PROVE  /\ v \in AwaitingInvite(n) => v \in AwaitingInvite(r)
         /\ v \in Unannounced(n) => v \in Unannounced(r)
         /\ v \in n.tracked /\ n.call[v].state = "ended" => n.call[v].cancelledAt # 0
  BY DEF Carried, Gone, Rejected, EndsRejected, AwaitingInvite, Unannounced, Live

(* ... so a step that only carries records over misses nothing.            *)
LEMMA AllCarried ==
  ASSUME NEW r, EndsRejected(r), NEW n \in Registries, \A v \in UUID : Carried(r, n, v)
  PROVE  EndsRejected(n) /\ (Missed(n) => Missed(r))
<1>1. n.tracked \subseteq UUID BY DEF Registries
<1>2. \A v \in UUID : /\ v \in AwaitingInvite(n) => v \in AwaitingInvite(r)
                      /\ v \in Unannounced(n) => v \in Unannounced(r)
                      /\ v \in n.tracked /\ n.call[v].state = "ended" => n.call[v].cancelledAt # 0
  BY CarriedMeets
<1>3. AwaitingInvite(n) \subseteq UUID /\ Unannounced(n) \subseteq UUID
  BY <1>1 DEF AwaitingInvite, Unannounced, Live
<1> QED BY <1>1, <1>2, <1>3 DEF EndsRejected, Missed

(* Every call but u is as it was, unless it went.                          *)
Aside(r, n, u) ==
  \A v \in UUID \ {u} :
    v \in n.tracked => /\ v \in r.tracked
                       /\ n.call[v].callId = r.call[v].callId
                       /\ n.call[v].reported = r.call[v].reported
                       /\ n.call[v].cancelledAt = r.call[v].cancelledAt
                       /\ n.call[v].state = r.call[v].state

LEMMA AsideTransitive ==
  ASSUME NEW a, NEW b, NEW c, NEW u, Aside(a, b, u), Aside(b, c, u)
  PROVE  Aside(a, c, u)
  BY DEF Aside

LEMMA AsideCarries ==
  ASSUME NEW r, NEW n, NEW u, Aside(r, n, u)
  PROVE  \A v \in UUID \ {u} : Carried(r, n, v)
  BY DEF Aside, Carried, Gone

LEMMA AsideOne ==
  ASSUME NEW t \in Date, NEW r, Formed(r, t), NEW u \in UUID
  PROVE  /\ Aside(r, r, u) /\ Aside(r, Register(r, u, t), u)
         /\ Aside(r, RemoveUUID(r, u), u) /\ Aside(r, MarkCancelled(r, u, t), u)
         /\ \A st \in CallState : Aside(r, SetState(r, u, st), u)
         /\ Aside(r, SetReported(r, u), u)
<1>1. r \in Registries /\ t \in Nat BY DEF Formed, Date
<1>2. Aside(r, Register(r, u, t), u) BY <1>1, RegisterHow DEF Aside
<1>3. Aside(r, RemoveUUID(r, u), u) BY <1>1, RemoveHow DEF Aside
<1>4. Aside(r, MarkCancelled(r, u, t), u) BY <1>1 DEF Aside, MarkCancelled, Registries
<1>5. \A st \in CallState : Aside(r, SetState(r, u, st), u) BY <1>1 DEF Aside, SetState, Registries
<1>6. Aside(r, SetReported(r, u), u) BY <1>1 DEF Aside, SetReported, Registries
<1> QED BY <1>2, <1>3, <1>4, <1>5, <1>6 DEF Aside

LEMMA PublishAside ==
  ASSUME NEW t \in Date, NEW s, Sound(s, t), NEW u \in UUID, NEW st \in CallState
  PROVE  Aside(s.reg, PublishState(s, u, st).reg, u)
<1>1. Formed(s.reg, t) BY DEF Sound
<1> QED BY <1>1, PublishSound, AsideOne

LEMMA ClearAside ==
  ASSUME NEW t \in Date, NEW s, Sound(s, t), NEW u \in UUID
  PROVE  Aside(s.reg, ClearCall(s, u).reg, u)
<1>1. Formed(s.reg, t) BY DEF Sound
<1> QED BY <1>1, ClearSound, AsideOne

LEMMA EndAside ==
  ASSUME NEW t \in Date, NEW s, Sound(s, t), NEW u \in UUID
  PROVE  Aside(s.reg, EndAndClear(s, u).reg, u)
<1> DEFINE x == PublishState(s, u, "ended")
<1>1. "ended" \in CallState BY DEF CallState
<1>2. Sound(x, t) /\ Aside(s.reg, x.reg, u) BY <1>1, PublishSound, PublishAside
<1> HIDE DEF x
<1>3. Aside(x.reg, ClearCall(x, u).reg, u) BY <1>2, ClearAside
<1> QED BY <1>2, <1>3, AsideTransitive DEF EndAndClear, x

LEMMA RejectAside ==
  ASSUME NEW t \in Date, NEW s, Sound(s, t), NEW u \in UUID
  PROVE  LET m == [s EXCEPT !.reg = MarkCancelled(@, u, t)]
         IN  Sound(m, t) /\ Aside(s.reg, DetachIfCurrent(PublishState(m, u, "ended"), u).reg, u)
<1> DEFINE n == MarkCancelled(s.reg, u, t)
           m == [s EXCEPT !.reg = n]
           x == PublishState(m, u, "ended")
<1>1. Formed(s.reg, t) BY DEF Sound
<1>2. [s EXCEPT !.reg = MarkCancelled(@, u, t)] = m BY DEF Sound, StateMachines
<1>3. Formed(n, t) /\ Aside(s.reg, n, u) BY <1>1, MarkFormed, AsideOne
<1> HIDE DEF n
<1>4. Sound(m, t) /\ m.reg = n BY <1>3, WithRegistry
<1> HIDE DEF m
<1>5. "ended" \in CallState BY DEF CallState
<1>6. Sound(x, t) /\ Aside(n, x.reg, u) BY <1>4, <1>5, PublishSound, PublishAside
<1> HIDE DEF x
<1>7. DetachIfCurrent(x, u).reg = x.reg BY <1>6, DetachSound
<1>8. Aside(s.reg, x.reg, u) BY <1>3, <1>6, AsideTransitive
<1> QED BY <1>2, <1>4, <1>7, <1>8 DEF x

LEMMA RetractAside ==
  ASSUME NEW t \in Date, NEW s, Sound(s, t), NEW u \in UUID
  PROVE  Aside(s.reg, RetractCall(s, u, t).reg, u)
<1> DEFINE k == Register(s.reg, u, t)
           known == [s EXCEPT !.reg = k]
<1>1. Formed(s.reg, t) BY DEF Sound
<1>2. Formed(k, t) /\ Aside(s.reg, k, u) BY <1>1, RegisterFormed, AsideOne
<1>3. [s EXCEPT !.reg = Register(@, u, t)] = known BY DEF Sound, StateMachines
<1> HIDE DEF k
<1>4. Sound(known, t) /\ known.reg = k BY <1>2, WithRegistry
<1> HIDE DEF known
<1>5. RetractCall(s, u, t)
        \in {DetachIfCurrent(PublishState([known EXCEPT !.reg = MarkCancelled(@, u, t)], u, "ended"), u),
             EndAndClear(known, u)}
  BY <1>3 DEF RetractCall, EndAndClear
<1>6. Aside(k, RetractCall(s, u, t).reg, u) BY <1>4, <1>5, RejectAside, EndAside
<1> QED BY <1>2, <1>6, AsideTransitive

(* What the handlers do to the calls that wait and to those made up.       *)
LEMMA TidyMeets ==
  ASSUME NEW t \in Date, NEW s, Sound(s, t), EndsRejected(s.reg), NEW u \in UUID,
         NEW p, \/ p = RetractCall(s, u, t)
                \/ p = EndAndClear(s, u)
                \/ p = ClearCall(s, u)
                \/ /\ [s EXCEPT !.reg = MarkCancelled(@, u, t)] # s
                   /\ p = DetachIfCurrent(PublishState([s EXCEPT !.reg = MarkCancelled(@, u, t)], u, "ended"), u)
  PROVE  EndsRejected(p.reg) /\ (Missed(p.reg) => Missed(s.reg))
<1>1. Sound(p, t) /\ (Rejected(p.reg, u) \/ Gone(p.reg, u))
  BY RetractSound, EndAndClearSound, ClearedSound, RejectSound
<1>2. Aside(s.reg, p.reg, u) BY RetractAside, EndAside, ClearAside, RejectAside
<1>3. \A v \in UUID : Carried(s.reg, p.reg, v) BY <1>1, <1>2, AsideCarries DEF Carried
<1>4. p.reg \in Registries BY <1>1 DEF Sound, Formed
<1> QED BY <1>3, <1>4, AllCarried

LEMMA ReachedMeets ==
  ASSUME NEW t \in Date, NEW s, Sound(s, t), EndsRejected(s.reg), NEW u \in UUID,
         NEW st \in {"connecting", "active"}
  PROVE  LET p == PublishState(s, u, st)
         IN  EndsRejected(p.reg) /\ (Missed(p.reg) => Missed(s.reg))
<1> DEFINE p == PublishState(s, u, st)
<1>1. st \in CallState /\ Formed(s.reg, t) /\ s.reg \in Registries BY DEF CallState, Sound, Formed
<1>2. /\ Sound(p, t) /\ p.reg.tracked = s.reg.tracked
      /\ p.reg = IF u \in s.reg.tracked THEN SetState(s.reg, u, st) ELSE s.reg
      /\ Aside(s.reg, p.reg, u)
  BY <1>1, ReachedSound, PublishSound, PublishAside
<1> HIDE DEF p
<1>3. Carried(s.reg, p.reg, u) BY <1>1, <1>2 DEF Carried, Gone, SetState, Registries, Call
<1>4. \A v \in UUID : Carried(s.reg, p.reg, v) BY <1>2, <1>3, AsideCarries
<1>5. p.reg \in Registries BY <1>2 DEF Sound, Formed
<1>6. EndsRejected(p.reg) /\ (Missed(p.reg) => Missed(s.reg)) BY <1>4, <1>5, AllCarried
<1> QED BY <1>6 DEF p

(* A push: with no orphan to adopt, a call made up for an INVITE that no   *)
(* push has announced has no slot either, and so was waiting itself.       *)
LEMMA PrepareMeets ==
  ASSUME NEW t \in Date, NEW s, Sound(s, t), EndsRejected(s.reg), NEW u \in UUID,
         NEW p \in PrepareIncoming(s, u, t)
  PROVE  EndsRejected(p.reg) /\ (Missed(p.reg) => Missed(s.reg))
<1> DEFINE k == Register(s.reg, u, t)
           known == [s EXCEPT !.reg = k]
           taken == SetReported(k, u)
           orphans == IF k.call[u].callId # InvalidId THEN {} ELSE Orphans(taken, u)
           next(r) == PublishState(AdoptCurrentCall([known EXCEPT !.reg = r], u), u, "incoming")
<1>1. Formed(s.reg, t) /\ s.reg \in Registries /\ t \in Nat BY DEF Sound, Formed, Date
<1>2. Formed(k, t) /\ k \in Registries /\ Aside(s.reg, k, u) /\ u \in k.tracked
  BY <1>1, RegisterFormed, AsideOne, RegisterHow DEF Formed
<1>3. [s EXCEPT !.reg = Register(@, u, t)] = known /\ known.reg = k BY DEF Sound, StateMachines
<1>4. Sound(known, t) BY <1>2, WithRegistry
<1>5. /\ Formed(taken, t) /\ taken \in Registries /\ Aside(k, taken, u) /\ taken.tracked = k.tracked
      /\ taken.call[u].callId = k.call[u].callId /\ taken.call[u].reported
      /\ taken.call[u].cancelledAt = k.call[u].cancelledAt
  <2>1. taken.call[u].reported BY <1>2 DEF SetReported, Registries, Call
  <2> QED BY <1>2, <2>1, SetReportedFormed, SetReportedHow, AsideOne
<1>6. /\ p \in IF orphans = {} THEN {next(taken)}
               ELSE {next(RemoveUUID(Bind(taken, taken.call[v].callId, u, t), v)) : v \in orphans}
      /\ k.call[u].cancelledAt = 0
  BY <1>3 DEF PrepareIncoming
<1>7. Sound(p, t) /\ Only(s.reg, p.reg, u) /\ RingsFresh(p.reg, u) BY PrepareSound
<1> HIDE DEF k, known, taken
<1>8. Aside(s.reg, taken, u) BY <1>2, <1>5, AsideTransitive
<1>9. ASSUME NEW r, Formed(r, t), u \in r.tracked
      PROVE  /\ next(r).reg = SetState(r, u, "incoming") /\ Aside(r, next(r).reg, u)
             /\ next(r).reg.call[u].reported = r.call[u].reported
             /\ next(r).reg.call[u].callId = r.call[u].callId
  <2> DEFINE y == AdoptCurrentCall([known EXCEPT !.reg = r], u)
  <2>1. Sound([known EXCEPT !.reg = r], t) /\ [known EXCEPT !.reg = r].reg = r
    BY <1>4, <1>9, WithRegistry
  <2>2. Sound(y, t) /\ y.reg = r BY <2>1, AdoptSound
  <2> HIDE DEF y
  <2>3. "incoming" \in CallState /\ r \in Registries BY <1>9 DEF CallState, Formed
  <2>4. next(r).reg = SetState(r, u, "incoming") /\ Aside(r, next(r).reg, u)
    BY <1>9, <2>2, <2>3, PublishSound, PublishAside DEF y
  <2> HIDE DEF next
  <2> QED BY <2>3, <2>4 DEF SetState, Registries, Call
<1> HIDE DEF next
<1>10. EndsRejected(p.reg)
  BY <1>7 DEF EndsRejected, Only, RingsFresh, Wanted, Sound, Formed, Registries
<1>11. p.reg.tracked \subseteq UUID BY <1>7 DEF Sound, Formed, Registries
<1>12. AwaitingInvite(p.reg) \subseteq UUID /\ Unannounced(p.reg) \subseteq UUID
  BY <1>11 DEF AwaitingInvite, Unannounced, Live
<1>13. CASE orphans = {}
  <2>1. p = next(taken) BY <1>6, <1>13
  <2>2. Aside(taken, p.reg, u) /\ p.reg.call[u].reported
        /\ p.reg.call[u].callId = k.call[u].callId
    BY <1>2, <1>5, <1>9, <2>1
  <2>3. Aside(s.reg, p.reg, u) BY <1>8, <2>2, AsideTransitive
  <2>4. \A v \in UUID \ {u} : /\ v \in AwaitingInvite(p.reg) => v \in AwaitingInvite(s.reg)
                              /\ v \in Unannounced(p.reg) => v \in Unannounced(s.reg)
    BY <2>3, AsideCarries, CarriedMeets
  <2> SUFFICES ASSUME NEW w \in AwaitingInvite(p.reg), NEW v \in Unannounced(p.reg)
               PROVE  Missed(s.reg)
    BY <1>10 DEF Missed
  <2>5. v # u BY <2>2 DEF Unannounced
  <2>6. v \in Unannounced(s.reg) BY <1>12, <2>4, <2>5
  <2>7. CASE w # u BY <1>12, <2>4, <2>6, <2>7 DEF Missed
  <2>8. CASE w = u
    <3>1. k.call[u].callId = InvalidId BY <2>2, <2>8 DEF AwaitingInvite
    <3>2. v \notin Orphans(taken, u) BY <1>13, <3>1
    <3>3. v \in Live(taken) /\ ~taken.call[v].reported
          /\ p.reg.call[v].callId = taken.call[v].callId
      BY <1>12, <2>2, <2>5 DEF Aside, Unannounced, Live
    <3>4. taken.call[v].callId = InvalidId BY <2>5, <3>2, <3>3 DEF Orphans
    <3>5. v \in AwaitingInvite(p.reg) BY <3>3, <3>4 DEF AwaitingInvite, Unannounced, Live
    <3>6. v \in AwaitingInvite(s.reg) BY <1>12, <2>4, <2>5, <3>5
    <3> QED BY <2>6, <3>6 DEF Missed
  <2> QED BY <2>7, <2>8
<1>14. ASSUME NEW v \in orphans, p = next(RemoveUUID(Bind(taken, taken.call[v].callId, u, t), v))
       PROVE  Missed(p.reg) => Missed(s.reg)
  <2> DEFINE j == taken.call[v].callId
             b == Bind(taken, j, u, t)
             n == RemoveUUID(b, v)
  <2>1. k.call[u].callId = InvalidId /\ v \in Orphans(taken, u) BY <1>14
  <2>2. v \in taken.tracked /\ v # u /\ v \in UUID /\ j \in CallId /\ j # InvalidId
    <3>1. v \in taken.tracked /\ v # u /\ j # InvalidId BY <2>1 DEF Orphans, Live
    <3> QED BY <1>5, <3>1 DEF Registries, Call
  <2>3. taken.byCallId[j] = v BY <1>5, <2>2 DEF Formed, TwoWayIndex
  <2>4. Register(taken, u, t) = taken BY <1>2, <1>5 DEF Register
  <2>5. Formed(b, t) /\ b \in Registries
    <3> HIDE DEF j
    <3>1. Register(taken, u, t).call[u].cancelledAt = 0 BY <1>5, <1>6, <2>4
    <3> QED BY <1>5, <2>2, <3>1, BindFormed DEF Formed
  <2>6. /\ b.tracked = taken.tracked /\ b.call[u].callId = j /\ b.call[u].reported
        /\ \A w \in UUID \ {u, v} : b.call[w] = taken.call[w]
    <3> HIDE DEF j
    <3> QED BY <1>5, <2>2, <2>3, <2>4 DEF Bind, Registries, Call
  <2> HIDE DEF j, b
  <2>7. Formed(n, t) /\ n.tracked = b.tracked \ {v} /\ n.call = b.call
    BY <2>2, <2>5, RemoveFormed, RemoveHow
  <2> HIDE DEF n
  <2>8. p = next(n) BY <1>14 DEF n, b, j
  <2>9. /\ Aside(n, p.reg, u) /\ p.reg.call[u].reported /\ p.reg.call[u].callId = j
    BY <1>2, <1>5, <1>9, <2>2, <2>6, <2>7, <2>8
  <2>10. Aside(taken, n, u) BY <2>6, <2>7 DEF Aside
  <2>11. Aside(s.reg, p.reg, u) BY <1>8, <2>9, <2>10, AsideTransitive
  <2>12. \A w \in UUID \ {u} : /\ w \in AwaitingInvite(p.reg) => w \in AwaitingInvite(s.reg)
                               /\ w \in Unannounced(p.reg) => w \in Unannounced(s.reg)
    BY <2>11, AsideCarries, CarriedMeets
  <2>13. u \notin AwaitingInvite(p.reg) /\ u \notin Unannounced(p.reg)
    BY <2>2, <2>9 DEF AwaitingInvite, Unannounced
  <2> QED BY <1>12, <2>12, <2>13 DEF Missed
<1> QED BY <1>6, <1>10, <1>13, <1>14

(* Of several calls that wait one has waited longest.                      *)
LEMMA SomeWaitLongest ==
  ASSUME NEW r \in Registries, AwaitingInvite(r) # {}
  PROVE  CallAwaitingInvite(r) # {}
<1> DEFINE Dates == {r.call[u].createdAt : u \in AwaitingInvite(r)}
<1>1. AwaitingInvite(r) \subseteq UUID BY DEF AwaitingInvite, Registries
<1>2. Dates \in SUBSET Nat /\ Dates # {} BY <1>1 DEF Registries, Call
<1>3. PICK d \in Dates : \A m \in Dates : d <= m
  <2> HIDE DEF Dates
  <2> QED BY <1>2, LeastNatural
<1>4. PICK u \in AwaitingInvite(r) : d = r.call[u].createdAt BY <1>3
<1>5. u \in CallAwaitingInvite(r) BY <1>3, <1>4 DEF CallAwaitingInvite
<1> QED BY <1>5

(* An INVITE is bound to a call that waits, or to a new one when none      *)
(* does; the call that held the slot until then loses it.                  *)
LEMMA BindInviteMeets ==
  ASSUME NEW t \in Date, NEW s, Sound(s, t), EndsRejected(s.reg), NEW u \in UUID, NEW i \in CallId,
         \/ u \in CallAwaitingInvite(s.reg)
         \/ CallAwaitingInvite(s.reg) = {} /\ u \notin s.reg.tracked
  PROVE  LET n == BindInvite(s, i, u, t).reg
         IN  /\ EndsRejected(n)
             /\ Missed(n) =>
                  \/ Missed(s.reg)
                  \/ \E v \in AwaitingInvite(n) : s.reg.byCallId[i] = v /\ n.byCallId[i] \notin {v, NoUUID}
<1> DEFINE r == s.reg
           k == Register(r, u, t)
           b == Bind(r, i, u, t)
           n == BindInvite(s, i, u, t).reg
           h == r.byCallId[i]
<1>1. Formed(r, t) /\ r \in Registries /\ t \in Nat BY DEF Sound, Formed, Date
<1>2. k.call[u].cancelledAt = 0
  <2>1. k.call[u] = IF u \notin r.tracked THEN NewCall(t) ELSE r.call[u] BY <1>1, RegisterHow
  <2>2. NewCall(t).cancelledAt = 0 BY DEF NewCall
  <2>3. u \in r.tracked => r.call[u].cancelledAt = 0 BY DEF CallAwaitingInvite, AwaitingInvite
  <2> QED BY <2>1, <2>2, <2>3
<1>3. Formed(b, t) /\ b \in Registries BY <1>1, <1>2, BindFormed DEF Formed
<1>4. n = SetState(b, u, "incoming")
  <2> DEFINE x == [s EXCEPT !.reg = b]
             y == AdoptCurrentCall(x, u)
  <2>1. u \in b.tracked BY <1>1, BindHow
  <2>2. [s EXCEPT !.reg = Bind(@, i, u, t)] = x BY DEF Sound, StateMachines
  <2> HIDE DEF b
  <2>3. Sound(y, t) /\ y.reg = b
    <3>1. Sound(x, t) /\ x.reg = b BY <1>3, WithRegistry
    <3> HIDE DEF x
    <3> QED BY <3>1, AdoptSound
  <2>4. "incoming" \in CallState BY DEF CallState
  <2>5. BindInvite(s, i, u, t) = PublishState(y, u, "incoming") BY <2>2 DEF BindInvite
  <2> HIDE DEF y
  <2> QED BY <2>1, <2>3, <2>4, <2>5, PublishSound
<1>5. Sound(BindInvite(s, i, u, t), t) /\ Only(r, n, u) /\ RingsFresh(n, u)
  BY <1>2, BindInviteSound
<1>6. EndsRejected(n)
  <2>1. n.tracked \subseteq UUID BY <1>5 DEF Sound, Formed, Registries
  <2> QED BY <1>5, <2>1 DEF EndsRejected, Only, RingsFresh, Wanted
<1>7. /\ n.call[u].callId = i /\ n.call[u].reported = k.call[u].reported
      /\ n.byCallId[i] = u
      /\ \A v \in UUID \ {u} : /\ v \in n.tracked => v \in r.tracked
                               /\ n.call[v].reported = r.call[v].reported
                               /\ v # h => n.call[v].callId = r.call[v].callId
  <2>1. /\ \A v \in UUID : n.call[v].callId = b.call[v].callId /\ n.call[v].reported = b.call[v].reported
        /\ n.byCallId = b.byCallId
    <3> HIDE DEF b
    <3> QED BY <1>3, <1>4 DEF SetState, Registries, Call
  <2>2. b.byCallId[i] = u BY <1>1, BindSlots
  <2>3. k \in Registries /\ \A v \in UUID \ {u} : k.call[v] = r.call[v]
    BY <1>1, RegisterFormed, RegisterHow DEF Formed
  <2>4. \A v \in UUID : b.call[v].reported = k.call[v].reported BY <1>1, BindHow
  <2>5. /\ b.call[u].callId = i
        /\ \A v \in UUID \ {u} : v # h => b.call[v].callId = r.call[v].callId
    <3>1. i # InvalidId BY RegistryAssumption
    <3>2. \A v \in UUID : b.call[v] = IF v = u THEN [k.call[v] EXCEPT !.callId = i]
                                      ELSE IF v = r.byCallId[i] THEN [k.call[v] EXCEPT !.callId = InvalidId]
                                      ELSE k.call[v]
      <4> HIDE DEF k
      <4> QED BY <2>3, <3>1 DEF Bind, k, Registries
    <3> HIDE DEF k, b
    <3>3. k.call[u] \in Call BY <2>3 DEF Registries
    <3>4. b.call[u].callId = i BY <3>2, <3>3 DEF Call
    <3> QED BY <2>3, <3>2, <3>4
  <2>6. \A v \in UUID \ {u} : v \in n.tracked => v \in r.tracked BY <1>5 DEF Only
  <2> HIDE DEF n, b, k
  <2> QED BY <2>1, <2>2, <2>3, <2>4, <2>5, <2>6
<1>8. \A v \in UUID \ {u} : n.call[v].state = r.call[v].state
                            /\ n.call[v].cancelledAt = r.call[v].cancelledAt
  BY <1>5 DEF Only
<1>9. AwaitingInvite(n) \subseteq UUID /\ Unannounced(n) \subseteq UUID
  BY <1>5 DEF AwaitingInvite, Unannounced, Live, Sound, Formed, Registries
<1>10. \A v \in UUID \ {u} : v \in Unannounced(n) => v \in Unannounced(r)
  BY <1>7, <1>8 DEF Unannounced, Live
<1>11. \A v \in UUID \ {u, h} : v \in AwaitingInvite(n) => v \in AwaitingInvite(r)
  BY <1>7, <1>8 DEF AwaitingInvite
<1>12. u \notin AwaitingInvite(n) BY <1>7, RegistryAssumption DEF AwaitingInvite
<1>13. ~k.call[u].reported /\ u \in AwaitingInvite(r) => u \in Unannounced(r)
  BY <1>1 DEF AwaitingInvite, Unannounced, Live, Register
<1> HIDE DEF n, k, b
<1>14. ASSUME NEW w \in AwaitingInvite(n), NEW x \in Unannounced(n),
              \A v \in AwaitingInvite(n) : h # v
       PROVE  Missed(r)
  <2>1. w \in AwaitingInvite(r) BY <1>9, <1>11, <1>12, <1>14
  <2>2. CallAwaitingInvite(r) # {} BY <1>1, <2>1, SomeWaitLongest
  <2>3. u \in AwaitingInvite(r) BY <2>2 DEF CallAwaitingInvite
  <2>4. CASE x = u
    <3>1. ~k.call[u].reported BY <1>7, <2>4 DEF Unannounced
    <3> QED BY <1>13, <2>3, <3>1 DEF Missed
  <2>5. CASE x # u BY <1>9, <1>10, <2>3, <2>5 DEF Missed
  <2> QED BY <2>4, <2>5
<1>15. u # NoUUID BY RegistryAssumption
<1>16. Missed(n) => \/ Missed(r)
                    \/ \E v \in AwaitingInvite(n) : h = v /\ n.byCallId[i] \notin {v, NoUUID}
  <2> SUFFICES ASSUME Missed(n), ~Missed(r)
               PROVE  \E v \in AwaitingInvite(n) : h = v /\ n.byCallId[i] \notin {v, NoUUID}
    OBVIOUS
  <2>1. PICK v \in AwaitingInvite(n) : h = v BY <1>14 DEF Missed
  <2>2. v # u BY <1>12, <2>1
  <2> QED BY <1>7, <1>15, <2>1, <2>2
<1> QED BY <1>6, <1>16 DEF n

(* The steps that can disturb it, and that no other does.                  *)
Meeting(r, n) == EndsRejected(n) /\ (Missed(n) => Missed(r))

LEMMA MainMeets ==
  ASSUME Typed, EndsRejected(sm.reg), MainQueue
  PROVE  /\ EndsRejected(sm'.reg)
         /\ Missed(sm'.reg) => Missed(sm.reg) \/ \E u \in AwaitingInvite(sm'.reg) : LosesSlot(u)
<1> DEFINE b == Head(mainQ)
<1>1. mainQ # <<>>
  BY DEF MainQueue, handleIncomingSIPCall, callConfirmed, callDisconnected, callConnecting,
         callTerminated, incomingCallTimeout, attemptAccept, acceptTimedOut, answerCall,
         acceptFailed, stopped, HeadIs
<1>2. /\ b.op = "invite" => b.id \in CallId
      /\ b.op \notin {"invite", "stopped"} => b.uuid \in UUID
  BY <1>1, MainHead
<1>3. Sound(sm, now) /\ now \in Date /\ sm.reg \in Registries BY DEF Typed, Sound, Formed
<1> HIDE DEF b
<1>4. CASE handleIncomingSIPCall
  <2>1. /\ b.id \in CallId
        /\ \E u \in UUID : /\ sm' = BindInvite(sm, b.id, u, now)
                           /\ \/ u \in CallAwaitingInvite(sm.reg)
                              \/ CallAwaitingInvite(sm.reg) = {} /\ u \notin sm.reg.tracked
    BY <1>2, <1>4, FreshType, MayBind DEF handleIncomingSIPCall, HeadIs, Settle, b
  <2>2. PICK u \in UUID : /\ sm' = BindInvite(sm, b.id, u, now)
                          /\ \/ u \in CallAwaitingInvite(sm.reg)
                             \/ CallAwaitingInvite(sm.reg) = {} /\ u \notin sm.reg.tracked
    BY <2>1
  <2> QED BY <1>3, <2>1, <2>2, BindInviteMeets DEF LosesSlot
<1>5. CASE callConfirmed \/ callConnecting
  <2>1. b.uuid \in UUID /\ \E st \in {"connecting", "active"} : sm' = PublishState(sm, b.uuid, st)
    BY <1>2, <1>5 DEF callConfirmed, callConnecting, HeadIs, b
  <2> QED BY <1>3, <2>1, ReachedMeets
<1>6. CASE callDisconnected \/ callTerminated \/ incomingCallTimeout
  <2>1. b.uuid \in UUID /\ (sm' = sm \/ sm' = EndAndClear(sm, b.uuid))
    BY <1>2, <1>6 DEF callDisconnected, callTerminated, incomingCallTimeout, HeadIs, b
  <2> QED BY <1>3, <2>1, TidyMeets
<1>7. CASE attemptAccept \/ acceptTimedOut \/ answerCall \/ acceptFailed
  BY <1>7 DEF attemptAccept, acceptTimedOut, answerCall, acceptFailed
<1>8. CASE stopped
  <2>1. sm'.reg = sm.reg BY <1>3, <1>8, ResetSound DEF stopped, ReportStopped
  <2> QED BY <2>1
<1> QED BY <1>4, <1>5, <1>6, <1>7, <1>8 DEF MainQueue

LEMMA HostMeets ==
  ASSUME Typed, EndsRejected(sm.reg), Host
  PROVE  Meeting(sm.reg, sm'.reg)
<1>1. Sound(sm, now) /\ now \in Date /\ Announced \subseteq UUID
  BY LifecycleAssumption DEF Typed
<1>2. ASSUME NEW u \in UUID, prepareIncomingCall(u) PROVE Meeting(sm.reg, sm'.reg)
  <2>1. sm' = sm \/ sm' \in PrepareIncoming(sm, u, now)
    BY <1>2 DEF prepareIncomingCall, Settle
  <2> QED BY <1>1, <2>1, PrepareMeets DEF Meeting
<1>3. ASSUME NEW u \in UUID, handleCancelledIncomingCall(u) PROVE Meeting(sm.reg, sm'.reg)
  <2>1. sm' = sm \/ sm' = RetractCall(sm, u, now)
    BY <1>3 DEF handleCancelledIncomingCall, HandleCancelled, Settle
  <2> QED BY <1>1, <2>1, TidyMeets DEF Meeting
<1>4. ASSUME NEW arg \in UUID \cup {NoUUID}, terminateCall(arg) PROVE Meeting(sm.reg, sm'.reg)
  <2> DEFINE call   == ResolveCall(sm, arg)
             target == IF call # NoUUID THEN call ELSE arg
             marked == [sm EXCEPT !.reg = MarkCancelled(@, target, now)]
  <2>1. /\ target # NoUUID
        /\ \/ sm' = sm
           \/ marked # sm /\ sm' = DetachIfCurrent(PublishState(marked, target, "ended"), target)
           \/ sm' = ClearCall(sm, target)
    BY <1>4 DEF terminateCall
  <2>2. call \in UUID \cup {NoUUID} BY Lookups
  <2>3. target \in UUID BY <2>1, <2>2
  <2> HIDE DEF target
  <2> QED BY <1>1, <2>1, <2>3, TidyMeets DEF Meeting
<1>5. ASSUME NEW arg \in UUID \cup {NoUUID}, acceptCall(arg) PROVE Meeting(sm.reg, sm'.reg)
  <2>1. sm' = sm BY <1>5 DEF acceptCall
  <2> QED BY <2>1 DEF Meeting
<1> QED BY <1>1, <1>2, <1>3, <1>4, <1>5 DEF Host

LEMMA OthersMeet ==
  ASSUME Typed, EndsRejected(sm.reg),
         \/ SIPQueue \/ Peer \/ \E onMain \in BOOLEAN : stop(onMain)
         \/ \E b \in BagToSet(delayed) : Fires(b)
         \/ Pause \/ UNCHANGED vars
  PROVE  Meeting(sm.reg, sm'.reg)
<1>1. Sound(sm, now) /\ now \in Date /\ sm.reg \in Registries /\ TwoWayIndex(sm.reg) /\ now \in Nat
  BY DEF Typed, Sound, Formed, Date
<1>2. ASSUME NEW n \in Registries, n.tracked \subseteq sm.reg.tracked, n.call = sm.reg.call
      PROVE  Meeting(sm.reg, n)
  BY <1>2 DEF Meeting, EndsRejected, Missed, AwaitingInvite, Unannounced, Live
<1>3. CASE sm'.reg = sm.reg BY <1>3 DEF Meeting
<1>4. CASE SIPQueue
  <2>1. CASE sipStop
    <3>1. sm'.reg = RemoveAll(sm.reg) /\ Sound(sm', now) BY <1>1, <2>1, EmptiedSound DEF sipStop
    <3>2. sm'.reg \in Registries BY <3>1 DEF Sound, Formed
    <3>3. /\ RemoveAll(sm.reg).tracked \subseteq sm.reg.tracked
          /\ RemoveAll(sm.reg).call = sm.reg.call
      BY <1>1 DEF RemoveAll, Registries
    <3> QED BY <1>2, <3>1, <3>2, <3>3
  <2>2. CASE sipDestroy
    <3>1. sm' = ResetToIdle(sm) \/ sm' = sm BY <2>2 DEF sipDestroy, ReportStopped
    <3>2. ResetToIdle(sm).reg = sm.reg BY <1>1, ResetSound
    <3> QED BY <1>3, <3>1, <3>2
  <2>3. CASE sipEnd \/ sipEndThenClear \/ sipAnswer \/ \E i \in CallId : sipHangUp(i)
    BY <1>3, <2>3 DEF sipEnd, sipEndThenClear, sipAnswer, sipHangUp
  <2> QED BY <1>4, <2>1, <2>2, <2>3 DEF SIPQueue, StopOnQueue
<1>5. CASE Peer
  <2>1. ASSUME NEW i \in CallId, NEW u, onIncomingCall(i, u) PROVE Meeting(sm.reg, sm'.reg)
    <3>1. \E taken \in SUBSET Tombstones(sm.reg) :
            sm' = [sm EXCEPT !.reg = TakeCancelled(sm.reg, now, Window, taken)]
      <4>1. CallToRefuse(sm.reg, now, Window) \subseteq Tombstones(sm.reg) BY DEF CallToRefuse
      <4>2. \A taken : [sm EXCEPT !.reg = TakeCancelled(@, now, Window, taken)]
                         = [sm EXCEPT !.reg = TakeCancelled(sm.reg, now, Window, taken)]
        BY <1>1 DEF Sound, StateMachines
      <4>3. ASSUME NEW c \in CallToRefuse(sm.reg, now, Window),
                   sm' = [sm EXCEPT !.reg = TakeCancelled(@, now, Window, {c})]
            PROVE  \E taken \in SUBSET Tombstones(sm.reg) :
                     sm' = [sm EXCEPT !.reg = TakeCancelled(sm.reg, now, Window, taken)]
        <5>1. {c} \in SUBSET Tombstones(sm.reg) BY <4>1
        <5> QED BY <4>2, <4>3, <5>1
      <4>4. {} \in SUBSET Tombstones(sm.reg) OBVIOUS
      <4> QED BY <2>1, <4>3, <4>4 DEF onIncomingCall
    <3>2. PICK taken \in SUBSET Tombstones(sm.reg) :
            sm' = [sm EXCEPT !.reg = TakeCancelled(sm.reg, now, Window, taken)]
      BY <3>1
    <3> DEFINE n == TakeCancelled(sm.reg, now, Window, taken)
    <3>3. n \in Registries /\ n.tracked \subseteq sm.reg.tracked /\ n.call = sm.reg.call
      BY <1>1, TakeHow
    <3> HIDE DEF n
    <3>4. sm'.reg = n BY <1>1, <3>2 DEF Sound, StateMachines, n
    <3> QED BY <1>2, <3>3, <3>4
  <2> QED BY <1>3, <1>5, <2>1 DEF Peer, onCallConfirmed, onCallDisconnected, slotFreed
<1>6. CASE \/ \E onMain \in BOOLEAN : stop(onMain)
           \/ \E b \in BagToSet(delayed) : Fires(b)
           \/ Pause \/ UNCHANGED vars
  BY <1>3, <1>6 DEF stop, Fires, Pause, vars
<1> QED BY <1>4, <1>5, <1>6

(* A push and the INVITE of its call find each other, whichever comes      *)
(* first and whatever happens to the call in between: no step leaves a     *)
(* call that waits beside one that was made up for an INVITE, unless PJSUA *)
(* has used the slot of the one that waits again (CallWaveClient.m:2868,   *)
(* 3204, 3253).                                                            *)
THEOREM PushesMeetInvites == Spec => PushMeetsInvite
<1>1. Init => Typed /\ EndsRejected(sm.reg)
  <2> SUFFICES ASSUME Init PROVE Typed /\ EndsRejected(sm.reg) OBVIOUS
  <2>1. sm.reg.tracked = {} BY DEF Init, Idle, EmptyRegistry
  <2> QED BY <2>1, InitTyped DEF EndsRejected
<1>2. ASSUME Typed, EndsRejected(sm.reg), [Next]_vars
      PROVE  /\ EndsRejected(sm.reg)'
             /\ Missed(sm'.reg) => Missed(sm.reg) \/ \E u \in AwaitingInvite(sm'.reg) : LosesSlot(u)
  <2>1. CASE MainQueue BY <1>2, <2>1, MainMeets
  <2>2. CASE Host BY <1>2, <2>2, HostMeets DEF Meeting
  <2>3. CASE ~MainQueue /\ ~Host BY <1>2, <2>3, OthersMeet DEF Next, Meeting
  <2> QED BY <2>1, <2>2, <2>3
<1>3. Typed /\ [Next]_vars => Typed' BY NextTyped
<1>4. Typed /\ EndsRejected(sm.reg) /\ [Next]_vars =>
        /\ EndsRejected(sm.reg)'
        /\ [Missed(sm'.reg) => Missed(sm.reg) \/ \E u \in AwaitingInvite(sm'.reg) : LosesSlot(u)]_vars
  BY <1>2
<1> QED BY <1>1, <1>3, <1>4, PTL DEF Spec, PushMeetsInvite
-----------------------------------------------------------------------------
(* The client as the owner of CallKit.                                     *)
Report == [uuid : UUID, for : Reason]

MTyped == Typed /\ reports \in Seq(Report) /\ screens \subseteq UUID

(* The provider and its reports, with the client as the owner.             *)
LEMMA MTypedIsMTypeOK ==
  ASSUME MTyped
  PROVE  MTypeOK
  BY TypedIsTypeOK DEF MTyped, MTypeOK, Report

LEMMA TellTyped ==
  ASSUME MTyped, NEW u \in UUID, NEW for \in Reason, Tell(u, for)
  PROVE  reports' \in Seq(Report)
<1>1. [uuid |-> u, for |-> for] \in Report BY DEF Report
<1> QED BY <1>1 DEF MTyped, Tell

(* A finite set, listed: each of its members at one place.                 *)
LEMMA Listed ==
  ASSUME NEW S, IsFiniteSet(S)
  PROVE  SetToSeq(S) \in Seq(S)
<1>1. Cardinality(S) \in Nat BY FS_CardinalityType
<1>2. PICK f : f \in [1..Cardinality(S) -> S] /\ IsInjective(f)
  BY FS_CardinalityType DEF ExistsBijection, Bijection, Injection
<1>3. SetToSeq(S) \in [1..Cardinality(S) -> S] BY <1>2 DEF SetToSeq
<1> DEFINE n == Cardinality(S)
           g == SetToSeq(S)
<1>4. n \in Nat /\ g \in [1..n -> S] BY <1>1, <1>3
<1> HIDE DEF n, g
<1>5. g \in Seq(S) BY <1>4
<1> QED BY <1>5 DEF g

LEMMA TellEndedTyped ==
  ASSUME MTyped, TellEnded, NEW S \in SUBSET UUID, IsFiniteSet(S),
         \A v \in UUID \ S : ends'[v] = ends[v]
  PROVE  /\ reports' \in Seq(Report)
         /\ \E e \in Seq([uuid : S, for : {"ended"}]) : reports' = reports \o e
<1> DEFINE T == {u \in UUID : ends'[u] # ends[u]}
           g == SetToSeq(T)
           e == [k \in DOMAIN g |-> [uuid |-> g[k], for |-> "ended"]]
<1>1. T \subseteq S OBVIOUS
<1>2. IsFiniteSet(T) BY <1>1, FS_Subset
<1>3. reports' = reports \o e BY DEF TellEnded
<1> HIDE DEF T
<1>4. g \in Seq(T) BY <1>2, Listed
<1> HIDE DEF g
<1>5. PICK n \in Nat : g \in [1..n -> T] BY <1>4
<1>6. e \in [1..n -> [uuid : S, for : {"ended"}]] BY <1>1, <1>5
<1>7. e \in Seq([uuid : S, for : {"ended"}])
  <2> DEFINE R == [uuid : S, for : {"ended"}]
  <2>1. n \in Nat /\ e \in [1..n -> R] BY <1>5, <1>6
  <2> HIDE DEF e, R
  <2>2. e \in Seq(R) BY <2>1
  <2> QED BY <2>2 DEF R
<1>8. Seq([uuid : S, for : {"ended"}]) \subseteq Seq(Report)
  <2>1. [uuid : S, for : {"ended"}] \subseteq Report BY DEF Report, Reason
  <2> QED BY <2>1, WiderSequence
<1> HIDE DEF e
<1>9. reports' \in Seq(Report) BY <1>3, <1>7, <1>8, ConcatProperties DEF MTyped
<1> QED BY <1>3, <1>7, <1>9

(* Whose end a block reports.                                              *)
LEMMA EndsOfBlock ==
  ASSUME Typed, callDisconnected \/ incomingCallTimeout
  PROVE  \A v \in UUID \ {Head(mainQ).uuid} : ends'[v] = ends[v]
<1>1. mainQ # <<>> /\ Head(mainQ).op \in {"disconnected", "ringTimeout"}
  BY DEF callDisconnected, incomingCallTimeout, HeadIs
<1>2. Head(mainQ).uuid \in UUID BY <1>1, MainHead
<1>3. UNCHANGED ends \/ ReportCallEnded(Head(mainQ).uuid)
  BY DEF callDisconnected, incomingCallTimeout
<1> QED BY <1>2, <1>3, ReportTyped

LEMMA EndsOfStop ==
  ASSUME Typed, StopOnQueue
  PROVE  \/ UNCHANGED ends
         \/ /\ NextSIP("destroy") /\ Head(sipQ).calls \in SUBSET UUID /\ IsFiniteSet(Head(sipQ).calls)
            /\ sm'.reg = sm.reg
            /\ \A v \in UUID \ Head(sipQ).calls : ends'[v] = ends[v]
<1>1. CASE sipStop \/ \E i \in CallId : sipHangUp(i) BY <1>1 DEF sipStop, sipHangUp, history
<1>2. CASE sipDestroy
  <2>1. NextSIP("destroy") BY <1>2 DEF sipDestroy
  <2>2. Head(sipQ).calls \in SUBSET UUID /\ IsFiniteSet(Head(sipQ).calls)
    BY <2>1, SIPHead DEF NextSIP
  <2> QED BY <1>2, <2>1, <2>2, StoppedTyped DEF sipDestroy
<1> QED BY <1>1, <1>2 DEF StopOnQueue

LEMMA TellEndedBlockTyped ==
  ASSUME MTyped, TellEnded, callDisconnected \/ incomingCallTimeout \/ stopped \/ StopOnQueue
  PROVE  reports' \in Seq(Report)
<1>0. Typed BY DEF MTyped
<1>1. CASE callDisconnected \/ incomingCallTimeout
  <2>1. mainQ # <<>> /\ Head(mainQ).op \in {"disconnected", "ringTimeout"}
    BY <1>1 DEF callDisconnected, incomingCallTimeout, HeadIs
  <2>2. {Head(mainQ).uuid} \in SUBSET UUID BY <1>0, <2>1, MainHead
  <2>3. IsFiniteSet({Head(mainQ).uuid}) BY FS_Singleton
  <2> QED BY <1>0, <1>1, <2>2, <2>3, EndsOfBlock, TellEndedTyped
<1>2. CASE stopped
  <2>1. mainQ # <<>> /\ Head(mainQ).op = "stopped" /\ ReportStopped(Head(mainQ).calls)
    BY <1>2 DEF stopped, HeadIs
  <2>2. Head(mainQ).calls \in SUBSET UUID /\ IsFiniteSet(Head(mainQ).calls)
    BY <1>0, <2>1, MainHead
  <2> QED BY <1>0, <2>1, <2>2, StoppedTyped, TellEndedTyped
<1>3. CASE StopOnQueue
  <2>1. CASE UNCHANGED ends
    <3>1. \A v \in UUID \ {} : ends'[v] = ends[v] BY <2>1
    <3>2. IsFiniteSet({}) BY FS_EmptySet
    <3> QED BY <3>1, <3>2, TellEndedTyped
  <2> QED BY <1>0, <1>3, <2>1, EndsOfStop, TellEndedTyped
<1> QED BY <1>1, <1>2, <1>3
-----------------------------------------------------------------------------
(* A call is announced, unless it was rejected or announced before.        *)
LEMMA ReportIncomingHow ==
  ASSUME MTyped, NEW u \in UUID, NEW id \in CallId \cup {InvalidId}, id = InvalidId \/ ~Known(u),
         ReportIncoming(u, id)
  PROVE  /\ now' \in Date /\ now <= now' /\ Sound(sm', now') /\ Only(sm.reg, sm'.reg, u)
         /\ sipQ' = sipQ \/ (PerformSIPAsync("end", u, id) /\ id \in CallId)
         /\ \/ sm'.reg = sm.reg /\ reports' = reports
            \/ RingsFresh(sm'.reg, u) /\ Tell(u, "incoming")
<1> DEFINE k == Register(sm.reg, u, now)
           b == Bind(k, id, u, now)
           known == [sm EXCEPT !.reg = k]
           bound == [known EXCEPT !.reg = b]
           adopted == AdoptCurrentCall(bound, u)
           r == SetReported(b, u)
           shown == [adopted EXCEPT !.reg = r]
           p == PublishState(shown, u, "incoming")
<1>1. /\ Typed /\ sm \in StateMachines /\ Formed(sm.reg, now) /\ sm.reg \in Registries
      /\ now \in Date /\ now \in Nat /\ now <= now /\ Sound(sm, now)
  BY DEF MTyped, Typed, Sound, Formed, Date
<1>2. Registered(u) = known /\ known.reg = k BY <1>1 DEF Registered, StateMachines
<1>3. Formed(k, now) /\ Only(sm.reg, k, u) /\ k.tracked = sm.reg.tracked \cup {u} /\ k \in Registries
      /\ Register(k, u, now) = k
  <2>1. Formed(k, now) /\ Only(sm.reg, k, u) /\ k.tracked = sm.reg.tracked \cup {u}
    BY <1>1, RegisterFormed, OnlyOne, RegisterHow
  <2> HIDE DEF k
  <2>2. Register(k, u, now) = k BY <2>1 DEF Register
  <2> QED BY <2>1, <2>2 DEF Formed
<1>4. [known EXCEPT !.reg = Bind(@, id, u, now)] = bound BY <1>1 DEF StateMachines
<1>5. [adopted EXCEPT !.reg = SetReported(@, u)] = shown
  BY <1>1 DEF StateMachines, AdoptCurrentCall
<1>6. \/ /\ UNCHANGED <<sm, now, reports>>
         /\ UNCHANGED sipQ \/ (id # InvalidId /\ PerformSIPAsync("end", u, id))
      \/ k.call[u].cancelledAt = 0 /\ k.call[u].reported /\ UNCHANGED <<sipQ, reports>> /\ Settle(adopted)
      \/ k.call[u].cancelledAt = 0 /\ UNCHANGED sipQ /\ Settle(p) /\ Tell(u, "incoming")
  <2>1. /\ AdoptCurrentCall(bound, u) = adopted /\ PublishState(shown, u, "incoming") = p
        /\ known.reg = k
    BY <1>2
  <2> HIDE DEF k, known, bound, adopted, shown, p
  <2>2. LET call == known.reg.call[u]
        IN  IF call.cancelledAt # 0
            THEN /\ UNCHANGED <<sm, now, reports>>
                 /\ IF id = InvalidId THEN UNCHANGED sipQ ELSE PerformSIPAsync("end", u, id)
            ELSE /\ UNCHANGED sipQ
                 /\ IF call.reported THEN Settle(adopted) /\ UNCHANGED reports
                    ELSE Settle(p) /\ Tell(u, "incoming")
    BY <1>2, <1>4, <1>5, <2>1 DEF ReportIncoming
  <2> QED BY <2>1, <2>2
<1>7. Known(u) \/ ~k.call[u].reported BY <1>1, MayBind
<1>8. id # InvalidId => id \in CallId OBVIOUS
<1>9. k.call[u].cancelledAt = 0 => Formed(b, now) /\ Only(k, b, u) /\ b.tracked = k.tracked
                                   /\ b.call[u].cancelledAt = 0 /\ b \in Registries
  <2> HIDE DEF k
  <2>1. CASE id = InvalidId
    <3>1. b = k BY <2>1 DEF Bind
    <3> HIDE DEF b
    <3> QED BY <1>1, <1>3, <3>1, OnlyOne
  <2>2. CASE id \in CallId
    <3> SUFFICES ASSUME k.call[u].cancelledAt = 0
                 PROVE  Formed(b, now) /\ Only(k, b, u) /\ b.tracked = k.tracked
                        /\ b.call[u].cancelledAt = 0 /\ b \in Registries
      OBVIOUS
    <3>1. Formed(b, now) /\ Only(k, b, u) BY <1>1, <1>3, <2>2, BindFormed, OnlyOne
    <3>2. b.tracked = k.tracked \cup {u} /\ b.call[u].cancelledAt = 0
      BY <1>1, <1>3, <2>2, BindHow
    <3> HIDE DEF b
    <3> QED BY <1>3, <3>1, <3>2 DEF Formed
  <2> QED BY <2>1, <2>2
<1>10. Sound(known, now) BY <1>1, <1>3, WithRegistry
<1> USE <1>1
<1>11. CASE /\ UNCHANGED <<sm, now, reports>>
            /\ UNCHANGED sipQ \/ (id # InvalidId /\ PerformSIPAsync("end", u, id))
  <2>1. Only(sm.reg, sm.reg, u) BY OnlyOne
  <2>2. sipQ' = sipQ \/ (PerformSIPAsync("end", u, id) /\ id \in CallId) BY <1>8, <1>11
  <2>3. sm' = sm /\ now' = now /\ reports' = reports BY <1>11
  <2> QED BY <2>1, <2>2, <2>3
<1>12. CASE k.call[u].cancelledAt = 0 /\ k.call[u].reported /\ UNCHANGED <<sipQ, reports>> /\ Settle(adopted)
  <2>1. id = InvalidId /\ u \in sm.reg.tracked
    <3>1. Known(u) BY <1>7, <1>12
    <3>2. id = InvalidId BY <3>1
    <3>3. u \notin sm.reg.tracked => k.call[u] = NewCall(now) BY RegisterHow
    <3> QED BY <1>12, <3>2, <3>3 DEF NewCall
  <2>2. k = sm.reg BY <2>1 DEF Register
  <2>3. b = sm.reg BY <2>1, <2>2 DEF Bind
  <2> HIDE DEF k, b
  <2>4. Sound(bound, now) /\ bound.reg = sm.reg
    <3> HIDE DEF known
    <3>1. Formed(b, now) BY <2>3
    <3> QED BY <1>10, <2>3, <3>1, WithRegistry
  <2> HIDE DEF bound
  <2>5. Sound(adopted, now) /\ adopted.reg = sm.reg BY <2>4, AdoptSound
  <2> HIDE DEF adopted
  <2>6. now' \in Date /\ now <= now' /\ sm' = adopted /\ Sound(sm', now') BY <1>12, <2>5, SettleTyped
  <2>7. Only(sm.reg, sm.reg, u) BY OnlyOne
  <2>8. sm'.reg = sm.reg /\ reports' = reports /\ sipQ' = sipQ BY <1>12, <2>5, <2>6
  <2> QED BY <2>6, <2>7, <2>8
<1>13. CASE k.call[u].cancelledAt = 0 /\ UNCHANGED sipQ /\ Settle(p) /\ Tell(u, "incoming")
  <2>1. Formed(b, now) /\ Only(k, b, u) /\ b.tracked = k.tracked /\ b.call[u].cancelledAt = 0
        /\ b \in Registries
    BY <1>9, <1>13
  <2> HIDE DEF k, b, known
  <2>2. Formed(r, now) /\ Only(b, r, u) BY <2>1, SetReportedFormed, OnlyOne
  <2>3. r \in Registries /\ r.tracked = b.tracked /\ r.call[u].cancelledAt = 0
    BY <2>1, SetReportedHow
  <2>4. Sound(bound, now) BY <1>10, <2>1, WithRegistry
  <2> HIDE DEF bound, r
  <2>5. Sound(adopted, now) BY <2>4, AdoptSound
  <2> HIDE DEF adopted
  <2>6. Sound(shown, now) /\ shown.reg = r BY <2>2, <2>5, WithRegistry
  <2> HIDE DEF shown
  <2>7. "incoming" \in CallState BY DEF CallState
  <2>8. Sound(p, now) /\ p.reg = SetState(r, u, "incoming") /\ Only(r, p.reg, u)
    BY <1>3, <2>1, <2>3, <2>6, <2>7, PublishSound
  <2> HIDE DEF p
  <2>9. RingsFresh(p.reg, u) BY <1>3, <2>1, <2>3, <2>7, <2>8, SetStateHow DEF RingsFresh, Wanted
  <2>10. Only(sm.reg, p.reg, u) BY <1>3, <2>1, <2>2, <2>8, OnlyTransitive
  <2>11. now' \in Date /\ now <= now' /\ sm' = p /\ Sound(sm', now') BY <1>13, <2>8, SettleTyped
  <2>12. sipQ' = sipQ /\ Tell(u, "incoming") BY <1>13
  <2>13. Only(sm.reg, sm'.reg, u) /\ RingsFresh(sm'.reg, u) BY <2>9, <2>10, <2>11
  <2> QED BY <2>11, <2>12, <2>13
<1> QED BY <1>6, <1>11, <1>12, <1>13
-----------------------------------------------------------------------------
(* The variables of the SIP side that an action of CallKit leaves alone.   *)
LEMMA AnnounceTyped ==
  ASSUME MTyped, NEW u \in UUID,
         reportIncomingCall(u) \/ handleVoIPPush(u) \/ handleCancellationPush(u)
  PROVE  MTyped'
<1>1. /\ UNCHANGED <<mainQ, delayed, dialog, history, screens>> /\ \E kind : Spend(kind)
      /\ \/ ReportIncoming(u, InvalidId)
         \/ /\ Tell(u, "cancelled") \/ Tell(u, "duplicate")
            /\ UNCHANGED <<sm, now, sipQ>>
  BY DEF reportIncomingCall, handleVoIPPush, handleCancellationPush
<1>2. now' \in Date /\ Sound(sm', now') /\ sipQ' \in Seq(QueuedBlock) /\ reports' \in Seq(Report)
  <2>1. CASE ReportIncoming(u, InvalidId)
    <3>1. /\ now' \in Date /\ Sound(sm', now')
          /\ sipQ' = sipQ \/ (PerformSIPAsync("end", u, InvalidId) /\ InvalidId \in CallId)
          /\ reports' = reports \/ Tell(u, "incoming")
      BY <2>1, ReportIncomingHow
    <3>2. sipQ' = sipQ BY <3>1, RegistryAssumption
    <3> QED BY <3>1, <3>2, TellTyped DEF MTyped, Typed, Reason
  <2>2. CASE (Tell(u, "cancelled") \/ Tell(u, "duplicate")) /\ UNCHANGED <<sm, now, sipQ>>
    BY <2>2, TellTyped DEF MTyped, Typed, Reason
  <2> QED BY <1>1, <2>1, <2>2
<1> QED BY <1>1, <1>2, SpendTyped DEF MTyped, Typed, history, inviteHistory

LEMMA ManagedInviteTyped ==
  ASSUME MTyped, managedIncomingSIPCall
  PROVE  MTyped'
<1> DEFINE id == Head(mainQ).id
<1>0. Typed BY DEF MTyped
<1>1. mainQ # <<>> /\ Head(mainQ).op = "invite" /\ mainQ' = Tail(mainQ)
      /\ UNCHANGED <<delayed, dialog, bounds, history, screens>>
  BY DEF managedIncomingSIPCall, HeadIs, Done
<1>2. id \in CallId /\ mainQ' \in Seq(MainBlock) BY <1>0, <1>1, MainHead
<1>3. now' \in Date /\ Sound(sm', now') /\ sipQ' \in Seq(QueuedBlock) /\ reports' \in Seq(Report)
  <2>1. ASSUME NEW u \in CallAwaitingInvite(sm.reg), Settle(BindInvite(sm, id, u, now)),
               UNCHANGED <<sipQ, reports>>
        PROVE  now' \in Date /\ Sound(sm', now') /\ sipQ' \in Seq(QueuedBlock) /\ reports' \in Seq(Report)
    <3>1. Sound(BindInvite(sm, id, u, now), now) BY <1>0, <1>2, MayBind, BindInviteSound DEF Typed
    <3> QED BY <1>0, <2>1, <3>1, SettleTyped DEF MTyped, Typed
  <2>2. ASSUME NEW u \in UUID, ~Known(u), ReportIncoming(u, id)
        PROVE  now' \in Date /\ Sound(sm', now') /\ sipQ' \in Seq(QueuedBlock) /\ reports' \in Seq(Report)
    <3>1. /\ now' \in Date /\ Sound(sm', now')
          /\ sipQ' = sipQ \/ (PerformSIPAsync("end", u, id) /\ id \in CallId)
          /\ reports' = reports \/ Tell(u, "incoming")
      BY <1>2, <2>2, ReportIncomingHow
    <3>2. sipQ' \in Seq(QueuedBlock) BY <1>0, <3>1, PerformTyped DEF Typed, SIPOp
    <3> QED BY <3>1, <3>2, TellTyped DEF MTyped, Reason
  <2> QED BY <1>0, <2>1, <2>2, FreshType DEF managedIncomingSIPCall
<1> QED BY <1>1, <1>2, <1>3 DEF MTyped, Typed, bounds, history, inviteHistory

(* CallKit took the record, and the dialog if there was one.               *)
LEMMA RefusedHow ==
  ASSUME MTyped, NEW u \in UUID, CallRefused(u)
  PROVE  /\ Sound(sm', now) /\ Only(sm.reg, sm'.reg, u) /\ Gone(sm'.reg, u)
         /\ \/ sipQ' = sipQ
            \/ \E i \in CallId : PerformSIPAsync("end", u, i)
<1> DEFINE r == RemoveUUID(sm.reg, u)
           s == [sm EXCEPT !.reg = r]
           p == PublishState(s, u, "ended")
<1>1. /\ sm \in StateMachines /\ Formed(sm.reg, now) /\ sm.reg \in Registries
      /\ now \in Date /\ Sound(sm, now)
  BY DEF MTyped, Typed, Sound, Formed
<1>2. sm' = p BY <1>1 DEF CallRefused, StateMachines
<1>3. Formed(r, now) /\ Only(sm.reg, r, u) /\ u \notin r.tracked
  BY <1>1, RemoveFormed, OnlyOne, RemoveHow
<1> HIDE DEF r
<1>4. Sound(s, now) /\ s.reg = r BY <1>1, <1>3, WithRegistry
<1> HIDE DEF s
<1>5. "ended" \in CallState BY DEF CallState
<1>6. Sound(p, now) /\ p.reg = r BY <1>1, <1>3, <1>4, <1>5, PublishSound
<1>7. \/ sipQ' = sipQ
      \/ \E i \in CallId : PerformSIPAsync("end", u, i)
  <2>1. sm.reg.call[u].callId \in CallId \cup {InvalidId} BY <1>1 DEF Registries, Call
  <2> QED BY <2>1 DEF CallRefused
<1> QED BY <1>2, <1>3, <1>6, <1>7 DEF Gone

LEMMA CallKitTyped ==
  ASSUME MTyped, CallKit
  PROVE  MTyped'
<1> DEFINE h == Head(reports)
<1>1. reports # <<>> /\ reports' = Tail(reports)
  BY DEF CallKit, callKitAccepts, callKitRefuses, callKitDismisses, Processes
<1>2. h \in Report /\ reports' \in Seq(Report) BY <1>1 DEF MTyped
<1>3. h.uuid \in UUID /\ Typed /\ screens \subseteq UUID BY <1>2 DEF Report, MTyped
<1>4. ASSUME AfterReport(h) PROVE mainQ' \in Seq(MainBlock)
  <2>1. Run("cancelReported", h.uuid, InvalidId) \in MainBlock BY <1>3, Blocks DEF Op
  <2> QED BY <1>3, <1>4, <2>1 DEF AfterReport, Typed
<1> HIDE DEF h
<1>5. CASE callKitAccepts
  <2>1. /\ screens' = screens \cup {h.uuid} /\ AfterReport(h)
        /\ ScheduleRingTimeout(h.uuid) \/ UNCHANGED delayed
        /\ UNCHANGED <<sm, now, sipQ, dialog, bounds, history>>
    BY <1>5 DEF callKitAccepts, h
  <2>2. Timed(delayed') BY <1>3, <2>1, RingTimeoutTyped DEF Typed
  <2> QED BY <1>2, <1>3, <1>4, <2>1, <2>2 DEF MTyped, Typed, bounds, history, inviteHistory
<1>6. CASE callKitRefuses
  <2>1. /\ AfterReport(h)
        /\ CallRefused(h.uuid) \/ UNCHANGED <<sm, sipQ>>
        /\ UNCHANGED <<now, delayed, dialog, bounds, history, screens>>
    BY <1>6 DEF callKitRefuses, h
  <2>2. Sound(sm', now) /\ sipQ' \in Seq(QueuedBlock)
    BY <1>3, <2>1, RefusedHow, PerformTyped DEF Typed, SIPOp
  <2> QED BY <1>2, <1>3, <1>4, <2>1, <2>2 DEF MTyped, Typed, bounds, history, inviteHistory
<1>7. CASE callKitDismisses
  <2>1. screens' = screens \ {h.uuid} /\ UNCHANGED vars BY <1>7 DEF callKitDismisses, h
  <2>2. Typed' BY <1>3, <2>1, StutterTyped
  <2> QED BY <1>2, <1>3, <2>1, <2>2 DEF MTyped
<1> QED BY <1>5, <1>6, <1>7 DEF CallKit

LEMMA ManagedBlockTyped ==
  ASSUME MTyped, cancelReported \/ performAnswer \/ answeringFailed \/ performEnd
  PROVE  MTyped'
<1> DEFINE u == Head(mainQ).uuid
           id == IdOf(sm.reg, u)
<1>0. Typed /\ reports \in Seq(Report) /\ screens \subseteq UUID BY DEF MTyped
<1>1. mainQ # <<>> /\ mainQ' = Tail(mainQ) /\ screens' = screens
      /\ Head(mainQ).op \in {"cancelReported", "answerAction", "acceptFailed", "endAction"}
  BY DEF cancelReported, performAnswer, answeringFailed, performEnd, HeadIs, Done, callKit
<1>2. u \in UUID /\ mainQ' \in Seq(MainBlock) BY <1>0, <1>1, MainHead
<1> HIDE DEF u
<1>3. Tell(u, "ended") => reports' \in Seq(Report) BY <1>2, TellTyped DEF Reason
<1>4. Sound(EndAndClear(sm, u), now) BY <1>0, <1>2, EndAndClearSound DEF Typed
<1>5. CASE cancelReported
  <2>1. /\ HandleCancelled(u) /\ Tell(u, "ended")
        /\ UNCHANGED <<delayed, dialog, bounds, accepted, inviteHistory>>
    BY <1>5 DEF cancelReported, u
  <2> QED BY <1>0, <1>1, <1>2, <1>3, <2>1, HandleTyped DEF MTyped, Typed, bounds, inviteHistory
<1>6. CASE performAnswer
  <2>1. /\ AttemptAccept(u) /\ reports' = reports
        /\ UNCHANGED <<sm, now, sipQ, dialog, bounds, rejectedAt, ends, inviteHistory>>
    BY <1>6 DEF performAnswer, callKit, u
  <2> QED BY <1>0, <1>1, <1>2, <2>1, AttemptTyped DEF MTyped, Typed, bounds, inviteHistory
<1>7. CASE answeringFailed
  <2>1. /\ sm' = EndAndClear(sm, u) /\ ReportCallEnded(u) /\ Tell(u, "ended")
        /\ UNCHANGED <<now, sipQ, delayed, dialog, bounds, accepted, rejectedAt, inviteHistory>>
    BY <1>7 DEF answeringFailed, u
  <2>2. ends' \in [UUID -> Nat] BY <1>0, <1>2, <2>1, ReportTyped
  <2> QED BY <1>0, <1>1, <1>2, <1>3, <1>4, <2>1, <2>2 DEF MTyped, Typed, bounds, inviteHistory
<1>8. CASE performEnd
  <2>1. /\ sm' = EndAndClear(sm, u) /\ Tell(u, "ended")
        /\ IF id = InvalidId THEN UNCHANGED sipQ ELSE PerformSIPAsync("end", u, id)
        /\ rejectedAt' = rejectedAt \/ rejectedAt' = [rejectedAt EXCEPT ![u] = now]
        /\ UNCHANGED <<now, delayed, dialog, bounds, accepted, ends, inviteHistory>>
    BY <1>8 DEF performEnd, u
  <2>2. id \in CallId \cup {InvalidId} BY <1>0, <1>2, Lookups
  <2> HIDE DEF id
  <2>3. sipQ' \in Seq(QueuedBlock) BY <1>0, <1>2, <2>1, <2>2, PerformTyped DEF Typed, SIPOp
  <2>4. rejectedAt' \in [UUID -> Nat] BY <1>0, <2>1 DEF Typed, Date
  <2> QED BY <1>0, <1>1, <1>2, <1>3, <1>4, <2>1, <2>3, <2>4 DEF MTyped, Typed, bounds, inviteHistory
<1> QED BY <1>5, <1>6, <1>7, <1>8

LEMMA TapTyped ==
  ASSUME MTyped, Tap("answerAction", "accept") \/ Tap("endAction", "end")
  PROVE  MTyped'
<1>1. PICK op \in {"answerAction", "endAction"}, kind \in {"accept", "end"}, u \in screens :
        /\ Spend(kind)
        /\ mainQ' = Append(mainQ, Run(op, u, InvalidId))
        /\ UNCHANGED <<sm, now, sipQ, delayed, dialog, history, callKit>>
  BY DEF Tap
<1>2. Typed /\ u \in UUID BY DEF MTyped
<1>3. Run(op, u, InvalidId) \in MainBlock BY <1>2, Blocks DEF Op
<1>4. mainQ' \in Seq(MainBlock) BY <1>1, <1>2, <1>3 DEF Typed
<1> QED BY <1>1, <1>2, <1>4, SpendTyped DEF MTyped, Typed, history, inviteHistory, callKit

(* A provider reset: the turns it puts on sipQueue end calls, no more.     *)
LEMMA ResetHow ==
  ASSUME MTyped, providerDidReset
  PROVE  /\ Sound(sm', now) /\ sm'.reg = RemoveAll(sm.reg) /\ screens' = {}
         /\ \E e \in Seq(SIPBlock) : sipQ' = sipQ \o e
<1> DEFINE bound == {u \in sm.reg.tracked : sm.reg.call[u].callId # InvalidId}
           order == SetToSeq(bound)
           e == [k \in DOMAIN order |-> Run("end", order[k], sm.reg.call[order[k]].callId)]
           s == [sm EXCEPT !.reg = RemoveAll(@)]
<1>1. Sound(sm, now) /\ now \in Date /\ sm.reg \in Registries /\ IsFiniteSet(sm.reg.tracked)
  BY DEF MTyped, Typed, Sound, Formed
<1>2. sipQ' = sipQ \o e /\ sm' = ResetToIdle(s) /\ screens' = {} BY DEF providerDidReset
<1>3. Sound(s, now) /\ s.reg = RemoveAll(sm.reg) BY <1>1, EmptiedSound
<1> HIDE DEF s
<1>4. Sound(sm', now) /\ sm'.reg = RemoveAll(sm.reg) BY <1>1, <1>2, <1>3, ResetSound
<1>5. IsFiniteSet(bound) BY <1>1, FS_Subset
<1>6. \A u \in bound : Run("end", u, sm.reg.call[u].callId) \in SIPBlock
  BY <1>1 DEF Registries, Call, Run, SIPBlock, SIPOp
<1> HIDE DEF bound
<1>7. order \in Seq(bound) BY <1>5, Listed
<1> HIDE DEF order
<1>8. PICK n \in Nat : order \in [1..n -> bound] BY <1>7
<1>9. n \in Nat /\ e \in [1..n -> SIPBlock] BY <1>6, <1>8
<1> HIDE DEF e
<1>10. e \in Seq(SIPBlock) BY <1>9
<1> QED BY <1>2, <1>4, <1>10

LEMMA ResetTyped ==
  ASSUME MTyped, providerDidReset
  PROVE  MTyped'
<1>1. PICK e \in Seq(SIPBlock) : sipQ' = sipQ \o e BY ResetHow
<1>2. SIPBlock \subseteq QueuedBlock BY DEF QueuedBlock
<1>3. e \in Seq(QueuedBlock) BY <1>1, <1>2, WiderSequence
<1>4. sipQ' \in Seq(QueuedBlock) BY <1>1, <1>3, ConcatProperties DEF MTyped, Typed
<1>5. Spend("reset") /\ UNCHANGED <<now, mainQ, delayed, dialog, history, reports>>
  BY DEF providerDidReset
<1> QED BY <1>4, <1>5, ResetHow, SpendTyped DEF MTyped, Typed, history, inviteHistory

LEMMA MInitTyped ==
  ASSUME MInit
  PROVE  MTyped
<1>1. Typed BY InitTyped DEF MInit
<1>2. reports \in Seq(Report) /\ screens \subseteq UUID BY DEF MInit
<1> QED BY <1>1, <1>2 DEF MTyped

LEMMA MNextTyped ==
  ASSUME MTyped, [MNext]_mvars
  PROVE  MTyped'
<1>0. Typed BY DEF MTyped
<1>1. ASSUME Typed', UNCHANGED callKit PROVE MTyped' BY <1>1 DEF MTyped, callKit
<1>2. CASE ManagedMainQueue
  <2>1. CASE managedIncomingSIPCall BY <2>1, ManagedInviteTyped
  <2>2. CASE (callDisconnected \/ incomingCallTimeout \/ stopped) /\ TellEnded /\ UNCHANGED screens
    <3>1. Typed' BY <1>0, <2>2, BlockTyped DEF SharedBlock
    <3>2. reports' \in Seq(Report) BY <2>2, TellEndedBlockTyped
    <3> QED BY <2>2, <3>1, <3>2 DEF MTyped
  <2>3. CASE /\ callConfirmed \/ callConnecting \/ attemptAccept \/ acceptTimedOut \/ answerCall
             /\ UNCHANGED callKit
    <3>1. Typed' BY <1>0, <2>3, BlockTyped DEF SharedBlock
    <3> QED BY <1>1, <2>3, <3>1
  <2>4. CASE cancelReported \/ performAnswer \/ answeringFailed \/ performEnd
    BY <2>4, ManagedBlockTyped
  <2> QED BY <1>2, <2>1, <2>2, <2>3, <2>4 DEF ManagedMainQueue
<1>3. CASE ManagedSIPQueue
  <2>1. CASE (sipEnd \/ sipAnswer) /\ UNCHANGED callKit
    BY <1>0, <1>1, <2>1, SIPQueueTyped
  <2>2. CASE StopOnQueue /\ TellEnded /\ UNCHANGED screens
    <3>1. Typed' BY <1>0, <2>2, StopOnQueueTyped
    <3>2. reports' \in Seq(Report) BY <2>2, TellEndedBlockTyped
    <3> QED BY <2>2, <3>1, <3>2 DEF MTyped
  <2> QED BY <1>3, <2>1, <2>2 DEF ManagedSIPQueue
<1>4. CASE CallKit BY <1>4, CallKitTyped
<1>5. ASSUME NEW u \in Announced,
             reportIncomingCall(u) \/ handleVoIPPush(u) \/ handleCancellationPush(u)
      PROVE  MTyped'
  <2>1. u \in UUID BY LifecycleAssumption
  <2> QED BY <1>5, <2>1, AnnounceTyped
<1>6. CASE Tap("answerAction", "accept") \/ Tap("endAction", "end") BY <1>6, TapTyped
<1>7. CASE providerDidReset BY <1>7, ResetTyped
<1>8. ASSUME NEW onMain \in BOOLEAN, stop(onMain), UNCHANGED callKit PROVE MTyped'
  BY <1>0, <1>1, <1>8, StopTyped
<1>9. CASE (Peer \/ Pause \/ \E b \in BagToSet(delayed) : Fires(b)) /\ UNCHANGED callKit
  BY <1>0, <1>1, <1>9, PeerTyped, TimeTyped
<1>10. CASE UNCHANGED mvars
  BY <1>0, <1>1, <1>10, StutterTyped DEF mvars, callKit
<1> QED BY <1>2, <1>3, <1>4, <1>5, <1>6, <1>7, <1>8, <1>9, <1>10 DEF MNext

(* Every behaviour keeps every variable in its type, with the client as    *)
(* the owner of CallKit.  That the provider is told of finitely many calls *)
(* needs the registry to be finite: stop() reports what was in it.         *)
THEOREM ManagedTypeCorrect == MSpec => []MTypeOK
<1>1. MInit => MTyped BY MInitTyped
<1>2. MTyped /\ [MNext]_mvars => MTyped' BY MNextTyped
<1>3. MTyped => MTypeOK BY MTypedIsMTypeOK
<1> QED BY <1>1, <1>2, <1>3, PTL DEF MSpec
-----------------------------------------------------------------------------
(* A call shows, or will once CallKit has processed what it was told: it   *)
(* is on a screen nothing pending dismisses, or its announcement is on the *)
(* way with no end behind it.                                              *)
Ending(r, u) == r.for = "ended" /\ r.uuid = u
Announcing(r, u) == r.for = "incoming" /\ r.uuid = u

Shows(q, s, u) ==
  \/ u \in s /\ \A k \in 1..Len(q) : ~Ending(q[k], u)
  \/ \E k \in 1..Len(q) : /\ Announcing(q[k], u)
                          /\ \A j \in 1..Len(q) : k < j => ~Ending(q[j], u)

LEMMA ShowsMore ==
  ASSUME NEW q \in Seq(Report), NEW e \in Seq(Report), NEW s, NEW u, Shows(q, s, u),
         \A k \in 1..Len(e) : ~Ending(e[k], u)
  PROVE  Shows(q \o e, s, u)
<1> DEFINE n == q \o e
<1>1. /\ Len(q) \in Nat /\ Len(e) \in Nat /\ Len(n) = Len(q) + Len(e)
      /\ \A k \in 1..Len(q) + Len(e) : n[k] = IF k <= Len(q) THEN q[k] ELSE e[k - Len(q)]
  BY ConcatProperties
<1> HIDE DEF n
<1>2. \A k \in 1..Len(n) : k <= Len(q) \/ ~Ending(n[k], u)
  <2>1. ASSUME NEW k \in 1..Len(n), ~(k <= Len(q)) PROVE ~Ending(n[k], u)
    <3>1. k - Len(q) \in 1..Len(e) /\ n[k] = e[k - Len(q)] BY <1>1, <2>1
    <3> QED BY <3>1
  <2> QED BY <2>1
<1>3. \A k \in 1..Len(q) : k \in 1..Len(n) /\ n[k] = q[k] BY <1>1
<1>4. CASE u \in s /\ \A k \in 1..Len(q) : ~Ending(q[k], u)
  <2>1. \A k \in 1..Len(n) : ~Ending(n[k], u) BY <1>1, <1>2, <1>3, <1>4
  <2> QED BY <1>4, <2>1 DEF Shows, n
<1>5. ASSUME NEW k \in 1..Len(q), Announcing(q[k], u),
             \A j \in 1..Len(q) : k < j => ~Ending(q[j], u)
      PROVE  Shows(n, s, u)
  <2>1. \A j \in 1..Len(n) : k < j => ~Ending(n[j], u) BY <1>1, <1>2, <1>3, <1>5
  <2>2. k \in 1..Len(n) /\ Announcing(n[k], u) BY <1>3, <1>5
  <2> QED BY <2>1, <2>2 DEF Shows
<1> QED BY <1>4, <1>5 DEF Shows, n

LEMMA ShowsAnnounced ==
  ASSUME NEW q \in Seq(Report), NEW s, NEW u \in UUID
  PROVE  Shows(Append(q, [uuid |-> u, for |-> "incoming"]), s, u)
<1> DEFINE n == Append(q, [uuid |-> u, for |-> "incoming"])
<1>1. Len(n) = Len(q) + 1 /\ Len(q) \in Nat /\ n[Len(n)] = [uuid |-> u, for |-> "incoming"]
  OBVIOUS
<1> HIDE DEF n
<1>2. Len(n) \in 1..Len(n) /\ Announcing(n[Len(n)], u) BY <1>1 DEF Announcing
<1>3. \A j \in 1..Len(n) : ~(Len(n) < j) BY <1>1
<1>4. Shows(n, s, u) BY <1>2, <1>3 DEF Shows
<1> QED BY <1>4 DEF n

LEMMA Shorter ==
  ASSUME NEW q \in Seq(Report), q # <<>>
  PROVE  /\ Len(q) \in Nat /\ Len(q) >= 1 /\ Head(q) = q[1] /\ Len(Tail(q)) = Len(q) - 1
         /\ \A k \in 1..Len(Tail(q)) : Tail(q)[k] = q[k + 1]
  OBVIOUS

(* CallKit takes what is next: it shows the call, it turns it away, or it  *)
(* dismisses the call that is over.                                        *)
LEMMA ShowsNext ==
  ASSUME NEW q \in Seq(Report), q # <<>>, NEW s, NEW n, NEW u, Shows(q, s, u),
         \/ n = s \cup {Head(q).uuid} /\ Head(q).for # "ended"
         \/ n = s /\ Head(q).for # "ended" /\ ~Announcing(Head(q), u)
         \/ n = s \ {Head(q).uuid} /\ Head(q).for = "ended"
  PROVE  Shows(Tail(q), n, u)
<1> DEFINE t == Tail(q)
<1>1. /\ Len(q) \in Nat /\ Len(q) >= 1 /\ Head(q) = q[1] /\ Len(t) = Len(q) - 1
      /\ \A k \in 1..Len(t) : t[k] = q[k + 1]
  BY Shorter
<1> HIDE DEF t
<1>2. \A k \in 1..Len(t) : k + 1 \in 1..Len(q) /\ t[k] = q[k + 1] BY <1>1
<1>3. 1 \in 1..Len(q) BY <1>1
<1>4. CASE u \in s /\ \A k \in 1..Len(q) : ~Ending(q[k], u)
  <2>1. \A k \in 1..Len(t) : ~Ending(t[k], u) BY <1>2, <1>4
  <2>2. u \in n BY <1>1, <1>3, <1>4 DEF Ending
  <2> QED BY <2>1, <2>2 DEF Shows, t
<1>5. ASSUME NEW k \in 1..Len(q), Announcing(q[k], u),
             \A j \in 1..Len(q) : k < j => ~Ending(q[j], u)
      PROVE  Shows(t, n, u)
  <2>1. CASE k = 1
    <3>1. n = s \cup {Head(q).uuid} /\ Head(q).uuid = u BY <1>1, <1>5, <2>1 DEF Announcing
    <3>2. \A j \in 1..Len(t) : ~Ending(t[j], u)
      <4>1. ASSUME NEW j \in 1..Len(t) PROVE ~Ending(t[j], u)
        <5>1. j + 1 \in 1..Len(q) /\ t[j] = q[j + 1] /\ k < j + 1 BY <1>1, <1>2, <2>1
        <5> QED BY <1>5, <5>1
      <4> QED BY <4>1
    <3> QED BY <3>1, <3>2 DEF Shows
  <2>2. CASE k # 1
    <3>1. k - 1 \in 1..Len(t) /\ (k - 1) + 1 = k BY <1>1, <2>2
    <3>2. t[k - 1] = q[k] BY <1>2, <3>1
    <3>3. ASSUME NEW j \in 1..Len(t), k - 1 < j PROVE ~Ending(t[j], u)
      <4>1. j + 1 \in 1..Len(q) /\ t[j] = q[j + 1] /\ k < j + 1 BY <1>1, <1>2, <3>3
      <4> QED BY <1>5, <4>1
    <3> QED BY <1>5, <3>1, <3>2, <3>3 DEF Shows
  <2> QED BY <2>1, <2>2
<1> QED BY <1>4, <1>5 DEF Shows, t
-----------------------------------------------------------------------------
(* What RingingIsShown rests on.  No budget grows; a record says "ended"   *)
(* only of a call remembered as cancelled and "incoming" of none; stop()   *)
(* reports only calls that are known and over, unless a push may repeat;   *)
(* and every call that is not given up shows.                              *)
States(r) ==
  \A u \in r.tracked : /\ r.call[u].state = "ended" => r.call[u].cancelledAt # 0
                       /\ r.call[u].state = "incoming" => r.call[u].cancelledAt = 0

StopsApart == setup.budget["again"] = 0 \/ setup.budget["stop"] = 0

SpareNow(b, set, r) ==
  b.op \in {"stop", "destroy", "stopped"} =>
    /\ set.budget["stop"] # 0
    /\ set.budget["again"] = 0 => \A u \in b.calls : r.call[u].createdAt # 0 /\ ~Wanted(r, u)

Spare(b) == SpareNow(b, setup, sm.reg)

SpareMain == {b \in MainBlock : Spare(b)}
SpareSIP == {b \in QueuedBlock : Spare(b)}

Spared == mainQ \in Seq(SpareMain) /\ sipQ \in Seq(SpareSIP)

AllShown ==
  StopsApart => \A u \in UUID : Wanted(sm.reg, u) => Shows(reports, screens, u)

Ringing == MTyped /\ Budgeted /\ States(sm.reg) /\ Spared /\ AllShown

(* What every step does, whatever it is about: a call that was heard of    *)
(* stays so, and is not taken on again unless a push repeats.              *)
Keeps ==
  /\ setup' = setup
  /\ \A u \in UUID : Known(u) =>
       /\ sm'.reg.call[u].createdAt # 0
       /\ setup.budget["again"] = 0 /\ Wanted(sm'.reg, u) => Wanted(sm.reg, u)

(* A step that touches no call but u, if any, and tells the provider of    *)
(* the calls in e: of none that is over, and of u if it is announced.      *)
Tells(e) ==
  /\ reports' = reports \o e /\ screens' = screens
  /\ StopsApart => \A k \in 1..Len(e) : e[k].for = "ended" => ~Wanted(sm'.reg, e[k].uuid)

New(u) == ~Known(u) \/ setup.budget["again"] # 0

Touches(u, e) ==
  /\ Only(sm.reg, sm'.reg, u)
  /\ \/ Rejected(sm'.reg, u)
     \/ Gone(sm'.reg, u)
     \/ sm'.reg.call[u].state \in {"connecting", "active"} /\ (Wanted(sm'.reg, u) => Wanted(sm.reg, u))
     \/ RingsFresh(sm'.reg, u) /\ Wanted(sm.reg, u)
     \/ RingsFresh(sm'.reg, u) /\ New(u) /\ e = <<[uuid |-> u, for |-> "incoming"]>>

Drops == sm'.reg.call = sm.reg.call /\ sm'.reg.tracked \subseteq sm.reg.tracked

(* What is told of a step is enough for the calls it leaves wanted.        *)
LEMMA ShownKept ==
  ASSUME Ringing, MTyped', setup' = setup, NEW e \in Seq(Report), Tells(e),
         Drops \/ \E u \in UUID : Touches(u, e)
  PROVE  Keeps /\ States(sm'.reg) /\ AllShown'
<1>1. sm.reg \in Registries /\ sm'.reg \in Registries /\ States(sm.reg)
      /\ sm.reg.tracked \subseteq UUID /\ sm'.reg.tracked \subseteq UUID
      /\ reports \in Seq(Report)
  BY DEF Ringing, MTyped, Typed, Sound, Formed, Registries
<1>2. CASE Drops
  <2>1. \A u \in UUID : Wanted(sm'.reg, u) => Wanted(sm.reg, u) BY <1>2 DEF Drops, Wanted
  <2>2. Keeps BY <1>2, <2>1 DEF Keeps, Drops, Known
  <2>3. States(sm'.reg) BY <1>1, <1>2 DEF States, Drops
  <2>4. ASSUME StopsApart, NEW v \in UUID, Wanted(sm'.reg, v)
        PROVE  Shows(reports', screens', v)
    <3>1. Shows(reports, screens, v) BY <2>1, <2>4 DEF Ringing, AllShown
    <3>2. \A k \in 1..Len(e) : ~Ending(e[k], v) BY <2>4 DEF Tells, Ending
    <3> QED BY <1>1, <3>1, <3>2, ShowsMore DEF Tells
  <2> QED BY <2>2, <2>3, <2>4 DEF AllShown, StopsApart
<1>3. ASSUME NEW u \in UUID, Touches(u, e)
      PROVE  Keeps /\ States(sm'.reg) /\ AllShown'
  <2>1. \A v \in UUID \ {u} : Wanted(sm'.reg, v) => Wanted(sm.reg, v)
    BY <1>3 DEF Touches, Only, Wanted
  <2>2. \/ Wanted(sm'.reg, u) => Wanted(sm.reg, u)
        \/ New(u) /\ e = <<[uuid |-> u, for |-> "incoming"]>>
    BY <1>3 DEF Touches, Rejected, Gone, Wanted
  <2>3. Keeps
    <3>1. \A v \in UUID : Known(v) => sm'.reg.call[v].createdAt # 0
      BY <1>3 DEF Touches, Only, Known
    <3> QED BY <2>1, <2>2, <3>1 DEF Keeps, New
  <2>4. States(sm'.reg)
    <3>1. \A v \in UUID \ {u} : v \in sm'.reg.tracked =>
            /\ v \in sm.reg.tracked
            /\ sm'.reg.call[v].state = sm.reg.call[v].state
            /\ sm'.reg.call[v].cancelledAt = sm.reg.call[v].cancelledAt
      BY <1>3 DEF Touches, Only
    <3>2. u \in sm'.reg.tracked =>
            /\ sm'.reg.call[u].state = "ended" => sm'.reg.call[u].cancelledAt # 0
            /\ sm'.reg.call[u].state = "incoming" => sm'.reg.call[u].cancelledAt = 0
      BY <1>3 DEF Touches, Rejected, Gone, RingsFresh, Wanted
    <3> QED BY <1>1, <3>1, <3>2 DEF States
  <2>5. ASSUME StopsApart, NEW v \in UUID, Wanted(sm'.reg, v)
        PROVE  Shows(reports', screens', v)
    <3>1. CASE Wanted(sm.reg, v)
      <4>1. Shows(reports, screens, v) BY <2>5, <3>1 DEF Ringing, AllShown
      <4>2. \A k \in 1..Len(e) : ~Ending(e[k], v) BY <2>5 DEF Tells, Ending
      <4> QED BY <1>1, <4>1, <4>2, ShowsMore DEF Tells
    <3>2. CASE ~Wanted(sm.reg, v)
      <4>1. v = u /\ e = <<[uuid |-> u, for |-> "incoming"]>> BY <2>1, <2>2, <2>5, <3>2
      <4>2. reports' = Append(reports, [uuid |-> v, for |-> "incoming"])
        <5>1. \A x : reports \o <<x>> = Append(reports, x) BY <1>1
        <5> QED BY <4>1, <5>1 DEF Tells
      <4> QED BY <1>1, <4>2, ShowsAnnounced
    <3> QED BY <3>1, <3>2
  <2> QED BY <2>3, <2>4, <2>5 DEF AllShown, StopsApart
<1> QED BY <1>2, <1>3
-----------------------------------------------------------------------------
Told == \E e \in Seq(Report) : Tells(e) /\ (Drops \/ \E u \in UUID : Touches(u, e))

(* A step the provider is not told of, and one it is told of once.         *)
LEMMA Silent ==
  ASSUME MTyped, reports' = reports, screens' = screens
  PROVE  Tells(<<>>) /\ <<>> \in Seq(Report)
<1>1. reports \o <<>> = reports BY DEF MTyped
<1>2. Len(<<>>) = 0 /\ <<>> \in Seq(Report) OBVIOUS
<1> QED BY <1>1, <1>2 DEF Tells

LEMMA Idles ==
  ASSUME MTyped, sm' = sm, reports' = reports, screens' = screens
  PROVE  Told
<1>1. Drops BY DEF Drops
<1> QED BY <1>1, Silent DEF Told

LEMMA Once ==
  ASSUME MTyped, NEW u \in UUID, NEW for \in Reason, Tell(u, for), screens' = screens,
         for = "ended" => ~Wanted(sm'.reg, u)
  PROVE  LET e == <<[uuid |-> u, for |-> for]>> IN Tells(e) /\ e \in Seq(Report)
<1> DEFINE r == [uuid |-> u, for |-> for]
<1>1. r \in Report /\ reports' = Append(reports, r) BY DEF Report, Tell
<1>2. r.for = for /\ r.uuid = u OBVIOUS
<1> HIDE DEF r
<1>3. reports' = reports \o <<r>> BY <1>1 DEF MTyped
<1>4. <<r>> \in Seq(Report) /\ Len(<<r>>) = 1 /\ <<r>>[1] = r BY <1>1
<1>5. \A k \in 1..Len(<<r>>) : <<r>>[k] = r BY <1>4
<1>6. Tells(<<r>>) BY <1>2, <1>3, <1>5 DEF Tells
<1> QED BY <1>4, <1>6 DEF r

(* The ends of several calls, none of which is still wanted.               *)
LEMMA Several ==
  ASSUME MTyped, TellEnded, screens' = screens, NEW S \in SUBSET UUID, IsFiniteSet(S),
         \A v \in UUID \ S : ends'[v] = ends[v],
         StopsApart => \A v \in S : ~Wanted(sm'.reg, v)
  PROVE  \E e \in Seq(Report) : Tells(e)
<1>1. PICK e \in Seq([uuid : S, for : {"ended"}]) : reports' = reports \o e BY TellEndedTyped
<1> DEFINE R == [uuid : S, for : {"ended"}]
<1>2. R \subseteq Report /\ \A r \in R : r.uuid \in S BY DEF Report, Reason
<1>3. e \in Seq(R) BY <1>1
<1> HIDE DEF R
<1>4. e \in Seq(Report) BY <1>2, <1>3, WiderSequence
<1>5. \A k \in 1..Len(e) : e[k].uuid \in S BY <1>2, <1>3
<1>6. Tells(e) BY <1>1, <1>5 DEF Tells
<1> QED BY <1>4, <1>6

(* The blocks of the main queue.                                           *)
LEMMA BlockTold ==
  ASSUME Ringing, SharedBlock,
         \/ /\ callDisconnected \/ incomingCallTimeout \/ stopped
            /\ TellEnded
            /\ screens' = screens
         \/ /\ callConfirmed \/ callConnecting \/ attemptAccept \/ acceptTimedOut \/ answerCall
            /\ UNCHANGED callKit
  PROVE  Told
<1> DEFINE b == Head(mainQ)
<1>0. MTyped /\ Typed /\ now \in Date /\ Sound(sm, now) BY DEF Ringing, MTyped, Typed
<1>1. mainQ # <<>>
  BY DEF callConfirmed, callDisconnected, callConnecting,
         incomingCallTimeout, attemptAccept, acceptTimedOut, answerCall, stopped, HeadIs
<1>2. /\ b.op \notin {"invite", "stopped"} => b.uuid \in UUID
      /\ b.op = "stopped" => b.calls \in SUBSET UUID /\ IsFiniteSet(b.calls)
  BY <1>0, <1>1, MainHead
<1> HIDE DEF b
<1>3. CASE (callConfirmed \/ callConnecting) /\ UNCHANGED callKit
  <2>1. b.uuid \in UUID /\ \E st \in {"connecting", "active"} : sm' = PublishState(sm, b.uuid, st)
    BY <1>2, <1>3 DEF callConfirmed, callConnecting, HeadIs, b
  <2>2. /\ Only(sm.reg, sm'.reg, b.uuid) /\ sm'.reg.tracked = sm.reg.tracked
        /\ sm'.reg.call[b.uuid].cancelledAt = sm.reg.call[b.uuid].cancelledAt
        /\ b.uuid \in sm.reg.tracked => sm'.reg.call[b.uuid].state \in {"connecting", "active"}
    BY <1>0, <2>1, ReachedSound
  <2>3. Touches(b.uuid, <<>>) BY <2>2 DEF Touches, Gone, Wanted
  <2> QED BY <1>0, <1>3, <2>1, <2>3, Silent DEF Told, callKit
<1>4. CASE (attemptAccept \/ acceptTimedOut \/ answerCall) /\ UNCHANGED callKit
  BY <1>0, <1>4, Idles DEF attemptAccept, acceptTimedOut, answerCall, callKit
<1>5. CASE (callDisconnected \/ incomingCallTimeout) /\ TellEnded /\ screens' = screens
  <2>1. /\ b.uuid \in UUID
        /\ (UNCHANGED <<sm, ends>>) \/ sm' = EndAndClear(sm, b.uuid)
    BY <1>2, <1>5 DEF callDisconnected, incomingCallTimeout, HeadIs, b
  <2>2. CASE UNCHANGED <<sm, ends>>
    <3>1. IsFiniteSet({}) /\ \A v \in UUID \ {} : ends'[v] = ends[v] BY <2>2, FS_EmptySet
    <3>2. Drops BY <2>2 DEF Drops
    <3> QED BY <1>0, <1>5, <3>1, <3>2, Several DEF Told
  <2>3. CASE sm' = EndAndClear(sm, b.uuid)
    <3>1. Only(sm.reg, sm'.reg, b.uuid) /\ Gone(sm'.reg, b.uuid) BY <1>0, <2>1, <2>3, EndAndClearSound
    <3>2. \A e : Touches(b.uuid, e) BY <3>1 DEF Touches
    <3>3. \A v \in UUID \ {b.uuid} : ends'[v] = ends[v] BY <1>0, <1>5, EndsOfBlock DEF b
    <3>4. IsFiniteSet({b.uuid}) /\ \A v \in {b.uuid} : ~Wanted(sm'.reg, v)
      BY <3>1, FS_Singleton DEF Gone, Wanted
    <3> QED BY <1>0, <1>5, <2>1, <3>2, <3>3, <3>4, Several DEF Told
  <2> QED BY <2>1, <2>2, <2>3
<1>6. CASE stopped /\ TellEnded /\ screens' = screens
  <2>1. b.op = "stopped" /\ b.calls \in SUBSET UUID /\ IsFiniteSet(b.calls) /\ ReportStopped(b.calls)
    BY <1>2, <1>6 DEF stopped, HeadIs, b
  <2>2. sm'.reg = sm.reg /\ \A v \in UUID \ b.calls : ends'[v] = ends[v]
    BY <1>0, <2>1, StoppedTyped
  <2>3. Spare(b)
    <3>1. mainQ \in Seq(SpareMain) BY DEF Ringing, Spared
    <3>2. b \in SpareMain BY <1>1, <3>1 DEF b
    <3> QED BY <3>2 DEF SpareMain
  <2>4. StopsApart => \A v \in b.calls : ~Wanted(sm'.reg, v)
    BY <2>1, <2>2, <2>3 DEF Spare, SpareNow, StopsApart
  <2>5. Drops BY <2>2 DEF Drops
  <2> QED BY <1>0, <1>6, <2>1, <2>2, <2>4, <2>5, Several DEF Told
<1> QED BY <1>3, <1>4, <1>5, <1>6

(* The two halves of stop() on sipQueue.                                   *)
LEMMA StopTold ==
  ASSUME Ringing, StopOnQueue, TellEnded, screens' = screens
  PROVE  Told
<1> DEFINE b == Head(sipQ)
<1>0. MTyped /\ Typed /\ sm.reg \in Registries BY DEF Ringing, MTyped, Typed, Sound, Formed
<1>1. CASE UNCHANGED ends
  <2>1. IsFiniteSet({}) /\ \A v \in UUID \ {} : ends'[v] = ends[v] BY <1>1, FS_EmptySet
  <2>2. Drops
    <3>1. CASE sipStop
      <4>1. sm'.reg = RemoveAll(sm.reg)
        BY <1>0, <3>1, EmptiedSound DEF sipStop, Typed
      <4> QED BY <1>0, <4>1 DEF Drops, RemoveAll, Registries
    <3>2. CASE \E i \in CallId : sipHangUp(i)
      BY <3>2 DEF sipHangUp, Drops
    <3>3. CASE sipDestroy
      <4>1. sipQ # <<>> /\ (sm' = sm \/ ReportStopped(b.calls)) /\ b.op = "destroy"
        BY <3>3 DEF sipDestroy, NextSIP
      <4>2. b.calls \in SUBSET UUID BY <1>0, <4>1, SIPHead
      <4> HIDE DEF b
      <4>3. sm'.reg = sm.reg BY <1>0, <4>1, <4>2, StoppedTyped
      <4> QED BY <4>3 DEF Drops
    <3> QED BY <3>1, <3>2, <3>3 DEF StopOnQueue
  <2> QED BY <1>0, <2>1, <2>2, Several DEF Told
<1>2. CASE ~UNCHANGED ends
  <2>1. /\ sipQ # <<>> /\ b.op = "destroy" /\ b.calls \in SUBSET UUID /\ IsFiniteSet(b.calls)
        /\ sm'.reg = sm.reg /\ \A v \in UUID \ b.calls : ends'[v] = ends[v]
    BY <1>0, <1>2, EndsOfStop DEF NextSIP
  <2> HIDE DEF b
  <2>2. Spare(b)
    <3>1. sipQ \in Seq(SpareSIP) BY DEF Ringing, Spared
    <3>2. b \in SpareSIP BY <2>1, <3>1 DEF b
    <3> QED BY <3>2 DEF SpareSIP
  <2>3. StopsApart => \A v \in b.calls : ~Wanted(sm'.reg, v)
    BY <2>1, <2>2 DEF Spare, SpareNow, StopsApart
  <2>4. Drops BY <2>1 DEF Drops
  <2> QED BY <1>0, <2>1, <2>3, <2>4, Several DEF Told
<1> QED BY <1>1, <1>2

(* A call is announced, or has been before.                                *)
LEMMA AnnouncedTold ==
  ASSUME MTyped, screens' = screens, NEW u \in UUID, NEW id \in CallId \cup {InvalidId},
         id = InvalidId \/ ~Known(u), ReportIncoming(u, id), New(u)
  PROVE  Told
<1>1. /\ Only(sm.reg, sm'.reg, u)
      /\ \/ sm'.reg = sm.reg /\ reports' = reports
         \/ RingsFresh(sm'.reg, u) /\ Tell(u, "incoming")
  BY ReportIncomingHow
<1>2. CASE sm'.reg = sm.reg /\ reports' = reports
  BY <1>2, Silent DEF Told, Drops
<1>3. CASE RingsFresh(sm'.reg, u) /\ Tell(u, "incoming")
  <2> DEFINE e == <<[uuid |-> u, for |-> "incoming"]>>
  <2>1. Tells(e) /\ e \in Seq(Report) BY <1>3, Once DEF Reason
  <2>2. Touches(u, e) BY <1>1, <1>3 DEF Touches
  <2> QED BY <2>1, <2>2 DEF Told
<1> QED BY <1>1, <1>2, <1>3

(* An INVITE: for the call that waits for one, or for one not heard of.    *)
LEMMA InviteTold ==
  ASSUME Ringing, managedIncomingSIPCall
  PROVE  Told
<1> DEFINE id == Head(mainQ).id
<1>0. MTyped /\ Typed /\ now \in Date /\ Sound(sm, now) BY DEF Ringing, MTyped, Typed
<1>1. mainQ # <<>> /\ Head(mainQ).op = "invite" /\ screens' = screens
  BY DEF managedIncomingSIPCall, HeadIs
<1>2. id \in CallId BY <1>0, <1>1, MainHead
<1>3. ASSUME NEW u \in CallAwaitingInvite(sm.reg), Settle(BindInvite(sm, id, u, now)),
             reports' = reports
      PROVE  Told
  <2>1. u \in UUID /\ Wanted(sm.reg, u) BY <1>0, MayBind DEF CallAwaitingInvite, AwaitingInvite, Wanted
  <2>2. Only(sm.reg, sm'.reg, u) /\ RingsFresh(sm'.reg, u)
    BY <1>0, <1>2, <1>3, <2>1, MayBind, BindInviteSound DEF Settle
  <2>3. Touches(u, <<>>) BY <2>1, <2>2 DEF Touches
  <2> QED BY <1>0, <1>1, <1>3, <2>1, <2>3, Silent DEF Told
<1>4. ASSUME NEW u \in UUID, ~Known(u), ReportIncoming(u, id)
      PROVE  Told
  BY <1>0, <1>1, <1>2, <1>4, AnnouncedTold DEF New
<1> QED BY <1>0, <1>3, <1>4, FreshType DEF managedIncomingSIPCall

(* What a push may announce: one heard of before only if pushes repeat.    *)
LEMMA PushNew ==
  ASSUME Ringing, NEW u \in UUID, Spend(IF Known(u) THEN "again" ELSE "push")
  PROVE  New(u)
<1>1. setup \in Setups /\ Budgeted /\ left \in [DOMAIN setup.budget -> Nat]
  BY DEF Ringing, MTyped, Typed
<1>2. "again" \in DOMAIN setup.budget BY <1>1, LifecycleAssumption
<1>3. Known(u) => left["again"] > 0 BY DEF Spend
<1>4. Known(u) => setup.budget["again"] # 0 BY <1>1, <1>2, <1>3, LifecycleAssumption DEF Budgeted
<1> QED BY <1>4 DEF New

(* The three pushes.                                                       *)
LEMMA AnnounceTold ==
  ASSUME Ringing, NEW u \in UUID,
         reportIncomingCall(u) \/ handleVoIPPush(u) \/ handleCancellationPush(u)
  PROVE  Told
<1>0. MTyped /\ screens' = screens
  BY DEF Ringing, reportIncomingCall, handleVoIPPush, handleCancellationPush
<1>1. CASE ReportIncoming(u, InvalidId) /\ Spend(IF Known(u) THEN "again" ELSE "push")
  BY <1>0, <1>1, PushNew, AnnouncedTold
<1>2. ASSUME NEW for \in {"cancelled", "duplicate"}, Tell(u, for), sm' = sm
      PROVE  Told
  <2>1. for \in Reason /\ for # "ended" BY DEF Reason
  <2> DEFINE e == <<[uuid |-> u, for |-> for]>>
  <2>2. Tells(e) /\ e \in Seq(Report) BY <1>0, <1>2, <2>1, Once
  <2>3. Drops BY <1>2 DEF Drops
  <2> QED BY <2>2, <2>3 DEF Told
<1> QED BY <1>1, <1>2 DEF reportIncomingCall, handleVoIPPush, handleCancellationPush

(* The blocks that answer CallKit and the user.                            *)
LEMMA ActionTold ==
  ASSUME Ringing, cancelReported \/ performAnswer \/ answeringFailed \/ performEnd
  PROVE  Told
<1> DEFINE u == Head(mainQ).uuid
           e == <<[uuid |-> u, for |-> "ended"]>>
<1>0. MTyped /\ Typed /\ now \in Date /\ Sound(sm, now) BY DEF Ringing, MTyped, Typed
<1>1. /\ mainQ # <<>> /\ screens' = screens
      /\ Head(mainQ).op \in {"cancelReported", "answerAction", "acceptFailed", "endAction"}
  BY DEF cancelReported, performAnswer, answeringFailed, performEnd, HeadIs, callKit
<1>2. u \in UUID BY <1>0, <1>1, MainHead
<1> HIDE DEF u
<1>3. ASSUME Tell(u, "ended"), ~Wanted(sm'.reg, u), Drops \/ Touches(u, e)
      PROVE  Told
  <2>1. Tells(e) /\ e \in Seq(Report) BY <1>0, <1>1, <1>2, <1>3, Once DEF Reason
  <2> QED BY <1>2, <1>3, <2>1 DEF Told
<1>4. ASSUME Tell(u, "ended"), Only(sm.reg, sm'.reg, u), Rejected(sm'.reg, u) \/ Gone(sm'.reg, u)
      PROVE  Told
  <2>1. ~Wanted(sm'.reg, u) BY <1>4 DEF Rejected, Gone, Wanted
  <2>2. Touches(u, e) BY <1>4 DEF Touches
  <2> QED BY <1>3, <1>4, <2>1, <2>2
<1>5. CASE cancelReported
  <2>1. HandleCancelled(u) /\ Tell(u, "ended") BY <1>5 DEF cancelReported, u
  <2>2. CASE u \in sm.reg.tracked /\ sm.reg.call[u].state = "ended"
    <3>1. sm' = sm BY <2>1, <2>2 DEF HandleCancelled
    <3>2. ~Wanted(sm.reg, u) BY <2>2 DEF Ringing, States, Wanted
    <3> QED BY <1>3, <2>1, <3>1, <3>2 DEF Drops
  <2>3. CASE ~(u \in sm.reg.tracked /\ sm.reg.call[u].state = "ended")
    <3>1. sm' = RetractCall(sm, u, now) BY <2>1, <2>3 DEF HandleCancelled, Settle
    <3> QED BY <1>0, <1>2, <1>4, <2>1, <3>1, RetractSound
  <2> QED BY <2>2, <2>3
<1>6. CASE performAnswer
  BY <1>0, <1>6, Idles DEF performAnswer, callKit
<1>7. CASE answeringFailed \/ performEnd
  <2>1. sm' = EndAndClear(sm, u) /\ Tell(u, "ended") BY <1>7 DEF answeringFailed, performEnd, u
  <2> QED BY <1>0, <1>2, <1>4, <2>1, EndAndClearSound
<1> QED BY <1>5, <1>6, <1>7

(* An INVITE that is refused takes records away; the rest of the peer's    *)
(* doings, PJSUA's and the timers' touch none.                             *)
LEMMA QuietTold ==
  ASSUME Ringing, UNCHANGED callKit,
         \/ sipEnd \/ sipAnswer \/ Peer \/ Pause
         \/ \E onMain \in BOOLEAN : stop(onMain)
         \/ \E b \in BagToSet(delayed) : Fires(b)
  PROVE  Told
<1>0. MTyped /\ Typed /\ reports' = reports /\ screens' = screens
  BY DEF Ringing, MTyped, callKit
<1>1. CASE \/ sipEnd \/ sipAnswer \/ Pause
           \/ \E onMain \in BOOLEAN : stop(onMain)
           \/ \E b \in BagToSet(delayed) : Fires(b)
  <2>1. sm' = sm BY <1>1 DEF sipEnd, sipAnswer, Pause, stop, Fires
  <2> QED BY <1>0, <2>1, Idles
<1>2. ASSUME NEW i \in CallId, onCallConfirmed(i) \/ onCallDisconnected(i) \/ slotFreed(i)
      PROVE  Told
  <2>1. sm' = sm BY <1>2 DEF onCallConfirmed, onCallDisconnected, slotFreed
  <2> QED BY <1>0, <2>1, Idles
<1>3. ASSUME NEW i \in CallId, NEW u, onIncomingCall(i, u)
      PROVE  Told
  <2>1. PICK taken \in SUBSET Tombstones(sm.reg) :
          sm' = [sm EXCEPT !.reg = TakeCancelled(@, now, Window, taken)]
    BY <1>3 DEF onIncomingCall, CallToRefuse
  <2>2. sm'.reg = TakeCancelled(sm.reg, now, Window, taken) BY <1>0, <2>1, TakenSound
  <2>3. sm.reg \in Registries /\ TwoWayIndex(sm.reg) /\ now \in Nat
    BY <1>0 DEF Typed, Sound, Formed, Date
  <2>4. /\ TakeCancelled(sm.reg, now, Window, taken).tracked \subseteq sm.reg.tracked
        /\ TakeCancelled(sm.reg, now, Window, taken).call = sm.reg.call
    BY <2>3, TakeHow
  <2>5. Drops BY <2>2, <2>4 DEF Drops
  <2> QED BY <1>0, <2>5, Silent DEF Told
<1> QED BY <1>1, <1>2, <1>3 DEF Peer

LEMMA TapTold ==
  ASSUME Ringing, Tap("answerAction", "accept") \/ Tap("endAction", "end")
  PROVE  Told
  BY Idles DEF Ringing, Tap, callKit

(* CallKit and its reset.                                                  *)
LEMMA CallKitShown ==
  ASSUME Ringing, MTyped', CallKit
  PROVE  Keeps /\ States(sm'.reg) /\ AllShown'
<1> DEFINE h == Head(reports)
<1>0. MTyped /\ Typed /\ now \in Date /\ Sound(sm, now) /\ reports \in Seq(Report)
      /\ States(sm.reg) /\ setup' = setup
  BY DEF Ringing, MTyped, Typed, CallKit, callKitAccepts, callKitRefuses, callKitDismisses, vars, bounds
<1>1. reports # <<>> /\ reports' = Tail(reports)
  BY DEF CallKit, callKitAccepts, callKitRefuses, callKitDismisses, Processes
<1>2. h \in Report BY <1>0, <1>1
<1>7. h.uuid \in UUID BY <1>2 DEF Report
<1> HIDE DEF h
<1>3. ASSUME NEW u \in UUID, StopsApart, Wanted(sm.reg, u),
             \/ screens' = screens \cup {h.uuid} /\ h.for # "ended"
             \/ screens' = screens /\ h.for # "ended" /\ ~Announcing(h, u)
             \/ screens' = screens \ {h.uuid} /\ h.for = "ended"
      PROVE  Shows(reports', screens', u)
  BY <1>0, <1>1, <1>3, ShowsNext DEF Ringing, AllShown, h
<1>4. CASE sm' = sm /\ \/ screens' = screens \cup {h.uuid} /\ h.for # "ended"
                       \/ screens' = screens /\ h.for \notin {"ended", "incoming"}
                       \/ screens' = screens \ {h.uuid} /\ h.for = "ended"
  <2>1. Keeps BY <1>0, <1>4 DEF Keeps, Known
  <2>2. States(sm'.reg) BY <1>0, <1>4
  <2>3. \A u \in UUID : h.for \notin {"ended", "incoming"} => ~Announcing(h, u) BY DEF Announcing
  <2>4. AllShown' BY <1>0, <1>3, <1>4, <2>3 DEF AllShown, StopsApart
  <2> QED BY <2>1, <2>2, <2>4
<1>5. CASE CallRefused(h.uuid) /\ screens' = screens /\ h.for = "incoming"
  <2>1. Only(sm.reg, sm'.reg, h.uuid) /\ Gone(sm'.reg, h.uuid) BY <1>0, <1>5, <1>7, RefusedHow
  <2>2. \A u \in UUID : Wanted(sm'.reg, u) => Wanted(sm.reg, u) /\ u # h.uuid
    BY <2>1 DEF Only, Gone, Wanted
  <2>3. Keeps BY <1>0, <2>1, <2>2 DEF Keeps, Known, Only
  <2>4. States(sm'.reg)
    <3>1. \A v \in UUID : v \in sm'.reg.tracked =>
            /\ v \in sm.reg.tracked
            /\ sm'.reg.call[v].state = sm.reg.call[v].state
            /\ sm'.reg.call[v].cancelledAt = sm.reg.call[v].cancelledAt
      BY <2>1 DEF Only, Gone
    <3>2. sm'.reg.tracked \subseteq UUID BY DEF MTyped, Typed, Sound, Formed, Registries
    <3> QED BY <1>0, <3>1, <3>2 DEF States
  <2>5. ASSUME NEW u \in UUID, StopsApart, Wanted(sm'.reg, u) PROVE Shows(reports', screens', u)
    <3>1. Wanted(sm.reg, u) /\ ~Announcing(h, u) BY <2>2, <2>5 DEF Announcing
    <3> QED BY <1>3, <1>5, <2>5, <3>1
  <2>6. AllShown' BY <1>0, <2>5 DEF AllShown, StopsApart
  <2> QED BY <2>3, <2>4, <2>6
<1>6. \/ /\ sm' = sm
         /\ \/ screens' = screens \cup {h.uuid} /\ h.for # "ended"
            \/ screens' = screens /\ h.for \notin {"ended", "incoming"}
            \/ screens' = screens \ {h.uuid} /\ h.for = "ended"
      \/ CallRefused(h.uuid) /\ screens' = screens /\ h.for = "incoming"
  BY DEF CallKit, callKitAccepts, callKitRefuses, callKitDismisses, Processes, vars, h
<1> QED BY <1>4, <1>5, <1>6

LEMMA ResetShown ==
  ASSUME Ringing, MTyped', providerDidReset
  PROVE  Keeps /\ States(sm'.reg) /\ AllShown'
<1>1. sm.reg \in Registries BY DEF Ringing, MTyped, Typed, Sound, Formed
<1>2. sm'.reg = RemoveAll(sm.reg) BY ResetHow DEF Ringing
<1>3. sm'.reg.tracked = {} /\ sm'.reg.call = sm.reg.call BY <1>1, <1>2 DEF RemoveAll, Registries
<1>4. setup' = setup BY DEF providerDidReset, Spend
<1>5. \A u : ~Wanted(sm'.reg, u) BY <1>3 DEF Wanted
<1> QED BY <1>3, <1>4, <1>5 DEF Keeps, Known, States, AllShown
-----------------------------------------------------------------------------
(* How a queue moves on: not at all, by its head, or by a block at its end.*)
Follows(q, n, S) ==
  \/ n = q
  \/ q # <<>> /\ n = Tail(q)
  \/ \E b \in S : n = Append(q, b) \/ (q # <<>> /\ n = Append(Tail(q), b))

(* A queue of blocks of one kind stays one.                                *)
LEMMA FollowsKept ==
  ASSUME NEW S, NEW T, T \subseteq S, NEW q \in Seq(S), NEW n, Follows(q, n, T)
  PROVE  n \in Seq(S)
  BY DEF Follows

StoppedOf(b) == [op |-> "stopped", calls |-> b.calls]

LEMMA DisconnectedFollows ==
  ASSUME Typed, NEW i
  PROVE  Follows(mainQ, WithDisconnected(mainQ, i), Block)
<1>1. \A u \in UUID : Run("disconnected", u, InvalidId) \in Block BY Blocks DEF Op
<1> QED BY <1>1, DisconnectedTyped DEF Follows

(* The main queue: CallKit, the peer, sipQueue and the timers put ordinary *)
(* blocks at its end; only the destruction of the engine one of stop().    *)
LEMMA MainFollows ==
  ASSUME MTyped, [MNext]_mvars
  PROVE  \/ Follows(mainQ, mainQ', Block)
         \/ NextSIP("destroy") /\ mainQ' = Append(mainQ, StoppedOf(Head(sipQ)))
<1>0. Typed BY DEF MTyped
<1>1. \A u \in UUID : /\ Run("cancelReported", u, InvalidId) \in Block
                      /\ Run("answerAction", u, InvalidId) \in Block
                      /\ Run("endAction", u, InvalidId) \in Block
                      /\ Run("acceptFailed", u, InvalidId) \in Block
                      /\ Run("connecting", u, InvalidId) \in Block
                      /\ Run("confirmed", u, InvalidId) \in Block
  BY Blocks DEF Op
<1>2. ASSUME mainQ' = mainQ PROVE Follows(mainQ, mainQ', Block) BY <1>2 DEF Follows
<1>3. ASSUME NEW b \in Block, mainQ' = Append(mainQ, b) PROVE Follows(mainQ, mainQ', Block)
  BY <1>3 DEF Follows
<1>4. CASE ManagedMainQueue
  <2>1. mainQ # <<>>
    BY <1>4 DEF ManagedMainQueue, managedIncomingSIPCall, callDisconnected, incomingCallTimeout,
       stopped, callConfirmed, callConnecting, attemptAccept, acceptTimedOut, answerCall,
       cancelReported, performAnswer, answeringFailed, performEnd, HeadIs
  <2>2. mainQ' = Tail(mainQ) \/ (acceptTimedOut /\ Head(mainQ).op = "poll")
    BY <1>4 DEF ManagedMainQueue, managedIncomingSIPCall, callDisconnected, incomingCallTimeout,
       stopped, callConfirmed, callConnecting, attemptAccept, acceptTimedOut, answerCall,
       cancelReported, performAnswer, answeringFailed, performEnd, HeadIs, Done
  <2>3. CASE mainQ' = Tail(mainQ) BY <2>1, <2>3 DEF Follows
  <2>4. CASE acceptTimedOut /\ Head(mainQ).op = "poll"
    <3>1. Head(mainQ).uuid \in UUID BY <1>0, <2>1, <2>4, MainHead
    <3>2. mainQ' = Append(Tail(mainQ), Run("acceptFailed", Head(mainQ).uuid, InvalidId))
      BY <2>4 DEF acceptTimedOut
    <3> QED BY <1>1, <2>1, <3>1, <3>2 DEF Follows
  <2> QED BY <2>2, <2>3, <2>4
<1>5. CASE sipEnd
  <2>1. mainQ' = mainQ \o <<>> \/ \E i : mainQ' = WithDisconnected(mainQ, i) \o <<>>
    BY <1>5 DEF sipEnd, EndSIPCall
  <2>2. mainQ \in Seq(MainBlock) /\ \A i : WithDisconnected(mainQ, i) \in Seq(MainBlock)
    <3>1. mainQ \in Seq(MainBlock) BY <1>0 DEF Typed
    <3>2. \A b \in MainBlock : Append(mainQ, b) \in Seq(MainBlock) BY <3>1
    <3> QED BY <1>0, <3>1, <3>2, DisconnectedTyped
  <2>3. mainQ' = mainQ \/ \E i : mainQ' = WithDisconnected(mainQ, i) BY <2>1, <2>2
  <2> QED BY <1>0, <1>2, <2>3, DisconnectedFollows
<1>6. CASE sipAnswer
  <2>1. sipQ # <<>> /\ Head(sipQ).op = "answer" BY <1>6 DEF sipAnswer, NextSIP
  <2>2. Head(sipQ).uuid \in UUID BY <1>0, <2>1, SIPHead DEF SIPOp
  <2>3. \/ mainQ' = Append(mainQ, Run("connecting", Head(sipQ).uuid, InvalidId))
        \/ mainQ' = Append(mainQ, Run("acceptFailed", Head(sipQ).uuid, InvalidId))
    BY <1>6 DEF sipAnswer
  <2> QED BY <1>1, <1>3, <2>2, <2>3
<1>7. CASE StopOnQueue
  <2>1. \/ mainQ' = mainQ
        \/ \E i \in CallId : mainQ' = WithDisconnected(mainQ, i)
        \/ NextSIP("destroy") /\ mainQ' = Append(mainQ, StoppedOf(Head(sipQ)))
    BY <1>7 DEF StopOnQueue, sipStop, sipDestroy, sipHangUp, StoppedOf
  <2> QED BY <1>0, <1>2, <2>1, DisconnectedFollows
<1>8. CASE CallKit
  <2> DEFINE h == Head(reports)
  <2>1. reports # <<>> BY <1>8 DEF CallKit, callKitAccepts, callKitRefuses, callKitDismisses, Processes
  <2>2. h \in Report BY <2>1 DEF MTyped
  <2>3. h.uuid \in UUID BY <2>2 DEF Report
  <2>4. mainQ' = mainQ \/ mainQ' = Append(mainQ, Run("cancelReported", h.uuid, InvalidId))
    BY <1>8 DEF CallKit, callKitAccepts, callKitRefuses, callKitDismisses, AfterReport, vars
  <2> QED BY <1>1, <1>2, <1>3, <2>3, <2>4
<1>9. CASE Tap("answerAction", "accept") \/ Tap("endAction", "end")
  <2>1. PICK u \in screens : \/ mainQ' = Append(mainQ, Run("answerAction", u, InvalidId))
                             \/ mainQ' = Append(mainQ, Run("endAction", u, InvalidId))
    BY <1>9 DEF Tap
  <2>2. u \in UUID BY <2>1 DEF MTyped
  <2> QED BY <1>1, <1>3, <2>1, <2>2
<1>10. CASE Peer
  <2>1. PICK i \in CallId : \/ onCallConfirmed(i) \/ onCallDisconnected(i) \/ slotFreed(i)
                            \/ \E u \in Announced \cup {NoUUID} : onIncomingCall(i, u)
    BY <1>10 DEF Peer
  <2>2. CASE onCallConfirmed(i)
    <3>1. \/ mainQ' = mainQ
          \/ \E u \in UUID : mainQ' = Append(mainQ, Run("confirmed", u, InvalidId))
      BY <1>0, <2>2, Lookups DEF onCallConfirmed
    <3> QED BY <1>1, <1>2, <1>3, <3>1
  <2>3. Run("invite", NoUUID, i) \in Block BY <2>1, Blocks
  <2>4. CASE \/ mainQ' = mainQ
             \/ mainQ' = WithDisconnected(mainQ, i)
             \/ mainQ' = Append(mainQ, Run("invite", NoUUID, i))
    BY <1>0, <1>2, <1>3, <2>3, <2>4, DisconnectedFollows
  <2> QED BY <2>1, <2>2, <2>4 DEF onCallDisconnected, slotFreed, onIncomingCall
<1>11. ASSUME NEW b, Fires(b) PROVE Follows(mainQ, mainQ', Block)
  <2>1. b \in Block BY <1>0, <1>11, FiresTyped
  <2> QED BY <1>3, <1>11, <2>1 DEF Fires
<1>12. CASE \/ \E u \in Announced :
                 reportIncomingCall(u) \/ handleVoIPPush(u) \/ handleCancellationPush(u)
            \/ providerDidReset \/ (\E onMain \in BOOLEAN : stop(onMain)) \/ Pause
            \/ UNCHANGED mvars
  BY <1>2, <1>12 DEF reportIncomingCall, handleVoIPPush, handleCancellationPush, providerDidReset,
     stop, Pause, mvars, vars
<1> QED BY <1>4, <1>5, <1>6, <1>7, <1>8, <1>9, <1>10, <1>11, <1>12 DEF MNext, ManagedSIPQueue

(* sipQueue: turns that answer or end a call, and the two halves of stop().*)
LEMMA SIPFollows ==
  ASSUME MTyped, [MNext]_mvars
  PROVE  \/ Follows(sipQ, sipQ', SIPBlock)
         \/ \E e \in Seq(SIPBlock) : sipQ' = sipQ \o e
         \/ \E onMain \in BOOLEAN : stop(onMain)
         \/ sipStop
<1>0. Typed BY DEF MTyped
<1>1. \A u \in UUID, i \in CallId : Run("end", u, i) \in SIPBlock /\ Run("answer", u, i) \in SIPBlock
  BY DEF Run, SIPBlock, SIPOp
<1>2. ASSUME sipQ' = sipQ PROVE Follows(sipQ, sipQ', SIPBlock) BY <1>2 DEF Follows
<1>3. ASSUME NEW u \in UUID, NEW i \in CallId, sipQ' = Append(sipQ, Run("end", u, i))
      PROVE  Follows(sipQ, sipQ', SIPBlock)
  BY <1>1, <1>3 DEF Follows
<1>4. ASSUME NEW u \in UUID, NEW id \in CallId \cup {InvalidId}, ReportIncoming(u, id)
      PROVE  Follows(sipQ, sipQ', SIPBlock)
  <2>1. \/ id # InvalidId /\ sipQ' = Append(sipQ, Run("end", u, id))
        \/ sipQ' = sipQ
    BY <1>4 DEF ReportIncoming, PerformSIPAsync
  <2> QED BY <1>2, <1>3, <2>1
<1>5. CASE managedIncomingSIPCall
  <2>1. mainQ # <<>> /\ Head(mainQ).op = "invite" BY <1>5 DEF managedIncomingSIPCall, HeadIs
  <2>2. Head(mainQ).id \in CallId BY <1>0, <2>1, MainHead
  <2> QED BY <1>0, <1>2, <1>4, <1>5, <2>2, FreshType DEF managedIncomingSIPCall
<1>6. CASE SharedBlock \/ cancelReported \/ performAnswer \/ answeringFailed \/ performEnd
  <2> DEFINE u == Head(mainQ).uuid
             id == IdOf(sm.reg, u)
  <2>1. mainQ # <<>>
    BY <1>6 DEF SharedBlock, callConfirmed, callDisconnected, callConnecting, callTerminated,
       incomingCallTimeout, attemptAccept, acceptTimedOut, answerCall, acceptFailed, stopped,
       cancelReported, performAnswer, answeringFailed, performEnd, HeadIs
  <2>2. id = InvalidId \/ (id \in CallId /\ u \in UUID) BY <1>0, Lookups
  <2>3. \/ sipQ' = sipQ
        \/ answerCall /\ Head(mainQ).op = "settled"
        \/ id # InvalidId /\ sipQ' = Append(sipQ, Run("end", u, id))
    BY <1>6 DEF PerformSIPAsync, SharedBlock, callConfirmed, callDisconnected, callConnecting, callTerminated,
       incomingCallTimeout, attemptAccept, acceptTimedOut, answerCall, acceptFailed, stopped,
       cancelReported, performAnswer, answeringFailed, performEnd, HandleCancelled, HeadIs
  <2> HIDE DEF id
  <2>4. CASE answerCall /\ Head(mainQ).op = "settled"
    <3>1. u \in UUID /\ Head(mainQ).id \in CallId BY <1>0, <2>1, <2>4, MainHead
    <3>2. sipQ' = Append(sipQ, Run("answer", u, Head(mainQ).id)) BY <2>4 DEF answerCall, PerformSIPAsync
    <3> QED BY <1>1, <3>1, <3>2 DEF Follows
  <2> QED BY <1>2, <1>3, <2>2, <2>3, <2>4
<1>7. CASE sipEnd \/ sipAnswer \/ sipDestroy BY <1>7 DEF sipEnd, sipAnswer, sipDestroy, NextSIP, Follows
<1>8. CASE CallKit
  <2> DEFINE h == Head(reports)
  <2>1. reports # <<>> BY <1>8 DEF CallKit, callKitAccepts, callKitRefuses, callKitDismisses, Processes
  <2>2. h \in Report BY <2>1 DEF MTyped
  <2>3. h.uuid \in UUID BY <2>2 DEF Report
  <2>4. sipQ' = sipQ \/ CallRefused(h.uuid)
    BY <1>8 DEF CallKit, callKitAccepts, callKitRefuses, callKitDismisses, vars
  <2> QED BY <1>2, <1>3, <2>3, <2>4, RefusedHow DEF PerformSIPAsync
<1>9. ASSUME NEW u \in Announced,
             reportIncomingCall(u) \/ handleVoIPPush(u) \/ handleCancellationPush(u)
      PROVE  Follows(sipQ, sipQ', SIPBlock)
  <2>1. u \in UUID BY LifecycleAssumption
  <2>2. ReportIncoming(u, InvalidId) \/ sipQ' = sipQ
    BY <1>9 DEF reportIncomingCall, handleVoIPPush, handleCancellationPush
  <2>3. CASE ReportIncoming(u, InvalidId) BY <1>4, <2>1, <2>3
  <2> QED BY <1>2, <2>2, <2>3
<1>10. CASE providerDidReset BY <1>10, ResetHow
<1>11. CASE \/ \E i \in CallId : sipHangUp(i)
            \/ Tap("answerAction", "accept") \/ Tap("endAction", "end")
            \/ Peer \/ Pause \/ \E b \in BagToSet(delayed) : Fires(b)
            \/ UNCHANGED mvars
  BY <1>2, <1>11 DEF sipHangUp, Tap, Peer, onCallConfirmed, onCallDisconnected, slotFreed,
     onIncomingCall, Pause, Fires, mvars, vars
<1> QED BY <1>5, <1>6, <1>7, <1>8, <1>9, <1>10, <1>11
    DEF MNext, ManagedMainQueue, ManagedSIPQueue, StopOnQueue, SharedBlock
-----------------------------------------------------------------------------
(* A block of stop() that may run at its own time may still run later.     *)
LEMMA StaysSpare ==
  ASSUME Keeps
  PROVE  /\ \A b : (Spare(b) /\ (b.op \in {"stop", "destroy", "stopped"} => b.calls \subseteq UUID))
                     => Spare(b)'
         /\ Block \subseteq SpareMain' /\ SIPBlock \subseteq SpareSIP'
         /\ SpareMain \subseteq SpareMain' /\ SpareSIP \subseteq SpareSIP'
<1>1. \A b : (Spare(b) /\ (b.op \in {"stop", "destroy", "stopped"} => b.calls \subseteq UUID))
               => Spare(b)'
  BY DEF Keeps, Spare, SpareNow, Known
<1>2. Block \subseteq SpareMain' /\ SIPBlock \subseteq SpareSIP'
  BY DEF SpareMain, SpareSIP, Spare, SpareNow, MainBlock, QueuedBlock, Block, SIPBlock, Op, SIPOp
<1>3. \A b \in MainBlock \cup QueuedBlock :
        b.op \in {"stop", "destroy", "stopped"} => b.calls \subseteq UUID
  BY DEF MainBlock, QueuedBlock, Block, SIPBlock, StopBlock, StoppedBlock, Op, SIPOp
<1>4. SpareMain \subseteq SpareMain' /\ SpareSIP \subseteq SpareSIP'
  BY <1>1, <1>3 DEF SpareMain, SpareSIP
<1> QED BY <1>1, <1>2, <1>4

(* What it takes for a block to be spare after the step.                   *)
LEMMA SpareNext ==
  /\ \A b : b \in SpareSIP' <=> b \in QueuedBlock /\ SpareNow(b, setup', sm'.reg)
  /\ \A b : b \in SpareMain' <=> b \in MainBlock /\ SpareNow(b, setup', sm'.reg)
  BY DEF SpareSIP, SpareMain, Spare

(* No step raises a budget.                                                *)
LEMMA BudgetKept ==
  ASSUME Ringing, MTyped', [MNext]_mvars
  PROVE  Budgeted' /\ setup' = setup
<1>0. Typed /\ Budgeted /\ setup \in Setups BY DEF Ringing, MTyped, Typed
<1>1. UNCHANGED bounds \/ \E kind : Spend(kind)
  BY DEF MNext, mvars, vars, ManagedMainQueue, ManagedSIPQueue, CallKit, Peer, StopOnQueue,
     managedIncomingSIPCall, callDisconnected, incomingCallTimeout, stopped, callConfirmed,
     callConnecting, attemptAccept, acceptTimedOut, answerCall, cancelReported, performAnswer,
     answeringFailed, performEnd, sipEnd, sipAnswer, sipStop, sipDestroy, sipHangUp,
     callKitAccepts, callKitRefuses, callKitDismisses, reportIncomingCall, handleVoIPPush,
     handleCancellationPush, Tap, providerDidReset, stop, Pause, Fires, onCallConfirmed,
     onCallDisconnected, slotFreed, onIncomingCall
<1>2. CASE UNCHANGED bounds BY <1>0, <1>2 DEF bounds, Budgeted
<1>3. ASSUME NEW kind, Spend(kind) PROVE Budgeted' /\ setup' = setup
  <2>1. setup' = setup /\ \A k \in DOMAIN setup.budget : left'[k] <= left[k]
    BY <1>0, <1>3, SpendTyped
  <2>2. \A k \in DOMAIN setup.budget : left[k] \in Nat /\ left'[k] \in Nat /\ setup.budget[k] \in Nat
    BY <1>0, <2>1, LifecycleAssumption DEF Typed, MTyped
  <2> QED BY <1>0, <2>1, <2>2 DEF Budgeted
<1> QED BY <1>1, <1>2, <1>3

(* The main queue stays one that may end no wanted call, ...               *)
LEMMA MainSpared ==
  ASSUME Ringing, MTyped', Keeps, [MNext]_mvars
  PROVE  mainQ' \in Seq(SpareMain')
<1>0. MTyped /\ Typed /\ mainQ \in Seq(SpareMain) /\ sipQ \in Seq(SpareSIP)
  BY DEF Ringing, MTyped, Spared
<1> DEFINE S == SpareMain'
<1>1. SpareMain \subseteq S /\ Block \subseteq S /\ SpareSIP \subseteq SpareSIP' BY StaysSpare
<1>2. ASSUME NextSIP("destroy") PROVE StoppedOf(Head(sipQ)) \in S
  <2> DEFINE b == Head(sipQ)
  <2>1. sipQ # <<>> /\ b.op = "destroy" BY <1>2 DEF NextSIP
  <2>2. b.calls \subseteq UUID /\ IsFiniteSet(b.calls) BY <1>0, <2>1, SIPHead
  <2>3. b \in SpareSIP BY <1>0, <2>1
  <2> HIDE DEF b
  <2>4. SpareNow(b, setup', sm'.reg) BY <1>1, <2>3, SpareNext
  <2>5. StoppedOf(b) \in MainBlock BY <2>2 DEF StoppedOf, MainBlock, StoppedBlock
  <2>6. StoppedOf(b).calls = b.calls /\ StoppedOf(b).op = "stopped" BY DEF StoppedOf
  <2>7. SpareNow(StoppedOf(b), setup', sm'.reg) BY <2>1, <2>4, <2>6 DEF SpareNow
  <2>8. StoppedOf(b) \in S BY <2>5, <2>7, SpareNext
  <2> QED BY <2>8 DEF b
<1> HIDE DEF S
<1>3. mainQ \in Seq(S) BY <1>0, <1>1, WiderSequence
<1>4. mainQ' \in Seq(S) BY <1>0, <1>1, <1>2, <1>3, MainFollows, FollowsKept
<1> QED BY <1>4 DEF S

(* ... and so does sipQueue: what stop() takes along is gone by then.      *)
LEMMA SIPSpared ==
  ASSUME Ringing, MTyped', Keeps, [MNext]_mvars
  PROVE  sipQ' \in Seq(SpareSIP')
<1>0. MTyped /\ Typed /\ sipQ \in Seq(SpareSIP) /\ Budgeted /\ setup \in Setups /\ setup' = setup
  BY DEF Ringing, MTyped, Typed, Spared, Keeps
<1> DEFINE S == SpareSIP'
<1>1. SpareSIP \subseteq S /\ SIPBlock \subseteq S BY StaysSpare
<1>2. ASSUME NEW onMain \in BOOLEAN, stop(onMain)
      PROVE  [op |-> "stop", calls |-> {}, onMain |-> onMain] \in S
  <2> DEFINE b == [op |-> "stop", calls |-> {}, onMain |-> onMain]
  <2>1. "stop" \in DOMAIN setup.budget /\ setup.budget["stop"] \in Nat
    BY <1>0, LifecycleAssumption
  <2>2. left["stop"] > 0 /\ left["stop"] \in Nat BY <1>0, <1>2, <2>1 DEF stop, Spend, Typed
  <2>3. setup'.budget["stop"] # 0 BY <1>0, <2>1, <2>2 DEF Budgeted
  <2>4. IsFiniteSet({}) BY FS_EmptySet
  <2>5. b \in QueuedBlock BY <2>4 DEF QueuedBlock, StopBlock
  <2>6. b.calls = {} OBVIOUS
  <2> HIDE DEF b
  <2>7. SpareNow(b, setup', sm'.reg) BY <2>3, <2>6 DEF SpareNow
  <2>8. b \in S BY <2>5, <2>7, SpareNext
  <2> QED BY <2>8 DEF b
<1>3. ASSUME sipStop
      PROVE  \E d \in S : sipQ' = <<d>> \o Tail(sipQ)
  <2> DEFINE b == Head(sipQ)
             d == [b EXCEPT !.op = "destroy", !.calls = Live(sm.reg)]
  <2>1. sipQ # <<>> /\ b.op = "stop" /\ sipQ' = <<d>> \o Tail(sipQ)
        /\ sm' = [sm EXCEPT !.reg = RemoveAll(@)]
    BY <1>3 DEF sipStop
  <2>2. b \in StopBlock BY <1>0, <2>1, SIPHead
  <2>3. b \in SpareSIP BY <1>0, <2>1
  <2> HIDE DEF b
  <2>4. d \in StopBlock /\ IsFiniteSet(d.calls) /\ d.calls = Live(sm.reg)
    BY <1>0, <2>2, LiveFinite DEF StopBlock
  <2> HIDE DEF d
  <2>5. sm'.reg = RemoveAll(sm.reg) /\ sm.reg \in Registries
    BY <1>0, <2>1, EmptiedSound DEF Typed, Sound, Formed
  <2>6. \A u \in Live(sm.reg) : u \in UUID /\ Known(u)
    BY <1>0, <2>5 DEF Live, Typed, Sound, Formed, Known, Registries
  <2>7. \A u : ~Wanted(sm'.reg, u) BY <2>5 DEF Wanted, RemoveAll, Registries
  <2>8. \A u \in d.calls : sm'.reg.call[u].createdAt # 0 BY <2>4, <2>6 DEF Keeps
  <2>9. setup'.budget["stop"] # 0 BY <1>0, <2>1, <2>3 DEF SpareSIP, Spare, SpareNow
  <2>10. SpareNow(d, setup', sm'.reg) BY <2>7, <2>8, <2>9 DEF SpareNow
  <2>11. d \in S BY <2>4, <2>10, SpareNext DEF QueuedBlock
  <2> QED BY <2>1, <2>11
<1> HIDE DEF S
<1>4. sipQ \in Seq(S) BY <1>0, <1>1, WiderSequence
<1>5. CASE Follows(sipQ, sipQ', SIPBlock)
  <2>1. sipQ' \in Seq(S) BY <1>1, <1>4, <1>5, FollowsKept
  <2> QED BY <2>1 DEF S
<1>6. ASSUME NEW e \in Seq(SIPBlock), sipQ' = sipQ \o e
      PROVE  sipQ' \in Seq(SpareSIP')
  <2>1. e \in Seq(S) BY <1>1, WiderSequence
  <2>2. sipQ' \in Seq(S) BY <1>4, <1>6, <2>1, ConcatProperties
  <2> QED BY <2>2 DEF S
<1>7. ASSUME NEW onMain \in BOOLEAN, stop(onMain)
      PROVE  sipQ' \in Seq(SpareSIP')
  <2> DEFINE b == [op |-> "stop", calls |-> {}, onMain |-> onMain]
  <2>1. b \in S /\ sipQ' = Append(sipQ, b) BY <1>2, <1>7 DEF stop
  <2> HIDE DEF b
  <2>2. sipQ' \in Seq(S) BY <1>4, <2>1
  <2> QED BY <2>2 DEF S
<1>8. CASE sipStop
  <2>1. PICK d \in S : sipQ' = <<d>> \o Tail(sipQ) BY <1>3, <1>8
  <2>2. sipQ # <<>> BY <1>8 DEF sipStop
  <2>3. <<d>> \in Seq(S) /\ Tail(sipQ) \in Seq(S) BY <1>4, <2>1, <2>2
  <2>4. sipQ' \in Seq(S) BY <2>1, <2>3, ConcatProperties
  <2> QED BY <2>4 DEF S
<1> QED BY <1>0, <1>5, <1>6, <1>7, <1>8, SIPFollows

(* Every step tells the provider what it must.                             *)
LEMMA StepTold ==
  ASSUME Ringing, MTyped', [MNext]_mvars, ~CallKit, ~providerDidReset
  PROVE  Told
<1>0. MTyped BY DEF Ringing
<1>1. CASE ManagedMainQueue
  BY <1>1, InviteTold, BlockTold, ActionTold DEF ManagedMainQueue, SharedBlock
<1>2. CASE ManagedSIPQueue
  BY <1>2, StopTold, QuietTold DEF ManagedSIPQueue
<1>3. ASSUME NEW u \in Announced,
             reportIncomingCall(u) \/ handleVoIPPush(u) \/ handleCancellationPush(u)
      PROVE  Told
  <2>1. u \in UUID BY LifecycleAssumption
  <2> QED BY <1>3, <2>1, AnnounceTold
<1>4. CASE Tap("answerAction", "accept") \/ Tap("endAction", "end") BY <1>4, TapTold
<1>5. CASE /\ \/ \E onMain \in BOOLEAN : stop(onMain)
              \/ Peer \/ Pause \/ \E b \in BagToSet(delayed) : Fires(b)
           /\ UNCHANGED callKit
  BY <1>5, QuietTold
<1>6. CASE UNCHANGED mvars BY <1>0, <1>6, Idles DEF mvars, vars
<1> QED BY <1>1, <1>2, <1>3, <1>4, <1>5, <1>6 DEF MNext

(* So every step keeps the whole invariant, ...                            *)
LEMMA RingingNext ==
  ASSUME Ringing, [MNext]_mvars
  PROVE  Ringing'
<1>1. MTyped' BY MNextTyped DEF Ringing
<1>2. Budgeted' /\ setup' = setup BY <1>1, BudgetKept
<1>3. Keeps /\ States(sm'.reg) /\ AllShown'
  <2>1. CASE CallKit BY <1>1, <2>1, CallKitShown
  <2>2. CASE providerDidReset BY <1>1, <2>2, ResetShown
  <2>3. CASE ~CallKit /\ ~providerDidReset
    <3>1. Told BY <1>1, <2>3, StepTold
    <3> QED BY <1>1, <1>2, <3>1, ShownKept DEF Told
  <2> QED BY <2>1, <2>2, <2>3
<1>4. mainQ' \in Seq(SpareMain') /\ sipQ' \in Seq(SpareSIP')
  BY <1>1, <1>3, MainSpared, SIPSpared
<1> QED BY <1>1, <1>2, <1>3, <1>4 DEF Ringing, Spared

(* ... which holds at the start ...                                        *)
LEMMA RingingInit ==
  ASSUME MInit
  PROVE  Ringing
<1>1. MTyped BY MInitTyped
<1>2. sm = Idle /\ mainQ = <<>> /\ sipQ = <<>> /\ left = setup.budget /\ setup \in Setups
  BY DEF MInit, Init
<1>3. Budgeted BY <1>2, LifecycleAssumption DEF Budgeted
<1>4. sm.reg.tracked = {} BY <1>2 DEF Idle, EmptyRegistry
<1> QED BY <1>1, <1>2, <1>3, <1>4 DEF Ringing, States, Spared, AllShown, Wanted

(* ... and at rest is what was to be shown.                                *)
LEMMA RingingShows ==
  ASSUME Ringing
  PROVE  RingingIsShown
<1>0. sm.reg.tracked \subseteq UUID BY DEF Ringing, MTyped, Typed, Sound, Formed, Registries
<1>1. ASSUME StopsApart, reports = <<>>, NEW u \in UUID, StillRinging(sm.reg, u)
      PROVE  u \in screens
  <2>1. Wanted(sm.reg, u) BY <1>1 DEF Ringing, States, StillRinging, Wanted
  <2>2. Shows(reports, screens, u) BY <1>1, <2>1 DEF Ringing, AllShown
  <2>3. Len(reports) = 0 BY <1>1
  <2> QED BY <2>2, <2>3 DEF Shows
<1> QED BY <1>1 DEF RingingIsShown, AllRingingIsShown, StopsApart

(* A call that rings has its screen once both queues and the provider are  *)
(* at rest, so that the user can answer or refuse it, unless a push is     *)
(* repeated around a stop().  Rest does not come about by itself, so the   *)
(* invariant says what holds on the way there: the screen of every call    *)
(* not given up is there or announced, and no end of it is on its way.     *)
THEOREM RingingAlwaysShown == MSpec => []RingingIsShown
<1>1. MInit => Ringing BY RingingInit
<1>2. Ringing /\ [MNext]_mvars => Ringing' BY RingingNext
<1>3. Ringing => RingingIsShown BY RingingShows
<1> QED BY <1>1, <1>2, <1>3, PTL DEF MSpec
=============================================================================
