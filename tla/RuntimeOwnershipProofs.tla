------------------------ MODULE RuntimeOwnershipProofs ------------------------
(***************************************************************************)
(* For every set of clients and every set of threads: only the owner's     *)
(* current block is inside PJSUA, and what changes hands is clean.         *)
(*                                                                         *)
(* OneInsideRuntime is not inductive.  It follows from two facts about a   *)
(* thread inside: it holds the queue of its client, and its client owns    *)
(* the runtime.  The second is stable because a claim needs an unowned     *)
(* runtime and a release is made from a block of the owner's queue - or by *)
(* dealloc, which no other call of the same client overlaps.               *)
(*                                                                         *)
(* Nor is OwnerRunsOrIsBusy: of the calls in progress only those past the  *)
(* claim, and not yet past the release, answer for the runtime.            *)
(***************************************************************************)
EXTENDS RuntimeOwnership, TLAPS

Deallocating == {"dealloc", "tearingDown", "deallocated"}

(* After the teardown, before the owner is cleared.                        *)
TornDown == {"stopped", "release", "deallocated"}

(* From the claim to the release: who is there answers for the runtime.    *)
Answerable == {"claim", "startTurn", "starting", "startFailed", "release",
               "stopping", "stopped", "tearingDown", "deallocated"}

HoldsQueue ==
  \A t \in Thread :
    pc[t] \in InTurn \/ (purpose[t] = "wake" /\ pc[t] \notin {"idle", "wakeTurn"})
      => turn[on[t]] = t

InsideOwns == \A t \in Thread : pc[t] \in Inside => owner = on[t]

DeallocAlone ==
  \A s, t \in Thread :
    on[s] = on[t] /\ pc[t] \in Deallocating /\ pc[s] # "idle" => s = t

Exclusion == HoldsQueue /\ InsideOwns /\ DeallocAlone

TornDownIsClean ==
  \A t \in Thread :
    pc[t] \in TornDown /\ owner = on[t] => runtime = "down" /\ account = Nobody

Handover == TornDownIsClean /\ UnownedIsDown /\ AccountIsOwners

BusyIsAlive == \A t \in Thread : pc[t] # "idle" => on[t] \in alive

OwnerIsAlive == owner # Nobody => owner \in alive

OwnerIsAnswered ==
  \A c \in Client :
    owner = c =>
      \/ running[c] /\ runtime = "started"
      \/ \E t \in Thread : on[t] = c /\ pc[t] \in Answerable

Ownership == BusyIsAlive /\ OwnerIsAlive /\ OwnerIsAnswered

IInv == TypeOK /\ Exclusion /\ Handover /\ Ownership
-----------------------------------------------------------------------------
(* Init establishes the invariant.                                         *)
LEMMA InitInvariant == Init => IInv
BY OwnershipAssumption DEF Init, IInv, TypeOK, Exclusion, HoldsQueue, InsideOwns, DeallocAlone,
   Handover, TornDownIsClean, UnownedIsDown, AccountIsOwners, Point, Inside, Uninvited, InTurn,
   Deallocating, TornDown, Ownership, BusyIsAlive, OwnerIsAlive, OwnerIsAnswered

(* Every step keeps the types.                                             *)
LEMMA TypeStep == TypeOK /\ [Next]_vars => TypeOK'
<1> SUFFICES ASSUME TypeOK, [Next]_vars PROVE TypeOK'
  OBVIOUS
<1> USE OwnershipAssumption DEF TypeOK, Point, At, Go, Enter, MayEnter, Return, Leave, Pass, Owns, native, call
<1>1. ASSUME NEW t \in Thread, Proceeds(t) PROVE TypeOK'
  <2>1. CASE startEngine(t) BY <2>1 DEF startEngine, GoOn
  <2>2. CASE recoverStale(t) BY <2>2 DEF recoverStale
  <2>3. CASE claimRuntime(t) BY <2>3 DEF claimRuntime
  <2>4. CASE startTurn(t) BY <2>4 DEF startTurn
  <2>5. CASE started(t) BY <2>5 DEF started, GoOn
  <2>6. CASE startFailed(t) BY <2>6 DEF startFailed, DestroyRuntime
  <2>7. CASE release(t) BY <2>7 DEF release
  <2>8. CASE configure(t) BY <2>8 DEF configure
  <2>9. CASE updateTurn(t) BY <2>9 DEF updateTurn
  <2>10. CASE applyConfiguration(t) BY <2>10 DEF applyConfiguration
  <2>11. CASE accountTurn(t) BY <2>11 DEF accountTurn
  <2>12. CASE useAccount(t) BY <2>12 DEF useAccount
  <2>13. CASE wakeTurn(t) BY <2>13 DEF wakeTurn
  <2>14. CASE stopTurn(t) BY <2>14 DEF stopTurn
  <2>15. CASE stopping(t) BY <2>15 DEF stopping, DestroyRuntime
  <2>16. CASE stopped(t) BY <2>16 DEF stopped
  <2>17. CASE deallocTurn(t) BY <2>17 DEF deallocTurn
  <2>18. CASE tearDown(t) BY <2>18 DEF tearDown, DestroyRuntime
  <2>19. CASE deallocated(t) BY <2>19 DEF deallocated
  <2>20. CASE networkTurn(t) BY <2>20 DEF networkTurn
  <2>21. CASE foregroundTurn(t) BY <2>21 DEF foregroundTurn
  <2>22. CASE noticed(t) BY <2>22 DEF noticed
  <2> QED BY <1>1, <2>1, <2>2, <2>3, <2>4, <2>5, <2>6, <2>7, <2>8, <2>9, <2>10, <2>11, <2>12,
             <2>13, <2>14, <2>15, <2>16, <2>17, <2>18, <2>19, <2>20, <2>21, <2>22 DEF Proceeds
<1>2. ASSUME NEW t \in Thread, NEW c \in Client, Begins(t, c) PROVE TypeOK'
  <2> SUFFICES ASSUME NEW p \in Point, NEW why \in {"start", "update", "wake"},
                         Calls(t, c, p, why)
                  PROVE  TypeOK'
    BY <1>2 DEF Begins, stop, dealloc, applicationDidBecomeActive
  <2> QED BY DEF Calls
<1>3. ASSUME NEW c \in Client, init(c) PROVE TypeOK'
  BY <1>3 DEF init
<1>4. CASE UNCHANGED vars BY <1>4 DEF vars
<1> QED BY <1>1, <1>2, <1>3, <1>4 DEF Next
-----------------------------------------------------------------------------
(* A thread that begins a call is not in a block, and nothing else moves.  *)
LEMMA BeginsStep ==
  ASSUME IInv, NEW t \in Thread, NEW c \in Client, Begins(t, c)
  PROVE  Exclusion' /\ Handover' /\ Ownership'
<1> USE OwnershipAssumption DEF IInv, TypeOK, At, Go, native, call
<1>1. PICK p \in {"startEngine", "configure", "accountTurn", "wakeTurn", "stopTurn", "dealloc",
                 "networkTurn", "foregroundTurn"},
           why \in {"start", "update", "wake"} :
        /\ Calls(t, c, p, why)
        /\ why = "wake" => p = "wakeTurn"
        /\ p = "dealloc" => \A s \in Thread : on[s] = c => pc[s] = "idle"
  BY DEF Begins, stop, dealloc, applicationDidBecomeActive
<1>2. /\ pc' = [pc EXCEPT ![t] = p] /\ on' = [on EXCEPT ![t] = c]
      /\ purpose' = [purpose EXCEPT ![t] = why] /\ pc[t] = "idle" /\ c \in alive
  BY <1>1 DEF Calls
<1>3. UNCHANGED <<owner, runtime, account, running, alive, turn>>
  BY <1>1 DEF Calls
<1>4. p \notin InTurn /\ p \notin Inside /\ p \notin TornDown
  BY <1>1 DEF InTurn, Inside, Uninvited, TornDown
<1>5. HoldsQueue'
  BY <1>1, <1>2, <1>3, <1>4 DEF Exclusion, HoldsQueue
<1>6. InsideOwns'
  BY <1>2, <1>3, <1>4 DEF Exclusion, InsideOwns
<1>7. \A s \in Thread : on[s] = c => pc[s] \notin Deallocating
  BY <1>1 DEF Calls, Deallocating
<1>8. DeallocAlone'
  BY <1>1, <1>2, <1>7 DEF Exclusion, DeallocAlone, Deallocating
<1>9. Handover'
  BY <1>2, <1>3, <1>4 DEF Handover, TornDownIsClean, UnownedIsDown, AccountIsOwners
<1>10. BusyIsAlive' /\ OwnerIsAlive'
  BY <1>2, <1>3 DEF Ownership, BusyIsAlive, OwnerIsAlive
<1>11. OwnerIsAnswered'
  BY <1>2, <1>3 DEF Ownership, OwnerIsAnswered, Answerable
<1> QED BY <1>5, <1>6, <1>8, <1>9, <1>10, <1>11 DEF Exclusion, Ownership

(* A call that goes on keeps the exclusion.                                *)
LEMMA ExclusionStep ==
  ASSUME TypeOK, Exclusion, NEW t \in Thread, Proceeds(t)
  PROVE  Exclusion'
<1> USE OwnershipAssumption
    DEF TypeOK, At, Go, GoOn, Enter, MayEnter, Return, Leave, Pass, Owns, native, call, Exclusion, HoldsQueue, InsideOwns,
        DeallocAlone, Deallocating, Inside, Uninvited, InTurn, DestroyRuntime
<1> DEFINE Others == \A s \in Thread \ {t} : turn[on[s]] = s => turn'[on'[s]] = s
<1>0. ASSUME MayEnter(t), turn' = [turn EXCEPT ![on[t]] = t] \/ Return(t), UNCHANGED on
      PROVE  Others
  BY <1>0
<1>1. CASE startEngine(t) BY <1>1 DEF startEngine
<1>2. CASE recoverStale(t) BY <1>2 DEF recoverStale
<1>3. CASE claimRuntime(t) BY <1>3 DEF claimRuntime
<1>4. CASE startTurn(t)
  <2>1. /\ Others /\ UNCHANGED <<owner, on, purpose>> /\ pc[t] = "startTurn"
        /\ \E p \in {"starting", "idle"} :
             /\ pc' = [pc EXCEPT ![t] = p]
             /\ p # "idle" => turn'[on[t]] = t
             /\ p \in Inside => owner = on[t]
    BY <1>0, <1>4 DEF startTurn
  <2>2. HoldsQueue' BY <2>1
  <2>3. InsideOwns' /\ DeallocAlone' BY <2>1
  <2> QED BY <2>2, <2>3
<1>5. CASE started(t) BY <1>5 DEF started
<1>6. CASE startFailed(t) BY <1>6 DEF startFailed
<1>7. CASE release(t) BY <1>7 DEF release
<1>8. CASE configure(t) BY <1>8 DEF configure
<1>9. CASE updateTurn(t) BY <1>9 DEF updateTurn
<1>10. CASE applyConfiguration(t) BY <1>10 DEF applyConfiguration
<1>11. CASE accountTurn(t)
  <2>1. /\ Others /\ UNCHANGED <<owner, on, purpose>> /\ pc[t] = "accountTurn"
        /\ \E p \in {"usingAccount", "idle"} :
             /\ pc' = [pc EXCEPT ![t] = p]
             /\ p # "idle" => turn'[on[t]] = t
             /\ p \in Inside => owner = on[t]
    BY <1>0, <1>11 DEF accountTurn, AccountIsValid
  <2>2. HoldsQueue' BY <2>1
  <2>3. InsideOwns' /\ DeallocAlone' BY <2>1
  <2> QED BY <2>2, <2>3
<1>12. CASE useAccount(t) BY <1>12 DEF useAccount
<1>13. CASE wakeTurn(t)
  <2>1. /\ Others /\ UNCHANGED <<owner, on, purpose>> /\ pc[t] = "wakeTurn"
        /\ \E p \in {"usingAccount", "startEngine", "idle"} :
             /\ pc' = [pc EXCEPT ![t] = p]
             /\ p # "idle" => turn'[on[t]] = t
             /\ p \in Inside => owner = on[t]
    BY <1>0, <1>13 DEF wakeTurn, AccountIsValid
  <2>2. HoldsQueue' BY <2>1
  <2>3. InsideOwns' /\ DeallocAlone' BY <2>1
  <2> QED BY <2>2, <2>3
<1>14. CASE stopTurn(t) BY <1>14 DEF stopTurn
<1>15. CASE stopping(t) BY <1>15 DEF stopping
<1>16. CASE stopped(t) BY <1>16 DEF stopped
<1>17. CASE deallocTurn(t) BY <1>17 DEF deallocTurn
<1>18. CASE tearDown(t) BY <1>18 DEF tearDown
<1>19. CASE deallocated(t) BY <1>19 DEF deallocated
<1>20. CASE networkTurn(t) BY <1>20 DEF networkTurn
<1>21. CASE foregroundTurn(t) BY <1>21 DEF foregroundTurn
<1>22. CASE noticed(t) BY <1>22 DEF noticed
<1> QED BY <1>1, <1>2, <1>3, <1>4, <1>5, <1>6, <1>7, <1>8, <1>9, <1>10, <1>11, <1>12,
           <1>13, <1>14, <1>15, <1>16, <1>17, <1>18, <1>19, <1>20, <1>21, <1>22 DEF Proceeds

(* ... and what it leaves to the next owner is clean.                      *)
LEMMA HandoverStep ==
  ASSUME TypeOK, Exclusion, Handover, NEW t \in Thread, Proceeds(t)
  PROVE  Handover'
<1> USE OwnershipAssumption
    DEF TypeOK, At, Go, GoOn, Enter, MayEnter, Return, Leave, Pass, Owns, native, call, Exclusion, HoldsQueue, InsideOwns,
        DeallocAlone, Deallocating, Inside, Uninvited, InTurn, Handover, TornDown, TornDownIsClean,
        UnownedIsDown, AccountIsOwners, DestroyRuntime
<1>1. CASE startEngine(t) BY <1>1 DEF startEngine
<1>2. CASE recoverStale(t) BY <1>2 DEF recoverStale
<1>3. CASE claimRuntime(t) BY <1>3 DEF claimRuntime
<1>4. CASE startTurn(t) BY <1>4 DEF startTurn
<1>5. CASE started(t) BY <1>5 DEF started
<1>6. CASE startFailed(t) BY <1>6 DEF startFailed
<1>7. CASE release(t) BY <1>7 DEF release
<1>8. CASE configure(t) BY <1>8 DEF configure
<1>9. CASE updateTurn(t) BY <1>9 DEF updateTurn
<1>10. CASE applyConfiguration(t) BY <1>10 DEF applyConfiguration
<1>11. CASE accountTurn(t) BY <1>11 DEF accountTurn
<1>12. CASE useAccount(t) BY <1>12 DEF useAccount
<1>13. CASE wakeTurn(t) BY <1>13 DEF wakeTurn
<1>14. CASE stopTurn(t) BY <1>14 DEF stopTurn
<1>15. CASE stopping(t) BY <1>15 DEF stopping
<1>16. CASE stopped(t) BY <1>16 DEF stopped
<1>17. CASE deallocTurn(t) BY <1>17 DEF deallocTurn
<1>18. CASE tearDown(t) BY <1>18 DEF tearDown
<1>19. CASE deallocated(t) BY <1>19 DEF deallocated
<1>20. CASE networkTurn(t) BY <1>20 DEF networkTurn
<1>21. CASE foregroundTurn(t) BY <1>21 DEF foregroundTurn
<1>22. CASE noticed(t) BY <1>22 DEF noticed
<1> QED BY <1>1, <1>2, <1>3, <1>4, <1>5, <1>6, <1>7, <1>8, <1>9, <1>10, <1>11, <1>12,
           <1>13, <1>14, <1>15, <1>16, <1>17, <1>18, <1>19, <1>20, <1>21, <1>22 DEF Proceeds

(* The owner stays alive, and somebody goes on answering for it.           *)
LEMMA OwnershipStep ==
  ASSUME TypeOK, Exclusion, Ownership, NEW t \in Thread, Proceeds(t)
  PROVE  Ownership'
<1> USE OwnershipAssumption
    DEF TypeOK, At, Go, GoOn, Enter, MayEnter, Return, Leave, Pass, Owns, native, call, Exclusion, HoldsQueue, InsideOwns,
        DeallocAlone, Deallocating, Inside, Uninvited, InTurn, Ownership, BusyIsAlive,
        OwnerIsAlive, OwnerIsAnswered, Answerable, DestroyRuntime
<1>1. CASE startEngine(t) BY <1>1 DEF startEngine
<1>2. CASE recoverStale(t) BY <1>2 DEF recoverStale
<1>3. CASE claimRuntime(t) BY <1>3 DEF claimRuntime
<1>4. CASE startTurn(t) BY <1>4 DEF startTurn
<1>5. CASE started(t) BY <1>5 DEF started
<1>6. CASE startFailed(t) BY <1>6 DEF startFailed
<1>7. CASE release(t) BY <1>7 DEF release
<1>8. CASE configure(t) BY <1>8 DEF configure
<1>9. CASE updateTurn(t) BY <1>9 DEF updateTurn
<1>10. CASE applyConfiguration(t) BY <1>10 DEF applyConfiguration
<1>11. CASE accountTurn(t) BY <1>11 DEF accountTurn
<1>12. CASE useAccount(t) BY <1>12 DEF useAccount
<1>13. CASE wakeTurn(t) BY <1>13 DEF wakeTurn
<1>14. CASE stopTurn(t) BY <1>14 DEF stopTurn
<1>15. CASE stopping(t) BY <1>15 DEF stopping
<1>16. CASE stopped(t) BY <1>16 DEF stopped
<1>17. CASE deallocTurn(t) BY <1>17 DEF deallocTurn
<1>18. CASE tearDown(t) BY <1>18 DEF tearDown
<1>19. CASE deallocated(t) BY <1>19 DEF deallocated
<1>20. CASE networkTurn(t) BY <1>20 DEF networkTurn
<1>21. CASE foregroundTurn(t) BY <1>21 DEF foregroundTurn
<1>22. CASE noticed(t) BY <1>22 DEF noticed
<1> QED BY <1>1, <1>2, <1>3, <1>4, <1>5, <1>6, <1>7, <1>8, <1>9, <1>10, <1>11, <1>12,
           <1>13, <1>14, <1>15, <1>16, <1>17, <1>18, <1>19, <1>20, <1>21, <1>22 DEF Proceeds

LEMMA InvariantStep == IInv /\ [Next]_vars => IInv'
<1> DEFINE Kept == Exclusion' /\ Handover' /\ Ownership'
<1> SUFFICES ASSUME IInv, [Next]_vars PROVE Kept
  BY TypeStep DEF IInv
<1>1. ASSUME NEW t \in Thread, Proceeds(t) PROVE Kept
  BY <1>1, ExclusionStep, HandoverStep, OwnershipStep DEF IInv
<1>2. ASSUME NEW t \in Thread, NEW c \in Client, Begins(t, c) PROVE Kept
  BY <1>2, BeginsStep DEF IInv
<1> USE DEF IInv, Exclusion, HoldsQueue, InsideOwns, DeallocAlone,
            Handover, TornDownIsClean, UnownedIsDown, AccountIsOwners,
            Ownership, BusyIsAlive, OwnerIsAlive, OwnerIsAnswered
<1>3. ASSUME NEW c \in Client, init(c) PROVE Kept
  BY <1>3, OwnershipAssumption DEF TypeOK, init, native, call
<1>4. CASE UNCHANGED vars
  BY <1>4 DEF vars
<1> QED BY <1>1, <1>2, <1>3, <1>4 DEF Next

LEMMA Invariant == Spec => []IInv
BY InitInvariant, InvariantStep, PTL DEF Spec
-----------------------------------------------------------------------------
(* The variables of RuntimeOwnership keep their types.                     *)
THEOREM OwnershipTypeCorrect == Spec => []TypeOK
<1>1. IInv => TypeOK BY DEF IInv
<1> QED BY <1>1, Invariant, PTL

(* Whatever clients exist and however many threads call them, no two       *)
(* threads are inside PJSUA at once (claimRuntimeWithError: and the checks *)
(* that open every block of startEngine, stop, the account operations).    *)
THEOREM RuntimeIsExclusive == Spec => []OneInsideRuntime
<1>1. IInv => OneInsideRuntime
  BY DEF IInv, Exclusion, HoldsQueue, InsideOwns, OneInsideRuntime, InTurn
<1> QED BY <1>1, Invariant, PTL

(* A failed start, a stop and a dealloc give up the runtime only once      *)
(* nothing of theirs is left in it.                                        *)
THEOREM HandoverIsClean == Spec => []UnownedIsDown
<1>1. IInv => UnownedIsDown BY DEF IInv, Handover
<1> QED BY <1>1, Invariant, PTL

(* The account PJSUA keeps registered is that of the runtime's owner.      *)
THEOREM AccountStaysWithOwner == Spec => []AccountIsOwners
<1>1. IInv => AccountIsOwners BY DEF IInv, Handover
<1> QED BY <1>1, Invariant, PTL

(* No interleaving of starts, stops, wake-ups and deallocations leaves the *)
(* runtime claimed by a client that neither runs nor is at work on it,     *)
(* which would shut every other client out for good.                       *)
THEOREM ClaimIsNeverLeaked == Spec => []OwnerRunsOrIsBusy
<1>1. IInv => OwnerRunsOrIsBusy
  BY DEF IInv, Ownership, OwnerIsAnswered, OwnerRunsOrIsBusy, Answerable
<1> QED BY <1>1, Invariant, PTL
-----------------------------------------------------------------------------
Users == {t \in Thread : pc[t] \in Inside}

(* A thread inside is there alone; one whose client owns the runtime and   *)
(* may start a block finds nobody there.                                   *)
LEMMA UsersAlone ==
  ASSUME IInv, NEW t \in Thread
  PROVE  /\ pc[t] \in Inside => Users = {t} /\ owner = on[t] /\ owner # Nobody
         /\ Owns(on[t]) /\ MayEnter(t) /\ pc[t] \notin Inside => Users = {}
         /\ Owns(on[t]) /\ turn[on[t]] = t /\ pc[t] \notin Inside => Users = {}
<1> USE OwnershipAssumption
    DEF IInv, TypeOK, Exclusion, HoldsQueue, InsideOwns, InTurn, Users, Owns, MayEnter
<1>1. \A s \in Users : owner = on[s] /\ turn[on[s]] = s
  OBVIOUS
<1>2. pc[t] \in Inside => Users = {t} /\ owner = on[t] /\ owner # Nobody
  BY <1>1
<1>3. \A s \in Users : Owns(on[t]) => turn[on[t]] = s
  BY <1>1
<1> QED BY <1>2, <1>3

(* What a thread of its own moves to changes who is inside.                *)
LEMMA UsersMove ==
  ASSUME IInv, NEW t \in Thread, NEW p, pc' = [pc EXCEPT ![t] = p]
  PROVE  Users' = IF p \in Inside THEN Users \cup {t} ELSE Users \ {t}
BY DEF IInv, TypeOK, Users

(* Every step of the clients is one of the lease, or none.                 *)
LEMMA LeaseStep == IInv /\ [Next]_vars => [Lease!Next]_Lease!vars
<1> SUFFICES ASSUME IInv, [Next]_vars PROVE [Lease!Next]_Lease!vars
  OBVIOUS
<1> DEFINE Stays(t) == \E p : p \notin Inside /\ pc' = [pc EXCEPT ![t] = p]
<1>i. TypeOK /\ Exclusion /\ Handover
  BY DEF IInv
<1>s. ASSUME NEW t \in Thread, UNCHANGED <<owner, native>>, pc[t] \notin Inside, Stays(t)
      PROVE  UNCHANGED Lease!vars
  <2>1. Users' = Users BY <1>s, UsersMove DEF Users
  <2> QED BY <1>s, <2>1 DEF Lease!vars, Users, native
<1>n. ASSUME NEW t \in Thread, Owns(on[t]), MayEnter(t), pc[t] \notin Inside,
             NEW p \in Inside, pc' = [pc EXCEPT ![t] = p], UNCHANGED <<owner, account>>,
             runtime' \in {"down", "created", "started"}
      PROVE  Lease!Next
  <2>1. Users = {} /\ Users' = {t} BY <1>n, UsersAlone, UsersMove
  <2>2. owner # Nobody BY <1>n, <1>i, OwnershipAssumption DEF Owns, TypeOK
  <2> QED BY <1>n, <2>1, <2>2 DEF Lease!Next, Lease!Enter, Lease!Change, Users
<1>w. ASSUME NEW t \in Thread, pc[t] \in Inside, NEW p, pc' = [pc EXCEPT ![t] = p],
             UNCHANGED owner, runtime' \in {"down", "created", "started"},
             account' \in {account, Nobody, on[t]}
      PROVE  Lease!Next
  <2>1. Users = {t} /\ owner = on[t] /\ owner # Nobody BY <1>w, UsersAlone
  <2>2. Users' \in {{t}, {}} BY <1>w, <2>1, UsersMove
  <2> QED BY <1>w, <2>1, <2>2 DEF Lease!Next, Lease!Work, Lease!Change, Users
<1>r. ASSUME NEW t \in Thread, pc[t] \in {"release", "deallocated"}, Stays(t),
             UNCHANGED native, owner' = IF Owns(on[t]) THEN Nobody ELSE owner
      PROVE  [Lease!Next]_Lease!vars
  <2>1. pc[t] \notin Inside BY <1>r DEF Inside
  <2>2. Users' = Users BY <1>r, <2>1, UsersMove DEF Users
  <2>3. CASE ~Owns(on[t]) BY <1>r, <2>2, <2>3 DEF Lease!vars, Users, native
  <2>4. CASE Owns(on[t])
    <3>1. Users = {}
      <4>1. \A s \in Users : owner = on[s] /\ turn[on[s]] = s /\ s # t
        BY <1>i, <2>1 DEF Exclusion, HoldsQueue, InsideOwns, InTurn, Users
      <4>2. CASE pc[t] = "release"
        <5>1. turn[on[t]] = t BY <1>i, <4>2 DEF Exclusion, HoldsQueue, InTurn
        <5> QED BY <2>4, <4>1, <5>1 DEF Owns
      <4>3. CASE pc[t] = "deallocated"
        <5>1. \A s \in Users : pc[s] # "idle" /\ on[s] = on[t]
          BY <2>4, <4>1 DEF Users, Inside, Owns
        <5> QED BY <1>i, <4>1, <4>3, <5>1 DEF Exclusion, DeallocAlone, Deallocating, Users
      <4> QED BY <1>r, <4>2, <4>3
    <3>2. runtime = "down" /\ account = Nobody
      BY <1>i, <1>r, <2>4 DEF Handover, TornDownIsClean, TornDown, Owns
    <3>3. owner # Nobody /\ owner' = Nobody
      BY <1>i, <1>r, <2>4, OwnershipAssumption DEF TypeOK, Owns
    <3> QED BY <1>r, <2>2, <3>1, <3>2, <3>3 DEF Lease!Next, Lease!GiveBack, Lease!Empty, Users, native
  <2> QED BY <2>3, <2>4
<1>c. ASSUME NEW t \in Thread, claimRuntime(t) PROVE [Lease!Next]_Lease!vars
  <2>1. pc[t] \notin Inside /\ Stays(t) /\ UNCHANGED native
    BY <1>c DEF claimRuntime, At, Go, Return, Inside
  <2>2. CASE owner' = owner BY <1>s, <2>1, <2>2
  <2>3. CASE owner' # owner
    <3>1. owner = Nobody /\ owner' = on[t] /\ on[t] \in Client
      BY <1>c, <1>i, <2>3 DEF claimRuntime, TypeOK
    <3>2. Users' = Users BY <2>1, UsersMove DEF Users
    <3>3. runtime = "down" /\ account = Nobody
      BY <1>i, <3>1 DEF Handover, UnownedIsDown
    <3> QED BY <2>1, <3>1, <3>2, <3>3 DEF Lease!Next, Lease!TakeOver, Lease!Empty, Users, native
  <2> QED BY <2>2, <2>3
<1> USE DEF At, Go, Return, Pass, Enter, Inside
<1>1. ASSUME NEW t \in Thread, Proceeds(t) PROVE [Lease!Next]_Lease!vars
  <2>1. CASE startEngine(t)
    <3>1. PICK p \in {"idle", "updateTurn", "configure", "recover", "claim"} :
            pc' = [pc EXCEPT ![t] = p]
      BY <1>i, <2>1 DEF startEngine, GoOn, TypeOK
    <3>2. Stays(t) BY <3>1
    <3> QED BY <1>s, <2>1, <3>2 DEF startEngine
  <2>2. CASE recoverStale(t) BY <1>s, <2>2 DEF recoverStale
  <2>3. CASE claimRuntime(t) BY <1>c, <2>3
  <2>4. CASE startTurn(t)
    <3>1. CASE Owns(on[t])
      BY <1>i, <1>n, <2>4, <3>1 DEF startTurn, native, TypeOK
    <3>2. CASE ~(Owns(on[t]))
      BY <1>s, <2>4, <3>2 DEF startTurn, native
    <3> QED BY <3>1, <3>2
  <2>5. CASE started(t)
    <3>1. \E p : pc' = [pc EXCEPT ![t] = p]
      BY <2>5 DEF started, GoOn
    <3>2. runtime' \in {"down", "created", "started"} /\ UNCHANGED <<owner, account>>
      BY <1>i, <2>5 DEF started, TypeOK
    <3> QED BY <1>w, <2>5, <3>1, <3>2 DEF started
  <2>6. CASE startFailed(t) BY <1>w, <2>6 DEF startFailed, DestroyRuntime
  <2>7. CASE release(t) BY <1>r, <2>7 DEF release
  <2>8. CASE configure(t) BY <1>s, <2>8 DEF configure
  <2>9. CASE updateTurn(t)
    <3>1. CASE Owns(on[t]) /\ running[on[t]]
      BY <1>i, <1>n, <2>9, <3>1 DEF updateTurn, native, TypeOK
    <3>2. CASE ~(Owns(on[t]) /\ running[on[t]])
      BY <1>s, <2>9, <3>2 DEF updateTurn, native
    <3> QED BY <3>1, <3>2
  <2>10. CASE applyConfiguration(t) BY <1>i, <1>w, <2>10 DEF applyConfiguration, TypeOK
  <2>11. CASE accountTurn(t)
    <3>1. CASE AccountIsValid(on[t])
      BY <1>i, <1>n, <2>11, <3>1 DEF accountTurn, native, TypeOK, AccountIsValid
    <3>2. CASE ~(AccountIsValid(on[t]))
      BY <1>s, <2>11, <3>2 DEF accountTurn, native, AccountIsValid
    <3> QED BY <3>1, <3>2
  <2>12. CASE useAccount(t) BY <1>i, <1>w, <2>12 DEF useAccount, TypeOK
  <2>13. CASE wakeTurn(t)
    <3>1. CASE AccountIsValid(on[t]) /\ Enter(t) /\ Go(t, "usingAccount")
      BY <1>i, <1>n, <2>13, <3>1 DEF wakeTurn, native, TypeOK, AccountIsValid
    <3>2. CASE ~(AccountIsValid(on[t]) /\ Enter(t) /\ Go(t, "usingAccount"))
      BY <1>s, <2>13, <3>2 DEF wakeTurn
    <3> QED BY <3>1, <3>2
  <2>14. CASE stopTurn(t)
    <3>1. CASE Owns(on[t]) BY <1>i, <1>n, <2>14, <3>1 DEF stopTurn, native, TypeOK
    <3>2. CASE ~Owns(on[t]) BY <1>s, <2>14, <3>2 DEF stopTurn
    <3> QED BY <3>1, <3>2
  <2>15. CASE stopping(t) BY <1>w, <2>15 DEF stopping, DestroyRuntime
  <2>16. CASE stopped(t) BY <1>s, <2>16 DEF stopped
  <2>17. CASE deallocTurn(t)
    <3>1. CASE Owns(on[t]) BY <1>i, <1>n, <2>17, <3>1 DEF deallocTurn, native, TypeOK
    <3>2. CASE ~Owns(on[t]) BY <1>s, <2>17, <3>2 DEF deallocTurn
    <3> QED BY <3>1, <3>2
  <2>18. CASE tearDown(t) BY <1>w, <2>18 DEF tearDown, DestroyRuntime
  <2>19. CASE deallocated(t) BY <1>r, <2>19 DEF deallocated
  <2>20. CASE networkTurn(t) BY <1>s, <2>20 DEF networkTurn
  <2>21. CASE foregroundTurn(t) BY <1>s, <2>21 DEF foregroundTurn
  <2>22. CASE noticed(t) BY <1>s, <2>22 DEF noticed, Uninvited
  <2> QED BY <1>1, <2>1, <2>2, <2>3, <2>4, <2>5, <2>6, <2>7, <2>8, <2>9, <2>10, <2>11, <2>12,
             <2>13, <2>14, <2>15, <2>16, <2>17, <2>18, <2>19, <2>20, <2>21, <2>22 DEF Proceeds
<1>2. ASSUME NEW t \in Thread, NEW c \in Client, Begins(t, c) PROVE UNCHANGED Lease!vars
  <2>1. pc[t] = "idle" /\ Stays(t) /\ UNCHANGED <<owner, native>>
    BY <1>2 DEF Begins, stop, dealloc, applicationDidBecomeActive, Calls
  <2> QED BY <1>s, <2>1
<1>3. ASSUME NEW c \in Client, init(c) PROVE UNCHANGED Lease!vars
  BY <1>3 DEF init, native, Lease!vars
<1>4. CASE UNCHANGED vars
  BY <1>4 DEF vars, Lease!vars
<1> QED BY <1>1, <1>2, <1>3, <1>4 DEF Next

(* The clients of a process share PJSUA by a lease: every change of it is  *)
(* made by the one thread inside, for the owner, and it is empty whenever  *)
(* it changes hands.                                                       *)
THEOREM OwnershipIsALease == Spec => IsALease
<1>1. Init => Lease!Init
  BY DEF Init, Lease!Init, Lease!Empty, Inside
<1> QED BY <1>1, LeaseStep, Invariant, PTL DEF Spec, IsALease, Lease!Spec
=============================================================================
