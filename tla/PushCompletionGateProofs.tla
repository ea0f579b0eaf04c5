----------------------- MODULE PushCompletionGateProofs -----------------------
(***************************************************************************)
(* For every number of sources: the handler runs at most once, and the     *)
(* gate implements PushAcknowledgement.                                    *)
(*                                                                         *)
(* The sources past "mark" have set _finished; a source at "mark" has      *)
(* still seen it clear, under the lock.  So there is never more than one   *)
(* past "mark", the handler is there for it to take, and runs only there.  *)
(***************************************************************************)
EXTENDS PushCompletionGate, TLAPS

Holding == {"test", "mark", "take", "clear", "unlock"}
PastMark == {"take", "clear", "unlock", "call", "YES"}

HoldsLock == \A s \in Source : pc[s] \in Holding => lock = s

MarkedOnce ==
  /\ \A s \in Source : pc[s] = "mark" => ~finished
  /\ \A s \in Source : pc[s] \in PastMark => finished
  /\ \A s, t \in Source : pc[s] \in PastMark /\ pc[t] \in PastMark => s = t

HandlerIsKept ==
  /\ ~finished => completion
  /\ \A s \in Source : pc[s] = "take" => completion
  /\ \A s \in Source : pc[s] \in {"clear", "unlock", "call"} => s \in taken

CalledByWinner == calls = IF \E s \in Source : pc[s] = "YES" THEN 1 ELSE 0

IInv == TypeOK /\ HoldsLock /\ MarkedOnce /\ HandlerIsKept /\ CalledByWinner
-----------------------------------------------------------------------------
LEMMA InitInvariant == Init => IInv
<1> SUFFICES ASSUME Init PROVE IInv
  OBVIOUS
<1>1. TypeOK
  BY DEF Init, TypeOK, Point
<1>2. \A s \in Source : pc[s] = "silent"
  BY DEF Init
<1>3. HoldsLock /\ MarkedOnce
  BY <1>2 DEF HoldsLock, MarkedOnce, Holding, PastMark
<1>4. HandlerIsKept /\ CalledByWinner
  BY <1>2 DEF Init, HandlerIsKept, CalledByWinner
<1> QED BY <1>1, <1>3, <1>4 DEF IInv

LEMMA InvariantStep == IInv /\ [Next]_vars => IInv'
<1> SUFFICES ASSUME IInv, [Next]_vars PROVE IInv'
  OBVIOUS
<1> USE GateAssumption DEF IInv, TypeOK, HoldsLock, MarkedOnce, HandlerIsKept, CalledByWinner, Step,
        Holding, PastMark, Point
<1>1. ASSUME NEW s \in Source, ask(s) PROVE IInv'
  BY <1>1 DEF ask
<1>2. ASSUME NEW s \in Source, finish(s) PROVE IInv'
  <2>1. CASE acquire(s) BY <2>1 DEF acquire
  <2>2. CASE test(s) BY <2>2 DEF test
  <2>3. CASE mark(s)
    <3>1. \A t \in Source : pc[t] \notin PastMark
      BY <2>3 DEF mark
    <3> QED BY <2>3, <3>1 DEF mark
  <2>4. CASE take(s) BY <2>4 DEF take
  <2>5. CASE clear(s) BY <2>5 DEF clear
  <2>6. CASE unlock(s) BY <2>6 DEF unlock
  <2>7. CASE run(s)
    <3>1. calls = 0 /\ s \in taken
      BY <2>7 DEF run
    <3>2. pc' = [pc EXCEPT ![s] = "YES"] /\ pc[s] = "call"
      BY <2>7 DEF run
    <3>3. CalledByWinner'
      BY <2>7, <3>1, <3>2 DEF run
    <3>4. TypeOK' /\ HoldsLock' /\ MarkedOnce' /\ HandlerIsKept'
      BY <2>7, <3>1 DEF run
    <3> QED BY <3>3, <3>4
  <2> QED BY <1>2, <2>1, <2>2, <2>3, <2>4, <2>5, <2>6, <2>7 DEF finish
<1>3. CASE over BY <1>3 DEF over, vars
<1>4. CASE UNCHANGED vars BY <1>4 DEF vars
<1> QED BY <1>1, <1>2, <1>3, <1>4 DEF Next

LEMMA Invariant == Spec => []IInv
BY InitInvariant, InvariantStep, PTL DEF Spec

(* The variables of the gate keep their types.                             *)
THEOREM GateTypeCorrect == Spec => []TypeOK
<1>1. IInv => TypeOK BY DEF IInv
<1> QED BY <1>1, Invariant, PTL

(* "Runs a PushKit completion handler at most once" (the header of         *)
(* CallWavePushCompletionGate), for every number of callers of finish, and *)
(* it has run by the time one of them is told YES.                         *)
THEOREM HandlerRunsOnce == Spec => []CompletionRunsOnce
<1>1. IInv => CompletionRunsOnce BY DEF IInv, CalledByWinner, CompletionRunsOnce, Winners
<1> QED BY <1>1, Invariant, PTL
-----------------------------------------------------------------------------
(* A source that asks is due; the run of the handler acknowledges the push; *)
(* the rest of finish is invisible.                                        *)
LEMMA GateStep == IInv /\ [Next]_vars => [Acknowledgement!Next]_Acknowledgement!vars
<1> SUFFICES ASSUME IInv, [Next]_vars
             PROVE  [Acknowledgement!Next]_Acknowledgement!vars
  OBVIOUS
<1> DEFINE due == {s \in Source : pc[s] # "silent"}
<1> USE DEF IInv, TypeOK, Step, Winners
<1>1. ASSUME NEW s \in Source, ask(s) PROVE Acknowledgement!Ask(s)
  <2>1. pc' = [pc EXCEPT ![s] = "acquire"] /\ pc[s] = "silent"
    BY <1>1 DEF ask
  <2>2. due' = due \cup {s}
    BY <2>1
  <2>3. Winners' = Winners
    BY <2>1
  <2> QED BY <2>2, <2>3 DEF Acknowledgement!Ask
<1>2. ASSUME NEW s \in Source, run(s) PROVE Acknowledgement!Acknowledge(s)
  <2>1. pc' = [pc EXCEPT ![s] = "YES"] /\ pc[s] = "call"
    BY <1>2 DEF run
  <2>2. Winners = {}
    BY <2>1 DEF MarkedOnce, PastMark
  <2>3. Winners' = {s}
    BY <2>1, <2>2
  <2>4. due' = due /\ s \in due
    BY <2>1
  <2> QED BY <2>2, <2>3, <2>4 DEF Acknowledgement!Acknowledge
<1>3. ASSUME NEW s \in Source, acquire(s) \/ test(s) \/ mark(s) \/ take(s) \/ clear(s) \/ unlock(s)
      PROVE  UNCHANGED Acknowledgement!vars
  <2>1. PICK q \in Point \ {"silent", "YES"} :
          pc' = [pc EXCEPT ![s] = q] /\ pc[s] \notin {"silent", "YES"}
    BY <1>3 DEF acquire, test, mark, take, clear, unlock, Point
  <2>2. due' = due /\ Winners' = Winners
    BY <2>1
  <2> QED BY <2>2 DEF Acknowledgement!vars
<1>4. CASE UNCHANGED vars
  <2>1. due' = due /\ Winners' = Winners BY <1>4 DEF vars
  <2> QED BY <2>1 DEF Acknowledgement!vars
<1> QED BY <1>1, <1>2, <1>3, <1>4 DEF Next, finish, over, Acknowledgement!Next

(* The gate implements what PushKit asks for: one acknowledgement, by a    *)
(* source that has asked for it.                                           *)
THEOREM GateImplements == Spec => Implements
<1>1. Init => Acknowledgement!Init
  BY DEF Init, Acknowledgement!Init, Winners
<1> QED BY <1>1, GateStep, Invariant, PTL DEF Spec, Implements, Acknowledgement!Spec
=============================================================================
