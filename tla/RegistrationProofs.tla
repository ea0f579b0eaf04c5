-------------------------- MODULE RegistrationProofs --------------------------
(***************************************************************************)
(* For every set of networks and every mixture of events: once nothing is  *)
(* under way registrationState says what PJSUA has, and the transports are *)
(* those of the network.                                                   *)
(*                                                                         *)
(* SettledStateIsTrue is not inductive, since the answers on their way to  *)
(* the main queue decide what the state will be.  What is stable is that   *)
(* the last of them, or else the state, fits PJSUA's registration whenever *)
(* no REGISTER is out and no turn is half done - unless a turn has written *)
(* the state since the answer was posted.                                  *)
(*                                                                         *)
(* TransportsFollowPath is not either: the monitor's reports are late.     *)
(* What is stable is that the last of them is the path the device is on,   *)
(* so that transports of another path have a handover coming to them.      *)
(***************************************************************************)
EXTENDS Registration, TLAPS

Fits(s, r) ==
  /\ s = "registered" => r = "active"
  /\ r = "active" => s \in {"registered", "failed"}

IsLastAnswer(i) ==
  /\ mainQ[i].what # "observe"
  /\ \A j \in 1..Len(mainQ) : i < j => mainQ[j].what = "observe"

NoAnswer == \A i \in 1..Len(mainQ) : mainQ[i].what = "observe"

StateWillFit ==
  request = "none" /\ sip \in {"idle", "failed", "released"} =>
    /\ NoAnswer /\ ~outrun => Fits(state, reg)
    /\ \A i \in 1..Len(mainQ) :
         IsLastAnswer(i) /\ ~mainQ[i].stale => Fits(Meaning(mainQ[i].what), reg)

ReleasingIsOff == sip = "releasing" => reg = "off" /\ request = "none"

HandoverComes ==
  \/ reports # <<>> /\ IsHandover(reports[1])
  \/ \E i \in 1..(Len(reports) - 1) :
       reports[i] # reports[i + 1] /\ reports[i + 1] # Offline

LastReportIsPath ==
  monitor = "on" =>
    /\ engine
    /\ IF reports = <<>> THEN observed = path ELSE reports[Len(reports)] = path

TransportsWillFollow ==
  engine /\ ~early =>
    \/ built = path
    \/ monitor = "on" /\ (path = Offline \/ HandoverComes)

IInv ==
  /\ TypeOK
  /\ StateWillFit /\ ReleasingIsOff
  /\ LastReportIsPath /\ TransportsWillFollow
-----------------------------------------------------------------------------
Block == [what : Answer \cup {"observe"}, stale : BOOLEAN]

Overtaken(q) == [i \in DOMAIN q |-> [what |-> q[i].what, stale |-> TRUE]]

(* Init establishes the invariant.                                         *)
LEMMA InitInvariant == Init => IInv
<1> SUFFICES ASSUME Init PROVE IInv
  OBVIOUS
<1>1. TypeOK
  <2> USE RegistrationAssumption DEF Init
  <2>1. mainQ \in Seq([what : Answer \cup {"observe"}, stale : BOOLEAN])
    OBVIOUS
  <2>2. reports \in Seq(Path \cup {Offline})
    OBVIOUS
  <2> QED BY <2>1, <2>2 DEF TypeOK, PublishedOK, PjsuaOK, TurnsOK, NetworkOK, State
<1>2. StateWillFit BY DEF Init, StateWillFit, Fits
<1>3. ReleasingIsOff BY DEF Init, ReleasingIsOff
<1>4. LastReportIsPath BY DEF Init, LastReportIsPath
<1>5. TransportsWillFollow BY DEF Init, TransportsWillFollow
<1> QED BY <1>1, <1>2, <1>3, <1>4, <1>5 DEF IInv
-----------------------------------------------------------------------------
(* A turn that overtakes the answers leaves the queue as long as it was.   *)
LEMMA OvertakenQueue ==
  ASSUME NEW q \in Seq(Block)
  PROVE  /\ Overtaken(q) \in Seq(Block)
         /\ Len(Overtaken(q)) = Len(q)
         /\ \A i \in 1..Len(q) : Overtaken(q)[i] = [what |-> q[i].what, stale |-> TRUE]
<1>1. DOMAIN q = 1..Len(q) /\ Len(q) \in Nat
  OBVIOUS
<1>2. ASSUME NEW i \in 1..Len(q) PROVE [what |-> q[i].what, stale |-> TRUE] \in Block
  <2>1. q[i] \in Block BY <1>1
  <2> QED BY <2>1 DEF Block
<1>3. Overtaken(q) \in [1..Len(q) -> Block]
  BY <1>1, <1>2 DEF Overtaken
<1> QED BY <1>1, <1>3 DEF Overtaken

(* What a step does to the main queue.                                     *)
LEMMA QueueStep ==
  ASSUME PublishedOK, [Next]_vars
  PROVE  \/ mainQ' = mainQ
         \/ mainQ' = Overtaken(mainQ)
         \/ \E b \in Block : mainQ' = Append(mainQ, b)
         \/ mainQ # <<>> /\ mainQ' = Tail(mainQ)
<1> USE DEF Overtaken, TurnWrites, Block, Answer, published
<1>1. CASE startEngine BY <1>1 DEF startEngine
<1>2. CASE startEngineFails BY <1>2 DEF startEngineFails
<1>3. CASE startFailed BY <1>3 DEF startFailed
<1>4. CASE updateTurn BY <1>4 DEF updateTurn
<1>5. CASE applySame BY <1>5 DEF applySame
<1>6. CASE applyNew BY <1>6 DEF applyNew
<1>7. CASE applyFails BY <1>7 DEF applyFails
<1>8. CASE updateFailed BY <1>8 DEF updateFailed
<1>9. CASE updateFailedError BY <1>9 DEF updateFailedError
<1>10. CASE unregister BY <1>10 DEF unregister
<1>11. CASE logout BY <1>11 DEF logout
<1>12. CASE stop BY <1>12 DEF stop
<1>13. CASE released BY <1>13 DEF released
<1>14. CASE releasedError BY <1>14 DEF releasedError
<1>15. CASE push BY <1>15 DEF push
<1>16. CASE wakeRegistration BY <1>16 DEF wakeRegistration
<1>17. CASE applicationDidBecomeActive BY <1>17 DEF applicationDidBecomeActive
<1>18. CASE nudge BY <1>18 DEF nudge
<1>19. CASE accepted BY <1>19 DEF accepted, Post
<1>20. CASE refused BY <1>20 DEF refused, Post
<1>21. CASE renewal BY <1>21 DEF renewal
<1>22. CASE statusArrives BY <1>22 DEF statusArrives
<1>23. CASE statusPublished BY <1>23 DEF statusPublished
<1>24. CASE waitUntilRegistered BY <1>24 DEF waitUntilRegistered
<1>25. CASE registrationStates BY <1>25 DEF registrationStates, Post
<1>26. CASE addEventObserver BY <1>26 DEF addEventObserver
<1>27. CASE timedOut BY <1>27 DEF timedOut
<1>28. CASE startPathMonitor BY <1>28 DEF startPathMonitor
<1>29. CASE pathChanges BY <1>29 DEF pathChanges
<1>30. CASE handleObservedPath BY <1>30 DEF handleObservedPath
<1>31. CASE UNCHANGED vars BY <1>31 DEF vars, published, pjsua, blocks, network
<1> QED BY <1>1, <1>2, <1>3, <1>4, <1>5, <1>6, <1>7, <1>8, <1>9, <1>10, <1>11,
           <1>12, <1>13, <1>14, <1>15, <1>16, <1>17, <1>18, <1>19, <1>20,
           <1>21, <1>22, <1>23, <1>24, <1>25, <1>26, <1>27, <1>28, <1>29,
           <1>30, <1>31 DEF Next, SipQueue, MainQueue, Server

(* What the client publishes keeps its types.                              *)
LEMMA PublishedStep ==
  ASSUME PublishedOK, [Next]_vars
  PROVE  PublishedOK'
<1>q. mainQ' \in Seq([what : Answer \cup {"observe"}, stale : BOOLEAN])
  <2>1. mainQ \in Seq(Block) BY DEF PublishedOK, Block
  <2>2. CASE mainQ' = mainQ BY <2>1, <2>2 DEF Block
  <2>3. CASE mainQ' = Overtaken(mainQ) BY <2>1, <2>3, OvertakenQueue DEF Block
  <2>4. CASE \E b \in Block : mainQ' = Append(mainQ, b) BY <2>1, <2>4 DEF Block
  <2>5. CASE mainQ # <<>> /\ mainQ' = Tail(mainQ) BY <2>1, <2>5 DEF Block
  <2> QED BY <2>2, <2>3, <2>4, <2>5, QueueStep
<1>h. mainQ # <<>> => Head(mainQ).stale \in BOOLEAN
  <2>1. mainQ \in Seq(Block) BY DEF PublishedOK, Block
  <2>2. mainQ # <<>> => Head(mainQ) \in Block BY <2>1
  <2> QED BY <2>2 DEF Block
<1> USE <1>q, <1>h DEF PublishedOK, State, Answer, TurnWrites, published
<1>1. CASE startEngine BY <1>1 DEF startEngine
<1>2. CASE startEngineFails BY <1>2 DEF startEngineFails
<1>3. CASE startFailed BY <1>3 DEF startFailed
<1>4. CASE updateTurn BY <1>4 DEF updateTurn
<1>5. CASE applySame BY <1>5 DEF applySame
<1>6. CASE applyNew BY <1>6 DEF applyNew
<1>7. CASE applyFails BY <1>7 DEF applyFails
<1>8. CASE updateFailed BY <1>8 DEF updateFailed
<1>9. CASE updateFailedError BY <1>9 DEF updateFailedError
<1>10. CASE unregister BY <1>10 DEF unregister
<1>11. CASE logout BY <1>11 DEF logout
<1>12. CASE stop BY <1>12 DEF stop
<1>13. CASE released BY <1>13 DEF released
<1>14. CASE releasedError BY <1>14 DEF releasedError
<1>15. CASE push BY <1>15 DEF push
<1>16. CASE wakeRegistration BY <1>16 DEF wakeRegistration
<1>17. CASE applicationDidBecomeActive BY <1>17 DEF applicationDidBecomeActive
<1>18. CASE nudge BY <1>18 DEF nudge
<1>19. CASE accepted BY <1>19 DEF accepted
<1>20. CASE refused BY <1>20 DEF refused
<1>21. CASE renewal BY <1>21 DEF renewal
<1>22. CASE statusArrives BY <1>22 DEF statusArrives, Meaning
<1>23. CASE statusPublished BY <1>23 DEF statusPublished
<1>24. CASE waitUntilRegistered BY <1>24 DEF waitUntilRegistered
<1>25. CASE registrationStates BY <1>25 DEF registrationStates
<1>26. CASE addEventObserver BY <1>26 DEF addEventObserver
<1>27. CASE timedOut BY <1>27 DEF timedOut
<1>28. CASE startPathMonitor BY <1>28 DEF startPathMonitor
<1>29. CASE pathChanges BY <1>29 DEF pathChanges
<1>30. CASE handleObservedPath BY <1>30 DEF handleObservedPath
<1>31. CASE UNCHANGED vars BY <1>31 DEF vars, published, pjsua, blocks, network
<1> QED BY <1>1, <1>2, <1>3, <1>4, <1>5, <1>6, <1>7, <1>8, <1>9, <1>10, <1>11,
           <1>12, <1>13, <1>14, <1>15, <1>16, <1>17, <1>18, <1>19, <1>20,
           <1>21, <1>22, <1>23, <1>24, <1>25, <1>26, <1>27, <1>28, <1>29,
           <1>30, <1>31 DEF Next, SipQueue, MainQueue, Server

(* ... PJSUA's account keeps its types, and the turns theirs.              *)
LEMMA PjsuaStep ==
  ASSUME PjsuaOK, TurnsOK, [Next]_vars
  PROVE  PjsuaOK' /\ TurnsOK'
<1> USE DEF PjsuaOK, TurnsOK, Send, AccountIsValid, EngineStarts, IpChange, pjsua, blocks
<1>1. CASE startEngine BY <1>1 DEF startEngine
<1>2. CASE startEngineFails BY <1>2 DEF startEngineFails
<1>3. CASE startFailed BY <1>3 DEF startFailed
<1>4. CASE updateTurn BY <1>4 DEF updateTurn
<1>5. CASE applySame BY <1>5 DEF applySame
<1>6. CASE applyNew BY <1>6 DEF applyNew
<1>7. CASE applyFails
  <2>1. CASE UNCHANGED <<account, reg, request>> BY <1>7, <2>1 DEF applyFails
  <2>2. CASE account' = FALSE /\ reg' = "off" /\ request' = "none" BY <1>7, <2>2 DEF applyFails
  <2> QED BY <1>7, <2>1, <2>2 DEF applyFails
<1>8. CASE updateFailed BY <1>8 DEF updateFailed
<1>9. CASE updateFailedError BY <1>9 DEF updateFailedError
<1>10. CASE unregister BY <1>10 DEF unregister
<1>11. CASE logout BY <1>11 DEF logout
<1>12. CASE stop BY <1>12 DEF stop
<1>13. CASE released BY <1>13 DEF released
<1>14. CASE releasedError BY <1>14 DEF releasedError
<1>15. CASE push BY <1>15 DEF push
<1>16. CASE wakeRegistration
  <2>1. PjsuaOK'
    <3>1. /\ UNCHANGED <<account, reg, configured>>
          /\ engine' = engine \/ engine' = TRUE
      BY <1>16 DEF wakeRegistration
    <3>2. request' = request \/ (account /\ request' = "register")
      BY <1>16 DEF wakeRegistration
    <3>3. sip' = "configuring" => engine' = TRUE
      <4>1. sip' = sip \/ engine' = TRUE BY <1>16 DEF wakeRegistration
      <4>2. sip = "idle" BY <1>16 DEF wakeRegistration
      <4> QED BY <4>1, <4>2
    <3> QED BY <3>1, <3>2, <3>3
  <2>2. TurnsOK' BY <1>16 DEF wakeRegistration
  <2> QED BY <2>1, <2>2
<1>17. CASE applicationDidBecomeActive BY <1>17 DEF applicationDidBecomeActive
<1>18. CASE nudge BY <1>18 DEF nudge
<1>19. CASE accepted BY <1>19 DEF accepted
<1>20. CASE refused BY <1>20 DEF refused
<1>21. CASE renewal BY <1>21 DEF renewal
<1>22. CASE statusArrives BY <1>22 DEF statusArrives
<1>23. CASE statusPublished BY <1>23 DEF statusPublished
<1>24. CASE waitUntilRegistered BY <1>24 DEF waitUntilRegistered
<1>25. CASE registrationStates BY <1>25 DEF registrationStates
<1>26. CASE addEventObserver BY <1>26 DEF addEventObserver
<1>27. CASE timedOut BY <1>27 DEF timedOut
<1>28. CASE startPathMonitor BY <1>28 DEF startPathMonitor
<1>29. CASE pathChanges BY <1>29 DEF pathChanges
<1>30. CASE handleObservedPath BY <1>30 DEF handleObservedPath
<1>31. CASE UNCHANGED vars BY <1>31 DEF vars, published, pjsua, blocks, network
<1> QED BY <1>1, <1>2, <1>3, <1>4, <1>5, <1>6, <1>7, <1>8, <1>9, <1>10, <1>11,
           <1>12, <1>13, <1>14, <1>15, <1>16, <1>17, <1>18, <1>19, <1>20,
           <1>21, <1>22, <1>23, <1>24, <1>25, <1>26, <1>27, <1>28, <1>29,
           <1>30, <1>31 DEF Next, SipQueue, MainQueue, Server

(* ... and the network and its monitor theirs.                             *)
LEMMA NetworkStep ==
  ASSUME NetworkOK, PjsuaOK, [Next]_vars
  PROVE  NetworkOK'
<1>r. /\ \A p \in Path \cup {Offline} : Append(reports, p) \in Seq(Path \cup {Offline})
      /\ reports # <<>> => /\ Tail(reports) \in Seq(Path \cup {Offline})
                           /\ Head(reports) \in Path \cup {Offline}
  BY DEF NetworkOK
<1> USE <1>r DEF NetworkOK, PjsuaOK, EngineStarts, IpChange, network
<1>1. CASE startEngine BY <1>1 DEF startEngine
<1>2. CASE startEngineFails BY <1>2 DEF startEngineFails
<1>3. CASE startFailed BY <1>3 DEF startFailed
<1>4. CASE updateTurn BY <1>4 DEF updateTurn
<1>5. CASE applySame BY <1>5 DEF applySame
<1>6. CASE applyNew BY <1>6 DEF applyNew
<1>7. CASE applyFails BY <1>7 DEF applyFails
<1>8. CASE updateFailed BY <1>8 DEF updateFailed
<1>9. CASE updateFailedError BY <1>9 DEF updateFailedError
<1>10. CASE unregister BY <1>10 DEF unregister
<1>11. CASE logout BY <1>11 DEF logout
<1>12. CASE stop BY <1>12 DEF stop
<1>13. CASE released BY <1>13 DEF released
<1>14. CASE releasedError BY <1>14 DEF releasedError
<1>15. CASE push BY <1>15 DEF push
<1>16. CASE wakeRegistration BY <1>16 DEF wakeRegistration
<1>17. CASE applicationDidBecomeActive BY <1>17 DEF applicationDidBecomeActive
<1>18. CASE nudge BY <1>18 DEF nudge
<1>19. CASE accepted BY <1>19 DEF accepted
<1>20. CASE refused BY <1>20 DEF refused
<1>21. CASE renewal BY <1>21 DEF renewal
<1>22. CASE statusArrives BY <1>22 DEF statusArrives
<1>23. CASE statusPublished BY <1>23 DEF statusPublished
<1>24. CASE waitUntilRegistered BY <1>24 DEF waitUntilRegistered
<1>25. CASE registrationStates BY <1>25 DEF registrationStates
<1>26. CASE addEventObserver BY <1>26 DEF addEventObserver
<1>27. CASE timedOut BY <1>27 DEF timedOut
<1>28. CASE startPathMonitor BY <1>28 DEF startPathMonitor
<1>29. CASE pathChanges BY <1>29 DEF pathChanges
<1>30. CASE handleObservedPath BY <1>30 DEF handleObservedPath
<1>31. CASE UNCHANGED vars BY <1>31 DEF vars, published, pjsua, blocks, network
<1> QED BY <1>1, <1>2, <1>3, <1>4, <1>5, <1>6, <1>7, <1>8, <1>9, <1>10, <1>11,
           <1>12, <1>13, <1>14, <1>15, <1>16, <1>17, <1>18, <1>19, <1>20,
           <1>21, <1>22, <1>23, <1>24, <1>25, <1>26, <1>27, <1>28, <1>29,
           <1>30, <1>31 DEF Next, SipQueue, MainQueue, Server

LEMMA TypeStep == TypeOK /\ [Next]_vars => TypeOK'
BY PublishedStep, PjsuaStep, NetworkStep DEF TypeOK
-----------------------------------------------------------------------------
(* A turn that writes what fits leaves nothing behind it that does not.    *)
LEMMA TurnFits ==
  ASSUME PublishedOK, NEW s, TurnWrites(s), Fits(s, reg')
  PROVE  StateWillFit'
<1>1. mainQ \in Seq(Block) /\ mainQ' = Overtaken(mainQ)
  BY DEF PublishedOK, Block, TurnWrites, Overtaken
<1>2. \A i \in 1..Len(mainQ') : mainQ'[i].stale = TRUE
  <2>1. /\ Len(Overtaken(mainQ)) = Len(mainQ)
        /\ \A i \in 1..Len(mainQ) :
             Overtaken(mainQ)[i] = [what |-> mainQ[i].what, stale |-> TRUE]
    BY <1>1, OvertakenQueue
  <2>2. /\ Len(mainQ') = Len(mainQ)
        /\ \A i \in 1..Len(mainQ) : mainQ'[i] = [what |-> mainQ[i].what, stale |-> TRUE]
    BY <1>1, <2>1
  <2> SUFFICES ASSUME NEW i \in 1..Len(mainQ) PROVE mainQ'[i].stale = TRUE
    BY <2>2
  <2>3. mainQ'[i] = [what |-> mainQ[i].what, stale |-> TRUE] BY <2>2
  <2> QED BY <2>3
<1>3. Fits(state', reg')
  BY DEF TurnWrites
<1> QED BY <1>2, <1>3 DEF StateWillFit, Fits

(* Nor does an answer that fits when it is posted.                         *)
LEMMA AnswerFits ==
  ASSUME PublishedOK, NEW a \in Answer, Post(a), Fits(Meaning(a), reg')
  PROVE  StateWillFit'
<1>1. mainQ \in Seq(Block) /\ a # "observe" /\ [what |-> a, stale |-> FALSE] \in Block
  BY DEF PublishedOK, Block, Answer
<1>2. /\ Len(mainQ) \in Nat /\ Len(mainQ') = Len(mainQ) + 1
      /\ mainQ'[Len(mainQ) + 1] = [what |-> a, stale |-> FALSE]
  BY <1>1 DEF Post
<1>3. ~NoAnswer'
  BY <1>1, <1>2 DEF NoAnswer
<1>4. \A i \in 1..Len(mainQ') : IsLastAnswer(i)' => i = Len(mainQ) + 1
  BY <1>1, <1>2 DEF IsLastAnswer
<1> QED BY <1>2, <1>3, <1>4 DEF StateWillFit, Fits

(* An observer that is added, or waits to be, does not matter.             *)
LEMMA ObserverFits ==
  ASSUME PublishedOK, StateWillFit, UNCHANGED <<state, outrun, reg, request, sip>>,
         \/ Post("observe")
         \/ mainQ # <<>> /\ Head(mainQ).what = "observe" /\ mainQ' = Tail(mainQ)
  PROVE  StateWillFit'
<1>1. mainQ \in Seq(Block) /\ [what |-> "observe", stale |-> FALSE] \in Block
  BY DEF PublishedOK, Block
<1>2. CASE Post("observe")
  <2>1. /\ Len(mainQ) \in Nat /\ Len(mainQ') = Len(mainQ) + 1
        /\ mainQ'[Len(mainQ) + 1] = [what |-> "observe", stale |-> FALSE]
        /\ \A i \in 1..Len(mainQ) : mainQ'[i] = mainQ[i]
    BY <1>1, <1>2 DEF Post
  <2>2. NoAnswer' => NoAnswer
    BY <2>1 DEF NoAnswer
  <2>3. \A i \in 1..Len(mainQ') : IsLastAnswer(i)' => i \in 1..Len(mainQ) /\ IsLastAnswer(i)
    BY <2>1 DEF IsLastAnswer
  <2> QED BY <2>1, <2>2, <2>3 DEF StateWillFit, Fits
<1>3. CASE mainQ # <<>> /\ Head(mainQ).what = "observe" /\ mainQ' = Tail(mainQ)
  <2>1. /\ Len(mainQ) \in Nat /\ Len(mainQ') = Len(mainQ) - 1 /\ mainQ[1].what = "observe"
        /\ \A i \in 1..Len(mainQ') : mainQ'[i] = mainQ[i + 1]
    BY <1>1, <1>3
  <2>2. NoAnswer' => NoAnswer
    <3> SUFFICES ASSUME NoAnswer', NEW i \in 1..Len(mainQ) PROVE mainQ[i].what = "observe"
      BY DEF NoAnswer
    <3>1. i = 1 \/ (i - 1 \in 1..Len(mainQ') /\ mainQ'[i - 1] = mainQ[i])
      BY <2>1
    <3> QED BY <2>1, <3>1 DEF NoAnswer
  <2>3. \A i \in 1..Len(mainQ') : IsLastAnswer(i)' => IsLastAnswer(i + 1)
    <3> SUFFICES ASSUME NEW i \in 1..Len(mainQ'), IsLastAnswer(i)',
                        NEW j \in 1..Len(mainQ), i + 1 < j
                 PROVE  mainQ[j].what = "observe"
      BY <2>1 DEF IsLastAnswer
    <3>1. j - 1 \in 1..Len(mainQ') /\ i < j - 1 /\ mainQ'[j - 1] = mainQ[j]
      BY <2>1
    <3> QED BY <3>1 DEF IsLastAnswer
  <2> QED BY <2>1, <2>2, <2>3 DEF StateWillFit, Fits
<1> QED BY <1>2, <1>3

(* An answer that arrives makes the state what it was to be.               *)
LEMMA ArrivalFits ==
  ASSUME PublishedOK, StateWillFit, statusArrives
  PROVE  StateWillFit'
<1>1. mainQ \in Seq(Block)
  BY DEF PublishedOK, Block
<1>2. /\ Len(mainQ) \in Nat /\ Len(mainQ') = Len(mainQ) - 1 /\ 1 \in 1..Len(mainQ)
      /\ mainQ[1].what # "observe"
      /\ state' = Meaning(mainQ[1].what) /\ outrun' = mainQ[1].stale
      /\ UNCHANGED <<reg, request, sip>>
      /\ \A i \in 1..Len(mainQ') : mainQ'[i] = mainQ[i + 1]
  BY <1>1 DEF statusArrives, Answer, pjsua
<1>3. \A i \in 1..Len(mainQ') : IsLastAnswer(i)' => IsLastAnswer(i + 1)
  <2> SUFFICES ASSUME NEW i \in 1..Len(mainQ'), IsLastAnswer(i)',
                      NEW j \in 1..Len(mainQ), i + 1 < j
               PROVE  mainQ[j].what = "observe"
    BY <1>2 DEF IsLastAnswer
  <2>1. j - 1 \in 1..Len(mainQ') /\ i < j - 1 /\ mainQ'[j - 1] = mainQ[j]
    BY <1>2
  <2> QED BY <2>1 DEF IsLastAnswer
<1>4. NoAnswer' => IsLastAnswer(1)
  <2> SUFFICES ASSUME NoAnswer', NEW j \in 1..Len(mainQ), 1 < j
               PROVE  mainQ[j].what = "observe"
    BY <1>2 DEF IsLastAnswer
  <2>1. j - 1 \in 1..Len(mainQ') /\ mainQ'[j - 1] = mainQ[j]
    BY <1>2
  <2> QED BY <2>1 DEF NoAnswer
<1> QED BY <1>2, <1>3, <1>4 DEF StateWillFit, Fits

(* Every step leaves the state, or what it will be, to fit.                *)
LEMMA FitStep ==
  ASSUME TypeOK, StateWillFit, ReleasingIsOff, [Next]_vars
  PROVE  StateWillFit' /\ ReleasingIsOff'
<1>p. PublishedOK /\ PjsuaOK BY DEF TypeOK
<1> USE <1>p DEF PjsuaOK, ReleasingIsOff, Send, AccountIsValid, EngineStarts, IpChange, published, pjsua, blocks
<1>q. ASSUME UNCHANGED <<mainQ, state, outrun>>,
             \/ request' # "none"
             \/ sip' \notin {"idle", "failed", "released"}
             \/ UNCHANGED <<reg, request>> /\ sip \in {"idle", "failed", "released"}
      PROVE  StateWillFit'
  BY <1>q DEF StateWillFit, NoAnswer, IsLastAnswer, Fits
<1>v. sip' = "configuring" => StateWillFit'
  BY DEF StateWillFit
<1>1. CASE startEngine BY <1>q, <1>1 DEF startEngine
<1>2. CASE startEngineFails BY <1>q, <1>2 DEF startEngineFails
<1>3. CASE startFailed BY <1>3, TurnFits DEF startFailed, Fits
<1>4. CASE updateTurn
  <2>1. CASE engine BY <1>v, <1>4, <2>1 DEF updateTurn
  <2>2. CASE ~engine BY <1>q, <1>4, <2>2 DEF updateTurn
  <2> QED BY <2>1, <2>2
<1>5. CASE applySame BY <1>q, <1>5 DEF applySame
<1>6. CASE applyNew BY <1>q, <1>6 DEF applyNew
<1>7. CASE applyFails BY <1>q, <1>7 DEF applyFails
<1>8. CASE updateFailed BY <1>8, TurnFits DEF updateFailed, Fits
<1>9. CASE updateFailedError BY <1>q, <1>9 DEF updateFailedError
<1>10. CASE unregister
  <2>0. ReleasingIsOff' BY <1>10 DEF unregister
  <2>1. CASE reg # "active" BY <1>10, <2>0, <2>1, TurnFits DEF unregister, Fits
  <2>2. CASE reg = "active"
    <3>1. request' # "none" BY <1>10, <2>2 DEF unregister
    <3>2. UNCHANGED <<mainQ, state, outrun>> BY <1>10, <2>2 DEF unregister
    <3> QED BY <1>q, <2>0, <3>1, <3>2
  <2> QED BY <2>1, <2>2
<1>11. CASE logout BY <1>q, <1>11 DEF logout
<1>12. CASE stop BY <1>q, <1>12 DEF stop
<1>13. CASE released BY <1>13, TurnFits DEF released, Fits
<1>14. CASE releasedError BY <1>q, <1>14 DEF releasedError
<1>15. CASE push BY <1>q, <1>15 DEF push
<1>16. CASE wakeRegistration
  <2>0. ReleasingIsOff' BY <1>16 DEF wakeRegistration
  <2>1. CASE UNCHANGED <<mainQ, state, outrun>> /\ request' # "none" BY <1>q, <2>0, <2>1
  <2>2. CASE UNCHANGED <<mainQ, state, outrun, request, sip>>
    BY <1>q, <1>16, <2>0, <2>2 DEF wakeRegistration
  <2>3. CASE sip' = "configuring" BY <1>v, <2>0, <2>3
  <2>4. CASE TurnWrites("failed") BY <1>p, <2>0, <2>4, TurnFits DEF Fits
  <2> QED BY <1>16, <2>1, <2>2, <2>3, <2>4 DEF wakeRegistration
<1>17. CASE applicationDidBecomeActive BY <1>q, <1>17 DEF applicationDidBecomeActive
<1>18. CASE nudge BY <1>q, <1>18 DEF nudge
<1>19. CASE accepted BY <1>19, AnswerFits DEF accepted, Fits, Meaning, Answer
<1>20. CASE refused BY <1>20, AnswerFits DEF refused, Fits, Meaning, Answer
<1>21. CASE renewal BY <1>q, <1>21 DEF renewal
<1>22. CASE statusArrives BY <1>22, ArrivalFits DEF statusArrives
<1>23. CASE statusPublished BY <1>q, <1>23 DEF statusPublished
<1>24. CASE waitUntilRegistered BY <1>q, <1>24 DEF waitUntilRegistered
<1>25. CASE registrationStates BY <1>25, ObserverFits DEF registrationStates
<1>26. CASE addEventObserver BY <1>26, ObserverFits DEF addEventObserver
<1>27. CASE timedOut BY <1>q, <1>27 DEF timedOut
<1>28. CASE startPathMonitor BY <1>q, <1>28 DEF startPathMonitor
<1>29. CASE pathChanges BY <1>q, <1>29 DEF pathChanges
<1>30. CASE handleObservedPath BY <1>q, <1>30 DEF handleObservedPath
<1>31. CASE UNCHANGED vars BY <1>q, <1>31 DEF vars
<1> QED BY <1>1, <1>2, <1>3, <1>4, <1>5, <1>6, <1>7, <1>8, <1>9, <1>10, <1>11,
           <1>12, <1>13, <1>14, <1>15, <1>16, <1>17, <1>18, <1>19, <1>20,
           <1>21, <1>22, <1>23, <1>24, <1>25, <1>26, <1>27, <1>28, <1>29,
           <1>30, <1>31 DEF Next, SipQueue, MainQueue, Server
(* Every step leaves the last report to be the path, and transports of     *)
(* another path to be rebuilt.                                             *)
LEMMA TransportStep ==
  ASSUME TypeOK, LastReportIsPath, TransportsWillFollow, [Next]_vars
  PROVE  LastReportIsPath' /\ TransportsWillFollow'
<1>s. reports \in Seq(Path \cup {Offline}) /\ path \in Path \cup {Offline}
  BY DEF TypeOK, NetworkOK
<1> USE DEF LastReportIsPath, TransportsWillFollow
<1>u. ASSUME UNCHANGED <<engine, network>>
      PROVE  LastReportIsPath' /\ TransportsWillFollow'
  BY <1>u DEF network, HandoverComes, IsHandover
<1>e. ASSUME EngineStarts
      PROVE  LastReportIsPath' /\ TransportsWillFollow'
  <2>1. UNCHANGED <<path, reports, observed>> BY <1>e DEF EngineStarts
  <2>2. HandoverComes' = HandoverComes BY <2>1 DEF HandoverComes, IsHandover
  <2> QED BY <1>e, <2>1, <2>2 DEF EngineStarts
<1>1. CASE startEngine BY <1>e, <1>1 DEF startEngine
<1>2. CASE startEngineFails BY <1>u, <1>2 DEF startEngineFails, pjsua
<1>3. CASE startFailed BY <1>u, <1>3 DEF startFailed, pjsua
<1>4. CASE updateTurn BY <1>u, <1>4 DEF updateTurn, pjsua
<1>5. CASE applySame BY <1>u, <1>5 DEF applySame, pjsua
<1>6. CASE applyNew BY <1>u, <1>6 DEF applyNew, pjsua
<1>7. CASE applyFails BY <1>u, <1>7 DEF applyFails, pjsua
<1>8. CASE updateFailed BY <1>u, <1>8 DEF updateFailed, pjsua
<1>9. CASE updateFailedError BY <1>u, <1>9 DEF updateFailedError, pjsua
<1>10. CASE unregister BY <1>u, <1>10 DEF unregister, pjsua
<1>11. CASE logout BY <1>u, <1>11 DEF logout, pjsua
<1>12. CASE stop
  BY <1>12 DEF stop
<1>13. CASE released BY <1>u, <1>13 DEF released, pjsua
<1>14. CASE releasedError BY <1>u, <1>14 DEF releasedError, pjsua
<1>15. CASE push BY <1>u, <1>15 DEF push, pjsua
<1>16. CASE wakeRegistration
  <2>1. CASE EngineStarts BY <1>e, <2>1
  <2>2. CASE UNCHANGED <<engine, network>> BY <1>u, <2>2
  <2> QED BY <1>16, <2>1, <2>2 DEF wakeRegistration
<1>17. CASE applicationDidBecomeActive BY <1>u, <1>17 DEF applicationDidBecomeActive, pjsua
<1>18. CASE nudge BY <1>u, <1>18 DEF nudge, pjsua
<1>19. CASE accepted BY <1>u, <1>19 DEF accepted, pjsua
<1>20. CASE refused BY <1>u, <1>20 DEF refused, pjsua
<1>21. CASE renewal BY <1>u, <1>21 DEF renewal, pjsua
<1>22. CASE statusArrives BY <1>u, <1>22 DEF statusArrives, pjsua
<1>23. CASE statusPublished BY <1>u, <1>23 DEF statusPublished, pjsua
<1>24. CASE waitUntilRegistered BY <1>u, <1>24 DEF waitUntilRegistered, pjsua
<1>25. CASE registrationStates BY <1>u, <1>25 DEF registrationStates, pjsua
<1>26. CASE addEventObserver BY <1>u, <1>26 DEF addEventObserver, pjsua
<1>27. CASE timedOut BY <1>u, <1>27 DEF timedOut, pjsua
<1>28. CASE startPathMonitor
  <2>1. CASE ~engine BY <1>28, <2>1 DEF startPathMonitor, pjsua
  <2>2. CASE engine
    <3>1. /\ engine' /\ monitor' = "on" /\ path' = path /\ built' = built /\ early' = early
          /\ reports' = Append(reports, path)
      BY <1>28, <2>2 DEF startPathMonitor, pjsua
    <3>2. LastReportIsPath'
      BY <1>s, <3>1
    <3>3. TransportsWillFollow'
      BY <1>28, <2>2, <3>1 DEF startPathMonitor
    <3> QED BY <3>2, <3>3
  <2> QED BY <2>1, <2>2
<1>29. CASE pathChanges
  <2>1. CASE monitor # "on" BY <1>29, <2>1 DEF pathChanges, pjsua
  <2>2. CASE monitor = "on"
    <3>1. /\ engine' = engine /\ monitor' = "on" /\ built' = built /\ early' = early
          /\ reports' = Append(reports, path') /\ path' # path /\ observed' = observed
      BY <1>29, <2>2 DEF pathChanges, pjsua
    <3>2. path' \in Path \cup {Offline}
      BY <1>29 DEF pathChanges
    <3>3. LastReportIsPath'
      BY <1>s, <2>2, <3>1, <3>2
    <3>4. path' # Offline => HandoverComes'
      <4>1. CASE reports = <<>>
        <5>1. reports' = <<path'>> /\ observed = path
          BY <2>2, <3>1, <4>1
        <5>2. /\ observed' # Unseen /\ observed' # path'
              /\ reports' # <<>> /\ reports'[1] = path'
          BY RegistrationAssumption, <1>s, <3>1, <5>1
        <5> QED BY <5>2 DEF HandoverComes, IsHandover
      <4>2. CASE reports # <<>>
        <5>1. /\ Len(reports) \in 1..(Len(reports') - 1)
              /\ reports'[Len(reports)] = path /\ reports'[Len(reports) + 1] = path'
          BY <1>s, <2>2, <3>1, <3>2, <4>2
        <5> QED BY <3>1, <5>1 DEF HandoverComes
      <4> QED BY <4>1, <4>2
    <3> QED BY <3>1, <3>3, <3>4
  <2> QED BY <2>1, <2>2
<1>30. CASE handleObservedPath
  <2>1. /\ UNCHANGED <<engine, monitor, path>> /\ reports # <<>>
        /\ reports' = Tail(reports) /\ observed' = Head(reports)
    BY <1>30 DEF handleObservedPath
  <2>2. /\ Len(reports) \in Nat \ {0} /\ Len(reports') = Len(reports) - 1
        /\ observed' = reports[1] /\ reports[1] \in Path \cup {Offline}
        /\ \A i \in 1..Len(reports') : reports'[i] = reports[i + 1]
    BY <1>s, <2>1
  <2>3. LastReportIsPath'
    <3> SUFFICES ASSUME monitor = "on"
                 PROVE  /\ engine
                        /\ IF reports' = <<>> THEN reports[1] = path
                           ELSE reports'[Len(reports')] = path
      BY <2>1, <2>2
    <3>1. CASE reports' = <<>> BY <2>1, <2>2, <3>1
    <3>2. CASE reports' # <<>>
      <4>1. Len(reports') \in 1..Len(reports') BY <1>s, <2>1, <2>2, <3>2
      <4> QED BY <2>1, <2>2, <3>2, <4>1
    <3> QED BY <3>1, <3>2
  <2>4. TransportsWillFollow'
    <3>1. CASE IsHandover(Head(reports))
      BY <1>30, <2>1, <3>1 DEF handleObservedPath, IpChange
    <3>2. CASE ~IsHandover(Head(reports))
      <4>1. UNCHANGED <<built, early>> BY <1>30, <3>2 DEF handleObservedPath
      <4>2. HandoverComes => HandoverComes'
        <5> SUFFICES ASSUME HandoverComes PROVE HandoverComes'
          OBVIOUS
        <5>1. PICK i \in 1..(Len(reports) - 1) :
                reports[i] # reports[i + 1] /\ reports[i + 1] # Offline
          BY <1>s, <2>1, <3>2 DEF HandoverComes
        <5>2. CASE i = 1
          <6>1. reports'[1] = reports[2] /\ reports' # <<>> BY <2>2, <5>1, <5>2
          <6> QED BY RegistrationAssumption, <2>2, <5>1, <5>2, <6>1
                  DEF HandoverComes, IsHandover
        <5>3. CASE i > 1
          <6>1. /\ i - 1 \in 1..(Len(reports') - 1)
                /\ reports'[i - 1] = reports[i] /\ reports'[(i - 1) + 1] = reports[i + 1]
            BY <2>2, <5>1, <5>3
          <6> QED BY <5>1, <6>1 DEF HandoverComes
        <5> QED BY <5>1, <5>2, <5>3
      <4> QED BY <2>1, <4>1, <4>2
    <3> QED BY <3>1, <3>2
  <2> QED BY <2>3, <2>4
<1>31. CASE UNCHANGED vars BY <1>u, <1>31 DEF vars, pjsua
<1> QED BY <1>1, <1>2, <1>3, <1>4, <1>5, <1>6, <1>7, <1>8, <1>9, <1>10, <1>11,
           <1>12, <1>13, <1>14, <1>15, <1>16, <1>17, <1>18, <1>19, <1>20,
           <1>21, <1>22, <1>23, <1>24, <1>25, <1>26, <1>27, <1>28, <1>29,
           <1>30, <1>31 DEF Next, SipQueue, MainQueue, Server
-----------------------------------------------------------------------------
LEMMA InvariantStep == IInv /\ [Next]_vars => IInv'
BY TypeStep, FitStep, TransportStep DEF IInv

LEMMA Invariant == Spec => []IInv
BY InitInvariant, InvariantStep, PTL DEF Spec

(* Whatever is left on the queues, every variable keeps its type, and PJSUA *)
(* has a registration only for an account and an account only while it runs. *)
THEOREM RegistrationTypeCorrect == Spec => []TypeOK
<1>1. IInv => TypeOK BY DEF IInv
<1> QED BY <1>1, Invariant, PTL

(* Once nothing is under way registrationState agrees with PJSUA, unless   *)
(* its last answer is older than the last turn that wrote the state        *)
(* (handleRegistrationStatus:active:reason:).                              *)
THEOREM SettledStateAlwaysTrue == Spec => []SettledStateIsTrue
<1>1. IInv => SettledStateIsTrue
  <2> SUFFICES ASSUME IInv, AtRest, ~outrun PROVE Fits(state, reg)
    BY DEF SettledStateIsTrue, Fits
  <2>1. NoAnswer BY DEF AtRest, NoAnswer
  <2> QED BY <2>1 DEF IInv, StateWillFit, AtRest
<1> QED BY <1>1, Invariant, PTL

(* However the device moved, once the monitor has nothing left to report   *)
(* the transports are those of its network (handleObservedPath:).          *)
THEOREM TransportsAlwaysFollow == Spec => []TransportsFollowPath
<1>1. IInv => TransportsFollowPath
  <2> SUFFICES ASSUME IInv, engine, Watched, ~early PROVE built = path
    BY DEF TransportsFollowPath
  <2>1. ~HandoverComes BY DEF Watched, HandoverComes
  <2> QED BY <2>1 DEF IInv, TransportsWillFollow, Watched
<1> QED BY <1>1, Invariant, PTL
=============================================================================
