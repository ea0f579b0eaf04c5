-------------------------- MODULE PushCompletionGate --------------------------
(***************************************************************************)
(* The gate in front of the completion handler of one push                 *)
(* (CallWavePushCompletionGate.m), used by handleVoIPPushPayload:.  Every  *)
(* source - CallKit's answer to the report, the end of a cancellation, the *)
(* deadline - calls finish on a thread of its own choosing; each statement *)
(* of finish is an action, so that the lock has something to protect.      *)
(***************************************************************************)
EXTENDS Naturals

CONSTANTS Source, Deadline, Nobody

ASSUME GateAssumption == Deadline \in Source /\ Nobody \notin Source

VARIABLES
  lock,        \* holder of _lock
  finished,    \* _finished
  completion,  \* _completion is not nil
  taken,       \* sources whose local copy of _completion is not nil
  pc,          \* where every source is in finish
  calls        \* how often the handler has run

vars == <<lock, finished, completion, taken, pc, calls>>

Point == {"silent", "acquire", "test", "mark", "take", "clear", "unlock", "call", "YES", "NO"}

(* Mutant of Init: OS_UNFAIR_LOCK_INIT is forgotten.                       *)
InitWithoutLock ==
  /\ lock = "garbage"
  /\ finished = FALSE
  /\ completion = TRUE
  /\ taken = {}
  /\ pc = [s \in Source |-> "silent"]
  /\ calls = 0

Init ==
  /\ lock = Nobody
  /\ finished = FALSE
  /\ completion = TRUE
  /\ taken = {}
  /\ pc = [s \in Source |-> "silent"]
  /\ calls = 0

Step(s, from, to) == pc[s] = from /\ pc' = [pc EXCEPT ![s] = to]

(* The report is answered, or the deadline block runs.                     *)
ask(s) ==
  /\ Step(s, "silent", "acquire")
  /\ UNCHANGED <<lock, finished, completion, taken, calls>>

(* Mutant of acquire: _finished is not protected by a lock.                *)
acquireNothing(s) ==
  /\ Step(s, "acquire", "test")
  /\ UNCHANGED <<lock, finished, completion, taken, calls>>

acquire(s) ==
  /\ Step(s, "acquire", "test")
  /\ lock = Nobody /\ lock' = s
  /\ UNCHANGED <<finished, completion, taken, calls>>

test(s) ==
  /\ IF finished THEN Step(s, "test", "NO") /\ lock' = Nobody
     ELSE Step(s, "test", "mark") /\ UNCHANGED lock
  /\ UNCHANGED <<finished, completion, taken, calls>>

mark(s) ==
  /\ Step(s, "mark", "take")
  /\ finished' = TRUE
  /\ UNCHANGED <<lock, completion, taken, calls>>

(* Mutant of take: the field is cleared before it is copied.               *)
takeCleared(s) ==
  /\ Step(s, "take", "clear")
  /\ completion' = FALSE
  /\ UNCHANGED <<lock, finished, taken, calls>>

take(s) ==
  /\ Step(s, "take", "clear")
  /\ taken' = IF completion THEN taken \cup {s} ELSE taken
  /\ UNCHANGED <<lock, finished, completion, calls>>

clear(s) ==
  /\ Step(s, "clear", "unlock")
  /\ completion' = FALSE
  /\ UNCHANGED <<lock, finished, taken, calls>>

unlock(s) ==
  /\ Step(s, "unlock", "call")
  /\ lock' = Nobody
  /\ UNCHANGED <<finished, completion, taken, calls>>

(* The handler runs outside the lock: it may take its time.                *)
run(s) ==
  /\ Step(s, "call", "YES")
  /\ calls' = IF s \in taken THEN calls + 1 ELSE calls
  /\ UNCHANGED <<lock, finished, completion, taken>>

finish(s) ==
  acquire(s) \/ test(s) \/ mark(s) \/ take(s) \/ clear(s) \/ unlock(s) \/ run(s)

(* Nothing is left to happen to this push.                                 *)
over ==
  /\ \A s \in Source : pc[s] \in {"YES", "NO"}
  /\ UNCHANGED vars

Next == (\E s \in Source : ask(s) \/ finish(s)) \/ over

Spec == Init /\ [][Next]_vars

(* Only the deadline is certain to come.                                   *)
FairSpec == /\ Spec
            /\ WF_vars(ask(Deadline))
            /\ \A s \in Source : SF_vars(finish(s))
-----------------------------------------------------------------------------
(* Every variable has its type.                                            *)
TypeOK ==
  /\ lock \in Source \cup {Nobody}
  /\ finished \in BOOLEAN
  /\ completion \in BOOLEAN
  /\ taken \subseteq Source
  /\ pc \in [Source -> Point]
  /\ calls \in Nat

Winners == {s \in Source : pc[s] = "YES"}

(* PushKit's handler never runs twice, whoever calls finish and when       *)
(* (CallWaveClient.m:3416, "exactly once"), and it has run by the time one *)
(* of them is told YES: the handler that one took was still there.         *)
CompletionRunsOnce ==
  /\ calls <= 1
  /\ Winners # {} => calls = 1

Acknowledgement == INSTANCE PushAcknowledgement
  WITH due <- {s \in Source : pc[s] # "silent"}, by <- Winners

(* The gate is an acknowledgement: at most one source wins, after it asked. *)
Implements == Acknowledgement!Spec

(* Even if CallKit never answers the handler has run in the end.           *)
HandlerRuns == <>(calls = 1)
=============================================================================
