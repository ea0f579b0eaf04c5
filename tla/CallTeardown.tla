----------------------------- MODULE CallTeardown -----------------------------
(***************************************************************************)
(* Waiting for a teardown before the account or the runtime goes           *)
(* (CallWaveClient.m:66-466).  PJSUA counts the calls that are up or whose *)
(* BYE is in flight, but forgets a call as soon as a final response is     *)
(* sent; the responses that wait for an ACK are kept in a small table by a *)
(* PJSIP module.  Two threads send and lock: sipQueue, which also drains,  *)
(* and PJSIP's worker, which retransmits, sees the ACKs and answers        *)
(* CANCELs.                                                                *)
(***************************************************************************)
EXTENDS FiniteSets

CONSTANTS
  Transaction,  \* INVITE transactions, a Call-ID and a CSeq each
  Slot,         \* entries of gFinalResponses
  None          \* no transaction

ASSUME TeardownAssumption == None \notin Transaction

VARIABLES
  tx,         \* state of every transaction
  slot,       \* the transaction each entry of the table is for
  sending,    \* what each thread is sending and how far onFinalResponseSent is
  drain,      \* where drainCallTeardown is
  began,      \* history: transactions in progress when it began
  untracked   \* history: responses sent when no entry was free

vars == <<tx, slot, sending, drain, began, untracked>>

Thread == {"sipQueue", "worker"}

(* refused: the final response is out and retransmitted.  expired: nobody  *)
(* acknowledged it within CallWaveFinalResponseLifetime.                   *)
State == {"new", "ringing", "up", "hangingUp", "refused", "expired", "over"}

(* What pjsua_call_get_count counts.                                       *)
Counted == {"ringing", "up", "hangingUp"}

Silent == [tx |-> None, at |-> "idle"]
Sending == [tx : Transaction \cup {None}, at : {"idle", "reclaim", "track", "send"}]

Init ==
  /\ tx = [x \in Transaction |-> "new"]
  /\ slot = [s \in Slot |-> None]
  /\ sending = [t \in Thread |-> Silent]
  /\ drain = "idle"
  /\ began = {}
  /\ untracked = {}
-----------------------------------------------------------------------------
Idle(t) == sending[t] = Silent /\ (t = "sipQueue" => drain = "idle")
Sent(x) == \E t \in Thread : sending[t].tx = x
Becomes(x, st) == tx' = [tx EXCEPT ![x] = st]

(* Mutant of Reclaimed: the Call-ID is freed, the entry stays in use.      *)
ReclaimedDangling ==
  [s \in Slot |-> IF slot[s] # None /\ tx[slot[s]] = "expired" THEN "freed" ELSE slot[s]]

(* pendingFinalResponseCount drops the entries nobody acknowledged in time. *)
Reclaimed == [s \in Slot |-> IF slot[s] # None /\ tx[slot[s]] = "expired" THEN None ELSE slot[s]]

InUse(table) == {s \in Slot : table[s] # None}
-----------------------------------------------------------------------------
(* Calls, as far as the teardown sees them.                                *)

Changes(x, from, to) ==
  /\ tx[x] \in from /\ ~Sent(x) /\ Becomes(x, to)
  /\ UNCHANGED <<slot, sending, drain, began, untracked>>

invite(x) == Changes(x, {"new"}, "ringing")
answered(x) == Changes(x, {"ringing"}, "up")
hangUp(x) == Idle("sipQueue") /\ Changes(x, {"up"}, "hangingUp")
byeDone(x) == Changes(x, {"up", "hangingUp"}, "over")

(* A call that rings is refused by either thread; the worker repeats the   *)
(* response until it is acknowledged or the transaction times out.         *)
respond(t, x) ==
  /\ Idle(t) /\ ~Sent(x)
  /\ tx[x] = "ringing" \/ (t = "worker" /\ tx[x] = "refused")
  /\ sending' = [sending EXCEPT ![t] = [tx |-> x, at |-> "reclaim"]]
  /\ UNCHANGED <<tx, slot, drain, began, untracked>>

timerH(x) == Changes(x, {"refused"}, "expired")
-----------------------------------------------------------------------------
(* onFinalResponseSent takes the lock twice, then the response goes out    *)
(* and PJSUA forgets the call.                                             *)

Goes(t, at) == sending' = [sending EXCEPT ![t].at = at]

reclaim(t) ==
  /\ sending[t].at = "reclaim"
  /\ slot' = Reclaimed
  /\ Goes(t, "track")
  /\ UNCHANGED <<tx, drain, began, untracked>>

(* Mutant of track: a free entry is taken before the rest is looked at.    *)
trackFirstFree(t) ==
  LET x == sending[t].tx
      free == Slot \ InUse(slot)
  IN  /\ sending[t].at = "track"
      /\ IF free = {} THEN UNCHANGED slot
         ELSE \E s \in free : slot' = [slot EXCEPT ![s] = x]
      /\ UNCHANGED untracked
      /\ Goes(t, "send")
      /\ UNCHANGED <<tx, drain, began>>

track(t) ==
  LET x == sending[t].tx
      free == Slot \ InUse(slot)
      retransmission == \E s \in Slot : slot[s] = x
  IN  /\ sending[t].at = "track"
      /\ IF retransmission \/ free = {} THEN UNCHANGED slot
         ELSE \E s \in free : slot' = [slot EXCEPT ![s] = x]
      /\ untracked' = IF retransmission \/ free # {} THEN untracked \ {x} ELSE untracked \cup {x}
      /\ Goes(t, "send")
      /\ UNCHANGED <<tx, drain, began>>

send(t) ==
  /\ sending[t].at = "send"
  /\ Becomes(sending[t].tx, "refused")
  /\ sending' = [sending EXCEPT ![t] = Silent]
  /\ UNCHANGED <<slot, drain, began, untracked>>

(* Mutant of acknowledged: the entry is left for the next drain to reclaim. *)
acknowledgedLater(x) == Idle("worker") /\ Changes(x, {"refused"}, "over")

(* onRequestReceived                                                       *)
acknowledged(x) ==
  /\ Idle("worker")
  /\ tx[x] = "refused" /\ ~Sent(x) /\ Becomes(x, "over")
  /\ slot' = [s \in Slot |-> IF slot[s] = x THEN None ELSE slot[s]]
  /\ UNCHANGED <<sending, drain, began, untracked>>
-----------------------------------------------------------------------------
(* drainCallTeardown: the calls first, the responses second.  The look     *)
(* before the loop counts the responses whatever it found; a turn of the   *)
(* loop only when there is no call.                                        *)

drainCallTeardown ==
  /\ Idle("sipQueue")
  /\ drain' = "look"
  /\ began' = {x \in Transaction : tx[x] \in Counted \cup {"refused"}}
  /\ UNCHANGED <<tx, slot, sending, untracked>>

countCalls ==
  /\ drain \in {"look", "count"}
  /\ drain' = IF \A x \in Transaction : tx[x] \notin Counted THEN "responses"
              ELSE IF drain = "look" THEN "busy" ELSE "count"
  /\ UNCHANGED <<tx, slot, sending, began, untracked>>

(* Mutant of countResponses: the count of the calls is enough.             *)
callsAreEnough ==
  /\ drain \in {"busy", "responses"}
  /\ drain' = IF drain = "responses" THEN "drained" ELSE "count"
  /\ UNCHANGED <<tx, slot, sending, began, untracked>>

countResponses ==
  /\ drain \in {"busy", "responses"}
  /\ slot' = Reclaimed
  /\ drain' = IF drain = "responses" /\ InUse(Reclaimed) = {} THEN "drained" ELSE "count"
  /\ UNCHANGED <<tx, sending, began, untracked>>

drainTimedOut ==
  /\ drain = "count"
  /\ drain' = "timedOut"
  /\ UNCHANGED <<tx, slot, sending, began, untracked>>

(* deleteAccountLocked goes on either way: a call PJSUA still counts makes *)
(* it force the deletion.                                                  *)
deleteAccount ==
  /\ drain \in {"drained", "timedOut"}
  /\ drain' = "idle" /\ began' = {}
  /\ UNCHANGED <<tx, slot, sending, untracked>>

(* destroyRuntimeOnQueue: the observer goes and forgets, then PJSUA ends   *)
(* whatever is left.                                                       *)
destroyRuntime ==
  /\ drain \in {"drained", "timedOut"} /\ sending["worker"] = Silent
  /\ drain' = "idle" /\ began' = {}
  /\ slot' = [s \in Slot |-> None]
  /\ tx' = [x \in Transaction |-> IF tx[x] = "new" THEN "new" ELSE "over"]
  /\ UNCHANGED <<sending, untracked>>
-----------------------------------------------------------------------------
Next ==
  \/ \E x \in Transaction :
       \/ invite(x) \/ answered(x) \/ hangUp(x) \/ byeDone(x)
       \/ timerH(x) \/ acknowledged(x)
       \/ \E t \in Thread : respond(t, x)
  \/ \E t \in Thread : reclaim(t) \/ track(t) \/ send(t)
  \/ drainCallTeardown \/ countCalls \/ countResponses \/ drainTimedOut
  \/ deleteAccount \/ destroyRuntime

Spec == Init /\ [][Next]_vars
-----------------------------------------------------------------------------
(* Every variable has its type, and a history is of what it is said to be. *)
TypeOK ==
  /\ tx \in [Transaction -> State]
  /\ slot \in [Slot -> Transaction \cup {None}]
  /\ sending \in [Thread -> Sending]
  /\ drain \in {"idle", "look", "busy", "count", "responses", "drained", "timedOut"}
  /\ began \subseteq Transaction
  /\ untracked \subseteq Transaction

(* A retransmission never takes a second entry, even though the table is   *)
(* reclaimed under one hold of the lock and written under another.         *)
OneEntryEach ==
  \A r, s \in Slot : slot[r] # None /\ slot[r] = slot[s] => r = s

(* "one PBX that never ACKs" does not "make every later teardown wait"     *)
(* (CallWaveClient.m:87-88): an entry is for a response that can still be  *)
(* acknowledged or for one that the next count reclaims.                   *)
EntriesCanGo ==
  \A s \in Slot :
    slot[s] # None => tx[slot[s]] \in {"refused", "expired"} \/ Sent(slot[s])

(* When the drain says so, every call and every response that was there    *)
(* when it began is done with - whatever rings, is refused or is           *)
(* acknowledged between its two counts - but for responses the table had   *)
(* no room for.                                                            *)
DrainedIsDone ==
  [][drain # "drained" /\ drain' = "drained" =>
       \A x \in began : tx[x] \in {"expired", "over"} \/ x \in untracked]_vars
-----------------------------------------------------------------------------
(* The drain waits for "any final response of ours still waiting for its   *)
(* ACK" (CallWaveClient.m:390-391).                                        *)
DrainWaitsForAll ==
  [][drain # "drained" /\ drain' = "drained" =>
       \A x \in began : tx[x] # "refused"]_vars
=============================================================================
