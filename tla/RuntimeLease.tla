----------------------------- MODULE RuntimeLease -----------------------------
(***************************************************************************)
(* What the ownership of PJSUA promises the clients of a process           *)
(* (CallWaveClient.m:902-918): each takes the runtime over empty, works on *)
(* it with one thread at a time and nobody else's, and gives it back empty. *)
(***************************************************************************)
CONSTANTS Client, Nobody, Thread

VARIABLES owner,    \* the client that has the runtime
          runtime,  \* how far PJSUA is up
          account,  \* whose account it keeps registered
          inside    \* the threads in it

vars == <<owner, runtime, account, inside>>

Empty == runtime = "down" /\ account = Nobody

Init == owner = Nobody /\ Empty /\ inside = {}

TakeOver(c) ==
  /\ owner = Nobody /\ Empty
  /\ owner' = c
  /\ UNCHANGED <<runtime, account, inside>>

GiveBack ==
  /\ owner # Nobody /\ Empty /\ inside = {}
  /\ owner' = Nobody
  /\ UNCHANGED <<runtime, account, inside>>

(* What a thread leaves behind is the owner's.                             *)
Change ==
  /\ runtime' \in {"down", "created", "started"}
  /\ account' \in {account, Nobody, owner}

Enter(t) == owner # Nobody /\ inside = {} /\ inside' = {t} /\ Change /\ UNCHANGED owner

Work(t) ==
  /\ inside = {t} /\ inside' \in {{t}, {}}
  /\ owner # Nobody /\ Change /\ UNCHANGED owner

Next ==
  \/ GiveBack
  \/ \E c \in Client : TakeOver(c)
  \/ \E t \in Thread : Enter(t) \/ Work(t)

Spec == Init /\ [][Next]_vars
=============================================================================
