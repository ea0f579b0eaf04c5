-------------------------- MODULE CallControlsProofs --------------------------
(***************************************************************************)
(* For any set of calls and any mixture of events: once nothing is under   *)
(* way the microphone of a call is connected as its flag says, the button  *)
(* shows the flag of the current call, and a call is shown as held when it *)
(* is.                                                                     *)
(*                                                                         *)
(* None of the three is inductive, each is about a state at rest.  What is *)
(* stable is what the queues still hold for a call: a link to be made, a   *)
(* mute to be shown, a hold or an answer to be published; only the last    *)
(* block for a call counts.                                                *)
(***************************************************************************)
EXTENDS CallControls, FiniteSetTheorems, SequenceTheorems, TLAPS

CallRecords == [state : {"connecting", "active", "held"}, muted : BOOLEAN, onHold : BOOLEAN]

Dialogs == [dialog : {"none", "connecting", "confirmed", "closing"},
            media : {"none", "hold", "active"}, held : BOOLEAN, capture : BOOLEAN]

SipBlocks ==
  [op : {"connect", "mute", "muteSync", "hold", "end", "hangup"}, call : Call, on : BOOLEAN]
    \cup [op : {"open"}, call : {NoCall}, on : BOOLEAN]

MainBlocks == [op : {"muted", "held", "confirmed", "ended"}, call : Call, on : BOOLEAN]

Types ==
  /\ registry \in Seq(Call) /\ call \in [Call -> CallRecords]
  /\ current \in Call \cup {NoCall} /\ button \in BOOLEAN
  /\ pj \in [Call -> Dialogs]
  /\ session \in BOOLEAN /\ sampling \in BOOLEAN
  /\ sipQ \in Seq(SipBlocks) /\ mainQ \in Seq(MainBlocks)
  /\ unposted \subseteq [op : {"muted"}, call : Call, on : BOOLEAN]
  /\ latched \subseteq Call /\ odd \subseteq Call

PortForMicrophone == \A c \in Call : pj[c].capture => pj[c].media # "none"

(* A UUID is in the registry once, and the current call is.                *)
Distinct == \A i, j \in 1..Len(registry) : registry[i] = registry[j] => i = j
CurrentIsTracked == current = NoCall \/ current \in Tracked

Links(i, c) == sipQ[i].op = "open" \/ (sipQ[i].op = "connect" /\ sipQ[i].call = c)

LinkPending(c) == \E i \in 1..Len(sipQ) : Links(i, c)

MicWillFollow ==
  session => \A c \in Tracked :
    pj[c].media = "active" =>
      pj[c].capture = ~call[c].muted \/ LinkPending(c)

IsFor(i, ops, c) == mainQ[i].op \in ops /\ mainQ[i].call = c
NoneFor(ops, c) == \A i \in 1..Len(mainQ) : ~IsFor(i, ops, c)
IsLastFor(i, ops, c) == IsFor(i, ops, c) /\ \A j \in 1..Len(mainQ) : i < j => ~IsFor(j, ops, c)

(* The latest mute of a call is still to be posted, or the last one on the *)
(* main queue, or the one the button shows.                                *)
AllPosted(c) == \A u \in unposted : u.call # c

ButtonWillFollow(c) ==
  /\ \A u \in unposted : u.call = c => u.on = call[c].muted
  /\ AllPosted(c) => \A i \in 1..Len(mainQ) : IsLastFor(i, {"muted"}, c) => mainQ[i].on = call[c].muted
  /\ AllPosted(c) /\ NoneFor({"muted"}, c) /\ current = c => button = call[c].muted

ButtonsWillFollow == \A c \in Tracked \ odd : ButtonWillFollow(c)

(* A call is answered once, before it is held or resumed; after that the   *)
(* last hold on the main queue, or else what is shown, is what PJSUA has.  *)
Publishing == {"held", "confirmed"}

Unanswered(c) ==
  /\ ~pj[c].held /\ ~call[c].onHold /\ call[c].state = "connecting"
  /\ NoneFor(Publishing, c)

HoldWillShow(c) ==
  /\ NoneFor(Publishing, c) => (call[c].state = "held") = pj[c].held
  /\ \A i \in 1..Len(mainQ) : IsLastFor(i, Publishing, c) =>
       IF mainQ[i].op = "held" THEN mainQ[i].on = pj[c].held
       ELSE ~pj[c].held /\ ~call[c].onHold /\ NoneFor({"held"}, c)

HoldOK(c) ==
  /\ pj[c].dialog = "connecting" => Unanswered(c)
  /\ pj[c].dialog = "confirmed" => HoldWillShow(c)

HoldsWillShow == \A c \in Tracked : HoldOK(c)

IInv ==
  /\ Types /\ PortForMicrophone /\ Distinct /\ CurrentIsTracked
  /\ MicWillFollow /\ ButtonsWillFollow /\ HoldsWillShow
-----------------------------------------------------------------------------
(* Taking one call out of the registry leaves the others, each once.       *)
LEMMA WithoutOne ==
  ASSUME NEW r \in Seq(Call), NEW c \in Call,
         \A i, j \in 1..Len(r) : r[i] = r[j] => i = j
  PROVE  /\ Without(r, c) \in Seq(Call)
         /\ ToSet(Without(r, c)) = ToSet(r) \ {c}
         /\ \A i, j \in 1..Len(Without(r, c)) : Without(r, c)[i] = Without(r, c)[j] => i = j
<1>1. CASE c \notin ToSet(r)
  <2>1. Without(r, c) = r BY <1>1 DEF Without
  <2> QED BY <1>1, <2>1
<1>2. CASE c \in ToSet(r)
  <2> DEFINE k == CHOOSE i \in DOMAIN r : r[i] = c
             a == SubSeq(r, 1, k - 1)
             b == SubSeq(r, k + 1, Len(r))
             w == a \o b
  <2>1. k \in 1..Len(r) /\ r[k] = c
    <3>1. \E i \in DOMAIN r : r[i] = c BY <1>2 DEF ToSet
    <3>2. DOMAIN r = 1..Len(r) OBVIOUS
    <3> QED BY <3>1, <3>2
  <2>2. Without(r, c) = w BY <1>2 DEF Without, RemoveAt
  <2> HIDE DEF k
  <2>3. a \in Seq(Call) /\ Len(a) = k - 1 /\ \A i \in 1..(k - 1) : a[i] = r[i]
    BY <2>1
  <2>4. b \in Seq(Call) /\ Len(b) = Len(r) - k /\ \A i \in 1..(Len(r) - k) : b[i] = r[k + i]
    BY <2>1
  <2> HIDE DEF a, b
  <2>5. /\ w \in Seq(Call) /\ Len(w) = Len(r) - 1
        /\ \A i \in 1..Len(w) : w[i] = IF i < k THEN r[i] ELSE r[i + 1]
    <3>1. Len(r) \in Nat /\ k \in Nat BY <2>1
    <3>2. /\ w \in Seq(Call) /\ Len(w) = Len(a) + Len(b)
          /\ \A i \in 1..Len(a) + Len(b) : w[i] = IF i <= Len(a) THEN a[i] ELSE b[i - Len(a)]
      BY <2>3, <2>4, ConcatProperties
    <3> HIDE DEF w
    <3>3. Len(w) = Len(r) - 1 BY <2>3, <2>4, <3>1, <3>2
    <3>4. ASSUME NEW i \in 1..Len(w), i < k PROVE w[i] = r[i]
      BY <2>3, <3>1, <3>2, <3>3, <3>4
    <3>5. ASSUME NEW i \in 1..Len(w), ~(i < k) PROVE w[i] = r[i + 1]
      <4>1. /\ i - (k - 1) \in 1..(Len(r) - k) /\ k + (i - (k - 1)) = i + 1
            /\ ~(i <= Len(a)) /\ i \in 1..Len(a) + Len(b)
        BY <2>1, <2>3, <2>4, <3>1, <3>3, <3>5
      <4>2. w[i] = b[i - (k - 1)] BY <2>3, <3>2, <4>1
      <4> QED BY <2>4, <4>1, <4>2
    <3> QED BY <3>2, <3>3, <3>4, <3>5
  <2> HIDE DEF w
  <2>6. DOMAIN r = 1..Len(r) /\ DOMAIN w = 1..Len(w) BY <2>5
  <2>7. ToSet(w) = ToSet(r) \ {c}
    <3>1. ASSUME NEW i \in 1..Len(w) PROVE w[i] \in ToSet(r) \ {c}
      <4>1. CASE i < k
        <5>1. i \in 1..Len(r) /\ i # k /\ w[i] = r[i] BY <2>1, <2>5, <4>1
        <5> QED BY <2>1, <2>6, <5>1 DEF ToSet
      <4>2. CASE ~(i < k)
        <5>1. i + 1 \in 1..Len(r) /\ i + 1 # k BY <2>1, <2>5, <4>2
        <5> QED BY <2>1, <2>5, <2>6, <4>2, <5>1 DEF ToSet
      <4> QED BY <4>1, <4>2
    <3>2. ASSUME NEW i \in 1..Len(r), r[i] # c PROVE r[i] \in ToSet(w)
      <4>1. CASE i < k
        <5>1. i \in 1..Len(w) /\ w[i] = r[i] BY <2>1, <2>5, <4>1
        <5> QED BY <2>6, <5>1 DEF ToSet
      <4>2. CASE ~(i < k)
        <5>1. i # k BY <2>1, <3>2
        <5>2. i - 1 \in 1..Len(w) /\ w[i - 1] = r[i] BY <2>1, <2>5, <4>2, <5>1
        <5> QED BY <2>6, <5>2 DEF ToSet
      <4> QED BY <4>1, <4>2
    <3> QED BY <2>6, <3>1, <3>2 DEF ToSet
  <2>8. \A i, j \in 1..Len(w) : w[i] = w[j] => i = j
    <3> SUFFICES ASSUME NEW i \in 1..Len(w), NEW j \in 1..Len(w), w[i] = w[j] PROVE i = j
      OBVIOUS
    <3> DEFINE at(n) == IF n < k THEN n ELSE n + 1
    <3>1. at(i) \in 1..Len(r) /\ at(j) \in 1..Len(r) /\ r[at(i)] = r[at(j)] BY <2>1, <2>5
    <3>2. at(i) = at(j) BY <3>1
    <3> QED BY <2>1, <3>2
  <2> QED BY <2>2, <2>5, <2>7, <2>8
<1> QED BY <1>1, <1>2

LEMMA AppendedOne ==
  ASSUME NEW r \in Seq(Call), NEW c \in Call
  PROVE  ToSet(Append(r, c)) = ToSet(r) \cup {c}
<1> DEFINE s == Append(r, c)
<1>1. /\ Len(s) = Len(r) + 1 /\ Len(r) \in Nat
      /\ s[Len(r) + 1] = c
      /\ \A i \in 1..Len(r) : s[i] = r[i]
      /\ DOMAIN r = 1..Len(r) /\ DOMAIN s = 1..Len(s)
  OBVIOUS
<1>2. DOMAIN s = DOMAIN r \cup {Len(r) + 1} BY <1>1
<1> HIDE DEF s
<1>3. ToSet(s) = ToSet(r) \cup {c} BY <1>1, <1>2 DEF ToSet
<1> QED BY <1>3 DEF s

LEMMA MostRecentIsOne ==
  ASSUME NEW r \in Seq(Call)
  PROVE  MostRecent(r) = NoCall \/ MostRecent(r) \in ToSet(r)
<1>1. r # <<>> => Len(r) \in DOMAIN r OBVIOUS
<1> QED BY <1>1 DEF MostRecent, Last, ToSet

LEMMA ResentOnes ==
  ASSUME NEW r \in Seq(Call), NEW op \in {"end", "hangup"}
  PROVE  [i \in DOMAIN r |-> Block(op, r[i], TRUE)] \in Seq(SipBlocks)
<1> DEFINE s == [i \in DOMAIN r |-> Block(op, r[i], TRUE)]
<1>1. DOMAIN r = 1..Len(r) /\ Len(r) \in Nat OBVIOUS
<1>2. \A i \in 1..Len(r) : Block(op, r[i], TRUE) \in SipBlocks BY DEF Block, SipBlocks
<1>3. s \in [1..Len(r) -> SipBlocks] BY <1>1, <1>2
<1> HIDE DEF s
<1>4. s \in Seq(SipBlocks) BY <1>1, <1>3
<1> QED BY <1>4 DEF s

(* The registry is finite, and so is every part of it: SetToSeq lists it.  *)
LEMMA FiniteRegistry ==
  ASSUME NEW r \in Seq(Call)
  PROVE  IsFiniteSet(ToSet(r))
<1>1. IsFiniteSet(1..Len(r)) BY FS_Interval
<1>2. r \in Surjection(1..Len(r), ToSet(r)) BY DEF Surjection, ToSet
<1> QED BY <1>1, <1>2, FS_Surjection

LEMMA ListedSet ==
  ASSUME NEW S, IsFiniteSet(S), S \subseteq Call
  PROVE  SetToSeq(S) \in Seq(Call)
<1>1. Cardinality(S) \in Nat BY FS_CardinalityType
<1>2. PICK f : f \in [1..Cardinality(S) -> S] /\ IsInjective(f)
  BY FS_CardinalityType DEF ExistsBijection, Bijection, Injection
<1>3. SetToSeq(S) \in [1..Cardinality(S) -> S] BY <1>2 DEF SetToSeq
<1> DEFINE n == Cardinality(S)
           g == SetToSeq(S)
<1>4. n \in Nat /\ g \in [1..n -> Call] BY <1>1, <1>3
<1> HIDE DEF n, g
<1>5. g \in Seq(Call) BY <1>4
<1> QED BY <1>5 DEF g
-----------------------------------------------------------------------------
(* The blocks that run next have their types.                              *)
LEMMA SipHead ==
  ASSUME Types, sipQ # <<>>
  PROVE  /\ Head(sipQ) \in SipBlocks /\ Head(sipQ) = sipQ[1] /\ Tail(sipQ) \in Seq(SipBlocks)
         /\ Head(sipQ).op # "open" => Head(sipQ).call \in Call
         /\ Head(sipQ).on \in BOOLEAN
<1>1. Head(sipQ) \in SipBlocks /\ Head(sipQ) = sipQ[1] /\ Tail(sipQ) \in Seq(SipBlocks)
  BY DEF Types
<1> QED BY <1>1 DEF SipBlocks

LEMMA MainHead ==
  ASSUME Types, mainQ # <<>>
  PROVE  /\ Head(mainQ) \in MainBlocks /\ Head(mainQ) = mainQ[1] /\ Tail(mainQ) \in Seq(MainBlocks)
         /\ Head(mainQ).call \in Call /\ Head(mainQ).on \in BOOLEAN
<1>1. Head(mainQ) \in MainBlocks /\ Head(mainQ) = mainQ[1] /\ Tail(mainQ) \in Seq(MainBlocks)
  BY DEF Types
<1> QED BY <1>1 DEF MainBlocks

(* How the registry changes.                                               *)
LEMMA HowRegistry ==
  ASSUME Types, [Next]_vars
  PROVE  \/ registry' = registry
         \/ \E c \in Call \ Tracked : arrive(c) /\ registry' = Append(registry, c)
         \/ \E c \in Call : registry' = Without(registry, c) /\ Clear(c)
         \/ registry' = <<>> /\ providerDidReset
<1>1. CASE MainBlock
  <2> DEFINE b == Head(mainQ)
  <2>1. b.call \in Call BY <1>1, MainHead DEF MainBlock
  <2>2. registry' = registry \/ (registry' = Without(registry, b.call) /\ Clear(b.call))
    BY <1>1 DEF MainBlock, showMuted, showHeld, showConfirmed, showEnded, Clear
  <2> HIDE DEF b
  <2> QED BY <2>1, <2>2
<1>2. CASE \E c \in Call : arrive(c)
  BY <1>2 DEF arrive
<1>3. CASE providerDidReset
  BY <1>3 DEF providerDidReset
<1> QED BY <1>1, <1>2, <1>3
     DEF Next, handleSIPCallConfirmed, handleSIPCallDisconnected, handleMediaStateForCall,
         setMicrophoneMuted, setHeld, endCall, setMicrophoneMutedSync, postMuted, activated,
         SipTurn, sample, record, vars

LEMMA RegistryStep ==
  ASSUME Types, Distinct, [Next]_vars
  PROVE  registry' \in Seq(Call) /\ Distinct'
<1>0. registry \in Seq(Call) BY DEF Types
<1>1. CASE registry' = registry
  BY <1>0, <1>1 DEF Distinct
<1>2. ASSUME NEW c \in Call \ Tracked, registry' = Append(registry, c)
      PROVE  registry' \in Seq(Call) /\ Distinct'
  <2>1. /\ registry' \in Seq(Call) /\ Len(registry') = Len(registry) + 1 /\ Len(registry) \in Nat
        /\ registry'[Len(registry) + 1] = c
        /\ \A i \in 1..Len(registry) : registry'[i] = registry[i]
    BY <1>0, <1>2
  <2>2. \A i \in 1..Len(registry) : registry[i] # c BY <1>0 DEF Tracked, ToSet
  <2> QED BY <2>1, <2>2 DEF Distinct
<1>3. ASSUME NEW c \in Call, registry' = Without(registry, c)
      PROVE  registry' \in Seq(Call) /\ Distinct'
  <2>1. \A i, j \in 1..Len(registry) : registry[i] = registry[j] => i = j BY DEF Distinct
  <2> QED BY <1>0, <1>3, <2>1, WithoutOne DEF Distinct
<1>4. CASE registry' = <<>>
  BY <1>4 DEF Distinct
<1> QED BY <1>1, <1>2, <1>3, <1>4, HowRegistry

(* How the set of calls follows.                                           *)
LEMMA TrackedStep ==
  ASSUME Types, Distinct, [Next]_vars
  PROVE  \/ Tracked' = Tracked
         \/ \E c \in Call \ Tracked : arrive(c) /\ Tracked' = Tracked \cup {c}
         \/ \E c \in Call : Clear(c) /\ Tracked' = Tracked \ {c}
         \/ providerDidReset /\ Tracked' = {}
<1>0. registry \in Seq(Call) BY DEF Types
<1>1. CASE registry' = registry
  BY <1>1 DEF Tracked
<1>2. ASSUME NEW c \in Call \ Tracked, registry' = Append(registry, c)
      PROVE  Tracked' = Tracked \cup {c}
  BY <1>0, <1>2, AppendedOne DEF Tracked
<1>3. ASSUME NEW c \in Call, registry' = Without(registry, c)
      PROVE  Tracked' = Tracked \ {c}
  <2>1. \A i, j \in 1..Len(registry) : registry[i] = registry[j] => i = j BY DEF Distinct
  <2> QED BY <1>0, <1>3, <2>1, WithoutOne DEF Tracked
<1>4. ASSUME registry' = <<>> PROVE Tracked' = {}
  BY <1>4 DEF Tracked, ToSet
<1> QED BY <1>1, <1>2, <1>3, <1>4, HowRegistry
-----------------------------------------------------------------------------
(* Every step keeps the types, and a microphone needs a port.              *)
LEMMA CallTypeStep ==
  ASSUME Types, [Next]_vars
  PROVE  call' \in [Call -> CallRecords]
<1>0. call \in [Call -> CallRecords] BY DEF Types
<1>1. CASE call' = call
  BY <1>0, <1>1
<1>2. CASE \E c \in Call : call' = [call EXCEPT ![c] = Fresh]
  <2>1. Fresh \in CallRecords BY DEF Fresh, CallRecords
  <2> QED BY <1>0, <1>2, <2>1
<1>3. CASE SipTurn
  <2> DEFINE b == Head(sipQ)
  <2>1. CASE applyMicrophoneMuted(b)
    <3>1. b.call \in Call /\ b.on \in BOOLEAN BY <1>3, <2>1, SipHead DEF SipTurn, applyMicrophoneMuted
    <3>2. call' = [call EXCEPT ![b.call].muted = b.on] BY <2>1 DEF applyMicrophoneMuted
    <3> HIDE DEF b
    <3>3. [call[b.call] EXCEPT !.muted = b.on] \in CallRecords BY <1>0, <3>1 DEF CallRecords
    <3> QED BY <1>0, <3>1, <3>2, <3>3
  <2> QED BY <1>1, <1>3, <2>1 DEF SipTurn, connect, open, applyHold, endSIPCall
<1>4. CASE MainBlock
  <2> DEFINE b == Head(mainQ)
  <2>0. b.call \in Call /\ b.on \in BOOLEAN BY <1>4, MainHead DEF MainBlock
  <2>1. CASE showHeld(b)
    <3> DEFINE calls == [call EXCEPT ![b.call].onHold = b.on]
               st == IF b.on THEN "held" ELSE "active"
    <3>1. calls \in [Call -> CallRecords]
      <4>1. [call[b.call] EXCEPT !.onHold = b.on] \in CallRecords BY <1>0, <2>0 DEF CallRecords
      <4> QED BY <1>0, <2>0, <4>1
    <3>2. call' = calls \/ call' = [calls EXCEPT ![b.call].state = st]
      BY <2>1 DEF showHeld, Publish
    <3>3. st \in {"held", "active"} OBVIOUS
    <3> HIDE DEF b, calls, st
    <3>4. [calls[b.call] EXCEPT !.state = st] \in CallRecords BY <2>0, <3>1, <3>3 DEF CallRecords
    <3> QED BY <2>0, <3>1, <3>2, <3>4
  <2>2. CASE showConfirmed(b)
    <3> DEFINE st == IF call[b.call].onHold THEN "held" ELSE "active"
    <3>2. call' = call \/ call' = [call EXCEPT ![b.call].state = st]
      BY <2>2 DEF showConfirmed, Publish
    <3>3. st \in {"held", "active"} OBVIOUS
    <3> HIDE DEF b, st
    <3>4. [call[b.call] EXCEPT !.state = st] \in CallRecords BY <1>0, <2>0, <3>3 DEF CallRecords
    <3> QED BY <1>0, <2>0, <3>2, <3>4
  <2> QED BY <1>1, <1>2, <1>4, <2>0, <2>1, <2>2 DEF MainBlock, showMuted, showEnded, Clear
<1> QED BY <1>1, <1>2, <1>3, <1>4
     DEF Next, arrive, handleSIPCallConfirmed, handleSIPCallDisconnected, handleMediaStateForCall,
         setMicrophoneMuted, setHeld, endCall, setMicrophoneMutedSync, postMuted, activated,
         providerDidReset, sample, record, vars

LEMMA ShownStep ==
  ASSUME Types, Distinct, CurrentIsTracked, [Next]_vars
  PROVE  current' \in Call \cup {NoCall} /\ button' \in BOOLEAN /\ CurrentIsTracked'
<1>t. /\ current \in Call \cup {NoCall} /\ button \in BOOLEAN
      /\ registry \in Seq(Call) /\ call \in [Call -> CallRecords]
  BY DEF Types
<1>u. Tracked \subseteq Call BY <1>t DEF Tracked, ToSet
<1>s. ASSUME NEW c \in Call \cup {NoCall}, NEW calls \in [Call -> CallRecords], Show(c, calls)
      PROVE  current' = c /\ button' \in BOOLEAN
  <2>1. CASE c = NoCall BY <1>s, <2>1 DEF Show
  <2>2. CASE c # NoCall
    <3>1. calls[c].muted \in BOOLEAN BY <2>2 DEF CallRecords
    <3>2. button' = calls[c].muted BY <1>s, <2>2, <3>1 DEF Show
    <3> QED BY <1>s, <3>1, <3>2 DEF Show
  <2> QED BY <2>1, <2>2
<1>1. CASE UNCHANGED <<current, button>> /\ Tracked' = Tracked
  BY <1>1, <1>t DEF CurrentIsTracked
<1>2. CASE \E c \in Call : arrive(c)
  <2> PICK c \in Call : arrive(c) BY <1>2
  <2>1. current' = c /\ button' \in BOOLEAN
    <3>1. call' \in [Call -> CallRecords] BY CallTypeStep
    <3> QED BY <3>1, <1>s DEF arrive
  <2>2. Tracked' = Tracked \cup {c} BY <1>t, AppendedOne DEF arrive, Tracked
  <2> QED BY <2>1, <2>2 DEF CurrentIsTracked
<1>3. CASE providerDidReset
  BY <1>3, <1>s, <1>t DEF providerDidReset, CurrentIsTracked
<1>4. CASE MainBlock
  <2> DEFINE b == Head(mainQ)
  <2>0. b.call \in Call /\ b.on \in BOOLEAN BY <1>4, MainHead DEF MainBlock
  <2>1. CASE showMuted(b)
    <3>1. current' = current /\ registry' = registry /\ button' \in BOOLEAN
      BY <1>t, <2>0, <2>1 DEF showMuted
    <3> QED BY <3>1, <1>t DEF CurrentIsTracked, Tracked
  <2>2. CASE showHeld(b) \/ showConfirmed(b)
    <3>1. PICK calls \in [Call -> CallRecords] : \E st : Publish(b.call, calls, st)
      <4>1. [call[b.call] EXCEPT !.onHold = b.on] \in CallRecords BY <1>t, <2>0 DEF CallRecords
      <4>2. [call EXCEPT ![b.call].onHold = b.on] \in [Call -> CallRecords] BY <1>t, <2>0, <4>1
      <4> QED BY <1>t, <2>2, <4>2 DEF showHeld, showConfirmed
    <3>2. registry' = registry /\ Tracked' = Tracked BY <2>2 DEF showHeld, showConfirmed, Tracked
    <3>3. (b.call \in Tracked /\ Show(b.call, calls)) \/ UNCHANGED <<current, button>>
      BY <3>1 DEF Publish, ui
    <3> QED BY <1>1, <1>s, <2>0, <3>2, <3>3 DEF CurrentIsTracked
  <2>3. CASE showEnded(b)
    <3> DEFINE others == Without(registry, b.call)
    <3>1. Clear(b.call) /\ registry' = others BY <2>3 DEF showEnded, Clear
    <3>2. others \in Seq(Call) /\ Tracked' = Tracked \ {b.call}
      <4>1. \A i, j \in 1..Len(registry) : registry[i] = registry[j] => i = j BY DEF Distinct
      <4> QED BY <1>t, <2>0, <3>1, <4>1, WithoutOne DEF Tracked
    <3> HIDE DEF others
    <3>3. MostRecent(others) = NoCall \/ MostRecent(others) \in Tracked'
      BY <3>1, <3>2, MostRecentIsOne DEF Tracked
    <3>4. CASE current = b.call \/ (current = NoCall /\ b.call \in Tracked)
      <4>1. Show(MostRecent(others), call) BY <3>4, <3>1 DEF Clear, others
      <4>2. MostRecent(others) \in Call \cup {NoCall} BY <1>u, <3>2, <3>3
      <4>3. current' = MostRecent(others) /\ button' \in BOOLEAN BY <1>s, <1>t, <4>1, <4>2
      <4> QED BY <3>3, <4>2, <4>3 DEF CurrentIsTracked
    <3>5. CASE ~(current = b.call \/ (current = NoCall /\ b.call \in Tracked))
      <4>1. UNCHANGED <<current, button>> BY <3>5, <3>1 DEF Clear, ui
      <4> QED BY <1>t, <3>2, <3>5, <4>1 DEF CurrentIsTracked
    <3> QED BY <3>4, <3>5
  <2> QED BY <1>4, <2>1, <2>2, <2>3 DEF MainBlock
<1>5. CASE UNCHANGED <<registry, current, button>>
  BY <1>1, <1>5 DEF Tracked
<1> QED BY <1>2, <1>3, <1>4, <1>5
     DEF Next, handleSIPCallConfirmed, handleSIPCallDisconnected, handleMediaStateForCall,
         setMicrophoneMuted, setHeld, endCall, setMicrophoneMutedSync, postMuted, activated,
         SipTurn, sample, ui, record, vars

LEMMA DialogStep ==
  ASSUME Types, PortForMicrophone, [Next]_vars
  PROVE  pj' \in [Call -> Dialogs] /\ PortForMicrophone'
<1> DEFINE Ported == {d \in Dialogs : d.capture => d.media # "none"}
<1>0. pj \in [Call -> Ported] BY DEF Types, PortForMicrophone
<1>t. call \in [Call -> CallRecords] BY DEF Types
<1>m. \A c \in Call : call[c].muted \in BOOLEAN BY <1>t DEF CallRecords
<1>p. SUFFICES pj' \in [Call -> Ported] BY DEF PortForMicrophone
<1>e. ASSUME NEW c \in Call, NEW d \in Ported, pj' = [pj EXCEPT ![c] = d]
      PROVE  pj' \in [Call -> Ported]
  BY <1>0, <1>e
<1>n. NoDialog \in Ported /\ [NoDialog EXCEPT !.dialog = "closing"] \in Ported
  BY DEF NoDialog, Dialogs
<1>1. CASE pj' = pj
  BY <1>0, <1>1
<1>2. CASE \E c \in Call : arrive(c)
  <2> PICK c \in Call : arrive(c) BY <1>2
  <2>1. [pj[c] EXCEPT !.dialog = "connecting"] \in Ported BY <1>0 DEF Dialogs
  <2> QED BY <1>0, <2>1, <1>e DEF arrive
<1>3. CASE \E c \in Call : handleSIPCallConfirmed(c)
  <2> PICK c \in Call : handleSIPCallConfirmed(c) BY <1>3
  <2>1. [pj[c] EXCEPT !.dialog = "confirmed"] \in Ported BY <1>0 DEF Dialogs
  <2> QED BY <1>0, <2>1, <1>e DEF handleSIPCallConfirmed
<1>4. CASE \E c \in Call : handleSIPCallDisconnected(c)
  BY <1>4, <1>n, <1>e DEF handleSIPCallDisconnected
<1>5. CASE \E c \in Call : handleMediaStateForCall(c)
  <2> PICK c \in Call : handleMediaStateForCall(c) BY <1>5
  <2> PICK m \in {"none", "hold", "active"} : pj' = [pj EXCEPT ![c].media = m, ![c].capture = FALSE]
    BY DEF handleMediaStateForCall
  <2>1. [pj[c] EXCEPT !.media = m, !.capture = FALSE] \in Ported BY <1>0 DEF Dialogs
  <2>2. pj' = [pj EXCEPT ![c] = [pj[c] EXCEPT !.media = m, !.capture = FALSE]] BY <1>0
  <2> QED BY <2>1, <2>2, <1>e
<1>6. CASE SipTurn
  <2> DEFINE b == Head(sipQ)
  <2>h. (b.op # "open" => b.call \in Call) /\ b.on \in BOOLEAN BY <1>6, SipHead DEF SipTurn
  <2>l. ASSUME NEW c \in Call PROVE connectMediaForCall(c) \in Ported
    <3>1. pj[c] \in Ported /\ (~call[c].muted) \in BOOLEAN BY <1>0
    <3>2. pj[c].media = "active" => [pj[c] EXCEPT !.capture = ~call[c].muted] \in Ported
      BY <3>1 DEF Dialogs
    <3> QED BY <3>1, <3>2 DEF connectMediaForCall
  <2>1. CASE connect(b)
    <3>1. b.call \in Call BY <2>1, <2>h DEF connect
    <3> HIDE DEF b
    <3> QED BY <2>1, <3>1, <2>l, <1>e DEF connect
  <2>2. CASE open(b)
    <3>1. pj' = [c \in Call |-> IF c \in Tracked THEN connectMediaForCall(c) ELSE pj[c]]
      BY <2>2 DEF open
    <3> HIDE DEF Ported
    <3> QED BY <3>1, <2>l, <1>0
  <2>3. CASE applyMicrophoneMuted(b)
    <3>1. b.call \in Call /\ (~b.on) \in BOOLEAN BY <2>3, <2>h DEF applyMicrophoneMuted
    <3>2. \/ pj' = pj
          \/ pj[b.call].media # "none" /\ pj' = [pj EXCEPT ![b.call].capture = ~b.on]
      BY <2>3 DEF applyMicrophoneMuted
    <3> HIDE DEF b
    <3>3. pj[b.call].media # "none" => [pj[b.call] EXCEPT !.capture = ~b.on] \in Ported
      BY <1>0, <3>1 DEF Dialogs
    <3> QED BY <1>0, <3>1, <3>2, <3>3
  <2>4. CASE applyHold(b)
    <3>1. b.call \in Call BY <2>4, <2>h DEF applyHold
    <3>2. pj' = pj \/ pj' = [pj EXCEPT ![b.call].held = b.on] BY <2>4 DEF applyHold
    <3> HIDE DEF b
    <3>3. [pj[b.call] EXCEPT !.held = b.on] \in Ported BY <1>0, <2>h, <3>1 DEF Dialogs
    <3> QED BY <1>0, <3>1, <3>2, <3>3
  <2>5. CASE endSIPCall(b)
    <3>1. b.call \in Call BY <2>5, <2>h DEF endSIPCall
    <3>2. pj' = pj \/ pj' = [pj EXCEPT ![b.call] = [NoDialog EXCEPT !.dialog = "closing"]]
      BY <2>5 DEF endSIPCall
    <3> HIDE DEF b
    <3> QED BY <1>0, <1>n, <1>e, <3>1, <3>2
  <2> QED BY <1>6, <2>1, <2>2, <2>3, <2>4, <2>5 DEF SipTurn
<1> QED BY <1>1, <1>2, <1>3, <1>4, <1>5, <1>6
     DEF Next, setMicrophoneMuted, setHeld, endCall, setMicrophoneMutedSync, postMuted, activated,
         providerDidReset, MainBlock, sample, vars

(* sipQueue runs its first block, or something is added behind.            *)
LEMMA HowSipQ ==
  ASSUME Types, [Next]_vars
  PROVE  SipTurn \/ \E q \in Seq(SipBlocks) : sipQ' = sipQ \o q
<1>t. /\ sipQ \in Seq(SipBlocks) /\ registry \in Seq(Call) /\ current \in Call \cup {NoCall}
  BY DEF Types
<1>u. Tracked \subseteq Call BY <1>t DEF Tracked, ToSet
<1>0. CASE sipQ' = sipQ
  <2>1. sipQ' = sipQ \o <<>> /\ <<>> \in Seq(SipBlocks) BY <1>0, <1>t
  <2> QED BY <2>1
<1>1. CASE \E b \in SipBlocks : sipQ' = Append(sipQ, b)
  <2> PICK b \in SipBlocks : sipQ' = Append(sipQ, b) BY <1>1
  <2>1. sipQ' = sipQ \o <<b>> /\ <<b>> \in Seq(SipBlocks) BY <1>t, AppendIsConcat
  <2> QED BY <2>1
<1>2. CASE \E c \in Call : handleMediaStateForCall(c) \/ endCall(c)
                        \/ \E on \in BOOLEAN : setMicrophoneMuted(c, on) \/ setHeld(c, on)
  BY <1>0, <1>1, <1>2 DEF handleMediaStateForCall, endCall, setMicrophoneMuted, setHeld,
                          PerformSIPAsync, Block, SipBlocks
<1>3. CASE \E on \in BOOLEAN : setMicrophoneMutedSync(on)
  <2> PICK on \in BOOLEAN : setMicrophoneMutedSync(on) BY <1>3
  <2> DEFINE c == IF current \in Tracked THEN current ELSE MostRecent(registry)
  <2>1. c \in Call
    <3>1. registry # <<>> BY DEF setMicrophoneMutedSync
    <3>2. MostRecent(registry) \in Call BY <3>1, <1>t DEF MostRecent, Last
    <3> QED BY <1>u, <3>2
  <2>2. sipQ' = Append(sipQ, Block("muteSync", c, on))
    BY DEF setMicrophoneMutedSync, PerformSIPAsync
  <2> HIDE DEF c
  <2>3. Block("muteSync", c, on) \in SipBlocks BY <2>1 DEF Block, SipBlocks
  <2> QED BY <1>1, <2>2, <2>3
<1>4. CASE activated
  BY <1>1, <1>4 DEF activated, PerformSIPAsync, Block, SipBlocks
<1>5. CASE providerDidReset
  BY <1>t, <1>5, ResentOnes DEF providerDidReset
<1>6. CASE sample
  <2>1. EndAll(Warned) \in Seq(SipBlocks)
    <3> DEFINE S == IF setup.terminates THEN Warned ELSE {}
    <3>1. S \subseteq Tracked BY DEF Warned, LiveCalls
    <3> HIDE DEF S
    <3>2. IsFiniteSet(S) BY <3>1, <1>t, FiniteRegistry, FS_Subset DEF Tracked
    <3>3. SetToSeq(S) \in Seq(Call) BY <1>u, <3>1, <3>2, ListedSet
    <3>4. [i \in DOMAIN SetToSeq(S) |-> Block("end", SetToSeq(S)[i], TRUE)] \in Seq(SipBlocks)
      BY <3>3, ResentOnes
    <3> QED BY <3>4 DEF EndAll, S
  <2> QED BY <1>6, <2>1 DEF sample
<1> QED BY <1>0, <1>2, <1>3, <1>4, <1>5, <1>6
     DEF Next, arrive, handleSIPCallConfirmed, handleSIPCallDisconnected, postMuted, MainBlock, vars

(* So does the main queue, one block at a time.                            *)
LEMMA HowMainQ ==
  ASSUME Types, [Next]_vars
  PROVE  MainBlock \/ mainQ' = mainQ \/ \E b \in MainBlocks : mainQ' = Append(mainQ, b)
<1>1. CASE SipTurn
  <2> DEFINE b == Head(sipQ)
  <2>1. (b.op # "open" => b.call \in Call) /\ b.on \in BOOLEAN BY <1>1, SipHead DEF SipTurn
  <2> HIDE DEF b
  <2>2. CASE connect(b) \/ open(b)
    BY <2>2 DEF connect, open
  <2>3. CASE applyMicrophoneMuted(b) \/ applyHold(b) \/ endSIPCall(b)
    <3>1. b.call \in Call BY <2>1, <2>3 DEF applyMicrophoneMuted, applyHold, endSIPCall
    <3>2. \/ mainQ' = mainQ
          \/ \E op \in {"muted", "held"} : mainQ' = Append(mainQ, Block(op, b.call, b.on))
          \/ mainQ' = Append(mainQ, Block("ended", b.call, TRUE))
      BY <2>3 DEF applyMicrophoneMuted, applyHold, endSIPCall, DispatchMain
    <3>3. \A op \in {"muted", "held", "ended"} : \A on \in BOOLEAN :
            Block(op, b.call, on) \in MainBlocks
      BY <3>1 DEF Block, MainBlocks
    <3> QED BY <2>1, <3>2, <3>3
  <2> QED BY <1>1, <2>2, <2>3 DEF SipTurn, b
<1>2. CASE \E b \in unposted : postMuted(b)
  BY <1>2 DEF postMuted, DispatchMain, Types, MainBlocks
<1>3. CASE \E c \in Call : handleSIPCallConfirmed(c) \/ handleSIPCallDisconnected(c)
  BY <1>3 DEF handleSIPCallConfirmed, handleSIPCallDisconnected, DispatchMain, Block, MainBlocks
<1> QED BY <1>1, <1>2, <1>3
     DEF Next, arrive, handleMediaStateForCall, setMicrophoneMuted, setHeld, endCall,
         setMicrophoneMutedSync, activated, providerDidReset, sample, vars

LEMMA RestStep ==
  ASSUME Types, [Next]_vars
  PROVE  /\ session' \in BOOLEAN /\ sampling' \in BOOLEAN
         /\ unposted' \subseteq [op : {"muted"}, call : Call, on : BOOLEAN]
         /\ latched' \subseteq Call /\ odd' \subseteq Call
<1>t. /\ session \in BOOLEAN /\ sampling \in BOOLEAN
      /\ unposted \subseteq [op : {"muted"}, call : Call, on : BOOLEAN]
      /\ latched \subseteq Call /\ odd \subseteq Call /\ registry \in Seq(Call)
  BY DEF Types
<1>u. Tracked \subseteq Call BY <1>t DEF Tracked, ToSet
<1>0. CASE UNCHANGED <<session, sampling, unposted, latched, odd>>
  BY <1>0, <1>t
<1>1. CASE \E c \in Call : arrive(c)
  BY <1>1, <1>t DEF arrive, peer
<1>2. CASE \E b \in unposted : postMuted(b)
  BY <1>2, <1>t DEF postMuted, record, peer
<1>3. CASE activated
  BY <1>3, <1>t DEF activated, record
<1>4. CASE sample
  <2>1. sampling' \in BOOLEAN
    <3>1. sampling' = (LiveCalls # {}) BY <1>4 DEF sample
    <3> QED BY <3>1, Zenon
  <2>2. latched' \subseteq Call BY <1>4, <1>t, <1>u DEF sample, Warned, LiveCalls
  <2> QED BY <1>4, <1>t, <2>1, <2>2 DEF sample, peer
<1>5. CASE MainBlock
  <2> DEFINE b == Head(mainQ)
  <2>1. sampling' \in BOOLEAN
    <3>1. sampling' = sampling \/ \E s : sampling' = (sampling \/ IsLive(s))
      BY <1>5 DEF MainBlock, showMuted, showHeld, showConfirmed, showEnded, Publish, Clear
    <3>2. \A s : (sampling \/ IsLive(s)) \in BOOLEAN BY Zenon
    <3> QED BY <1>t, <3>1, <3>2
  <2>2. latched' \subseteq Call
    BY <1>5, <1>t DEF MainBlock, showMuted, showHeld, showConfirmed, showEnded, Clear
  <2> QED BY <1>5, <1>t, <2>1, <2>2 DEF MainBlock, peer
<1>6. CASE SipTurn
  <2> DEFINE b == Head(sipQ)
  <2>1. (b.op # "open" => b.call \in Call) /\ b.on \in BOOLEAN BY <1>6, SipHead DEF SipTurn
  <2> HIDE DEF b
  <2>2. CASE applyMicrophoneMuted(b)
    <3>1. b.call \in Call BY <2>1, <2>2 DEF applyMicrophoneMuted
    <3>2. Block("muted", b.call, b.on) \in [op : {"muted"}, call : Call, on : BOOLEAN]
      BY <2>1, <3>1 DEF Block
    <3>3. odd' \subseteq Call BY <2>2, <1>t, <3>1 DEF applyMicrophoneMuted
    <3>4. unposted' \subseteq [op : {"muted"}, call : Call, on : BOOLEAN]
      BY <2>2, <1>t, <3>2 DEF applyMicrophoneMuted
    <3> QED BY <1>6, <1>t, <3>3, <3>4 DEF SipTurn, peer
  <2>3. CASE connect(b) \/ open(b) \/ applyHold(b) \/ endSIPCall(b)
    <3>1. UNCHANGED <<unposted, odd>> BY <2>3 DEF connect, open, applyHold, endSIPCall
    <3> QED BY <1>6, <1>t, <3>1 DEF SipTurn, peer
  <2> QED BY <1>6, <2>2, <2>3 DEF SipTurn, b
<1> QED BY <1>0, <1>1, <1>2, <1>3, <1>4, <1>5, <1>6
     DEF Next, handleSIPCallConfirmed, handleSIPCallDisconnected, handleMediaStateForCall,
         setMicrophoneMuted, setHeld, endCall, setMicrophoneMutedSync, providerDidReset,
         record, peer, vars

LEMMA TypesStep ==
  ASSUME Types, PortForMicrophone, Distinct, CurrentIsTracked, [Next]_vars
  PROVE  (Types /\ PortForMicrophone /\ Distinct /\ CurrentIsTracked)'
<1>1. sipQ' \in Seq(SipBlocks)
  <2>1. CASE SipTurn
    BY <2>1, SipHead DEF SipTurn
  <2>2. CASE \E q \in Seq(SipBlocks) : sipQ' = sipQ \o q
    <3> PICK q \in Seq(SipBlocks) : sipQ' = sipQ \o q BY <2>2
    <3> QED BY ConcatProperties DEF Types
  <2> QED BY <2>1, <2>2, HowSipQ
<1>2. mainQ' \in Seq(MainBlocks)
  <2>1. CASE MainBlock
    BY <2>1, MainHead DEF MainBlock
  <2>2. CASE mainQ' = mainQ \/ \E b \in MainBlocks : mainQ' = Append(mainQ, b)
    <3>1. mainQ \in Seq(MainBlocks) BY DEF Types
    <3>2. \A b \in MainBlocks : Append(mainQ, b) \in Seq(MainBlocks) BY <3>1, AppendProperties
    <3> QED BY <2>2, <3>1, <3>2
  <2> QED BY <2>1, <2>2, HowMainQ
<1>3. registry' \in Seq(Call) /\ Distinct' BY RegistryStep
<1>4. call' \in [Call -> CallRecords] BY CallTypeStep
<1>5. current' \in Call \cup {NoCall} /\ button' \in BOOLEAN /\ CurrentIsTracked' BY ShownStep
<1>6. pj' \in [Call -> Dialogs] /\ PortForMicrophone' BY DialogStep
<1> QED BY <1>1, <1>2, <1>3, <1>4, <1>5, <1>6, RestStep DEF Types
-----------------------------------------------------------------------------
(* A link that is to be made stays on sipQueue until its turn.             *)
LEMMA LinkStays ==
  ASSUME Types, NEW c \in Call, LinkPending(c), NEW q \in Seq(SipBlocks), sipQ' = sipQ \o q
  PROVE  LinkPending(c)'
<1>1. /\ Len(sipQ') = Len(sipQ) + Len(q) /\ Len(sipQ) \in Nat /\ Len(q) \in Nat
      /\ \A i \in 1..Len(sipQ) : sipQ'[i] = sipQ[i]
  BY ConcatProperties DEF Types
<1> PICK i \in 1..Len(sipQ) : Links(i, c) BY DEF LinkPending
<1>2. i \in 1..Len(sipQ') /\ sipQ'[i] = sipQ[i] BY <1>1
<1>3. Links(i, c)' BY <1>2 DEF Links
<1> QED BY <1>2, <1>3 DEF LinkPending

LEMMA LinkAdded ==
  ASSUME Types, NEW c \in Call, NEW b \in SipBlocks, sipQ' = Append(sipQ, b),
         b.op = "open" \/ (b.op = "connect" /\ b.call = c)
  PROVE  LinkPending(c)'
<1>1. Len(sipQ') = Len(sipQ) + 1 /\ Len(sipQ) \in Nat /\ sipQ'[Len(sipQ) + 1] = b
  BY DEF Types
<1> DEFINE n == Len(sipQ) + 1
<1>2. n \in 1..Len(sipQ') /\ sipQ'[n] = b BY <1>1
<1> HIDE DEF n
<1>3. \E i \in 1..Len(sipQ') : sipQ'[i] = b BY <1>2
<1> QED BY <1>3 DEF LinkPending, Links

LEMMA LinkRuns ==
  ASSUME Types, NEW c \in Call, LinkPending(c), SipTurn
  PROVE  LinkPending(c)' \/ Head(sipQ).op = "open"
           \/ (Head(sipQ).op = "connect" /\ Head(sipQ).call = c)
<1>1. /\ sipQ' = Tail(sipQ) /\ Head(sipQ) = sipQ[1]
      /\ Len(sipQ') = Len(sipQ) - 1 /\ Len(sipQ) \in Nat
      /\ \A i \in 1..Len(sipQ') : sipQ'[i] = sipQ[i + 1]
  BY DEF Types, SipTurn
<1> PICK i \in 1..Len(sipQ) : Links(i, c) BY DEF LinkPending
<1>2. CASE i = 1 BY <1>1, <1>2 DEF Links
<1>3. CASE i # 1
  <2>1. i - 1 \in 1..Len(sipQ') /\ (i - 1) + 1 = i BY <1>1, <1>3
  <2>2. sipQ'[i - 1] = sipQ[i] BY <1>1, <2>1
  <2>3. Links(i - 1, c)' BY <2>2 DEF Links
  <2> QED BY <2>1, <2>3 DEF LinkPending
<1> QED BY <1>2, <1>3
-----------------------------------------------------------------------------
(* Publishing a state changes the state and nothing else of the call.      *)
LEMMA PublishKeeps ==
  ASSUME Types, NEW d \in Call, NEW calls \in [Call -> CallRecords], NEW s, Publish(d, calls, s)
  PROVE  \A c \in Call :
           /\ call'[c].muted = calls[c].muted /\ call'[c].onHold = calls[c].onHold
           /\ call'[c].state = IF c = d /\ d \in Tracked THEN s ELSE calls[c].state
<1>3. CASE d \in Tracked
  <2>1. call' = [calls EXCEPT ![d].state = s] BY <1>3 DEF Publish
  <2> QED BY <1>3, <2>1 DEF CallRecords
<1>4. CASE d \notin Tracked
  BY <1>4 DEF Publish
<1> QED BY <1>3, <1>4

(* What a block of the main queue changes of a call that stays.            *)
LEMMA MainBlockKeeps ==
  ASSUME Types, Distinct, MainBlock, NEW c \in Tracked'
  PROVE  c \in Tracked /\ c \in Call /\ call'[c].muted = call[c].muted
<1>t. /\ registry \in Seq(Call) /\ call \in [Call -> CallRecords] BY DEF Types
<1>u. Tracked \subseteq Call BY <1>t DEF Tracked, ToSet
<1> DEFINE b == Head(mainQ)
<1>0. b.call \in Call /\ b.on \in BOOLEAN BY MainHead DEF MainBlock
<1> HIDE DEF b
<1>1. CASE showMuted(b)
  BY <1>1, <1>u DEF showMuted, Tracked
<1>2. CASE showHeld(b)
  <2>1. [call EXCEPT ![b.call].onHold = b.on] \in [Call -> CallRecords]
    <3>1. [call[b.call] EXCEPT !.onHold = b.on] \in CallRecords BY <1>t, <1>0 DEF CallRecords
    <3> QED BY <1>t, <1>0, <3>1
  <2>2. \A d \in Call : [call EXCEPT ![b.call].onHold = b.on][d].muted = call[d].muted
    BY <1>t, <1>0 DEF CallRecords
  <2>3. c \in Tracked /\ c \in Call BY <1>2, <1>u DEF showHeld, Tracked
  <2>4. call'[c].muted = [call EXCEPT ![b.call].onHold = b.on][c].muted
    BY <1>0, <1>2, <2>1, <2>3, PublishKeeps DEF showHeld
  <2> QED BY <2>2, <2>3, <2>4
<1>3. CASE showConfirmed(b)
  <2>1. c \in Tracked /\ c \in Call BY <1>3, <1>u DEF showConfirmed, Tracked
  <2> QED BY <1>0, <1>3, <1>t, <2>1, PublishKeeps DEF showConfirmed
<1>4. CASE showEnded(b)
  <2>1. Tracked' = Tracked \ {b.call}
    <3>1. \A i, j \in 1..Len(registry) : registry[i] = registry[j] => i = j BY DEF Distinct
    <3> QED BY <1>0, <1>4, <1>t, <3>1, WithoutOne DEF showEnded, Clear, Tracked
  <2>2. call' = [call EXCEPT ![b.call] = Fresh] BY <1>4 DEF showEnded, Clear
  <2> QED BY <1>t, <1>u, <1>0, <2>1, <2>2
<1> QED BY <1>1, <1>2, <1>3, <1>4 DEF MainBlock, b

LEMMA MicStep ==
  ASSUME Types, Distinct, MicWillFollow, [Next]_vars
  PROVE  MicWillFollow'
<1>t. /\ registry \in Seq(Call) /\ call \in [Call -> CallRecords] /\ pj \in [Call -> Dialogs]
  BY DEF Types
<1>u. Tracked \subseteq Call BY <1>t DEF Tracked, ToSet
<1> SUFFICES ASSUME session', NEW c \in Tracked', pj'[c].media = "active", ~LinkPending(c)'
             PROVE  pj'[c].capture = ~call'[c].muted
  BY DEF MicWillFollow
<1>same. ASSUME c \in Tracked, session, ~LinkPending(c), call'[c].muted = call[c].muted,
                pj'[c].media = pj[c].media, pj'[c].capture = pj[c].capture
         PROVE  pj'[c].capture = ~call'[c].muted
  <2>1. pj[c].capture = ~call[c].muted BY <1>same DEF MicWillFollow
  <2> QED BY <1>same, <2>1
<1>1. CASE ~SipTurn
  <2>l. c \in Call => ~LinkPending(c) BY <1>1, LinkStays, HowSipQ
  <2>1. CASE \E d \in Call : arrive(d)
    <3> PICK d \in Call : arrive(d) BY <2>1
    <3>1. Tracked' = Tracked \cup {d} BY <1>t, AppendedOne DEF arrive, Tracked
    <3>2. c # d
      <4>1. pj[d] = NoDialog /\ pj' = [pj EXCEPT ![d].dialog = "connecting"] BY DEF arrive
      <4>2. pj'[d].media = "none" BY <1>t, <4>1 DEF NoDialog
      <4> QED BY <4>2
    <3>3. pj'[c] = pj[c] /\ call'[c] = call[c] /\ session
      BY <1>t, <1>u, <3>1, <3>2 DEF arrive, peer
    <3> QED BY <1>same, <1>u, <2>l, <3>1, <3>2, <3>3
  <2>2. CASE \E d \in Call : handleSIPCallConfirmed(d)
    <3>1. UNCHANGED <<registry, call, session>> /\ c \in Tracked /\ c \in Call
      BY <2>2, <1>u DEF handleSIPCallConfirmed, record, peer, Tracked
    <3>2. pj'[c].media = pj[c].media /\ pj'[c].capture = pj[c].capture
      BY <2>2, <1>t, <3>1 DEF handleSIPCallConfirmed, Dialogs
    <3> QED BY <1>same, <2>l, <3>1, <3>2
  <2>3. CASE \E d \in Call : handleSIPCallDisconnected(d)
    <3> PICK d \in Call : handleSIPCallDisconnected(d) BY <2>3
    <3>1. UNCHANGED <<registry, call, session>> /\ c \in Tracked /\ c \in Call
      BY <1>u DEF handleSIPCallDisconnected, record, peer, Tracked
    <3>2. pj' = [pj EXCEPT ![d] = NoDialog] BY DEF handleSIPCallDisconnected
    <3>3. c # d BY <1>t, <3>2 DEF NoDialog
    <3> QED BY <1>same, <1>t, <2>l, <3>1, <3>2, <3>3
  <2>4. CASE \E d \in Call : handleMediaStateForCall(d)
    <3> PICK d \in Call : handleMediaStateForCall(d) BY <2>4
    <3>1. UNCHANGED <<registry, call, session>> /\ c \in Tracked /\ c \in Call
      BY <1>u DEF handleMediaStateForCall, record, peer, Tracked
    <3>2. c # d
      <4> SUFFICES ASSUME c = d PROVE FALSE OBVIOUS
      <4>1. sipQ' = Append(sipQ, Block("connect", c, TRUE))
        BY <3>1 DEF handleMediaStateForCall, PerformSIPAsync
      <4>2. Block("connect", c, TRUE) \in SipBlocks BY <3>1 DEF Block, SipBlocks
      <4>3. Block("connect", c, TRUE).op = "connect" /\ Block("connect", c, TRUE).call = c
        BY DEF Block
      <4> QED BY <3>1, <4>1, <4>2, <4>3, LinkAdded
    <3>3. pj'[c] = pj[c] BY <1>t, <3>1, <3>2 DEF handleMediaStateForCall
    <3> QED BY <1>same, <2>l, <3>1, <3>3
  <2>5. CASE activated
    <3>1. c \in Call BY <2>5, <1>u DEF activated, record, Tracked
    <3>2. sipQ' = Append(sipQ, Block("open", NoCall, TRUE))
      BY <2>5 DEF activated, PerformSIPAsync
    <3>3. Block("open", NoCall, TRUE) \in SipBlocks /\ Block("open", NoCall, TRUE).op = "open"
      BY DEF Block, SipBlocks
    <3> QED BY <3>1, <3>2, <3>3, LinkAdded
  <2>6. CASE providerDidReset
    BY <2>6 DEF providerDidReset, Tracked, ToSet
  <2>7. CASE MainBlock
    <3>1. c \in Tracked /\ c \in Call /\ call'[c].muted = call[c].muted BY <2>7, MainBlockKeeps
    <3>2. pj' = pj /\ session BY <2>7 DEF MainBlock, peer
    <3> QED BY <1>same, <2>l, <3>1, <3>2
  <2>8. CASE UNCHANGED <<registry, call, session, pj>>
    <3>1. c \in Tracked /\ c \in Call BY <2>8, <1>u DEF Tracked
    <3> QED BY <1>same, <2>8, <2>l, <3>1
  <2> QED BY <1>1, <2>1, <2>2, <2>3, <2>4, <2>5, <2>6, <2>7, <2>8
       DEF Next, setMicrophoneMuted, setHeld, endCall, setMicrophoneMutedSync, postMuted, sample,
           record, peer, vars
<1>2. CASE SipTurn
  <2> DEFINE b == Head(sipQ)
  <2>0. c \in Tracked /\ c \in Call /\ session
    BY <1>2, <1>u DEF SipTurn, peer, Tracked
  <2>h. (b.op # "open" => b.call \in Call) /\ b.on \in BOOLEAN BY <1>2, SipHead DEF SipTurn
  <2>l. b.op # "open" /\ ~(b.op = "connect" /\ b.call = c) => ~LinkPending(c)
    BY <1>2, <2>0, LinkRuns
  <2>s. SipTurn => connect(b) \/ open(b) \/ applyMicrophoneMuted(b) \/ applyHold(b) \/ endSIPCall(b)
    BY DEF SipTurn
  <2> HIDE DEF b
  <2>c. ASSUME pj'[c] = connectMediaForCall(c), call' = call
        PROVE  pj'[c].capture = ~call'[c].muted
    <3>1. pj[c].media = "active" BY <1>t, <2>0, <2>c DEF connectMediaForCall, Dialogs
    <3> QED BY <1>t, <2>0, <2>c, <3>1 DEF connectMediaForCall, Dialogs
  <2>1. CASE connect(b)
    <3>1. b.op = "connect" /\ b.call \in Call /\ call' = call BY <2>1, <2>h DEF connect
    <3>2. CASE b.call = c BY <1>t, <2>1, <2>c, <2>0, <3>1, <3>2 DEF connect
    <3>3. CASE b.call # c
      <4>1. pj'[c] = pj[c] BY <1>t, <2>1, <2>0, <3>1, <3>3 DEF connect
      <4> QED BY <1>same, <2>0, <2>l, <3>1, <3>3, <4>1
    <3> QED BY <3>2, <3>3
  <2>2. CASE open(b)
    <3>1. pj'[c] = connectMediaForCall(c) /\ call' = call BY <2>2, <2>0 DEF open
    <3> QED BY <2>c, <3>1
  <2>3. CASE applyMicrophoneMuted(b)
    <3>1. b.op \in {"mute", "muteSync"} /\ b.call \in Call BY <2>3, <2>h DEF applyMicrophoneMuted
    <3>2. call' = [call EXCEPT ![b.call].muted = b.on] BY <2>3 DEF applyMicrophoneMuted
    <3>3. pj' = IF pj[b.call].media # "none" THEN [pj EXCEPT ![b.call].capture = ~b.on] ELSE pj
      BY <2>3 DEF applyMicrophoneMuted
    <3>4. CASE b.call = c
      <4>1. pj' = [pj EXCEPT ![c].capture = ~b.on] BY <3>3, <3>4
      <4>2. pj'[c].capture = ~b.on BY <1>t, <2>0, <4>1 DEF Dialogs
      <4>3. call'[c].muted = b.on BY <1>t, <2>0, <3>2, <3>4 DEF CallRecords
      <4> QED BY <4>2, <4>3
    <3>5. CASE b.call # c
      <4>1. pj'[c] = pj[c] /\ call'[c] = call[c] BY <1>t, <2>0, <3>1, <3>2, <3>3, <3>5
      <4> QED BY <1>same, <2>0, <2>l, <3>1, <4>1
    <3> QED BY <3>4, <3>5
  <2>4. CASE applyHold(b)
    <3>1. b.op = "hold" /\ b.call \in Call /\ call' = call BY <2>4, <2>h DEF applyHold
    <3>2. pj' = pj \/ pj' = [pj EXCEPT ![b.call].held = b.on] BY <2>4 DEF applyHold
    <3>3. pj'[c].media = pj[c].media /\ pj'[c].capture = pj[c].capture
      BY <1>t, <2>0, <3>1, <3>2 DEF Dialogs
    <3> QED BY <1>same, <2>0, <2>l, <3>1, <3>3
  <2>5. CASE endSIPCall(b)
    <3>1. b.op \in {"end", "hangup"} /\ b.call \in Call /\ call' = call BY <2>5, <2>h DEF endSIPCall
    <3>2. pj' = pj \/ pj' = [pj EXCEPT ![b.call] = [NoDialog EXCEPT !.dialog = "closing"]]
      BY <2>5 DEF endSIPCall
    <3>3. [NoDialog EXCEPT !.dialog = "closing"].media = "none" BY DEF NoDialog
    <3>4. pj'[c] = pj[c] BY <1>t, <2>0, <3>1, <3>2, <3>3
    <3> QED BY <1>same, <2>0, <2>l, <3>1, <3>4
  <2> QED BY <1>2, <2>s, <2>1, <2>2, <2>3, <2>4, <2>5
<1> QED BY <1>1, <1>2
-----------------------------------------------------------------------------
(* What the main queue has for a call: kept by a block added for another   *)
(* purpose and by one that is run, moved on by one that is for it.         *)
LastKept(ops, c) ==
  \A i \in 1..Len(mainQ') : IsLastFor(i, ops, c)' =>
    \E j \in 1..Len(mainQ) : IsLastFor(j, ops, c) /\ mainQ[j] = mainQ'[i]

BlocksKept(ops, c) == (NoneFor(ops, c)' => NoneFor(ops, c)) /\ LastKept(ops, c)

LEMMA KeptAlone ==
  ASSUME mainQ' = mainQ, NEW ops, NEW c
  PROVE  BlocksKept(ops, c)
  BY DEF BlocksKept, LastKept, NoneFor, IsLastFor, IsFor

LEMMA KeptByOther ==
  ASSUME Types, NEW ops, NEW c, NEW b \in MainBlocks, mainQ' = Append(mainQ, b),
         ~(b.op \in ops /\ b.call = c)
  PROVE  BlocksKept(ops, c) /\ (NoneFor(ops, c) => NoneFor(ops, c)')
<1>1. /\ Len(mainQ') = Len(mainQ) + 1 /\ Len(mainQ) \in Nat /\ mainQ'[Len(mainQ) + 1] = b
      /\ \A i \in 1..Len(mainQ) : mainQ'[i] = mainQ[i]
  BY DEF Types
<1>2. \A i \in 1..Len(mainQ) : i \in 1..Len(mainQ') /\ IsFor(i, ops, c)' = IsFor(i, ops, c)
  BY <1>1 DEF IsFor
<1>3. \A i \in 1..Len(mainQ') : IsFor(i, ops, c)' => i \in 1..Len(mainQ)
  BY <1>1 DEF IsFor
<1>4. \A i \in 1..Len(mainQ') : IsLastFor(i, ops, c)' => i \in 1..Len(mainQ) /\ IsLastFor(i, ops, c)
  BY <1>2, <1>3 DEF IsLastFor
<1>5. LastKept(ops, c) BY <1>1, <1>4 DEF LastKept
<1> QED BY <1>2, <1>3, <1>5 DEF BlocksKept, NoneFor

LEMMA LastIsAdded ==
  ASSUME Types, NEW ops, NEW c, NEW b \in MainBlocks, mainQ' = Append(mainQ, b),
         b.op \in ops, b.call = c
  PROVE  ~NoneFor(ops, c)' /\ \A i \in 1..Len(mainQ') : IsLastFor(i, ops, c)' => mainQ'[i] = b
<1>0. Len(mainQ) + 1 \in Nat BY DEF Types
<1> PICK n \in Nat : n = Len(mainQ) + 1 BY <1>0
<1>1. Len(mainQ') = n /\ n \in 1..Len(mainQ') /\ n \in Nat /\ mainQ'[n] = b
  BY DEF Types
<1>2. IsFor(n, ops, c)' BY <1>1 DEF IsFor
<1>3. \A i \in 1..Len(mainQ') : i # n => i < n BY <1>1
<1> QED BY <1>1, <1>2, <1>3 DEF NoneFor, IsLastFor

LEMMA LastRuns ==
  ASSUME Types, MainBlock, NEW ops, NEW c
  PROVE  /\ LastKept(ops, c)
         /\ NoneFor(ops, c)' => NoneFor(ops, c) \/ IsLastFor(1, ops, c)
         /\ NoneFor(ops, c) => NoneFor(ops, c)'
<1>1. /\ mainQ' = Tail(mainQ) /\ Len(mainQ') = Len(mainQ) - 1 /\ Len(mainQ) \in Nat \ {0}
      /\ \A i \in 1..Len(mainQ') : mainQ'[i] = mainQ[i + 1]
  BY DEF Types, MainBlock
<1>2. \A i \in 1..Len(mainQ') : i + 1 \in 1..Len(mainQ) /\ IsFor(i, ops, c)' = IsFor(i + 1, ops, c)
  BY <1>1 DEF IsFor
<1>3. ASSUME NEW i \in 1..Len(mainQ'), IsLastFor(i, ops, c)' PROVE IsLastFor(i + 1, ops, c)
  <2>1. IsFor(i + 1, ops, c) BY <1>2, <1>3 DEF IsLastFor
  <2>2. ASSUME NEW j \in 1..Len(mainQ), i + 1 < j PROVE ~IsFor(j, ops, c)
    <3>1. j - 1 \in 1..Len(mainQ') /\ i < j - 1 /\ (j - 1) + 1 = j BY <1>1, <2>2
    <3>2. ~IsFor(j - 1, ops, c)' BY <1>3, <3>1 DEF IsLastFor
    <3> QED BY <1>2, <3>1, <3>2
  <2> QED BY <2>1, <2>2 DEF IsLastFor
<1>4. LastKept(ops, c) BY <1>1, <1>2, <1>3 DEF LastKept
<1>5. ASSUME NoneFor(ops, c)' PROVE NoneFor(ops, c) \/ IsLastFor(1, ops, c)
  <2>1. ASSUME NEW j \in 1..Len(mainQ), 1 < j PROVE ~IsFor(j, ops, c)
    <3>1. j - 1 \in 1..Len(mainQ') /\ (j - 1) + 1 = j BY <1>1, <2>1
    <3>2. ~IsFor(j - 1, ops, c)' BY <1>5, <3>1 DEF NoneFor
    <3> QED BY <1>2, <3>1, <3>2
  <2>2. CASE IsFor(1, ops, c) BY <2>1, <2>2 DEF IsLastFor
  <2>3. CASE ~IsFor(1, ops, c)
    <3>1. \A j \in 1..Len(mainQ) : j = 1 \/ 1 < j BY <1>1
    <3> QED BY <2>1, <2>3, <3>1 DEF NoneFor
  <2> QED BY <2>2, <2>3
<1>6. NoneFor(ops, c) => NoneFor(ops, c)' BY <1>2 DEF NoneFor
<1> QED BY <1>4, <1>5, <1>6

LEMMA KeptByRun ==
  ASSUME Types, MainBlock, NEW ops, NEW c, ~(Head(mainQ).op \in ops /\ Head(mainQ).call = c)
  PROVE  BlocksKept(ops, c)
<1>1. ~IsLastFor(1, ops, c) BY MainHead DEF MainBlock, IsLastFor, IsFor
<1> QED BY <1>1, LastRuns DEF BlocksKept
-----------------------------------------------------------------------------
(* Where neither a mute nor the current call is concerned nothing changes  *)
(* for the button.                                                         *)
LEMMA ButtonKept ==
  ASSUME NEW c, ButtonWillFollow(c), call'[c].muted = call[c].muted, unposted' = unposted,
         BlocksKept({"muted"}, c),
         current' = c => (current = c /\ button' = button) \/ button' = call'[c].muted
  PROVE  ButtonWillFollow(c)'
<1>1. AllPosted(c)' = AllPosted(c) BY DEF AllPosted
<1>2. \A u \in unposted' : u.call = c => u.on = call'[c].muted BY DEF ButtonWillFollow
<1>3. AllPosted(c)' => \A i \in 1..Len(mainQ') : IsLastFor(i, {"muted"}, c)' => mainQ'[i].on = call'[c].muted
  <2> SUFFICES ASSUME AllPosted(c), NEW i \in 1..Len(mainQ'), IsLastFor(i, {"muted"}, c)'
               PROVE  mainQ'[i].on = call'[c].muted
    BY <1>1
  <2> PICK j \in 1..Len(mainQ) : IsLastFor(j, {"muted"}, c) /\ mainQ[j] = mainQ'[i]
    BY DEF BlocksKept, LastKept
  <2>1. mainQ[j].on = call[c].muted BY DEF ButtonWillFollow
  <2> QED BY <2>1
<1>4. AllPosted(c)' /\ NoneFor({"muted"}, c)' /\ current' = c => button' = call'[c].muted
  BY <1>1 DEF ButtonWillFollow, BlocksKept
<1> QED BY <1>2, <1>3, <1>4 DEF ButtonWillFollow

(* A mute is shown: by the last block for its call, with what the flag is. *)
LEMMA ButtonRuns ==
  ASSUME Types, MainBlock, NEW c, ButtonWillFollow(c), call'[c].muted = call[c].muted,
         Head(mainQ).op = "muted", Head(mainQ).call = c, UNCHANGED <<unposted, current>>,
         current = c => button' = Head(mainQ).on
  PROVE  ButtonWillFollow(c)'
<1>1. AllPosted(c)' = AllPosted(c) BY DEF AllPosted
<1>2. \A u \in unposted' : u.call = c => u.on = call'[c].muted BY DEF ButtonWillFollow
<1>3. AllPosted(c)' => \A i \in 1..Len(mainQ') : IsLastFor(i, {"muted"}, c)' => mainQ'[i].on = call'[c].muted
  <2> SUFFICES ASSUME AllPosted(c), NEW i \in 1..Len(mainQ'), IsLastFor(i, {"muted"}, c)'
               PROVE  mainQ'[i].on = call'[c].muted
    BY <1>1
  <2> PICK j \in 1..Len(mainQ) : IsLastFor(j, {"muted"}, c) /\ mainQ[j] = mainQ'[i]
    BY LastRuns DEF LastKept
  <2>1. mainQ[j].on = call[c].muted BY DEF ButtonWillFollow
  <2> QED BY <2>1
<1>4. ASSUME AllPosted(c), NoneFor({"muted"}, c)', current = c PROVE button' = call'[c].muted
  <2>1. Head(mainQ) = mainQ[1] /\ 1 \in 1..Len(mainQ) BY MainHead DEF MainBlock, Types
  <2>2. IsFor(1, {"muted"}, c) BY <2>1 DEF IsFor
  <2>3. IsLastFor(1, {"muted"}, c) BY <1>4, <2>1, <2>2, LastRuns DEF NoneFor
  <2>4. mainQ[1].on = call[c].muted BY <1>4, <2>1, <2>3 DEF ButtonWillFollow
  <2> QED BY <1>4, <2>1, <2>4
<1> QED BY <1>1, <1>2, <1>3, <1>4 DEF ButtonWillFollow

(* A mute is applied and put on the main queue, or left to be posted.      *)
LEMMA ButtonApplied ==
  ASSUME Types, NEW b, b.op \in {"mute", "muteSync"}, b.call \in Call, b.on \in BOOLEAN,
         applyMicrophoneMuted(b), b.call \notin odd', UNCHANGED <<current, button>>
  PROVE  ButtonWillFollow(b.call)'
<1> DEFINE c == b.call
           shown == Block("muted", b.call, b.on)
<1>1. pj[c].media # "none" /\ AllPosted(c) BY DEF applyMicrophoneMuted, AllPosted
<1>2. call'[c].muted = b.on BY DEF applyMicrophoneMuted, Types, CallRecords
<1>3. shown.call = c /\ shown.on = b.on /\ shown.op = "muted" /\ shown \in MainBlocks
  BY DEF Block, MainBlocks
<1>4. CASE b.op = "mute"
  <2>1. mainQ' = Append(mainQ, shown) /\ unposted' = unposted
    BY <1>1, <1>4 DEF applyMicrophoneMuted, DispatchMain
  <2> HIDE DEF shown
  <2>2. /\ ~NoneFor({"muted"}, b.call)'
        /\ \A i \in 1..Len(mainQ') : IsLastFor(i, {"muted"}, b.call)' => mainQ'[i] = shown
    BY <1>3, <2>1, LastIsAdded
  <2> QED BY <1>1, <1>2, <1>3, <2>1, <2>2 DEF ButtonWillFollow, AllPosted
<1>5. CASE b.op = "muteSync"
  <2>1. unposted' = unposted \cup {shown} BY <1>1, <1>5 DEF applyMicrophoneMuted
  <2> HIDE DEF shown
  <2>2. ~AllPosted(b.call)' BY <1>3, <2>1 DEF AllPosted
  <2>3. \A u \in unposted' : u.call = c => u.on = b.on BY <1>1, <1>3, <2>1 DEF AllPosted
  <2> QED BY <1>2, <2>2, <2>3 DEF ButtonWillFollow
<1> QED BY <1>4, <1>5

(* ... by the thread of the host that applied it.                          *)
LEMMA ButtonPosted ==
  ASSUME Types, NEW b \in unposted, postMuted(b), NEW c, ButtonWillFollow(c)
  PROVE  ButtonWillFollow(c)'
<1>0. UNCHANGED <<call, current, button>> BY DEF postMuted, record, ui
<1>1. mainQ' = Append(mainQ, b) /\ unposted' = unposted \ {b} BY DEF postMuted, DispatchMain
<1>2. b \in MainBlocks /\ b.op = "muted" BY DEF Types, MainBlocks
<1>3. \A u \in unposted' : u.call = c => u.on = call'[c].muted
  BY <1>0, <1>1 DEF ButtonWillFollow
<1>4. CASE b.call = c
  <2>1. b.on = call[c].muted BY <1>4 DEF ButtonWillFollow
  <2>2. ~NoneFor({"muted"}, c)' /\ \A i \in 1..Len(mainQ') : IsLastFor(i, {"muted"}, c)' => mainQ'[i] = b
    BY <1>1, <1>2, <1>4, LastIsAdded
  <2> QED BY <1>0, <1>3, <2>1, <2>2 DEF ButtonWillFollow
<1>5. CASE b.call # c
  <2>1. AllPosted(c)' <=> AllPosted(c) BY <1>1, <1>5 DEF AllPosted
  <2>2. BlocksKept({"muted"}, c) BY <1>1, <1>2, <1>5, KeptByOther
  <2>3. AllPosted(c) => \A i \in 1..Len(mainQ') : IsLastFor(i, {"muted"}, c)' => mainQ'[i].on = call[c].muted
    <3> SUFFICES ASSUME AllPosted(c), NEW i \in 1..Len(mainQ'), IsLastFor(i, {"muted"}, c)'
                 PROVE  mainQ'[i].on = call[c].muted
      OBVIOUS
    <3> PICK j \in 1..Len(mainQ) : IsLastFor(j, {"muted"}, c) /\ mainQ[j] = mainQ'[i]
      BY <2>2 DEF BlocksKept, LastKept
    <3>1. mainQ[j].on = call[c].muted BY DEF ButtonWillFollow
    <3> QED BY <3>1
  <2>4. AllPosted(c) /\ NoneFor({"muted"}, c)' /\ current = c => button = call[c].muted
    BY <2>2 DEF ButtonWillFollow, BlocksKept
  <2> QED BY <1>0, <1>3, <2>1, <2>3, <2>4 DEF ButtonWillFollow
<1> QED BY <1>4, <1>5

(* The call that becomes current is shown with its flag.                   *)
LEMMA ShowsFlag ==
  ASSUME NEW d \in Call \cup {NoCall}, NEW calls \in [Call -> CallRecords], Show(d, calls),
         NEW c \in Call, current' = c
  PROVE  c = d /\ button' = calls[c].muted
<1>1. c = d BY DEF Show
<1>2. calls[c].muted \in BOOLEAN BY DEF CallRecords
<1>3. c # NoCall BY ControlsAssumption
<1> QED BY <1>1, <1>2, <1>3 DEF Show

LEMMA ButtonMainBlock ==
  ASSUME Types, Distinct, ButtonsWillFollow, MainBlock
  PROVE  ButtonsWillFollow'
<1>t. /\ registry \in Seq(Call) /\ call \in [Call -> CallRecords] /\ current \in Call \cup {NoCall}
  BY DEF Types
<1>u. UNCHANGED <<unposted, odd>> BY DEF MainBlock
<1> SUFFICES ASSUME NEW c \in Tracked', c \notin odd PROVE ButtonWillFollow(c)'
  BY <1>u DEF ButtonsWillFollow
<1>0. c \in Tracked /\ c \in Call /\ call'[c].muted = call[c].muted BY MainBlockKeeps
<1>1. ButtonWillFollow(c) BY <1>0 DEF ButtonsWillFollow
<1> PICK b : b = Head(mainQ) OBVIOUS
<1>2. b.call \in Call /\ b.on \in BOOLEAN BY MainHead DEF MainBlock
<1>3. showMuted(b) \/ showHeld(b) \/ showConfirmed(b) \/ showEnded(b) BY DEF MainBlock
<1>4. CASE showMuted(b)
  <2>1. b.op = "muted" /\ current' = current /\ button' = IF b.call = current THEN b.on ELSE button
    BY <1>4 DEF showMuted
  <2>2. CASE b.call = c BY <1>u, <1>0, <1>1, <2>1, <2>2, ButtonRuns
  <2>3. CASE b.call # c
    <3>1. BlocksKept({"muted"}, c) BY <2>3, KeptByRun
    <3> QED BY <1>u, <1>0, <1>1, <2>1, <2>3, <3>1, ButtonKept
  <2> QED BY <2>2, <2>3
<1>5. CASE showHeld(b) \/ showConfirmed(b)
  <2>1. BlocksKept({"muted"}, c) BY <1>5, KeptByRun DEF showHeld, showConfirmed
  <2>2. PICK calls \in [Call -> CallRecords] :
          (\E st : Publish(b.call, calls, st)) /\ \A d \in Call : calls[d].muted = call[d].muted
    <3> DEFINE held == [call EXCEPT ![b.call].onHold = b.on]
    <3>1. [call[b.call] EXCEPT !.onHold = b.on] \in CallRecords BY <1>t, <1>2 DEF CallRecords
    <3>2. held \in [Call -> CallRecords] BY <1>t, <1>2, <3>1
    <3>3. \A d \in Call : held[d].muted = call[d].muted BY <1>t, <1>2 DEF CallRecords
    <3>4. CASE showHeld(b)
      <4>1. Publish(b.call, held, IF b.on THEN "held" ELSE "active") BY <3>4 DEF showHeld
      <4> HIDE DEF held
      <4> QED BY <3>2, <3>3, <4>1
    <3>5. CASE showConfirmed(b) BY <1>t, <3>5 DEF showConfirmed
    <3> QED BY <1>5, <3>4, <3>5
  <2>3. Show(b.call, calls) \/ UNCHANGED <<current, button>> BY <2>2 DEF Publish, ui
  <2>4. current' = c => (current = c /\ button' = button) \/ button' = call'[c].muted
    <3>1. CASE Show(b.call, calls)
      <4>1. current' = c => button' = calls[c].muted BY <1>0, <1>2, <3>1, ShowsFlag
      <4> QED BY <1>0, <2>2, <4>1
    <3> QED BY <2>3, <3>1
  <2> QED BY <1>u, <1>0, <1>1, <2>1, <2>4, ButtonKept
<1>6. CASE showEnded(b)
  <2>1. BlocksKept({"muted"}, c) BY <1>6, KeptByRun DEF showEnded
  <2> PICK d : d = MostRecent(Without(registry, b.call)) OBVIOUS
  <2>2. Show(d, call) \/ UNCHANGED <<current, button>> BY <1>6 DEF showEnded, Clear, ui
  <2>3. d \in Call \cup {NoCall}
    <3>1. \A i, j \in 1..Len(registry) : registry[i] = registry[j] => i = j BY DEF Distinct
    <3>2. Without(registry, b.call) \in Seq(Call) BY <1>t, <1>2, <3>1, WithoutOne
    <3>3. ToSet(Without(registry, b.call)) \subseteq Call BY <3>2 DEF ToSet
    <3> QED BY <3>2, <3>3, MostRecentIsOne
  <2>4. current' = c => (current = c /\ button' = button) \/ button' = call'[c].muted
    <3>1. CASE Show(d, call)
      <4>1. current' = c => button' = call[c].muted BY <1>0, <1>t, <2>3, <3>1, ShowsFlag
      <4> QED BY <1>0, <4>1
    <3> QED BY <2>2, <3>1
  <2> QED BY <1>u, <1>0, <1>1, <2>1, <2>4, ButtonKept
<1> QED BY <1>3, <1>4, <1>5, <1>6

LEMMA ButtonSipTurn ==
  ASSUME Types, ButtonsWillFollow, SipTurn
  PROVE  ButtonsWillFollow'
<1>t. /\ registry \in Seq(Call) /\ call \in [Call -> CallRecords] BY DEF Types
<1>u. UNCHANGED <<registry, current, button>> BY DEF SipTurn, ui
<1> SUFFICES ASSUME NEW c \in Tracked, c \notin odd' PROVE ButtonWillFollow(c)'
  BY <1>u DEF ButtonsWillFollow, Tracked
<1> PICK b : b = Head(sipQ) OBVIOUS
<1>0. (b.op # "open" => b.call \in Call) /\ b.on \in BOOLEAN BY SipHead DEF SipTurn
<1>1. connect(b) \/ open(b) \/ applyMicrophoneMuted(b) \/ applyHold(b) \/ endSIPCall(b)
  BY DEF SipTurn
<1>2. c \notin odd => ButtonWillFollow(c) BY DEF ButtonsWillFollow
<1>c. c \in Call BY <1>t DEF Tracked, ToSet
<1>3. CASE applyMicrophoneMuted(b)
  <2>1. b.op \in {"mute", "muteSync"} /\ b.call \in Call BY <1>0, <1>3 DEF applyMicrophoneMuted
  <2>2. CASE b.call = c BY <1>u, <1>0, <1>3, <2>1, <2>2, ButtonApplied
  <2>3. CASE b.call # c
    <3> DEFINE shown == Block("muted", b.call, b.on)
    <3>0. shown \in MainBlocks /\ shown.call = b.call BY <1>0, <2>1 DEF Block, MainBlocks
    <3>1. c \notin odd BY <1>3, <2>3 DEF applyMicrophoneMuted
    <3>2. call'[c] = call[c] BY <1>t, <1>3, <1>c, <2>1, <2>3 DEF applyMicrophoneMuted
    <3>3. mainQ' = mainQ \/ mainQ' = Append(mainQ, shown)
      BY <1>3 DEF applyMicrophoneMuted, DispatchMain
    <3>4. unposted' = unposted \/ unposted' = unposted \cup {shown}
      BY <1>3 DEF applyMicrophoneMuted
    <3> HIDE DEF shown
    <3>5. BlocksKept({"muted"}, c) BY <2>3, <3>0, <3>3, KeptAlone, KeptByOther
    <3>6. AllPosted(c)' = AllPosted(c) BY <2>3, <3>0, <3>4 DEF AllPosted
    <3>7. \A u \in unposted' : u.call = c => u.on = call'[c].muted
      BY <1>2, <2>3, <3>0, <3>1, <3>2, <3>4 DEF ButtonWillFollow
    <3>8. AllPosted(c) => \A i \in 1..Len(mainQ') : IsLastFor(i, {"muted"}, c)' => mainQ'[i].on = call'[c].muted
      <4> SUFFICES ASSUME AllPosted(c), NEW i \in 1..Len(mainQ'), IsLastFor(i, {"muted"}, c)'
                   PROVE  mainQ'[i].on = call'[c].muted
        OBVIOUS
      <4> PICK j \in 1..Len(mainQ) : IsLastFor(j, {"muted"}, c) /\ mainQ[j] = mainQ'[i]
        BY <3>5 DEF BlocksKept, LastKept
      <4>1. mainQ[j].on = call[c].muted BY <1>2, <3>1 DEF ButtonWillFollow
      <4> QED BY <3>2, <4>1
    <3>9. AllPosted(c) /\ NoneFor({"muted"}, c)' /\ current' = c => button' = call'[c].muted
      BY <1>2, <1>u, <3>1, <3>2, <3>5 DEF ButtonWillFollow, BlocksKept
    <3> QED BY <3>6, <3>7, <3>8, <3>9 DEF ButtonWillFollow
  <2> QED BY <2>2, <2>3
<1>4. CASE connect(b) \/ open(b) \/ applyHold(b) \/ endSIPCall(b)
  <2>1. UNCHANGED <<call, unposted, odd>> BY <1>4 DEF connect, open, applyHold, endSIPCall
  <2>2. \/ mainQ' = mainQ
        \/ b.op = "hold" /\ mainQ' = Append(mainQ, Block("held", b.call, b.on))
        \/ b.op = "end" /\ mainQ' = Append(mainQ, Block("ended", b.call, TRUE))
    BY <1>4 DEF connect, open, applyHold, endSIPCall, DispatchMain
  <2>3. CASE mainQ' = mainQ
    BY <1>2, <1>u, <2>1, <2>3, KeptAlone, ButtonKept
  <2>4. CASE \E op \in {"held", "ended"} : \E on \in BOOLEAN :
               b.call \in Call /\ mainQ' = Append(mainQ, Block(op, b.call, on))
    <3> PICK op \in {"held", "ended"}, on \in BOOLEAN :
               b.call \in Call /\ mainQ' = Append(mainQ, Block(op, b.call, on))
      BY <2>4
    <3>1. Block(op, b.call, on) \in MainBlocks /\ Block(op, b.call, on).op # "muted"
      BY DEF Block, MainBlocks
    <3>2. BlocksKept({"muted"}, c) BY <3>1, KeptByOther
    <3> QED BY <1>2, <1>u, <2>1, <3>2, ButtonKept
  <2> QED BY <1>0, <2>2, <2>3, <2>4
<1> QED BY <1>1, <1>3, <1>4

LEMMA ButtonStep ==
  ASSUME Types, Distinct, ButtonsWillFollow, [Next]_vars
  PROVE  ButtonsWillFollow'
<1>t. /\ registry \in Seq(Call) /\ call \in [Call -> CallRecords] BY DEF Types
<1>u. Tracked \subseteq Call BY <1>t DEF Tracked, ToSet
<1>1. CASE \E d \in Call : arrive(d)
  <2> PICK d \in Call : arrive(d) BY <1>1
  <2>1. /\ Tracked' = Tracked \cup {d} /\ odd' = odd \ {d} /\ ~Mentioned(d)
        /\ UNCHANGED <<mainQ, unposted>> /\ call' = [call EXCEPT ![d] = Fresh] /\ Show(d, call')
    BY <1>t, AppendedOne DEF arrive, Tracked
  <2> SUFFICES ASSUME NEW c \in Tracked', c \notin odd' PROVE ButtonWillFollow(c)'
    BY DEF ButtonsWillFollow
  <2>2. CASE c = d
    <3>1. \A u \in unposted : u.call # d BY <2>1 DEF Mentioned
    <3>2. \A i \in 1..Len(mainQ) : mainQ[i].call # d
      <4>1. mainQ \in Seq(MainBlocks) BY DEF Types
      <4>2. \A i \in 1..Len(mainQ) : mainQ[i] \in ToSet(mainQ) BY <4>1 DEF ToSet
      <4> QED BY <2>1, <4>2 DEF Mentioned
    <3>3. call'[d] = Fresh BY <1>t, <2>1
    <3>4. button' = call'[d].muted
      <4>1. call' \in [Call -> CallRecords] BY CallTypeStep
      <4>2. call'[d].muted \in BOOLEAN BY <4>1 DEF CallRecords
      <4>3. d # NoCall BY ControlsAssumption
      <4> QED BY <2>1, <4>2, <4>3 DEF Show
    <3> QED BY <2>1, <2>2, <3>1, <3>2, <3>4 DEF ButtonWillFollow, AllPosted, NoneFor, IsLastFor, IsFor
  <2>3. CASE c # d
    <3>1. ButtonWillFollow(c) BY <2>1, <2>3 DEF ButtonsWillFollow
    <3>2. call'[c] = call[c] BY <1>t, <1>u, <2>1, <2>3
    <3>3. current' # c BY <2>1, <2>3 DEF Show
    <3> QED BY <2>1, <3>1, <3>2, <3>3, KeptAlone, ButtonKept
  <2> QED BY <2>2, <2>3
<1>2. CASE \E d \in Call : handleSIPCallConfirmed(d) \/ handleSIPCallDisconnected(d)
  <2>0. UNCHANGED <<registry, call, current, button, unposted, odd>>
    BY <1>2 DEF handleSIPCallConfirmed, handleSIPCallDisconnected, record, ui
  <2> SUFFICES ASSUME NEW c \in Tracked, c \notin odd PROVE ButtonWillFollow(c)'
    BY <2>0 DEF ButtonsWillFollow, Tracked
  <2>1. BlocksKept({"muted"}, c)
    <3> PICK d \in Call, op \in {"confirmed", "ended"} :
          mainQ' = mainQ \/ mainQ' = Append(mainQ, Block(op, d, TRUE))
      BY <1>2 DEF handleSIPCallConfirmed, handleSIPCallDisconnected, DispatchMain
    <3>1. Block(op, d, TRUE) \in MainBlocks /\ Block(op, d, TRUE).op # "muted"
      BY DEF Block, MainBlocks
    <3> QED BY <3>1, KeptAlone, KeptByOther
  <2>2. ButtonWillFollow(c) BY DEF ButtonsWillFollow
  <2> QED BY <2>0, <2>1, <2>2, ButtonKept
<1>3. CASE \E b \in unposted : postMuted(b)
  <2> PICK b \in unposted : postMuted(b) BY <1>3
  <2>0. UNCHANGED <<registry, odd>> BY DEF postMuted, record
  <2> SUFFICES ASSUME NEW c \in Tracked, c \notin odd PROVE ButtonWillFollow(c)'
    BY <2>0 DEF ButtonsWillFollow, Tracked
  <2>1. ButtonWillFollow(c) BY DEF ButtonsWillFollow
  <2> QED BY <2>1, ButtonPosted
<1>4. CASE providerDidReset
  BY <1>4 DEF providerDidReset, ButtonsWillFollow, Tracked, ToSet
<1>5. CASE UNCHANGED <<registry, call, current, button, mainQ, unposted, odd>>
  <2> SUFFICES ASSUME NEW c \in Tracked, c \notin odd PROVE ButtonWillFollow(c)'
    BY <1>5 DEF ButtonsWillFollow, Tracked
  <2>1. ButtonWillFollow(c) BY DEF ButtonsWillFollow
  <2> QED BY <1>5, <2>1, KeptAlone, ButtonKept
<1>6. CASE SipTurn BY <1>6, ButtonSipTurn
<1>7. CASE MainBlock BY <1>7, ButtonMainBlock
<1> QED BY <1>1, <1>2, <1>3, <1>4, <1>5, <1>6, <1>7
     DEF Next, handleMediaStateForCall, setMicrophoneMuted, setHeld, endCall,
         setMicrophoneMutedSync, activated, sample, record, ui, vars
-----------------------------------------------------------------------------
(* Where neither the dialog, the hold nor what is to be published of it is *)
(* concerned nothing changes for what is shown.                            *)
StillNone(ops, c) == NoneFor(ops, c) => NoneFor(ops, c)'

LEMMA HoldKept ==
  ASSUME NEW c, HoldOK(c),
         pj'[c].dialog = pj[c].dialog, pj'[c].held = pj[c].held,
         call'[c].onHold = call[c].onHold, call'[c].state = call[c].state,
         BlocksKept(Publishing, c), StillNone(Publishing, c), StillNone({"held"}, c)
  PROVE  HoldOK(c)'
<1>1. CASE pj[c].dialog = "connecting"
  <2>1. Unanswered(c) BY <1>1 DEF HoldOK
  <2>2. Unanswered(c)' BY <2>1 DEF Unanswered, StillNone
  <2> QED BY <1>1, <2>2 DEF HoldOK
<1>2. CASE pj[c].dialog = "confirmed"
  <2>0. HoldWillShow(c) BY <1>2 DEF HoldOK
  <2>1. NoneFor(Publishing, c)' => (call'[c].state = "held") = pj'[c].held
    BY <2>0 DEF HoldWillShow, BlocksKept
  <2>2. ASSUME NEW i \in 1..Len(mainQ'), IsLastFor(i, Publishing, c)'
        PROVE  IF mainQ'[i].op = "held" THEN mainQ'[i].on = pj'[c].held
               ELSE ~pj'[c].held /\ ~call'[c].onHold /\ NoneFor({"held"}, c)'
    <3> PICK j \in 1..Len(mainQ) : IsLastFor(j, Publishing, c) /\ mainQ[j] = mainQ'[i]
      BY <2>2 DEF BlocksKept, LastKept
    <3>1. IF mainQ[j].op = "held" THEN mainQ[j].on = pj[c].held
          ELSE ~pj[c].held /\ ~call[c].onHold /\ NoneFor({"held"}, c)
      BY <2>0 DEF HoldWillShow
    <3> QED BY <3>1 DEF StillNone
  <2>3. HoldWillShow(c)' BY <2>1, <2>2 DEF HoldWillShow
  <2> QED BY <1>2, <2>3 DEF HoldOK
<1> QED BY <1>1, <1>2 DEF HoldOK

LEMMA OtherBlock ==
  ASSUME Types, NEW c,
         mainQ' = mainQ \/ \E b \in MainBlocks :
           mainQ' = Append(mainQ, b) /\ ~(b.op \in Publishing /\ b.call = c)
  PROVE  BlocksKept(Publishing, c) /\ StillNone(Publishing, c) /\ StillNone({"held"}, c)
<1>1. CASE mainQ' = mainQ
  BY <1>1, KeptAlone DEF StillNone, NoneFor, IsFor
<1>2. ASSUME NEW b \in MainBlocks, mainQ' = Append(mainQ, b), ~(b.op \in Publishing /\ b.call = c)
      PROVE  BlocksKept(Publishing, c) /\ StillNone(Publishing, c) /\ StillNone({"held"}, c)
  <2>1. BlocksKept(Publishing, c) /\ StillNone(Publishing, c)
    BY <1>2, KeptByOther DEF StillNone
  <2>2. ~(b.op \in {"held"} /\ b.call = c) BY <1>2 DEF Publishing
  <2>3. StillNone({"held"}, c) BY <1>2, <2>2, KeptByOther DEF StillNone
  <2> QED BY <2>1, <2>3
<1> QED BY <1>1, <1>2

LEMMA OtherRun ==
  ASSUME Types, MainBlock, NEW c, ~(Head(mainQ).op \in Publishing /\ Head(mainQ).call = c)
  PROVE  BlocksKept(Publishing, c) /\ StillNone(Publishing, c) /\ StillNone({"held"}, c)
<1>1. StillNone(Publishing, c) /\ StillNone({"held"}, c) BY LastRuns DEF StillNone
<1> QED BY <1>1, KeptByRun

(* The call is answered: what PJSUA has of it is not held.                 *)
LEMMA HoldConfirmed ==
  ASSUME Types, NEW c \in Tracked, c \in Call, handleSIPCallConfirmed(c), HoldOK(c)
  PROVE  HoldOK(c)'
<1> DEFINE b == Block("confirmed", c, TRUE)
<1>1. b \in MainBlocks /\ b.op = "confirmed" /\ b.call = c BY DEF Block, MainBlocks
<1>2. mainQ' = Append(mainQ, b) /\ call' = call
  BY DEF handleSIPCallConfirmed, DispatchMain, record
<1>3. pj'[c].dialog = "confirmed" /\ pj'[c].held = pj[c].held
  BY DEF handleSIPCallConfirmed, Types, Dialogs
<1> HIDE DEF b
<1>4. Unanswered(c) BY DEF handleSIPCallConfirmed, HoldOK
<1>5. NoneFor({"held"}, c)'
  <2>1. NoneFor({"held"}, c) BY <1>4 DEF Unanswered, NoneFor, IsFor, Publishing
  <2>2. ~(b.op \in {"held"}) BY <1>1
  <2> QED BY <1>1, <1>2, <2>1, <2>2, KeptByOther
<1>6. b.op \in Publishing BY <1>1 DEF Publishing
<1>7. ~NoneFor(Publishing, c)' /\ \A i \in 1..Len(mainQ') : IsLastFor(i, Publishing, c)' => mainQ'[i] = b
  BY <1>1, <1>2, <1>6, LastIsAdded
<1>8. HoldWillShow(c)' BY <1>1, <1>2, <1>3, <1>4, <1>5, <1>7 DEF HoldWillShow, Unanswered
<1> QED BY <1>3, <1>8 DEF HoldOK

(* PJSUA took the hold: it is the last to be published.                    *)
LEMMA HoldApplied ==
  ASSUME Types, NEW c \in Call, NEW on \in BOOLEAN, pj[c].dialog = "confirmed",
         pj' = [pj EXCEPT ![c].held = on], mainQ' = Append(mainQ, Block("held", c, on))
  PROVE  HoldOK(c)'
<1> DEFINE b == Block("held", c, on)
<1>1. b \in MainBlocks /\ b.op = "held" /\ b.call = c /\ b.on = on BY DEF Block, MainBlocks
<1>2. pj'[c].held = on /\ pj'[c].dialog = "confirmed" BY DEF Types, Dialogs
<1>3. b.op \in Publishing /\ mainQ' = Append(mainQ, b) BY <1>1 DEF Publishing
<1> HIDE DEF b
<1>4. ~NoneFor(Publishing, c)' /\ \A i \in 1..Len(mainQ') : IsLastFor(i, Publishing, c)' => mainQ'[i] = b
  BY <1>1, <1>3, LastIsAdded
<1>5. HoldWillShow(c)' BY <1>1, <1>2, <1>4 DEF HoldWillShow
<1> QED BY <1>2, <1>5 DEF HoldOK

(* A hold, or the answer, is published.                                    *)
LEMMA HoldPublished ==
  ASSUME Types, NEW c \in Tracked, c \in Call, MainBlock, HoldOK(c),
         NEW b, b = Head(mainQ), b.call = c, showHeld(b) \/ showConfirmed(b)
  PROVE  HoldOK(c)'
<1>t. call \in [Call -> CallRecords] /\ b.on \in BOOLEAN BY MainHead DEF Types, MainBlock
<1>1. pj' = pj BY DEF MainBlock
<1>2. b = mainQ[1] /\ 1 \in 1..Len(mainQ) /\ b.op \in Publishing
  BY MainHead DEF MainBlock, Types, showHeld, showConfirmed, Publishing
<1>3. IsFor(1, Publishing, c) /\ ~NoneFor(Publishing, c) BY <1>2 DEF IsFor, NoneFor
<1>4. pj[c].dialog # "connecting" BY <1>3 DEF HoldOK, Unanswered
<1> SUFFICES ASSUME pj[c].dialog = "confirmed" PROVE HoldWillShow(c)'
  BY <1>1, <1>4 DEF HoldOK
<1>5. HoldWillShow(c) BY DEF HoldOK
<1>6. CASE showHeld(b)
  <2> DEFINE calls == [call EXCEPT ![c].onHold = b.on]
             st == IF b.on THEN "held" ELSE "active"
  <2>1. calls \in [Call -> CallRecords]
    <3>1. [call[c] EXCEPT !.onHold = b.on] \in CallRecords BY <1>t DEF CallRecords
    <3> QED BY <1>t, <3>1
  <2>2. b.op = "held" /\ Publish(c, calls, st) BY <1>6 DEF showHeld
  <2>3. (st = "held") = b.on BY <1>t
  <2> HIDE DEF calls, st
  <2>4. call'[c].state = st BY <2>1, <2>2, PublishKeeps
  <2>5. NoneFor(Publishing, c)' => (call'[c].state = "held") = pj'[c].held
    <3> SUFFICES ASSUME NoneFor(Publishing, c)' PROVE b.on = pj[c].held
      BY <1>1, <2>3, <2>4
    <3>1. IsLastFor(1, Publishing, c) BY <1>3, LastRuns
    <3> QED BY <1>2, <1>5, <2>2, <3>1 DEF HoldWillShow
  <2>6. ASSUME NEW i \in 1..Len(mainQ'), IsLastFor(i, Publishing, c)'
        PROVE  IF mainQ'[i].op = "held" THEN mainQ'[i].on = pj'[c].held
               ELSE ~pj'[c].held /\ ~call'[c].onHold /\ NoneFor({"held"}, c)'
    <3> PICK j \in 1..Len(mainQ) : IsLastFor(j, Publishing, c) /\ mainQ[j] = mainQ'[i]
      BY <2>6, LastRuns DEF LastKept
    <3>1. IF mainQ[j].op = "held" THEN mainQ[j].on = pj[c].held ELSE NoneFor({"held"}, c)
      BY <1>5 DEF HoldWillShow
    <3>2. ~NoneFor({"held"}, c) BY <1>2, <2>2 DEF NoneFor, IsFor
    <3> QED BY <1>1, <3>1, <3>2
  <2> QED BY <2>5, <2>6 DEF HoldWillShow
<1>7. CASE showConfirmed(b)
  <2> DEFINE st == IF call[c].onHold THEN "held" ELSE "active"
  <2>1. b.op = "confirmed" /\ Publish(c, call, st) BY <1>7 DEF showConfirmed
  <2> HIDE DEF st
  <2>2. call'[c].state = st /\ call'[c].onHold = call[c].onHold BY <1>t, <2>1, PublishKeeps
  <2>3. NoneFor(Publishing, c)' => (call'[c].state = "held") = pj'[c].held
    <3> SUFFICES ASSUME NoneFor(Publishing, c)' PROVE (st = "held") = pj[c].held
      BY <1>1, <2>2
    <3>1. IsLastFor(1, Publishing, c) BY <1>3, LastRuns
    <3>2. ~pj[c].held /\ ~call[c].onHold BY <1>2, <1>5, <2>1, <3>1 DEF HoldWillShow
    <3>3. pj[c].held = FALSE BY <3>2 DEF Types, Dialogs
    <3> QED BY <3>2, <3>3 DEF st
  <2>4. ASSUME NEW i \in 1..Len(mainQ'), IsLastFor(i, Publishing, c)'
        PROVE  IF mainQ'[i].op = "held" THEN mainQ'[i].on = pj'[c].held
               ELSE ~pj'[c].held /\ ~call'[c].onHold /\ NoneFor({"held"}, c)'
    <3> PICK j \in 1..Len(mainQ) : IsLastFor(j, Publishing, c) /\ mainQ[j] = mainQ'[i]
      BY <2>4, LastRuns DEF LastKept
    <3>1. IF mainQ[j].op = "held" THEN mainQ[j].on = pj[c].held
          ELSE ~pj[c].held /\ ~call[c].onHold /\ NoneFor({"held"}, c)
      BY <1>5 DEF HoldWillShow
    <3>2. NoneFor({"held"}, c) => NoneFor({"held"}, c)' BY LastRuns
    <3> QED BY <1>1, <2>2, <3>1, <3>2
  <2> QED BY <2>3, <2>4 DEF HoldWillShow
<1> QED BY <1>6, <1>7

LEMMA HoldMainBlock ==
  ASSUME Types, Distinct, HoldsWillShow, MainBlock
  PROVE  HoldsWillShow'
<1>t. call \in [Call -> CallRecords] BY DEF Types
<1> SUFFICES ASSUME NEW c \in Tracked' PROVE HoldOK(c)'
  BY DEF HoldsWillShow
<1>0. c \in Tracked /\ c \in Call /\ pj' = pj BY MainBlockKeeps DEF MainBlock
<1>1. HoldOK(c) BY <1>0 DEF HoldsWillShow
<1> PICK b : b = Head(mainQ) OBVIOUS
<1>2. b.call \in Call /\ b.on \in BOOLEAN BY MainHead DEF MainBlock
<1>3. showMuted(b) \/ showHeld(b) \/ showConfirmed(b) \/ showEnded(b) BY DEF MainBlock
<1>4. CASE (showHeld(b) \/ showConfirmed(b)) /\ b.call = c
  BY <1>0, <1>1, <1>4, HoldPublished
<1>5. CASE ~((showHeld(b) \/ showConfirmed(b)) /\ b.call = c)
  <2>1. ~(Head(mainQ).op \in Publishing /\ Head(mainQ).call = c)
    BY <1>3, <1>5 DEF showMuted, showEnded, Publishing
  <2>2. call'[c].onHold = call[c].onHold /\ call'[c].state = call[c].state
    <3>1. CASE showMuted(b) BY <3>1 DEF showMuted
    <3>2. CASE showHeld(b)
      <4> DEFINE calls == [call EXCEPT ![b.call].onHold = b.on]
                 st == IF b.on THEN "held" ELSE "active"
      <4>1. calls \in [Call -> CallRecords] /\ calls[c] = call[c]
        <5>1. [call[b.call] EXCEPT !.onHold = b.on] \in CallRecords BY <1>t, <1>2 DEF CallRecords
        <5> QED BY <1>0, <1>t, <1>2, <1>5, <3>2, <5>1
      <4>2. Publish(b.call, calls, st) BY <3>2 DEF showHeld
      <4> HIDE DEF calls, st
      <4> QED BY <1>0, <1>2, <1>5, <3>2, <4>1, <4>2, PublishKeeps
    <3>3. CASE showConfirmed(b)
      BY <1>0, <1>t, <1>2, <1>5, <3>3, PublishKeeps DEF showConfirmed
    <3>4. CASE showEnded(b)
      <4>1. call' = [call EXCEPT ![b.call] = Fresh] /\ registry' = Without(registry, b.call)
        BY <3>4 DEF showEnded, Clear
      <4>2. c # b.call
        <5>1. \A i, j \in 1..Len(registry) : registry[i] = registry[j] => i = j BY DEF Distinct
        <5>2. registry \in Seq(Call) BY DEF Types
        <5> QED BY <1>2, <4>1, <5>1, <5>2, WithoutOne DEF Tracked
      <4> QED BY <1>0, <1>t, <4>1, <4>2
    <3> QED BY <1>3, <3>1, <3>2, <3>3, <3>4
  <2>3. BlocksKept(Publishing, c) /\ StillNone(Publishing, c) /\ StillNone({"held"}, c)
    BY <2>1, OtherRun
  <2> QED BY <1>0, <1>1, <2>2, <2>3, HoldKept
<1> QED BY <1>4, <1>5

LEMMA HoldSipTurn ==
  ASSUME Types, HoldsWillShow, SipTurn
  PROVE  HoldsWillShow'
<1>t. registry \in Seq(Call) /\ call \in [Call -> CallRecords] /\ pj \in [Call -> Dialogs] BY DEF Types
<1>u. registry' = registry BY DEF SipTurn
<1> SUFFICES ASSUME NEW c \in Tracked PROVE HoldOK(c)'
  BY <1>u DEF HoldsWillShow, Tracked
<1>c. c \in Call /\ HoldOK(c) BY <1>t DEF Tracked, ToSet, HoldsWillShow
<1> PICK b : b = Head(sipQ) OBVIOUS
<1>0. (b.op # "open" => b.call \in Call) /\ b.on \in BOOLEAN BY SipHead DEF SipTurn
<1>1. connect(b) \/ open(b) \/ applyMicrophoneMuted(b) \/ applyHold(b) \/ endSIPCall(b)
  BY DEF SipTurn
<1>l. ASSUME NEW d \in Call
      PROVE  connectMediaForCall(d).dialog = pj[d].dialog /\ connectMediaForCall(d).held = pj[d].held
  BY <1>t DEF connectMediaForCall, Dialogs
<1>2. CASE connect(b) \/ open(b)
  <2>1. mainQ' = mainQ /\ call' = call BY <1>2 DEF connect, open
  <2>2. pj'[c] = pj[c] \/ pj'[c] = connectMediaForCall(c)
    <3>1. CASE connect(b)
      <4>1. b.call \in Call /\ pj' = [pj EXCEPT ![b.call] = connectMediaForCall(b.call)]
        BY <1>0, <3>1 DEF connect
      <4> QED BY <1>t, <1>c, <4>1
    <3>2. CASE open(b) BY <1>c, <3>2 DEF open
    <3> QED BY <1>2, <3>1, <3>2
  <2>3. BlocksKept(Publishing, c) /\ StillNone(Publishing, c) /\ StillNone({"held"}, c)
    BY <2>1, OtherBlock
  <2> QED BY <1>c, <1>l, <2>1, <2>2, <2>3, HoldKept
<1>3. CASE applyMicrophoneMuted(b)
  <2>1. b.call \in Call BY <1>0, <1>3 DEF applyMicrophoneMuted
  <2>2. call' = [call EXCEPT ![b.call].muted = b.on] BY <1>3 DEF applyMicrophoneMuted
  <2>3. pj' = pj \/ pj' = [pj EXCEPT ![b.call].capture = ~b.on] BY <1>3 DEF applyMicrophoneMuted
  <2>4. call'[c].onHold = call[c].onHold /\ call'[c].state = call[c].state
    BY <1>t, <1>c, <2>1, <2>2 DEF CallRecords
  <2>5. pj'[c].dialog = pj[c].dialog /\ pj'[c].held = pj[c].held
    BY <1>t, <1>c, <2>1, <2>3 DEF Dialogs
  <2>6. mainQ' = mainQ \/ mainQ' = Append(mainQ, Block("muted", b.call, b.on))
    BY <1>3 DEF applyMicrophoneMuted, DispatchMain
  <2>7. Block("muted", b.call, b.on) \in MainBlocks /\ Block("muted", b.call, b.on).op \notin Publishing
    BY <1>0, <2>1 DEF Block, MainBlocks, Publishing
  <2>8. BlocksKept(Publishing, c) /\ StillNone(Publishing, c) /\ StillNone({"held"}, c)
    BY <2>6, <2>7, OtherBlock
  <2> QED BY <1>c, <2>4, <2>5, <2>8, HoldKept
<1>4. CASE applyHold(b)
  <2>0. b.call \in Call /\ call' = call BY <1>0, <1>4 DEF applyHold
  <2>1. \/ /\ pj[b.call].dialog = "confirmed" /\ pj' = [pj EXCEPT ![b.call].held = b.on]
           /\ mainQ' = Append(mainQ, Block("held", b.call, b.on))
        \/ pj' = pj /\ mainQ' = mainQ
    BY <1>4 DEF applyHold, DispatchMain
  <2>2. CASE pj' = pj /\ mainQ' = mainQ
    <3>1. BlocksKept(Publishing, c) /\ StillNone(Publishing, c) /\ StillNone({"held"}, c)
      BY <2>2, OtherBlock
    <3> QED BY <1>c, <2>0, <2>2, <3>1, HoldKept
  <2>3. CASE /\ pj[b.call].dialog = "confirmed" /\ pj' = [pj EXCEPT ![b.call].held = b.on]
             /\ mainQ' = Append(mainQ, Block("held", b.call, b.on))
    <3>1. CASE b.call = c BY <1>0, <1>c, <2>3, <3>1, HoldApplied
    <3>2. CASE b.call # c
      <4>1. pj'[c] = pj[c] BY <1>t, <1>c, <2>0, <2>3, <3>2
      <4>2. Block("held", b.call, b.on) \in MainBlocks /\ Block("held", b.call, b.on).call # c
        BY <1>0, <2>0, <3>2 DEF Block, MainBlocks
      <4>3. BlocksKept(Publishing, c) /\ StillNone(Publishing, c) /\ StillNone({"held"}, c)
        BY <2>3, <4>2, OtherBlock
      <4> QED BY <1>c, <2>0, <4>1, <4>3, HoldKept
    <3> QED BY <3>1, <3>2
  <2> QED BY <2>1, <2>2, <2>3
<1>5. CASE endSIPCall(b)
  <2>0. b.call \in Call /\ call' = call BY <1>0, <1>5 DEF endSIPCall
  <2>1. mainQ' = mainQ \/ mainQ' = Append(mainQ, Block("ended", b.call, TRUE))
    BY <1>5 DEF endSIPCall, DispatchMain
  <2>2. Block("ended", b.call, TRUE) \in MainBlocks /\ Block("ended", b.call, TRUE).op \notin Publishing
    BY <2>0 DEF Block, MainBlocks, Publishing
  <2>3. BlocksKept(Publishing, c) /\ StillNone(Publishing, c) /\ StillNone({"held"}, c)
    BY <2>1, <2>2, OtherBlock
  <2>4. pj' = pj \/ pj' = [pj EXCEPT ![b.call] = [NoDialog EXCEPT !.dialog = "closing"]]
    BY <1>5 DEF endSIPCall
  <2>5. [NoDialog EXCEPT !.dialog = "closing"].dialog = "closing" BY DEF NoDialog
  <2>6. pj'[c] = pj[c] \/ pj'[c].dialog = "closing" BY <1>t, <1>c, <2>0, <2>4, <2>5
  <2>7. CASE pj'[c] = pj[c] BY <1>c, <2>0, <2>3, <2>7, HoldKept
  <2>8. CASE pj'[c].dialog = "closing" BY <2>8 DEF HoldOK
  <2> QED BY <2>6, <2>7, <2>8
<1> QED BY <1>1, <1>2, <1>3, <1>4, <1>5

LEMMA HoldStep ==
  ASSUME Types, Distinct, HoldsWillShow, [Next]_vars
  PROVE  HoldsWillShow'
<1>t. registry \in Seq(Call) /\ call \in [Call -> CallRecords] /\ pj \in [Call -> Dialogs] BY DEF Types
<1>u. Tracked \subseteq Call BY <1>t DEF Tracked, ToSet
<1>1. CASE \E d \in Call : arrive(d)
  <2> PICK d \in Call : arrive(d) BY <1>1
  <2>1. /\ Tracked' = Tracked \cup {d} /\ d \notin Tracked /\ ~Mentioned(d) /\ pj[d] = NoDialog
        /\ mainQ' = mainQ /\ call' = [call EXCEPT ![d] = Fresh]
        /\ pj' = [pj EXCEPT ![d].dialog = "connecting"]
    BY <1>t, AppendedOne DEF arrive, Tracked
  <2> SUFFICES ASSUME NEW c \in Tracked' PROVE HoldOK(c)'
    BY DEF HoldsWillShow
  <2>2. CASE c = d
    <3>1. \A i \in 1..Len(mainQ) : mainQ[i].call # d
      <4>1. mainQ \in Seq(MainBlocks) BY DEF Types
      <4>2. \A i \in 1..Len(mainQ) : mainQ[i] \in ToSet(mainQ) BY <4>1 DEF ToSet
      <4> QED BY <2>1, <4>2 DEF Mentioned
    <3>2. NoneFor(Publishing, d)' BY <2>1, <3>1 DEF NoneFor, IsFor
    <3>3. pj'[d].dialog = "connecting" /\ ~pj'[d].held BY <1>t, <2>1 DEF NoDialog
    <3>4. ~call'[d].onHold /\ call'[d].state = "connecting" BY <1>t, <2>1 DEF Fresh
    <3> QED BY <2>2, <3>2, <3>3, <3>4 DEF HoldOK, Unanswered
  <2>3. CASE c # d
    <3>1. c \in Tracked /\ pj'[c] = pj[c] /\ call'[c] = call[c] BY <1>t, <1>u, <2>1, <2>3
    <3>2. HoldOK(c) BY <3>1 DEF HoldsWillShow
    <3>3. BlocksKept(Publishing, c) /\ StillNone(Publishing, c) /\ StillNone({"held"}, c)
      BY <2>1, OtherBlock
    <3> QED BY <3>1, <3>2, <3>3, HoldKept
  <2> QED BY <2>2, <2>3
<1>2. CASE \E d \in Call : handleSIPCallConfirmed(d) \/ handleSIPCallDisconnected(d)
  <2> PICK d \in Call : handleSIPCallConfirmed(d) \/ handleSIPCallDisconnected(d) BY <1>2
  <2>0. UNCHANGED <<registry, call>>
    BY DEF handleSIPCallConfirmed, handleSIPCallDisconnected, record
  <2> SUFFICES ASSUME NEW c \in Tracked PROVE HoldOK(c)'
    BY <2>0 DEF HoldsWillShow, Tracked
  <2>1. c \in Call /\ HoldOK(c) BY <1>u DEF HoldsWillShow
  <2>2. CASE c = d /\ handleSIPCallConfirmed(d) BY <2>1, <2>2, HoldConfirmed
  <2>3. CASE c = d /\ handleSIPCallDisconnected(d)
    <3>1. pj'[c].dialog = "none" BY <1>t, <2>3 DEF handleSIPCallDisconnected, NoDialog
    <3> QED BY <3>1 DEF HoldOK
  <2>4. CASE c # d
    <3>1. pj'[c] = pj[c] BY <1>t, <2>1, <2>4 DEF handleSIPCallConfirmed, handleSIPCallDisconnected
    <3> PICK op \in {"confirmed", "ended"} :
          mainQ' = mainQ \/ mainQ' = Append(mainQ, Block(op, d, TRUE))
      BY DEF handleSIPCallConfirmed, handleSIPCallDisconnected, DispatchMain
    <3>2. Block(op, d, TRUE) \in MainBlocks /\ Block(op, d, TRUE).call # c
      BY <2>4 DEF Block, MainBlocks
    <3>3. BlocksKept(Publishing, c) /\ StillNone(Publishing, c) /\ StillNone({"held"}, c)
      BY <3>2, OtherBlock
    <3> QED BY <2>0, <2>1, <3>1, <3>3, HoldKept
  <2> QED BY <2>2, <2>3, <2>4
<1>3. CASE \E b \in unposted : postMuted(b)
  <2> PICK b \in unposted : postMuted(b) BY <1>3
  <2>0. UNCHANGED <<registry, call, pj>> /\ mainQ' = Append(mainQ, b)
    BY DEF postMuted, record, DispatchMain
  <2>1. b \in MainBlocks /\ b.op \notin Publishing BY DEF Types, MainBlocks, Publishing
  <2> SUFFICES ASSUME NEW c \in Tracked PROVE HoldOK(c)'
    BY <2>0 DEF HoldsWillShow, Tracked
  <2>2. HoldOK(c) BY DEF HoldsWillShow
  <2>3. BlocksKept(Publishing, c) /\ StillNone(Publishing, c) /\ StillNone({"held"}, c)
    BY <2>0, <2>1, OtherBlock
  <2> QED BY <2>0, <2>2, <2>3, HoldKept
<1>4. CASE \E d \in Call : handleMediaStateForCall(d)
  <2>0. UNCHANGED <<registry, call, mainQ>> BY <1>4 DEF handleMediaStateForCall, record
  <2> SUFFICES ASSUME NEW c \in Tracked PROVE HoldOK(c)'
    BY <2>0 DEF HoldsWillShow, Tracked
  <2>1. c \in Call /\ HoldOK(c) BY <1>u DEF HoldsWillShow
  <2>2. pj'[c].dialog = pj[c].dialog /\ pj'[c].held = pj[c].held
    BY <1>4, <1>t, <2>1 DEF handleMediaStateForCall, Dialogs
  <2>3. BlocksKept(Publishing, c) /\ StillNone(Publishing, c) /\ StillNone({"held"}, c)
    BY <2>0, OtherBlock
  <2> QED BY <2>0, <2>1, <2>2, <2>3, HoldKept
<1>5. CASE providerDidReset
  BY <1>5 DEF providerDidReset, HoldsWillShow, Tracked, ToSet
<1>6. CASE UNCHANGED <<registry, call, pj, mainQ>>
  <2> SUFFICES ASSUME NEW c \in Tracked PROVE HoldOK(c)'
    BY <1>6 DEF HoldsWillShow, Tracked
  <2>1. HoldOK(c) BY DEF HoldsWillShow
  <2>2. BlocksKept(Publishing, c) /\ StillNone(Publishing, c) /\ StillNone({"held"}, c)
    BY <1>6, OtherBlock
  <2> QED BY <1>6, <2>1, <2>2, HoldKept
<1>7. CASE SipTurn BY <1>7, HoldSipTurn
<1>8. CASE MainBlock BY <1>8, HoldMainBlock
<1> QED BY <1>1, <1>2, <1>3, <1>4, <1>5, <1>6, <1>7, <1>8
     DEF Next, setMicrophoneMuted, setHeld, endCall, setMicrophoneMutedSync, activated, sample,
         record, vars
-----------------------------------------------------------------------------
LEMMA InitInvariant == Init => IInv
<1> SUFFICES ASSUME Init PROVE IInv
  OBVIOUS
<1>1. Fresh \in CallRecords /\ NoDialog \in Dialogs /\ ~NoDialog.capture
  BY DEF Fresh, CallRecords, NoDialog, Dialogs
<1>2. registry = <<>> /\ Tracked = {} BY DEF Init, Tracked, ToSet
<1>3. /\ registry \in Seq(Call) /\ sipQ \in Seq(SipBlocks) /\ mainQ \in Seq(MainBlocks)
      /\ Distinct
  BY DEF Init, Distinct
<1>4. Types BY <1>1, <1>3 DEF Init, Types
<1>5. PortForMicrophone BY <1>1 DEF Init, PortForMicrophone
<1>6. CurrentIsTracked BY DEF Init, CurrentIsTracked
<1>7. MicWillFollow /\ ButtonsWillFollow /\ HoldsWillShow
  BY <1>2 DEF MicWillFollow, ButtonsWillFollow, HoldsWillShow
<1> QED BY <1>3, <1>4, <1>5, <1>6, <1>7 DEF IInv

LEMMA InductionStep == IInv /\ [Next]_vars => IInv'
  BY TypesStep, MicStep, ButtonStep, HoldStep DEF IInv

(* The record of a call, what PJSUA has of it, the registry, the current   *)
(* call and the flags keep their types, and only a call with a port has a  *)
(* microphone: for every set of calls and every mixture of events.         *)
THEOREM ControlsTypeCorrect == Spec => []TypeOK
<1>1. IInv => TypeOK
  BY DEF IInv, Types, PortForMicrophone, CallRecords, Dialogs, TypeOK, ToSet
<1> QED BY <1>1, InitInvariant, InductionStep, PTL DEF Spec

LEMMA NothingPending ==
  ASSUME AtRest
  PROVE  /\ \A c : ~LinkPending(c) /\ AllPosted(c)
         /\ \A ops, c : NoneFor(ops, c)
<1>1. Len(sipQ) = 0 /\ Len(mainQ) = 0 /\ unposted = {} BY DEF AtRest
<1>2. 1..Len(sipQ) = {} /\ 1..Len(mainQ) = {} BY <1>1
<1> QED BY <1>1, <1>2 DEF LinkPending, AllPosted, NoneFor

(* Once nothing is under way and the session is active, the microphone of  *)
(* a call with live media is connected if and only if the call is not      *)
(* muted, in whatever order mute, media and the audio session came.        *)
THEOREM MicrophoneFollows == Spec => []MicFollowsFlag
<1>1. IInv => MicFollowsFlag
  BY NothingPending DEF IInv, MicFollowsFlag, MicWillFollow
<1> QED BY <1>1, InitInvariant, InductionStep, PTL DEF Spec

(* Once nothing is under way the button shows the flag of the current      *)
(* call, unless a mute of it was refused or overtaken, whichever call the  *)
(* mute was for and however the current call changed meanwhile.            *)
THEOREM ButtonFollows == Spec => []ButtonFollowsFlag
<1>1. IInv => ButtonFollowsFlag
  BY NothingPending, ControlsAssumption
     DEF IInv, CurrentIsTracked, ButtonFollowsFlag, ButtonsWillFollow, ButtonWillFollow
<1> QED BY <1>1, InitInvariant, InductionStep, PTL DEF Spec

(* Once nothing is under way an answered call is shown as held if and only *)
(* if PJSUA holds it, after holds that failed, answers and endings.        *)
THEOREM HoldFollows == Spec => []HoldShownIsReal
<1>1. IInv => HoldShownIsReal
  BY NothingPending DEF IInv, HoldShownIsReal, HoldsWillShow, HoldOK, HoldWillShow
<1> QED BY <1>1, InitInvariant, InductionStep, PTL DEF Spec
=============================================================================
