-------------------------- MODULE TokenPushProofs --------------------------
(***************************************************************************)
(* Proofs about TokenPush, for every set of subscriptions, topics and      *)
(* keys, every capacity of the queues and every number of renewals.        *)
(***************************************************************************)
EXTENDS TokenPush, TLAPS

-----------------------------------------------------------------------------
(* The inductive invariants.                                               *)

\* The renewal task starts with the instance.  The renewals are counted three times: a token is issued, then stored in oauth_token,
\* then announced; a subscription has seen no more than was announced.
CountInv ==
  /\ instance = "starting" => renewal = "off"
  /\ issued = IF Midway THEN version + 1 ELSE version
  /\ ~Midway => sent = oauth
  /\ issued = 0 => oauth = 0 /\ \A s \in Subs : first[s] = 0
  /\ \A s \in Subs : seen[s] <= version

\* The empty token is never sent under a key, and nothing is queued before the answer.
WireInv ==
  \A s \in Subs :
    /\ \A i \in DOMAIN queue[s] : queue[s][i].token = Blank => queue[s][i].keys = {}
    /\ pc[s] = "pushing" => pushing[s] # Blank
    /\ pc[s] \in {"none", "refused", "opening"} => queue[s] = <<>>

StateInv == TypeOK /\ CountInv /\ WireInv

\* When the messages q have been read, a process that holds old under key k holds v.
Lands(q, old, k, v) ==
  \/ \E i \in DOMAIN q : /\ k \in q[i].keys /\ q[i].token = v
                         /\ \A j \in DOMAIN q : j > i => k \notin q[j].keys
  \/ old = v /\ \A i \in DOMAIN q : k \notin q[i].keys

\* A subscription that has seen the last announcement has the announced token, or has it
\* under way, under the keys it need not push any more.
PushOf(s) ==
  topic[s] = OAuth /\ ~gone[s] /\ seen[s] = version =>
    /\ pc[s] \in {"select", "beating"} =>
         Midway \/ sent = Blank \/ \A k \in Keys : Lands(queue[s], view[s][k], k, sent)
    /\ pc[s] = "pushing" =>
         /\ pushing[s] = sent
         /\ \A k \in Keys \ left[s] : Lands(queue[s], view[s][k], k, sent)

PushInv == StateInv /\ \A s \in Subs : PushOf(s)

-----------------------------------------------------------------------------
(* Messages.                                                               *)

\* What the code queues is a message.
LEMMA MessageTypes ==
  ASSUME TypeOK, NEW s \in Subs
  PROVE  /\ Heartbeat \in Message
         /\ Initial(s) \in Message
         /\ \A k \in Keys : [keys |-> {k}, token |-> pushing[s]] \in Message
BY DEF TypeOK, Message, Heartbeat, Initial, Values

\* A queued message decides what its keys will hold ...
LEMMA AppendLands ==
  ASSUME NEW q \in Seq(Message), NEW m \in Message, NEW old, NEW k \in m.keys
  PROVE  Lands(Append(q, m), old, k, m.token)
<1>1. /\ Len(q) + 1 \in DOMAIN Append(q, m)
      /\ Append(q, m)[Len(q) + 1] = m
      /\ \A j \in DOMAIN Append(q, m) : ~(j > Len(q) + 1)
  OBVIOUS
<1>. QED
  BY <1>1 DEF Lands

\* ... and nothing about the others.
LEMMA AppendKeeps ==
  ASSUME NEW q \in Seq(Message), NEW m \in Message, NEW old, NEW k, NEW v,
         k \notin m.keys, Lands(q, old, k, v)
  PROVE  Lands(Append(q, m), old, k, v)
<1>1. /\ DOMAIN q = 1 .. Len(q) /\ Len(q) \in Nat
      /\ DOMAIN Append(q, m) = 1 .. Len(q) + 1
      /\ Append(q, m)[Len(q) + 1] = m
      /\ \A j \in 1 .. Len(q) : Append(q, m)[j] = q[j]
  OBVIOUS
<1>2. CASE old = v /\ \A i \in DOMAIN q : k \notin q[i].keys
  BY <1>1, <1>2 DEF Lands
<1>3. ASSUME NEW i \in DOMAIN q, k \in q[i].keys, q[i].token = v,
             \A j \in DOMAIN q : j > i => k \notin q[j].keys
      PROVE  Lands(Append(q, m), old, k, v)
  <2>1. i \in DOMAIN Append(q, m) /\ Append(q, m)[i] = q[i]
    BY <1>1
  <2>2. \A j \in DOMAIN Append(q, m) : j > i => k \notin Append(q, m)[j].keys
    BY <1>1, <1>3
  <2>. QED
    BY <1>3, <2>1, <2>2 DEF Lands
<1>. QED
  BY <1>2, <1>3 DEF Lands

\* Reading the next message changes nothing about where the keys end.
LEMMA ReadKeeps ==
  ASSUME NEW q \in Seq(Message), q # <<>>, NEW old, NEW k, NEW v, Lands(q, old, k, v)
  PROVE  Lands(Tail(q), IF k \in Head(q).keys THEN Head(q).token ELSE old, k, v)
<1>. DEFINE new == IF k \in Head(q).keys THEN Head(q).token ELSE old
<1>1. /\ DOMAIN q = 1 .. Len(q) /\ Len(q) \in Nat \ {0}
      /\ DOMAIN Tail(q) = 1 .. Len(q) - 1
      /\ Head(q) = q[1]
      /\ \A j \in 1 .. Len(q) - 1 : Tail(q)[j] = q[j + 1]
  OBVIOUS
<1>2. CASE old = v /\ \A i \in DOMAIN q : k \notin q[i].keys
  BY <1>1, <1>2 DEF Lands
<1>3. ASSUME NEW i \in DOMAIN q, k \in q[i].keys, q[i].token = v,
             \A j \in DOMAIN q : j > i => k \notin q[j].keys
      PROVE  Lands(Tail(q), new, k, v)
  <2>1. CASE i = 1
    <3>1. new = v
      BY <1>1, <1>3, <2>1
    <3>2. \A j \in DOMAIN Tail(q) : k \notin Tail(q)[j].keys
      BY <1>1, <1>3, <2>1
    <3>. QED
      BY <3>1, <3>2 DEF Lands
  <2>2. CASE i # 1
    <3>1. i - 1 \in DOMAIN Tail(q) /\ Tail(q)[i - 1] = q[i]
      BY <1>1, <2>2
    <3>2. \A j \in DOMAIN Tail(q) : j > i - 1 => k \notin Tail(q)[j].keys
      BY <1>1, <1>3
    <3>. QED
      BY <1>3, <3>1, <3>2 DEF Lands
  <2>. QED
    BY <2>1, <2>2
<1>. QED
  BY <1>2, <1>3 DEF Lands

-----------------------------------------------------------------------------
(* Types, counts and the wire.                                             *)

\* The start satisfies them.
LEMMA InitState == Init => StateInv
BY BoundsAssumption, TokenAssumption
   DEF Init, StateInv, TypeOK, CountInv, WireInv, PCs, Values, Tokens, Midway

\* The steps of the instance and of its renewal task keep them.
LEMMA InstanceKeepsState ==
  ASSUME StateInv, Ready \/ Drop \/ Renew
  PROVE  StateInv'
<1>. USE DEF StateInv, instVars, taskVars, wireVars
<1>1. CASE Ready
  BY <1>1 DEF Ready, TypeOK, CountInv, WireInv, Midway
<1>2. CASE Drop
  BY <1>2 DEF Drop, TypeOK, CountInv, WireInv, Midway
<1>3. CASE Store
  BY <1>3, BoundsAssumption
  DEF Store, TypeOK, CountInv, WireInv, Midway, Values, Tokens
<1>4. CASE Date
  BY <1>4 DEF Date, TypeOK, CountInv, WireInv, Midway
<1>5. CASE Panic
  BY <1>5 DEF Panic, TypeOK, CountInv, WireInv, Midway
<1>6. CASE Announce
  BY <1>6, BoundsAssumption DEF Announce, TypeOK, CountInv, WireInv, Midway
<1>. QED
  BY <1>1, <1>2, <1>3, <1>4, <1>5, <1>6 DEF Renew

\* The steps of the handler and of the task that queue nothing keep them.
LEMMA SilentKeepsState ==
  ASSUME StateInv, NEW s \in Subs,
         \/ Refuse(s) \/ Subscribe(s) \/ Changed(s) \/ Borrow(s) \/ Tick(s)
         \/ SendFails(s)
  PROVE  StateInv'
<1>. USE DEF StateInv, instVars, wireVars
<1>m. Midway' = Midway
  BY DEF Refuse, Subscribe, Changed, Borrow, Tick, SendFails, Midway
<1>1. CASE Refuse(s) \/ Tick(s) \/ SendFails(s)
  <2>1. /\ UNCHANGED <<instVars, topic, first, seen, pushing, left, wireVars>>
        /\ \E to \in PCs \ {"pushing", "none", "opening"} : pc' = [pc EXCEPT ![s] = to]
        /\ pc'[s] = "refused" => pc[s] = "none"
    BY <1>1 DEF Refuse, Tick, SendFails, TypeOK, PCs
  <2>2. TypeOK'
    BY <2>1 DEF TypeOK
  <2>3. CountInv'
    BY <2>1, <1>m DEF CountInv
  <2>4. WireInv'
    BY <2>1 DEF WireInv, TypeOK
  <2>. QED
    BY <2>2, <2>3, <2>4
<1>2. CASE Subscribe(s)
  BY <1>2, <1>m DEF Subscribe, TypeOK, PCs, CountInv, WireInv
<1>3. CASE Changed(s)
  <2>1. TypeOK' /\ CountInv'
    BY <1>3, <1>m, BoundsAssumption DEF Changed, TypeOK, PCs, CountInv
  <2>2. WireInv'
    BY <1>3 DEF Changed, TypeOK, WireInv
  <2>. QED
    BY <2>1, <2>2
<1>4. CASE Borrow(s)
  BY <1>4, <1>m DEF Borrow, TypeOK, PCs, CountInv, WireInv
<1>. QED
  BY <1>1, <1>2, <1>3, <1>4

\* The steps that queue a message keep them.
LEMMA QueueKeepsState ==
  ASSUME StateInv, NEW s \in Subs, Open(s) \/ Push(s) \/ Beat(s)
  PROVE  StateInv'
<1>. USE DEF StateInv, instVars
<1>t. TypeOK /\ CountInv /\ WireInv
  OBVIOUS
<1>1. PICK m \in Message :
        /\ queue' = [queue EXCEPT ![s] = Append(@, m)]
        /\ m.token = Blank => m.keys = {}
        /\ Len(queue[s]) < Capacity
  <2>1. CASE Open(s)
    <3>1. Initial(s).token = Blank => Initial(s).keys = {}
      BY DEF Initial, Heartbeat
    <3>2. Len(queue[s]) < Capacity
      BY <2>1, BoundsAssumption DEF Open, WireInv
    <3>. QED
      BY <2>1, <3>1, <3>2, MessageTypes DEF Open
  <2>2. CASE Push(s)
    <3>1. PICK k \in left[s] :
            queue' = [queue EXCEPT ![s] = Append(@, [keys |-> {k}, token |-> pushing[s]])]
      BY <2>2 DEF Push
    <3>2. k \in Keys /\ pushing[s] # Blank /\ Len(queue[s]) < Capacity
      BY <2>2, <3>1 DEF Push, TypeOK, WireInv
    <3>. QED
      BY <3>1, <3>2, MessageTypes
  <2>3. CASE Beat(s)
    <3>1. Heartbeat.keys = {}
      BY DEF Heartbeat
    <3>. QED
      BY <2>3, <3>1, MessageTypes DEF Beat
  <2>. QED
    BY <2>1, <2>2, <2>3
<1>2. /\ Append(queue[s], m) \in Seq(Message)
      /\ Len(Append(queue[s], m)) <= Capacity
      /\ \A i \in DOMAIN Append(queue[s], m) :
           Append(queue[s], m)[i].token = Blank => Append(queue[s], m)[i].keys = {}
  <2>1. queue[s] \in Seq(Message)
    BY DEF TypeOK
  <2>2. /\ Append(queue[s], m) \in Seq(Message)
        /\ Len(Append(queue[s], m)) = Len(queue[s]) + 1
        /\ \A i \in DOMAIN Append(queue[s], m) :
             \/ i \in DOMAIN queue[s] /\ Append(queue[s], m)[i] = queue[s][i]
             \/ Append(queue[s], m)[i] = m
    BY <2>1
  <2>3. Len(queue[s]) \in Nat
    BY <2>1
  <2>. QED
    BY <1>1, <2>2, <2>3, BoundsAssumption DEF WireInv
<1>3. /\ queue' \in [Subs -> Seq(Message)]
      /\ queue'[s] = Append(queue[s], m)
      /\ \A r \in Subs \ {s} : queue'[r] = queue[r]
  BY <1>1, <1>2 DEF TypeOK
<1>4. /\ UNCHANGED <<instance, renewal, issued, oauth, sent, version>>
      /\ UNCHANGED <<topic, first, pushing, gone, view>>
      /\ seen' = seen \/ seen' = [seen EXCEPT ![s] = 0]
      /\ left' \in [Subs -> SUBSET Keys]
      /\ \/ pc' = [pc EXCEPT ![s] = "select"]
         \/ pc[s] = "pushing" /\ pc' = [pc EXCEPT ![s] = "pushing"]
  <2>1. CASE Open(s)
    BY <2>1 DEF Open, TypeOK
  <2>2. CASE Push(s)
    <3>1. left' \in [Subs -> SUBSET Keys]
      BY <2>2 DEF Push, TypeOK
    <3>. QED
      BY <2>2, <3>1 DEF Push
  <2>3. CASE Beat(s)
    BY <2>3 DEF Beat, TypeOK
  <2>. QED
    BY <2>1, <2>2, <2>3
<1>5. pc' \in [Subs -> PCs] /\ seen' \in [Subs -> 0 .. MaxRenewals]
  <2>1. pc' \in [Subs -> PCs]
    BY <1>4 DEF TypeOK, PCs
  <2>2. 0 \in 0 .. MaxRenewals
    BY BoundsAssumption
  <2>3. seen' \in [Subs -> 0 .. MaxRenewals]
    BY <1>4, <2>2 DEF TypeOK
  <2>. QED
    BY <2>1, <2>3
<1>6. TypeOK'
  <2>1. \A r \in Subs : Len(queue'[r]) <= Capacity
    BY <1>2, <1>3 DEF TypeOK
  <2>. QED
    BY <1>3, <1>4, <1>5, <2>1 DEF TypeOK
<1>7. CountInv'
  <2>1. \A r \in Subs : seen'[r] = seen[r] \/ seen'[r] = 0
    BY <1>4 DEF TypeOK
  <2>2. version \in Nat
    BY BoundsAssumption DEF TypeOK
  <2>. QED
    BY <1>4, <2>1, <2>2 DEF CountInv, Midway
<1>8. WireInv'
  <2>1. ASSUME NEW r \in Subs \ {s}
        PROVE  queue'[r] = queue[r] /\ pc'[r] = pc[r] /\ pushing'[r] = pushing[r]
    BY <1>3, <1>4 DEF TypeOK
  <2>2. pc'[s] = "select" \/ (pc'[s] = "pushing" /\ pushing'[s] # Blank)
    BY <1>4 DEF TypeOK, WireInv
  <2>. DEFINE Wire(q, at, token) ==
         /\ \A i \in DOMAIN q : q[i].token = Blank => q[i].keys = {}
         /\ at = "pushing" => token # Blank
         /\ at \in {"none", "refused", "opening"} => q = <<>>
  <2>3. Wire(queue'[s], pc'[s], pushing'[s])
    BY <1>2, <1>3, <2>2
  <2>4. ASSUME NEW r \in Subs \ {s} PROVE Wire(queue'[r], pc'[r], pushing'[r])
    <3>1. Wire(queue[r], pc[r], pushing[r])
      BY DEF WireInv
    <3>. QED
      BY <2>1, <3>1
  <2>5. \A r \in Subs : Wire(queue'[r], pc'[r], pushing'[r])
    BY <2>3, <2>4
  <2>. QED
    BY <2>5 DEF WireInv
<1>. QED
  BY <1>6, <1>7, <1>8

\* The steps of the process keep them.
LEMMA ProcessKeepsState ==
  ASSUME StateInv, NEW s \in Subs, Read(s) \/ HangUp(s)
  PROVE  StateInv'
<1>. USE DEF StateInv, instVars, taskVars
<1>1. CASE Read(s)
  <2>1. queue[s] \in Seq(Message) /\ queue[s] # <<>> /\ Len(queue[s]) <= Capacity
    BY <1>1 DEF Read, TypeOK
  <2>2. /\ Tail(queue[s]) \in Seq(Message)
        /\ Len(Tail(queue[s])) <= Capacity
        /\ \A i \in DOMAIN Tail(queue[s]) :
             i + 1 \in DOMAIN queue[s] /\ Tail(queue[s])[i] = queue[s][i + 1]
        /\ Head(queue[s]) \in Message /\ Head(queue[s]) = queue[s][1]
        /\ 1 \in DOMAIN queue[s]
    BY <2>1, BoundsAssumption
  <2>3. /\ queue' \in [Subs -> Seq(Message)]
        /\ queue'[s] = Tail(queue[s])
        /\ \A r \in Subs \ {s} : queue'[r] = queue[r]
    BY <1>1, <2>2 DEF Read, TypeOK
  <2>4. \A k \in Head(queue[s]).keys : Head(queue[s]).token \in Tokens
    BY <2>2 DEF WireInv, Message, Values
  <2>5. view' \in [Subs -> [Keys -> Tokens \cup {None}]]
    <3>. DEFINE new == [k \in Keys |-> IF k \in Head(queue[s]).keys
                                       THEN Head(queue[s]).token ELSE view[s][k]]
    <3>1. view' = [view EXCEPT ![s] = new]
      BY <1>1 DEF Read
    <3>2. new \in [Keys -> Tokens \cup {None}]
      BY <2>4 DEF TypeOK
    <3>. HIDE DEF new
    <3>. QED
      BY <3>1, <3>2 DEF TypeOK
  <2>6. UNCHANGED <<instVars, taskVars, gone>>
    BY <1>1 DEF Read
  <2>7. TypeOK'
    BY <2>2, <2>3, <2>5, <2>6 DEF TypeOK
  <2>8. CountInv'
    BY <2>6 DEF CountInv, Midway
  <2>9. WireInv'
    <3>1. \A i \in DOMAIN queue'[s] : queue'[s][i].token = Blank => queue'[s][i].keys = {}
      BY <2>2, <2>3 DEF WireInv
    <3>2. pc[s] \notin {"none", "refused", "opening"}
      BY <2>1 DEF WireInv
    <3>. QED
      BY <2>3, <2>6, <3>1, <3>2 DEF WireInv
  <2>. QED
    BY <2>7, <2>8, <2>9
<1>2. CASE HangUp(s)
  <2>1. TypeOK'
    BY <1>2, BoundsAssumption DEF HangUp, TypeOK, PCs
  <2>2. CountInv'
    BY <1>2 DEF HangUp, CountInv, Midway
  <2>3. WireInv'
    BY <1>2 DEF HangUp, TypeOK, WireInv, Tasks
  <2>. QED
    BY <2>1, <2>2, <2>3
<1>. QED
  BY <1>1, <1>2

\* Every step keeps them.
LEMMA StepState == StateInv /\ [Next]_vars => StateInv'
<1>. SUFFICES ASSUME StateInv, [Next]_vars PROVE StateInv'
  OBVIOUS
<1>1. CASE UNCHANGED vars
  BY <1>1 DEF vars, instVars, taskVars, wireVars, StateInv, TypeOK, CountInv, WireInv, Midway
<1>. QED
  BY <1>1, InstanceKeepsState, SilentKeepsState, QueueKeepsState, ProcessKeepsState
  DEF Next, Task

\* Every queue stays within its capacity and every value within its type: a renewal, a
\* subscription and a slow reader cannot bring the channel and the queues out of step.
THEOREM PushTypes == Spec => []TypeOK
<1>1. StateInv => TypeOK
  BY DEF StateInv
<1>. QED
  BY <1>1, InitState, StepState, PTL DEF Spec

-----------------------------------------------------------------------------
(* What a subscription at rest shows.                                      *)

\* A step that touches neither the subscription nor the announcement, and does not end
\* a renewal, keeps what holds of it.
LEMMA OthersKeepPush ==
  ASSUME NEW s \in Subs, PushOf(s),
         /\ topic'[s] = topic[s] /\ gone'[s] = gone[s] /\ seen'[s] = seen[s]
         /\ pc'[s] = pc[s] /\ pushing'[s] = pushing[s] /\ left'[s] = left[s]
         /\ queue'[s] = queue[s] /\ view'[s] = view[s],
         version' = version /\ sent' = sent /\ (Midway => Midway')
  PROVE  PushOf(s)'
BY DEF PushOf, Lands

\* A renewal: until it is announced it is Midway, and its announcement is one that no
\* subscription has seen.
LEMMA InstanceKeepsPush ==
  ASSUME PushInv, Ready \/ Drop \/ Renew, NEW s \in Subs
  PROVE  PushOf(s)'
<1>. USE DEF PushInv, StateInv, taskVars, wireVars
<1>1. CASE Announce
  <2>1. seen'[s] <= version /\ version' = version + 1
    BY <1>1 DEF Announce, CountInv
  <2>2. version \in Nat /\ seen'[s] \in Nat
    BY <1>1, BoundsAssumption DEF TypeOK, Announce
  <2>3. seen'[s] # version'
    BY <2>1, <2>2
  <2>. QED
    BY <2>3 DEF PushOf
<1>2. CASE Ready \/ Drop \/ Store \/ Date \/ Panic
  <2>1. Midway => Midway'
    BY <1>2 DEF Ready, Drop, Store, Date, Panic, Midway, CountInv
  <2>. QED
    BY <1>2, <2>1, OthersKeepPush DEF Ready, Drop, Store, Date, Panic
<1>. QED
  BY <1>1, <1>2 DEF Renew

\* The answer to a subscription: with nothing announced yet and no renewal under way its
\* first message is the one token there has been.
LEMMA OpenKeepsPush ==
  ASSUME PushInv, NEW s \in Subs, Open(s)
  PROVE  PushOf(s)'
<1>. USE DEF PushInv, StateInv
<1>1. /\ UNCHANGED <<instVars, topic, first, pushing, left, gone, view>>
      /\ seen'[s] = 0 /\ pc'[s] = "select"
      /\ queue'[s] = Append(queue[s], Initial(s))
      /\ queue[s] \in Seq(Message)
  BY DEF Open, TypeOK
<1>2. SUFFICES ASSUME topic[s] = OAuth, version = 0, ~Midway
               PROVE  \A k \in Keys : Lands(queue'[s], view[s][k], k, sent)
  BY <1>1 DEF PushOf, instVars, Midway
<1>3. first[s] = 0 /\ sent = 0
  BY <1>2 DEF CountInv
<1>4. Initial(s) = [keys |-> Keys, token |-> 0]
  BY <1>2, <1>3, TokenAssumption DEF Initial
<1>5. /\ Initial(s) \in Message
      /\ Initial(s).token = sent
      /\ \A k \in Keys : k \in Initial(s).keys
  BY <1>3, <1>4, MessageTypes
<1>. QED
  BY <1>1, <1>5, AppendLands

\* A key that is pushed lands, and the others are as before.
LEMMA PushKeepsPush ==
  ASSUME PushInv, NEW s \in Subs, Push(s)
  PROVE  PushOf(s)'
<1>. USE DEF PushInv, StateInv
<1>1. PICK k \in left[s] :
        /\ queue' = [queue EXCEPT ![s] = Append(@, [keys |-> {k}, token |-> pushing[s]])]
        /\ left' = [left EXCEPT ![s] = @ \ {k}]
        /\ pc' = [pc EXCEPT ![s] = IF left[s] = {k} THEN "select" ELSE "pushing"]
  BY DEF Push
<1>. DEFINE m == [keys |-> {k}, token |-> pushing[s]]
<1>2. /\ UNCHANGED <<instVars, topic, first, seen, pushing, gone, view>>
      /\ pc[s] = "pushing"
      /\ k \in Keys /\ left[s] \subseteq Keys
      /\ queue[s] \in Seq(Message) /\ m \in Message
  BY MessageTypes DEF Push, TypeOK
<1>3. /\ queue'[s] = Append(queue[s], m)
      /\ left'[s] = left[s] \ {k}
      /\ pc'[s] = IF left[s] = {k} THEN "select" ELSE "pushing"
  BY <1>1 DEF TypeOK
<1>4. SUFFICES ASSUME topic[s] = OAuth, ~gone[s], seen[s] = version
               PROVE  /\ pushing[s] = sent
                      /\ \A l \in Keys \ left'[s] : Lands(queue'[s], view[s][l], l, sent)
  BY <1>2, <1>3 DEF PushOf, instVars
<1>5. pushing[s] = sent /\ \A l \in Keys \ left[s] : Lands(queue[s], view[s][l], l, sent)
  BY <1>2, <1>4 DEF PushOf
<1>6. Lands(queue'[s], view[s][k], k, sent)
  <2>1. k \in m.keys /\ m.token = sent
    BY <1>5
  <2>. HIDE DEF m
  <2>. QED
    BY <1>2, <1>3, <2>1, AppendLands
<1>7. ASSUME NEW l \in Keys \ left[s], l # k
      PROVE  Lands(queue'[s], view[s][l], l, sent)
  <2>1. l \notin m.keys
    BY <1>7
  <2>. HIDE DEF m
  <2>. QED
    BY <1>2, <1>3, <1>5, <2>1, AppendKeeps
<1>. QED
  BY <1>3, <1>5, <1>6, <1>7

\* A heartbeat sets no key.
LEMMA BeatKeepsPush ==
  ASSUME PushInv, NEW s \in Subs, Beat(s)
  PROVE  PushOf(s)'
<1>. USE DEF PushInv, StateInv
<1>1. /\ UNCHANGED <<instVars, topic, first, seen, pushing, left, gone, view>>
      /\ pc[s] = "beating" /\ pc'[s] = "select"
      /\ queue'[s] = Append(queue[s], Heartbeat)
      /\ queue[s] \in Seq(Message) /\ Heartbeat \in Message
  BY MessageTypes DEF Beat, TypeOK
<1>2. \A k \in Keys : k \notin Heartbeat.keys
  BY DEF Heartbeat
<1>3. \A k \in Keys : Lands(queue[s], view[s][k], k, sent)
                        => Lands(queue'[s], view[s][k], k, sent)
  BY <1>1, <1>2, AppendKeeps
<1>. QED
  BY <1>1, <1>3 DEF PushOf, instVars, Midway

\* Reading moves a token from the queue to the process.
LEMMA ReadKeepsPush ==
  ASSUME PushInv, NEW s \in Subs, Read(s)
  PROVE  PushOf(s)'
<1>. USE DEF PushInv, StateInv
<1>1. /\ UNCHANGED <<instVars, taskVars, gone>>
      /\ queue[s] # <<>> /\ queue'[s] = Tail(queue[s])
      /\ queue[s] \in Seq(Message)
  BY DEF Read, TypeOK
<1>2. \A k \in Keys : view'[s][k] = IF k \in Head(queue[s]).keys
                                      THEN Head(queue[s]).token ELSE view[s][k]
  BY DEF Read, TypeOK
<1>3. \A k \in Keys : Lands(queue[s], view[s][k], k, sent)
                        => Lands(queue'[s], view'[s][k], k, sent)
  BY <1>1, <1>2, ReadKeeps
<1>. QED
  BY <1>1, <1>3 DEF PushOf, instVars, taskVars, Midway

\* The other steps of a subscription: a change is seen and then borrowed, whatever is
\* newest by then; a closed connection needs nothing any more.
LEMMA TaskKeepsPush ==
  ASSUME PushInv, NEW s \in Subs,
         \/ Refuse(s) \/ Subscribe(s) \/ Changed(s) \/ Borrow(s) \/ Tick(s)
         \/ SendFails(s) \/ HangUp(s)
  PROVE  PushOf(s)'
<1>. USE DEF PushInv, StateInv
<1>1. CASE Refuse(s) \/ Subscribe(s) \/ Changed(s) \/ SendFails(s)
  <2>1. pc'[s] \notin {"select", "beating", "pushing"}
    BY <1>1 DEF Refuse, Subscribe, Changed, SendFails, TypeOK
  <2>. QED
    BY <2>1 DEF PushOf
<1>2. CASE Borrow(s)
  <2>1. /\ UNCHANGED <<instVars, topic, first, seen, wireVars>>
        /\ pushing'[s] = sent
        /\ IF topic[s] = OAuth /\ sent # Blank
           THEN left'[s] = Keys /\ pc'[s] = "pushing"
           ELSE pc'[s] = "select"
    BY <1>2 DEF Borrow, TypeOK
  <2>. QED
    BY <2>1 DEF PushOf, instVars, wireVars
<1>3. CASE Tick(s)
  <2>1. /\ UNCHANGED <<instVars, topic, first, seen, pushing, left, wireVars>>
        /\ pc[s] = "select" /\ pc'[s] = "beating"
    BY <1>3 DEF Tick, TypeOK
  <2>. QED
    BY <2>1 DEF PushOf, Lands, instVars, wireVars, Midway
<1>4. CASE HangUp(s)
  <2>1. gone'[s]
    BY <1>4 DEF HangUp, TypeOK
  <2>. QED
    BY <2>1 DEF PushOf
<1>. QED
  BY <1>1, <1>2, <1>3, <1>4

\* A step of one subscription is none of another.
LEMMA SubscriptionsApart ==
  ASSUME PushInv, NEW s \in Subs,
         Refuse(s) \/ Subscribe(s) \/ Open(s) \/ Task(s) \/ Read(s) \/ HangUp(s),
         NEW r \in Subs, r # s
  PROVE  PushOf(r)'
<1>. USE DEF instVars, taskVars, wireVars
<1>1. TypeOK /\ PushOf(r)
  BY DEF PushInv, StateInv
<1>2. UNCHANGED instVars /\ Midway' = Midway
  BY DEF Refuse, Subscribe, Open, Task, Changed, Borrow, Push, Tick, Beat, SendFails,
         Read, HangUp, Midway
<1>3. /\ topic'[r] = topic[r] /\ gone'[r] = gone[r] /\ seen'[r] = seen[r]
      /\ pc'[r] = pc[r] /\ pushing'[r] = pushing[r] /\ left'[r] = left[r]
  BY <1>1 DEF TypeOK, Refuse, Subscribe, Open, Task, Changed, Borrow, Push, Tick, Beat,
         SendFails, Read, HangUp
<1>4. queue'[r] = queue[r] /\ view'[r] = view[r]
  BY <1>1 DEF TypeOK, Refuse, Subscribe, Open, Task, Changed, Borrow, Push, Tick, Beat,
         SendFails, Read, HangUp
<1>. QED
  BY <1>1, <1>2, <1>3, <1>4, OthersKeepPush

\* Every step keeps what holds of the subscriptions.
LEMMA StepPush == PushInv /\ [Next]_vars => PushInv'
<1>. SUFFICES ASSUME PushInv, [Next]_vars, NEW s \in Subs PROVE PushOf(s)'
  BY StepState DEF PushInv
<1>1. CASE Ready \/ Drop \/ Renew
  BY <1>1, InstanceKeepsPush
<1>2. ASSUME Refuse(s) \/ Subscribe(s) \/ Open(s) \/ Task(s) \/ Read(s) \/ HangUp(s)
      PROVE  PushOf(s)'
  BY <1>2, OpenKeepsPush, PushKeepsPush, BeatKeepsPush, ReadKeepsPush, TaskKeepsPush
  DEF Task
<1>3. ASSUME NEW r \in Subs, r # s,
             Refuse(r) \/ Subscribe(r) \/ Open(r) \/ Task(r) \/ Read(r) \/ HangUp(r)
      PROVE  PushOf(s)'
  BY <1>3, SubscriptionsApart
<1>4. CASE UNCHANGED vars
  BY <1>4, OthersKeepPush DEF vars, instVars, taskVars, wireVars, PushInv, Midway
<1>. QED
  BY <1>1, <1>2, <1>3, <1>4 DEF Next

\* Whenever a subscription is opened between the steps of a renewal, and however late
\* it reads the channel, once it has nothing left to push it shows the stored token
\* under every key.
THEOREM RestCurrent == Spec => []AtRestCurrent
<1>1. Init => PushInv
  BY InitState DEF Init, PushInv, PushOf
<1>2. PushInv => AtRestCurrent
  BY DEF PushInv, StateInv, CountInv, PushOf, Lands, AtRestCurrent
<1>. QED
  BY <1>1, <1>2, StepPush, PTL DEF Spec

=============================================================================
