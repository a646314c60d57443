------------------------------ MODULE TokenPush ------------------------------
(***************************************************************************)
(* How the access token of one language server instance reaches its       *)
(* process: the renewal task of native.rs stores the token and announces   *)
(* it on a watch channel; the extension server (extension_server.rs)       *)
(* answers a subscription with the stored token and starts a task that     *)
(* pushes every later one through a bounded queue.                         *)
(*                                                                         *)
(* Tokens are numbered in the order Google issues them; Blank is an empty  *)
(* access_token, which the extension server does not push.                 *)
(***************************************************************************)
EXTENDS Naturals, Sequences

CONSTANTS
  Subs,         \* subscriptions the language server may open
  Topics,       \* topics it may name, one of them OAuth
  OAuth,        \* "uss-oauth", the topic that carries the token
  Keys,         \* the keys under which the token is pushed
  Capacity,     \* room of a subscription's queue: 10
  MaxRenewals,  \* bound on the renewals
  Blank,        \* the empty token
  None

ASSUME TopicAssumption == OAuth \in Topics /\ None \notin Topics
ASSUME BoundsAssumption == Capacity \in Nat \ {0} /\ MaxRenewals \in Nat
ASSUME TokenAssumption == /\ Blank \notin Nat
                          /\ None \notin Nat \cup {Blank}

Tokens == 0 .. MaxRenewals

VARIABLES
  instance,  \* "starting", then "running" in the pool, then "dropped" by it
  renewal,   \* where the renewal task is
  issued,    \* renewals answered so far
  oauth,     \* oauth_token, the stored token
  sent,      \* the value in the watch channel
  version,   \* its version
  pc,        \* pc[s]: where subscription s is
  topic,     \* topic[s]: what it asked for
  first,     \* first[s]: the token read when it was opened
  seen,      \* seen[s]: the version its receiver has seen
  pushing,   \* pushing[s]: the token its task is pushing
  left,      \* left[s]: the keys still to push
  queue,     \* queue[s]: messages on their way to the process
  gone,      \* gone[s]: its connection is closed
  view       \* view[s]: the token the process holds under each key

instVars == <<instance, renewal, issued, oauth, sent, version>>
taskVars == <<pc, topic, first, seen, pushing, left>>
wireVars == <<queue, gone, view>>
vars == <<instVars, taskVars, wireVars>>

Values == Tokens \cup {Blank}

\* A message sets the named keys to a token; a heartbeat sets none.
Message == [keys : SUBSET Keys, token : Values]
Heartbeat == [keys |-> {}, token |-> Blank]

PCs == {"none", "refused", "opening", "select", "changed", "pushing", "beating", "ended"}
Tasks == {"select", "changed", "pushing", "beating"}

TypeOK ==
  /\ instance \in {"starting", "running", "dropped"}
  /\ renewal \in {"off", "asleep", "stored", "dated", "dead"}
  /\ issued \in 0 .. MaxRenewals /\ version \in 0 .. MaxRenewals
  /\ oauth \in Values /\ sent \in Values
  /\ pc \in [Subs -> PCs]
  /\ topic \in [Subs -> Topics \cup {None}]
  /\ first \in [Subs -> Values]
  /\ seen \in [Subs -> 0 .. MaxRenewals]
  /\ pushing \in [Subs -> Values]
  /\ left \in [Subs -> SUBSET Keys]
  /\ queue \in [Subs -> Seq(Message)]
  /\ \A s \in Subs : Len(queue[s]) <= Capacity
  /\ gone \in [Subs -> BOOLEAN]
  /\ view \in [Subs -> [Keys -> Tokens \cup {None}]]

\* acquire() has the first token and has started the extension server; the process
\* is coming up.
Init ==
  /\ instance = "starting" /\ renewal = "off" /\ issued = 0
  /\ oauth = 0 /\ sent = 0 /\ version = 0
  /\ pc = [s \in Subs |-> "none"]
  /\ topic = [s \in Subs |-> None]
  /\ first = [s \in Subs |-> 0]
  /\ seen = [s \in Subs |-> 0]
  /\ pushing = [s \in Subs |-> 0]
  /\ left = [s \in Subs |-> {}]
  /\ queue = [s \in Subs |-> <<>>]
  /\ gone = [s \in Subs |-> FALSE]
  /\ view = [s \in Subs |-> [k \in Keys |-> None]]

-----------------------------------------------------------------------------
(* The instance and its renewal task.                                      *)

\* The port answers in time: the instance is shared and its renewal task runs.
Ready ==
  /\ instance = "starting"
  /\ instance' = "running" /\ renewal' = "asleep"
  /\ UNCHANGED <<issued, oauth, sent, version, taskVars, wireVars>>

\* The port does not answer, or the pool lets go of the instance.
Drop ==
  /\ instance # "dropped"
  /\ instance' = "dropped"
  /\ UNCHANGED <<renewal, issued, oauth, sent, version, taskVars, wireVars>>

\* Google answers a renewal; its token, which may be empty, is stored.
Store ==
  /\ renewal = "asleep" /\ issued < MaxRenewals
  /\ issued' = issued + 1
  /\ oauth' \in {issued + 1, Blank}
  /\ renewal' = "stored"
  /\ UNCHANGED <<instance, sent, version, taskVars, wireVars>>

\* The expiry is stored.
Date ==
  /\ renewal = "stored"
  /\ renewal' = "dated"
  /\ UNCHANGED <<instance, issued, oauth, sent, version, taskVars, wireVars>>

\* expires_in is below 300: the subtraction, or the addition to the clock of what
\* it wrapped to, panics, and the task ends before the token is announced.
Panic ==
  /\ renewal = "stored"
  /\ renewal' = "dead"
  /\ UNCHANGED <<instance, issued, oauth, sent, version, taskVars, wireVars>>

\* token_tx.send
Announce ==
  /\ renewal = "dated"
  /\ renewal' = "asleep"
  /\ sent' = oauth /\ version' = version + 1
  /\ UNCHANGED <<instance, issued, oauth, taskVars, wireVars>>

\* The instance and the renewal task hold the sender between them.
SenderDropped == instance = "dropped" /\ renewal \in {"off", "dead"}

-----------------------------------------------------------------------------
(* The subscription handler.                                               *)

\* A request with another CSRF token is refused.
Refuse(s) ==
  /\ pc[s] = "none" /\ ~SenderDropped
  /\ pc' = [pc EXCEPT ![s] = "refused"]
  /\ UNCHANGED <<instVars, topic, first, seen, pushing, left, wireVars>>

\* The process subscribes; the handler reads the stored token.
Subscribe(s) ==
  /\ pc[s] = "none" /\ ~SenderDropped
  /\ \E t \in Topics : topic' = [topic EXCEPT ![s] = t]
  /\ first' = [first EXCEPT ![s] = oauth]
  /\ pc' = [pc EXCEPT ![s] = "opening"]
  /\ UNCHANGED <<instVars, seen, pushing, left, wireVars>>

\* The first message holds the token under every key, for the topic that has it.
Initial(s) ==
  IF topic[s] = OAuth /\ first[s] # Blank
  THEN [keys |-> Keys, token |-> first[s]] ELSE Heartbeat

\* Mutant: the receiver starts at the current version.
OpenMarked(s) ==
  /\ pc[s] = "opening"
  /\ queue' = [queue EXCEPT ![s] = Append(@, Initial(s))]
  /\ seen' = [seen EXCEPT ![s] = version]
  /\ pc' = [pc EXCEPT ![s] = "select"]
  /\ UNCHANGED <<instVars, topic, first, pushing, left, gone, view>>

\* The first message is queued and the task starts with a clone of the server's
\* receiver, which has seen the version of the start only.
Open(s) ==
  /\ pc[s] = "opening"
  /\ queue' = [queue EXCEPT ![s] = Append(@, Initial(s))]
  /\ seen' = [seen EXCEPT ![s] = 0]
  /\ pc' = [pc EXCEPT ![s] = "select"]
  /\ UNCHANGED <<instVars, topic, first, pushing, left, gone, view>>

-----------------------------------------------------------------------------
(* The task of a subscription.                                             *)

\* token_rx.changed() answers: there is a newer value, or never will be.
Changed(s) ==
  /\ pc[s] = "select"
  /\ seen[s] < version \/ SenderDropped
  /\ seen' = [seen EXCEPT ![s] = version]
  /\ pc' = [pc EXCEPT ![s] = "changed"]
  /\ UNCHANGED <<instVars, topic, first, pushing, left, wireVars>>

\* Mutant: the token of the subscription is pushed.
BorrowFirst(s) ==
  /\ pc[s] = "changed"
  /\ pushing' = [pushing EXCEPT ![s] = first[s]]
  /\ LET wanted == topic[s] = OAuth /\ first[s] # Blank
     IN /\ left' = [left EXCEPT ![s] = IF wanted THEN Keys ELSE {}]
        /\ pc' = [pc EXCEPT ![s] = IF wanted THEN "pushing" ELSE "select"]
  /\ UNCHANGED <<instVars, topic, first, seen, wireVars>>

\* The channel's value, by now perhaps newer than the version seen, is taken.
Borrow(s) ==
  /\ pc[s] = "changed"
  /\ pushing' = [pushing EXCEPT ![s] = sent]
  /\ LET wanted == topic[s] = OAuth /\ sent # Blank
     IN /\ left' = [left EXCEPT ![s] = IF wanted THEN Keys ELSE {}]
        /\ pc' = [pc EXCEPT ![s] = IF wanted THEN "pushing" ELSE "select"]
  /\ UNCHANGED <<instVars, topic, first, seen, wireVars>>

\* Mutant: the queue has no bound.
PushUncapped(s) ==
  /\ pc[s] = "pushing" /\ ~gone[s]
  /\ \E k \in left[s] :
       /\ queue' = [queue EXCEPT ![s] = Append(@, [keys |-> {k}, token |-> pushing[s]])]
       /\ left' = [left EXCEPT ![s] = @ \ {k}]
       /\ pc' = [pc EXCEPT ![s] = IF left[s] = {k} THEN "select" ELSE "pushing"]
  /\ UNCHANGED <<instVars, topic, first, seen, pushing, gone, view>>

\* One key is queued, once there is room (the code has an order of the keys).
Push(s) ==
  /\ pc[s] = "pushing" /\ ~gone[s] /\ Len(queue[s]) < Capacity
  /\ \E k \in left[s] :
       /\ queue' = [queue EXCEPT ![s] = Append(@, [keys |-> {k}, token |-> pushing[s]])]
       /\ left' = [left EXCEPT ![s] = @ \ {k}]
       /\ pc' = [pc EXCEPT ![s] = IF left[s] = {k} THEN "select" ELSE "pushing"]
  /\ UNCHANGED <<instVars, topic, first, seen, pushing, gone, view>>

\* The timer ticks.
Tick(s) ==
  /\ pc[s] = "select"
  /\ pc' = [pc EXCEPT ![s] = "beating"]
  /\ UNCHANGED <<instVars, topic, first, seen, pushing, left, wireVars>>

\* The heartbeat is queued, once there is room.
Beat(s) ==
  /\ pc[s] = "beating" /\ ~gone[s] /\ Len(queue[s]) < Capacity
  /\ queue' = [queue EXCEPT ![s] = Append(@, Heartbeat)]
  /\ pc' = [pc EXCEPT ![s] = "select"]
  /\ UNCHANGED <<instVars, topic, first, seen, pushing, left, gone, view>>

\* Mutant: a heartbeat that cannot be sent is ignored.
SendFailsIgnored(s) ==
  /\ pc[s] \in {"pushing", "beating"} /\ gone[s]
  /\ pc' = [pc EXCEPT ![s] = IF pc[s] = "beating" THEN "select" ELSE "ended"]
  /\ UNCHANGED <<instVars, topic, first, seen, pushing, left, wireVars>>

\* The reader is gone: the task ends.
SendFails(s) ==
  /\ pc[s] \in {"pushing", "beating"} /\ gone[s]
  /\ pc' = [pc EXCEPT ![s] = "ended"]
  /\ UNCHANGED <<instVars, topic, first, seen, pushing, left, wireVars>>

-----------------------------------------------------------------------------
(* The language server process.                                            *)

\* It reads the next message of a stream.
Read(s) ==
  /\ queue[s] # <<>>
  /\ LET m == Head(queue[s])
     IN view' = [view EXCEPT ![s] = [k \in Keys |-> IF k \in m.keys THEN m.token ELSE @[k]]]
  /\ queue' = [queue EXCEPT ![s] = Tail(@)]
  /\ UNCHANGED <<instVars, taskVars, gone>>

\* The connection closes; a handler still at work is cancelled with it.
HangUp(s) ==
  /\ pc[s] \in Tasks \cup {"opening"} /\ ~gone[s]
  /\ gone' = [gone EXCEPT ![s] = TRUE]
  /\ queue' = [queue EXCEPT ![s] = <<>>]
  /\ pc' = [pc EXCEPT ![s] = IF @ = "opening" THEN "ended" ELSE @]
  /\ UNCHANGED <<instVars, topic, first, seen, pushing, left, view>>

-----------------------------------------------------------------------------
Renew == Store \/ Date \/ Panic \/ Announce

Task(s) == Changed(s) \/ Borrow(s) \/ Push(s) \/ Tick(s) \/ Beat(s) \/ SendFails(s)

Next ==
  \/ Ready \/ Drop \/ Renew
  \/ \E s \in Subs : Refuse(s) \/ Subscribe(s) \/ Open(s) \/ Task(s) \/ Read(s) \/ HangUp(s)

\* The tasks run; select! picks at random among what is ready, so neither a change nor
\* the timer is passed over for ever.  The process reads its streams.
Fairness ==
  /\ WF_vars(Date \/ Panic) /\ WF_vars(Announce)
  /\ \A s \in Subs :
       /\ WF_vars(Open(s)) /\ WF_vars(Borrow(s)) /\ WF_vars(Push(s)) /\ WF_vars(Beat(s))
       /\ WF_vars(SendFails(s)) /\ WF_vars(Read(s))
       /\ SF_vars(Changed(s)) /\ SF_vars(Tick(s))

Spec == Init /\ [][Next]_vars /\ Fairness

-----------------------------------------------------------------------------
(* Properties.                                                             *)

\* The stored token is not announced yet, or never will be.
Midway == renewal \in {"stored", "dated", "dead"}

\* A subscription that has nothing to push and nothing under way shows the instance's
\* token under every key, whenever it was opened between the steps of a renewal
\* (extension_server.rs 144-201 against native.rs 538-540).
AtRestCurrent ==
  \A s \in Subs :
    /\ pc[s] \in {"select", "beating"} /\ topic[s] = OAuth
    /\ ~gone[s] /\ queue[s] = <<>> /\ seen[s] = version
    => Midway \/ oauth = Blank \/ \A k \in Keys : view[s][k] = oauth

\* A token that is stored and announced reaches every subscription that is open,
\* unless the connection closes or a newer token takes its place.
TokenArrives ==
  \A s \in Subs : \A v \in Tokens :
    (pc[s] \in Tasks /\ topic[s] = OAuth /\ oauth = v /\ ~Midway)
      ~> (gone[s] \/ oauth # v \/ \A k \in Keys : view[s][k] = v)

\* When the connection closes the task of the subscription ends, also one whose topic
\* never changes and one whose sender is gone: the timer finds out.
TaskEnds ==
  \A s \in Subs : gone[s] ~> pc[s] = "ended"
=============================================================================
