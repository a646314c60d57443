--------------------------- MODULE RoutingProofs ---------------------------
(***************************************************************************)
(* Proofs about Routing and the API keys it extends, for all accounts,     *)
(* keys, models, quota data and requests.                                  *)
(***************************************************************************)
EXTENDS Routing, TLAPS

-----------------------------------------------------------------------------
(* The inductive invariants.                                               *)

\* What was answered about a key that no start has lost is true of the keys in memory and
\* of a file that can be read; nothing has been answered about the keys a call is editing,
\* nor before there is a file.
KeysInv ==
  /\ KeysTypeOK
  /\ \A k \in Keys :
       /\ acked[k] = "out" => /\ up => k \notin keys
                              /\ keyFile \notin {None, Torn} => k \notin keyFile
       /\ acked[k] = "in" /\ k \notin lost =>
            /\ up => k \in keys
            /\ keyFile \notin {None, Torn} => k \in keyFile
  /\ saving # None => saving.valid \subseteq keys /\ saving.gone \cap keys = {}
  /\ keyFile = None \/ (~up /\ saving # None) => \A k \in Keys : acked[k] = "open"

\* A request that has been let in asks for a model.
AtWork == {"list", "check", "visit"}
NameInv == \A r \in Requests : phase[r] \in AtWork => model[r] \in Models /\ name[r] \in Models

StateInv == TypeOK /\ KeysInv /\ NameInv

\* A credential that has been a key without a break is one, and the second check has
\* seen it as one.
HeldInv ==
  \A r \in Requests :
    /\ held[r] => cred[r] \in keys
    /\ phase[r] \in {"visit", "direct"} /\ held[r] => virtual[r]
    /\ phase[r] = "direct" => ~virtual[r]

\* The accounts that could serve r all the while can serve it now, and wait in its list.
Waiting(r, a) == \E s \in list[r] : Accounts[s.at] = a /\ s.active
AbleAt(r) ==
  /\ phase[r] \in {"check", "visit", "refused"} =>
       \A a \in able[r] : CanServe(file[a], model[r])
  /\ phase[r] = "check" \/ (phase[r] = "visit" /\ virtual[r]) =>
       skewed[r] \/ \A a \in able[r] : Waiting(r, a)
  /\ phase[r] = "refused" /\ ~skewed[r] => able[r] = {}
AbleInv ==
  /\ StateInv
  /\ \A a \in Ids : pen = a => file[a] = Torn
  /\ \A r \in Requests : AbleAt(r)

-----------------------------------------------------------------------------
(* The keys.                                                               *)

\* The start satisfies it.
LEMMA InitKeys == KeysInit => KeysInv
<1>. SUFFICES ASSUME KeysInit PROVE KeysInv
  OBVIOUS
<1>1. keyCalls \in 0 .. MaxKeyCalls /\ crashes \in 0 .. MaxCrashes
  BY KeyBoundsAssumption DEF KeysInit
<1>2. acked \in [Keys -> Says] /\ \A k \in Keys : acked[k] = "open"
  BY DEF KeysInit, Says
<1>3. KeysTypeOK
  BY <1>1, <1>2 DEF KeysInit, KeysTypeOK
<1>. QED
  BY <1>2, <1>3 DEF KeysInit, KeysInv

\* A start takes the keys of a file that can be read, and makes up one without a file.
LEMMA StartKeys ==
  ASSUME KeysInv, Start
  PROVE  KeysInv'
<1>. USE DEF KeysInv
<1>1. /\ ~up /\ saving = None /\ UNCHANGED <<keyFile, keyCalls, crashes>>
      /\ acked' = acked
      /\ lost' = IF keyFile = Torn THEN {k \in Keys : acked[k] = "in"} ELSE lost
  BY DEF Start
<1>2. acked' \in [Keys -> Says] /\ lost' \subseteq Keys
  BY <1>1 DEF KeysTypeOK
<1>3. CASE keyFile = None
  <2>1. /\ saving' = [valid |-> {}, gone |-> {}, step |-> "edited"] /\ up' = up
        /\ keys' = {DefaultKey}
    <3>1. keyFile # Torn
      BY <1>3, KeySentinelAssumption
    <3>. QED
      BY <1>3, <3>1 DEF Start
  <2>2. saving' \in Call
    BY <2>1 DEF Call
  <2>3. KeysTypeOK'
    BY <1>1, <1>2, <2>1, <2>2, DefaultKeyAssumption DEF KeysTypeOK
  <2>4. \A k \in Keys : acked'[k] = "open"
    BY <1>1, <1>3
  <2>. QED
    BY <1>3, <2>1, <2>3, <2>4
<1>4. CASE keyFile # None
  <2>1. up' = TRUE /\ saving' = None
    BY <1>1, <1>4 DEF Start
  <2>2. keys' = IF keyFile = Torn THEN {} ELSE keyFile
    BY <1>4 DEF Start
  <2>3. keys' \in SUBSET Keys
    <3>1. CASE keyFile = Torn
      BY <2>2, <3>1
    <3>2. CASE keyFile # Torn
      <4>1. keyFile \in SUBSET Keys
        BY <1>4, <3>2 DEF KeysTypeOK
      <4>. QED
        BY <2>2, <3>2, <4>1
    <3>. QED
      BY <3>1, <3>2
  <2>4. KeysTypeOK'
    BY <1>1, <1>2, <2>1, <2>3 DEF KeysTypeOK
  <2>5. \A k \in Keys : /\ acked'[k] = "out" => acked[k] = "out"
                        /\ acked'[k] = "in" /\ k \notin lost' =>
                             acked[k] = "in" /\ k \notin lost /\ keyFile # Torn
    BY <1>1
  <2>. QED
    BY <1>1, <1>4, <2>1, <2>2, <2>4, <2>5
<1>. QED
  BY <1>3, <1>4

\* A call edits the list; nothing is promised about the keys it edits.
LEMMA EditKeys ==
  ASSUME KeysInv, NEW valid \in SUBSET Keys, NEW gone \in SUBSET Keys, valid \cap gone = {},
         Edit(valid, gone)
  PROVE  KeysInv'
<1>. USE DEF KeysInv
<1>1. /\ up /\ saving = None /\ keyCalls < MaxKeyCalls /\ keyCalls' = keyCalls + 1
      /\ keys' = (keys \ gone) \cup valid
      /\ saving' = [valid |-> valid, gone |-> gone, step |-> "edited"]
      /\ acked' = [k \in Keys |-> IF k \in valid \cup gone THEN "open" ELSE acked[k]]
      /\ UNCHANGED <<up, keyFile, lost, crashes>>
  BY DEF Edit
<1>2. acked' \in [Keys -> Says] /\ keys' \in SUBSET Keys /\ saving' \in Call
  BY <1>1 DEF KeysTypeOK, Says, Call
<1>3. keyCalls' \in 0 .. MaxKeyCalls
  BY <1>1, KeyBoundsAssumption DEF KeysTypeOK
<1>4. KeysTypeOK'
  BY <1>1, <1>2, <1>3 DEF KeysTypeOK
<1>5. \A k \in Keys : k \in valid \cup gone => acked'[k] = "open"
  BY <1>1
<1>6. \A k \in Keys : k \notin valid \cup gone => acked'[k] = acked[k] /\ (k \in keys' <=> k \in keys)
  BY <1>1
<1>7. saving'.valid = valid /\ saving'.gone = gone
  BY <1>1
<1>8. \A k \in Keys :
        /\ acked'[k] = "out" => /\ up' => k \notin keys'
                                /\ keyFile' \notin {None, Torn} => k \notin keyFile'
        /\ acked'[k] = "in" /\ k \notin lost' =>
             /\ up' => k \in keys'
             /\ keyFile' \notin {None, Torn} => k \in keyFile'
  BY <1>1, <1>5, <1>6
<1>9. keyFile' = None \/ (~up' /\ saving' # None) => \A k \in Keys : acked'[k] = "open"
  BY <1>1, <1>5, <1>6
<1>10. saving'.valid \subseteq keys' /\ saving'.gone \cap keys' = {}
  BY <1>1, <1>7
<1>. QED
  BY <1>4, <1>8, <1>9, <1>10

\* A file is truncated, and nothing can be read from it.
LEMMA TruncateKeys ==
  ASSUME KeysInv, Truncate
  PROVE  KeysInv'
<1>1. /\ saving # None /\ keyFile' = Torn /\ saving' = [saving EXCEPT !.step = "truncated"]
      /\ UNCHANGED <<up, keys, acked, lost, keyCalls, crashes>>
  BY DEF Truncate
<1>2. saving \in Call
  BY <1>1 DEF KeysInv, KeysTypeOK
<1>3. saving' \in Call /\ saving'.valid = saving.valid /\ saving'.gone = saving.gone
  BY <1>1, <1>2 DEF Call
<1>4. KeysTypeOK'
  BY <1>1, <1>3 DEF KeysInv, KeysTypeOK
<1>5. keyFile' # None
  BY <1>1, KeySentinelAssumption
<1>. QED
  BY <1>1, <1>3, <1>4, <1>5 DEF KeysInv

\* A call that is answered has its keys in memory and in the file.
LEMMA SaveKeys ==
  ASSUME KeysInv, SaveSucceeds
  PROVE  KeysInv'
<1>. USE DEF KeysInv
<1>1. /\ saving # None /\ keyFile' = keys /\ saving' = None /\ up' = TRUE
      /\ lost' = lost \ saving.valid /\ UNCHANGED <<keys, keyCalls, crashes>>
  BY DEF SaveSucceeds, Answer, Saved, KeysTypeOK
<1>2. acked' = [k \in Keys |->
                CASE ~TRUE -> acked[k]
                  [] TRUE /\ k \in saving.valid -> "in"
                  [] TRUE /\ k \in saving.gone -> "out"
                  [] OTHER -> acked[k]]
  BY DEF SaveSucceeds, Answer
<1>3. ASSUME NEW k \in Keys
      PROVE  \/ acked'[k] = "in" /\ k \in saving.valid
             \/ acked'[k] = "out" /\ k \in saving.gone
             \/ acked'[k] = acked[k]
  <2>1. CASE k \in saving.valid
    <3>1. k \notin saving.gone
      BY <1>1, <2>1
    <3>. QED
      BY <1>2, <2>1, <3>1
  <2>2. CASE k \in saving.gone
    <3>1. k \notin saving.valid
      BY <1>1, <2>2
    <3>. QED
      BY <1>2, <2>2, <3>1
  <2>3. CASE k \notin saving.valid /\ k \notin saving.gone
    BY <1>2, <2>3
  <2>. QED
    BY <2>1, <2>2, <2>3
<1>4. acked' \in [Keys -> Says]
  <2>1. \A k \in Keys : acked'[k] \in Says
    BY <1>3 DEF KeysTypeOK, Says
  <2>. QED
    BY <1>2, <2>1
<1>5. keyFile' # None
  BY <1>1, KeySentinelAssumption DEF KeysTypeOK
<1>6. KeysTypeOK'
  BY <1>1, <1>4 DEF KeysTypeOK
<1>7. \A k \in Keys : /\ acked'[k] = "in" /\ k \notin lost' => k \in keys
                      /\ acked'[k] = "out" => k \notin keys
  BY <1>1, <1>3
<1>. QED
  BY <1>1, <1>5, <1>6, <1>7

\* An error leaves the list as it was edited; one at the start ends the process.
LEMMA FailKeys ==
  ASSUME KeysInv, SaveFails
  PROVE  KeysInv'
<1>1. /\ saving # None /\ keyFile' = keyFile /\ saving' = None /\ up' = up
      /\ keys' = IF up THEN keys ELSE {}
      /\ UNCHANGED <<lost, keyCalls, crashes>>
  BY DEF SaveFails, Answer, KeysInv, KeysTypeOK
<1>2. acked' = acked
  <2>1. acked' = [k \in Keys |-> acked[k]]
    BY DEF SaveFails, Answer
  <2>. QED
    BY <2>1 DEF KeysInv, KeysTypeOK
<1>. QED
  BY <1>1, <1>2 DEF KeysInv, KeysTypeOK

\* A death leaves the file.
LEMMA CrashKeys ==
  ASSUME KeysInv, Crash
  PROVE  KeysInv'
<1>1. /\ crashes < MaxCrashes /\ crashes' = crashes + 1
      /\ ~up' /\ up' = FALSE /\ keys' = {} /\ saving' = None
      /\ UNCHANGED <<keyFile, acked, lost, keyCalls>>
  BY DEF Crash
<1>2. crashes' \in 0 .. MaxCrashes
  BY <1>1, KeyBoundsAssumption DEF KeysInv, KeysTypeOK
<1>. QED
  BY <1>1, <1>2 DEF KeysInv, KeysTypeOK

\* Every step of the keys keeps it.
LEMMA StepKeys ==
  ASSUME KeysInv, KeysNext \/ Crash \/ UNCHANGED keyVars
  PROVE  KeysInv'
<1>1. CASE CreateKey \/ DeleteKey
  <2>1. \E k \in Keys : Edit({k}, {}) \/ Edit({}, {k})
    BY <1>1 DEF CreateKey, DeleteKey, KeysInv, KeysTypeOK
  <2>. QED
    BY <2>1, EditKeys
<1>2. CASE UpdateKey
  <2>1. PICK k \in Keys, new \in Keys : Edit({new}, {k} \ {new})
    BY <1>2 DEF UpdateKey, KeysInv, KeysTypeOK
  <2>2. {new} \in SUBSET Keys /\ {k} \ {new} \in SUBSET Keys /\ {new} \cap ({k} \ {new}) = {}
    OBVIOUS
  <2>. QED
    BY <2>1, <2>2, EditKeys
<1>3. CASE UNCHANGED keyVars
  BY <1>3 DEF keyVars, KeysInv, KeysTypeOK
<1>. QED
  BY <1>1, <1>2, <1>3, StartKeys, TruncateKeys, SaveKeys, FailKeys, CrashKeys DEF KeysNext

\* What the keys promise about themselves.
LEMMA KeysHold == KeysInv => KeysHoldUnlessTorn
BY DEF KeysInv, KeysHoldUnlessTorn, IsValid

-----------------------------------------------------------------------------
(* Types.                                                                  *)

\* The start satisfies them.
LEMMA InitState == Init => StateInv
<1>. SUFFICES ASSUME Init PROVE StateInv
  OBVIOUS
<1>1. KeysInv
  BY InitKeys DEF Init
<1>2. file \in [Ids -> [quota : Quotas] \cup {None, Torn}]
  BY DEF Init
<1>3. writes \in 0 .. MaxWrites
  BY MaxWritesAssumption DEF Init
<1>4. active \in [Ids -> BOOLEAN \cup {None}]
  BY DEF Init
<1>5. /\ phase \in [Requests -> Phases]
      /\ cred \in [Requests -> Keys \cup DirectTokens \cup {None}]
      /\ model \in [Requests -> Models \cup {None}]
      /\ list \in [Requests -> SUBSET Summary]
      /\ name \in [Requests -> Models \cup {None}]
      /\ answer \in [Requests -> [account : Ids, model : Models] \cup {None}]
      /\ able \in [Requests -> SUBSET Ids]
      /\ virtual \in [Requests -> BOOLEAN]
      /\ held \in [Requests -> BOOLEAN]
      /\ skewed \in [Requests -> BOOLEAN]
  BY DEF Init, Phases
<1>6. NameInv
  BY DEF Init, NameInv, AtWork
<1>. QED
  BY <1>1, <1>2, <1>3, <1>4, <1>5, <1>6 DEF Init, StateInv, TypeOK, KeysInv

\* An account at a place of the listing is one.
LEMMA AccountType ==
  ASSUME NEW i \in DOMAIN Accounts
  PROVE  Accounts[i] \in Ids
BY DEF Ids, ToSet

\* Every account has its place.
LEMMA AccountPlace ==
  ASSUME NEW a \in Ids
  PROVE  \E i \in DOMAIN Accounts : Accounts[i] = a
BY DEF Ids, ToSet

\* Rules make a model of a model.
LEMMA RenamedType ==
  ASSUME NEW q \in Quotas, q # None, NEW m \in Models
  PROVE  Renamed(q, m) \in Models
<1>1. q.rules \in [Models -> Models \cup {None}]
  BY QuotasAssumption
<1>. QED
  BY <1>1 DEF Renamed

\* The changes of the account database.
StoreStep(a) == OpenFile(a) \/ FillFile(a) \/ Relist(a) \/ RemoveFile(a) \/ Unlist(a)

\* They keep the types, the keys and what requests ask for.
LEMMA StoreTypes ==
  ASSUME StateInv, NEW a \in Ids, StoreStep(a)
  PROVE  StateInv'
<1>. USE DEF StateInv, StoreStep
<1>1. UNCHANGED <<keyVars, requestVars, held>>
  BY DEF OpenFile, FillFile, Relist, RemoveFile, Unlist
<1>2. file' \in [Ids -> [quota : Quotas] \cup {None, Torn}]
  <2>1. \E f \in [quota : Quotas] \cup {None, Torn} : file' = [file EXCEPT ![a] = f] \/ file' = file
    BY DEF OpenFile, FillFile, Relist, RemoveFile, Unlist
  <2>. QED
    BY <2>1 DEF TypeOK
<1>3. active' \in [Ids -> BOOLEAN \cup {None}]
  <2>1. \E x \in BOOLEAN \cup {None} : active' = [active EXCEPT ![a] = x] \/ active' = active
    BY DEF OpenFile, FillFile, Relist, RemoveFile, Unlist, TypeOK
  <2>. QED
    BY <2>1 DEF TypeOK
<1>4. writes' \in 0 .. MaxWrites
  <2>1. writes' = writes \/ (writes < MaxWrites /\ writes' = writes + 1)
    BY DEF OpenFile, FillFile, Relist, RemoveFile, Unlist
  <2>2. writes \in 0 .. MaxWrites
    BY DEF TypeOK
  <2>. QED
    BY <2>1, <2>2, MaxWritesAssumption
<1>5. pen' \in Ids \cup {None}
  BY DEF OpenFile, FillFile, Relist, RemoveFile, Unlist, TypeOK
<1>6. able' \in [Requests -> SUBSET Ids]
  <2>1. able' = able \/ able' = [r \in Requests |-> able[r] \ {a}]
    BY DEF OpenFile, FillFile, Relist, RemoveFile, Unlist
  <2>. QED
    BY <2>1 DEF TypeOK
<1>7. KeysInv' /\ NameInv'
  BY <1>1, StepKeys DEF NameInv, requestVars
<1>. QED
  BY <1>1, <1>2, <1>3, <1>4, <1>5, <1>6, <1>7 DEF TypeOK, KeysInv, requestVars

\* A request that comes in, and one that is checked.
LEMMA EnterTypes ==
  ASSUME StateInv, NEW r \in Requests, Extract(r) \/ CheckKey(r) \/ RunOut(r)
  PROVE  StateInv'
<1>. USE DEF StateInv
<1>1. UNCHANGED <<keyVars, storeVars, list, answer, able, skewed>>
  BY DEF Extract, CheckKey, RunOut
<1>2. \E to \in {"list", "visit", "refused", "direct"} :
        /\ phase' = [phase EXCEPT ![r] = to]
        /\ \/ to = "list"
           \/ /\ to \notin AtWork \/ phase[r] \in AtWork
              /\ UNCHANGED <<model, name>>
  BY DEF Extract, CheckKey, RunOut, Go, AtWork
<1>3. phase' \in [Requests -> Phases]
  BY <1>2 DEF TypeOK, Phases
<1>4. /\ cred' \in [Requests -> Keys \cup DirectTokens \cup {None}]
      /\ held' \in [Requests -> BOOLEAN] /\ virtual' \in [Requests -> BOOLEAN]
  <2>. USE DEF TypeOK
  <2>1. CASE Extract(r)
    <3>1. PICK c \in Keys \cup DirectTokens : /\ cred' = [cred EXCEPT ![r] = c]
                                             /\ held' = [held EXCEPT ![r] = (c \in keys)]
      BY <2>1 DEF Extract, IsValid
    <3>2. cred' \in [Requests -> Keys \cup DirectTokens \cup {None}]
      BY <3>1
    <3>3. held' \in [Requests -> BOOLEAN]
      <4>1. (c \in keys) \in BOOLEAN
        OBVIOUS
      <4>. QED
        BY <3>1, <4>1, Zenon
    <3>4. virtual' = virtual
      BY <2>1 DEF Extract
    <3>. QED
      BY <3>2, <3>3, <3>4
  <2>2. CASE CheckKey(r)
    <3>1. cred' = cred /\ held' = held
      BY <2>2 DEF CheckKey
    <3>2. virtual' \in [Requests -> BOOLEAN]
      <4>1. (cred[r] \in keys) \in BOOLEAN
        OBVIOUS
      <4>2. virtual' = [virtual EXCEPT ![r] = (cred[r] \in keys)]
        BY <2>2 DEF CheckKey, IsValid
      <4>. QED
        BY <4>1, <4>2, Zenon
    <3>. QED
      BY <3>1, <3>2
  <2>3. CASE RunOut(r)
    BY <2>3 DEF RunOut
  <2>. QED
    BY <2>1, <2>2, <2>3
<1>5. /\ model' \in [Requests -> Models \cup {None}]
      /\ name' \in [Requests -> Models \cup {None}]
      /\ Extract(r) => model'[r] \in Models /\ name'[r] \in Models
      /\ \A q \in Requests \ {r} : model'[q] = model[q] /\ name'[q] = name[q]
  BY DEF Extract, CheckKey, RunOut, TypeOK
<1>6. KeysInv'
  BY <1>1, StepKeys
<1>7. NameInv'
  <2>1. CASE Extract(r)
    <3>1. \A q \in Requests \ {r} : phase'[q] = phase[q]
      BY <1>2 DEF TypeOK
    <3>. QED
      BY <1>5, <2>1, <3>1 DEF NameInv
  <2>2. CASE ~Extract(r)
    <3>1. UNCHANGED <<model, name>> /\ phase[r] \in AtWork
      BY <2>2 DEF CheckKey, RunOut, AtWork
    <3>2. \A q \in Requests : phase'[q] \in AtWork => phase[q] \in AtWork
      BY <1>2, <3>1 DEF TypeOK
    <3>. QED
      BY <3>1, <3>2 DEF NameInv
  <2>. QED
    BY <2>1, <2>2
<1>. QED
  BY <1>1, <1>3, <1>4, <1>5, <1>6, <1>7 DEF TypeOK, KeysInv, storeVars

\* A request takes its copy of the listing.
LEMMA ListTypes ==
  ASSUME StateInv, NEW r \in Requests, List(r)
  PROVE  StateInv'
<1>. USE DEF StateInv
<1>. DEFINE listed == {i \in DOMAIN Accounts : active[Accounts[i]] # None}
            L == {[at |-> i, active |-> active[Accounts[i]]] : i \in listed}
<1>1. /\ phase[r] = "list" /\ phase' = [phase EXCEPT ![r] = "check"]
      /\ list' = [list EXCEPT ![r] = L]
      /\ able' = [able EXCEPT ![r] =
                    {a \in Ids : active[a] # None /\ active[a] /\ CanServe(file[a], model[r])}]
      /\ UNCHANGED <<keyVars, storeVars, cred, model, virtual, name, answer, held, skewed>>
  BY DEF List, Go
<1>2. L \in SUBSET Summary
  <2>1. \A i \in listed : [at |-> i, active |-> active[Accounts[i]]] \in Summary
    BY AccountType DEF TypeOK, Summary
  <2>. QED
    BY <2>1
<1>. HIDE DEF L
<1>3. list' \in [Requests -> SUBSET Summary] /\ able' \in [Requests -> SUBSET Ids]
  BY <1>1, <1>2 DEF TypeOK
<1>4. phase' \in [Requests -> Phases]
  BY <1>1 DEF TypeOK, Phases
<1>5. KeysInv'
  BY <1>1, StepKeys
<1>6. NameInv'
  BY <1>1 DEF NameInv, TypeOK, AtWork
<1>. QED
  BY <1>1, <1>3, <1>4, <1>5, <1>6 DEF TypeOK, KeysInv, storeVars

\* What considering an account may do.
LEMMA ConsiderShape ==
  ASSUME StateInv, NEW r \in Requests, NEW s \in list[r], Consider(r, s)
  PROVE  /\ s \in Summary /\ Accounts[s.at] \in Ids
         /\ phase[r] = "visit" /\ model[r] \in Models /\ name[r] \in Models
         /\ file[Accounts[s.at]] \in [quota : Quotas]
         /\ file[Accounts[s.at]].quota \in Quotas /\ file[Accounts[s.at]].quota # None
         /\ UNCHANGED <<keyVars, storeVars, cred, model, virtual, held, able>>
         /\ \E m \in Models :
              /\ m = Renamed(file[Accounts[s.at]].quota, name[r])
              /\ name' = [name EXCEPT ![r] = m]
              /\ skewed' = [skewed EXCEPT ![r] =
                              @ \/ m # Renamed(file[Accounts[s.at]].quota, model[r])]
              /\ \/ /\ phase' = [phase EXCEPT ![r] = "routed"]
                    /\ answer' = [answer EXCEPT ![r] = [account |-> Accounts[s.at], model |-> m]]
                    /\ list' = [list EXCEPT ![r] = {}]
                 \/ /\ ~Serves(file[Accounts[s.at]].quota, m, virtual[r])
                    /\ list' = [list EXCEPT ![r] = list[r] \ {s}]
                    /\ UNCHANGED <<phase, answer>>
<1>. USE DEF StateInv
<1>1. s \in Summary /\ s.at \in DOMAIN Accounts
  BY DEF TypeOK, Summary
<1>2. Accounts[s.at] \in Ids
  BY <1>1, AccountType
<1>3. phase[r] = "visit" /\ model[r] \in Models /\ name[r] \in Models
  BY DEF Consider, Candidate, Turn, NameInv, AtWork
<1>4. /\ file[Accounts[s.at]] \in [quota : Quotas]
      /\ file[Accounts[s.at]].quota \in Quotas /\ file[Accounts[s.at]].quota # None
  BY <1>2 DEF Consider, Candidate, Readable, TypeOK
<1>5. Renamed(file[Accounts[s.at]].quota, name[r]) \in Models
  BY <1>3, <1>4, RenamedType
<1>6. UNCHANGED <<keyVars, storeVars, cred, model, virtual, held, able>>
  BY DEF Consider
<1>. QED
  BY <1>1, <1>2, <1>3, <1>4, <1>5, <1>6 DEF Consider, Go

\* A request goes on through its list.
LEMMA VisitTypes ==
  ASSUME StateInv, NEW r \in Requests, NEW s \in list[r], Pass(r, s) \/ Consider(r, s)
  PROVE  StateInv'
<1>. USE DEF StateInv
<1>1. CASE Pass(r, s)
  <2>1. /\ list' = [list EXCEPT ![r] = list[r] \ {s}]
        /\ UNCHANGED <<keyVars, storeVars, phase, cred, model, virtual, name, answer,
                       held, able, skewed>>
    BY <1>1 DEF Pass
  <2>2. list' \in [Requests -> SUBSET Summary]
    BY <2>1 DEF TypeOK
  <2>3. KeysInv' /\ NameInv'
    BY <2>1, StepKeys DEF NameInv
  <2>. QED
    BY <2>1, <2>2, <2>3 DEF TypeOK, KeysInv, storeVars
<1>2. CASE Consider(r, s)
  <2>1. UNCHANGED <<keyVars, storeVars, cred, model, virtual, held, able>> /\ Accounts[s.at] \in Ids
        /\ phase[r] = "visit" /\ model[r] \in Models
    BY <1>2, ConsiderShape
  <2>2. PICK m \in Models :
          /\ name' = [name EXCEPT ![r] = m]
          /\ skewed' = [skewed EXCEPT ![r] =
                          @ \/ m # Renamed(file[Accounts[s.at]].quota, model[r])]
          /\ \/ /\ phase' = [phase EXCEPT ![r] = "routed"]
                /\ answer' = [answer EXCEPT ![r] = [account |-> Accounts[s.at], model |-> m]]
                /\ list' = [list EXCEPT ![r] = {}]
             \/ /\ list' = [list EXCEPT ![r] = list[r] \ {s}]
                /\ UNCHANGED <<phase, answer>>
    BY <1>2, ConsiderShape
  <2>3. /\ phase' \in [Requests -> Phases] /\ list' \in [Requests -> SUBSET Summary]
        /\ answer' \in [Requests -> [account : Ids, model : Models] \cup {None}]
    BY <2>1, <2>2 DEF TypeOK, Phases
  <2>4. name' \in [Requests -> Models \cup {None}] /\ skewed' \in [Requests -> BOOLEAN]
    BY <2>2 DEF TypeOK
  <2>5. KeysInv'
    BY <2>1, StepKeys
  <2>6. NameInv'
    BY <2>1, <2>2 DEF NameInv, TypeOK, AtWork
  <2>. QED
    BY <2>1, <2>3, <2>4, <2>5, <2>6 DEF TypeOK, KeysInv, storeVars
<1>. QED
  BY <1>1, <1>2

\* A death ends the requests.
LEMMA DieTypes ==
  ASSUME StateInv, Die
  PROVE  StateInv'
<1>. USE DEF StateInv
<1>1. KeysInv'
  BY StepKeys DEF Die
<1>2. /\ phase' = [r \in Requests |-> IF phase[r] \in Ended THEN phase[r] ELSE "idle"]
      /\ pen' = None
      /\ UNCHANGED <<active, file, writes, answer>>
  BY DEF Die
<1>3. phase' \in [Requests -> Phases] /\ \A r \in Requests : phase'[r] \notin AtWork
  BY <1>2 DEF TypeOK, Phases, AtWork, Ended
<1>4. /\ list' \in [Requests -> SUBSET Summary] /\ able' \in [Requests -> SUBSET Ids]
      /\ held' \in [Requests -> BOOLEAN] /\ virtual' \in [Requests -> BOOLEAN]
      /\ skewed' \in [Requests -> BOOLEAN]
  BY DEF Die
<1>5. /\ cred' \in [Requests -> Keys \cup DirectTokens \cup {None}]
      /\ model' \in [Requests -> Models \cup {None}]
      /\ name' \in [Requests -> Models \cup {None}]
  BY DEF Die, TypeOK
<1>. QED
  BY <1>1, <1>2, <1>3, <1>4, <1>5 DEF TypeOK, KeysInv, NameInv

\* Every step keeps them.
LEMMA StepState == StateInv /\ [Next]_vars => StateInv'
<1>. SUFFICES ASSUME StateInv, [Next]_vars PROVE StateInv'
  OBVIOUS
<1>. USE DEF StateInv
<1>1. CASE ChangeKeys
  <2>1. KeysInv' /\ UNCHANGED <<storeVars, requestVars, able>>
    BY <1>1, StepKeys DEF ChangeKeys
  <2>2. held' \in [Requests -> BOOLEAN]
    BY <1>1 DEF ChangeKeys, TypeOK
  <2>3. NameInv'
    BY <2>1 DEF NameInv, requestVars
  <2>. QED
    BY <2>1, <2>2, <2>3 DEF TypeOK, KeysInv, storeVars, requestVars
<1>2. CASE UNCHANGED vars
  <2>1. KeysInv' /\ NameInv'
    BY <1>2, StepKeys DEF vars, NameInv, requestVars
  <2>. QED
    BY <1>2, <2>1 DEF vars, TypeOK, KeysInv, storeVars, requestVars
<1>. QED
  BY <1>1, <1>2, StoreTypes, EnterTypes, ListTypes, VisitTypes, DieTypes DEF Next, StoreStep

\* Keys, accounts and requests keep their types, however calls, changes and deaths
\* interleave with the requests.
THEOREM RoutingTypes == Spec => []TypeOK
<1>1. StateInv => TypeOK
  BY DEF StateInv
<1>. QED
  BY <1>1, InitState, StepState, PTL DEF Spec

\* Across failed saves, deaths and restarts, a deleted or replaced key is never accepted
\* again, and a created one is accepted as long as no start has found the file torn by a
\* later save; a key that was lost so stays lost, against README.md:78.
THEOREM KeysStayDecided == Spec => []KeysHoldUnlessTorn
<1>1. StateInv => KeysHoldUnlessTorn
  BY KeysHold DEF StateInv
<1>. QED
  BY <1>1, InitState, StepState, PTL DEF Spec

-----------------------------------------------------------------------------
(* Keys in place of tokens.                                                *)

\* What the store, the listing and the visits leave alone.
LEMMA HeldFrame ==
  ASSUME StateInv, HeldInv, UNCHANGED <<keys, cred, virtual, held>>,
         \A r \in Requests : phase'[r] = phase[r] \/ phase'[r] \in {"check", "routed"}
  PROVE  HeldInv'
BY DEF HeldInv

\* Every step keeps it: a call that takes a key away breaks what is held, and the second
\* check reads the keys.
LEMMA StepHeld ==
  ASSUME StateInv, HeldInv, [Next]_vars
  PROVE  HeldInv'
<1>. USE DEF StateInv
<1>1. ASSUME NEW a \in Ids, StoreStep(a) PROVE HeldInv'
  <2>1. UNCHANGED <<keyVars, requestVars, held>>
    BY <1>1 DEF StoreStep, OpenFile, FillFile, Relist, RemoveFile, Unlist
  <2>. QED
    BY <2>1, HeldFrame DEF keyVars, requestVars
<1>2. ASSUME NEW r \in Requests, Extract(r) PROVE HeldInv'
  <2>1. PICK c \in Keys \cup DirectTokens :
          cred' = [cred EXCEPT ![r] = c] /\ held' = [held EXCEPT ![r] = IsValid(c)]
    BY <1>2 DEF Extract
  <2>2. phase' = [phase EXCEPT ![r] = "list"] /\ UNCHANGED <<keys, virtual>>
    BY <1>2 DEF Extract, Go, keyVars
  <2>3. held'[r] = IsValid(c) /\ cred'[r] = c /\ phase'[r] = "list"
    BY <2>1, <2>2 DEF TypeOK
  <2>4. \A q \in Requests \ {r} :
          held'[q] = held[q] /\ cred'[q] = cred[q] /\ phase'[q] = phase[q]
    BY <2>1, <2>2 DEF TypeOK
  <2>. QED
    BY <2>2, <2>3, <2>4 DEF HeldInv, IsValid
<1>3. ASSUME NEW r \in Requests, List(r) PROVE HeldInv'
  <2>1. UNCHANGED <<keyVars, cred, virtual, held>> /\ phase' = [phase EXCEPT ![r] = "check"]
    BY <1>3 DEF List, Go
  <2>2. \A q \in Requests : phase'[q] = phase[q] \/ phase'[q] = "check"
    BY <2>1 DEF TypeOK
  <2>. QED
    BY <2>1, <2>2, HeldFrame DEF keyVars
<1>4. ASSUME NEW r \in Requests, CheckKey(r) PROVE HeldInv'
  <2>1. /\ virtual' = [virtual EXCEPT ![r] = IsValid(cred[r])]
        /\ phase' = [phase EXCEPT ![r] = "visit"] /\ UNCHANGED <<keys, cred, held>>
    BY <1>4 DEF CheckKey, Go, keyVars
  <2>2. virtual'[r] = IsValid(cred[r]) /\ phase'[r] = "visit"
    BY <2>1 DEF TypeOK
  <2>3. \A q \in Requests \ {r} : virtual'[q] = virtual[q] /\ phase'[q] = phase[q]
    BY <2>1 DEF TypeOK
  <2>. QED
    BY <2>1, <2>2, <2>3 DEF HeldInv, IsValid
<1>5. ASSUME NEW r \in Requests, RunOut(r) PROVE HeldInv'
  <2>1. /\ phase[r] = "visit" /\ phase' = [phase EXCEPT ![r] = IF virtual[r] THEN "refused" ELSE "direct"]
        /\ UNCHANGED <<keys, cred, virtual, held>>
    BY <1>5 DEF RunOut, Go, keyVars
  <2>2. phase'[r] = IF virtual[r] THEN "refused" ELSE "direct"
    BY <2>1 DEF TypeOK
  <2>3. \A q \in Requests \ {r} : phase'[q] = phase[q]
    BY <2>1 DEF TypeOK
  <2>. QED
    BY <2>1, <2>2, <2>3 DEF HeldInv
<1>6. ASSUME NEW r \in Requests, NEW s \in list[r], Pass(r, s) \/ Consider(r, s) PROVE HeldInv'
  <2>1. UNCHANGED <<keys, cred, virtual, held>>
    BY <1>6 DEF Pass, Consider, keyVars
  <2>2. phase' = phase \/ phase' = [phase EXCEPT ![r] = "routed"]
    BY <1>6 DEF Pass, Consider, Go
  <2>3. \A q \in Requests : phase'[q] = phase[q] \/ phase'[q] = "routed"
    BY <2>2 DEF TypeOK
  <2>. QED
    BY <2>1, <2>3, HeldFrame
<1>7. CASE Die
  <2>1. /\ phase' = [r \in Requests |-> IF phase[r] \in Ended THEN phase[r] ELSE "idle"]
        /\ held' = [r \in Requests |-> FALSE] /\ virtual' = [r \in Requests |-> FALSE]
    BY <1>7 DEF Die
  <2>. QED
    BY <2>1 DEF HeldInv
<1>8. CASE ChangeKeys
  <2>1. UNCHANGED requestVars /\ held' = [r \in Requests |-> held[r] /\ cred[r] \in keys']
    BY <1>8 DEF ChangeKeys
  <2>2. \A r \in Requests : held'[r] => held[r] /\ cred[r] \in keys'
    BY <2>1
  <2>. QED
    BY <2>1, <2>2 DEF HeldInv, requestVars
<1>9. CASE UNCHANGED vars
  BY <1>9, HeldFrame DEF vars, keyVars, requestVars
<1>. QED
  BY <1>1, <1>2, <1>3, <1>4, <1>5, <1>6, <1>7, <1>8, <1>9 DEF Next, StoreStep

\* A key that nobody took away while the request was between its two checks is never sent
\* to Google in place of a token.
THEOREM KeysAreNotTokens == Spec => []KeyNotUsedAsToken
<1>1. Init => HeldInv
  BY DEF Init, HeldInv
<1>2. StateInv /\ HeldInv /\ [Next]_vars => HeldInv'
  BY StepHeld
<1>3. HeldInv => KeyNotUsedAsToken
  BY DEF HeldInv, KeyNotUsedAsToken
<1>. QED
  BY <1>1, <1>2, <1>3, InitState, StepState, PTL DEF Spec

-----------------------------------------------------------------------------
(* Refusals.                                                               *)

\* A file that can serve can be read, and serves the name its rules make of the model.
LEMMA CanServeMeans ==
  ASSUME NEW f, NEW m, CanServe(f, m)
  PROVE  /\ f \notin {None, Torn} /\ f.quota # None
         /\ Serves(f.quota, Renamed(f.quota, m), TRUE)
BY DEF CanServe, Readable

\* Steps that change no request keep what is said of the accounts that stay able, as
\* long as their files stay.
LEMMA AbleFrame ==
  ASSUME AbleInv,
         UNCHANGED <<phase, model, list, virtual, skewed>>,
         \A r \in Requests : /\ able'[r] \subseteq able[r]
                             /\ \A a \in able'[r] : file'[a] = file[a]
  PROVE  \A r \in Requests : AbleAt(r)'
BY DEF AbleInv, AbleAt, Waiting

\* A file is rewritten only after it was truncated, which ends what was said of it.
LEMMA StoreAble ==
  ASSUME AbleInv, NEW a \in Ids, StoreStep(a)
  PROVE  AbleInv'
<1>. USE DEF AbleInv
<1>1. StateInv'
  BY StoreTypes
<1>2. UNCHANGED requestVars
  BY DEF StoreStep, OpenFile, FillFile, Relist, RemoveFile, Unlist
<1>. USE DEF StateInv
<1>3. CASE OpenFile(a) \/ RemoveFile(a)
  <2>1. able' = [r \in Requests |-> able[r] \ {a}]
    BY <1>3 DEF OpenFile, RemoveFile
  <2>2. \A b \in Ids \ {a} : file'[b] = file[b]
    BY <1>3 DEF OpenFile, RemoveFile, TypeOK
  <2>3. \A r \in Requests : /\ able'[r] \subseteq able[r]
                            /\ \A b \in able'[r] : file'[b] = file[b]
    BY <2>1, <2>2 DEF TypeOK
  <2>4. \A r \in Requests : AbleAt(r)'
    BY <1>2, <2>3, AbleFrame DEF requestVars
  <2>5. \A b \in Ids : pen' = b => file'[b] = Torn
    BY <1>3 DEF OpenFile, RemoveFile, TypeOK
  <2>. QED
    BY <1>1, <2>4, <2>5
<1>4. CASE FillFile(a)
  <2>1. pen = a /\ pen' = None /\ UNCHANGED able
    BY <1>4 DEF FillFile
  <2>2. \A b \in Ids \ {a} : file'[b] = file[b]
    BY <1>4 DEF FillFile, TypeOK
  <2>3. file[a] = Torn
    BY <2>1
  <2>4. \A r \in Requests : phase[r] \in {"check", "visit", "refused"} => a \notin able[r]
    BY <2>3, CanServeMeans DEF AbleAt
  <2>5. \A r \in Requests : AbleAt(r)'
    BY <1>2, <2>1, <2>2, <2>4 DEF AbleAt, Waiting, requestVars, TypeOK
  <2>6. \A b \in Ids : pen' # b
    BY <2>1, TokenAssumption
  <2>. QED
    BY <1>1, <2>5, <2>6
<1>5. CASE Relist(a) \/ Unlist(a)
  <2>1. UNCHANGED <<file, pen, able>>
    BY <1>5 DEF Relist, Unlist
  <2>2. \A r \in Requests : AbleAt(r)'
    BY <1>2, <2>1, AbleFrame DEF requestVars
  <2>. QED
    BY <1>1, <2>1, <2>2
<1>. QED
  BY <1>3, <1>4, <1>5 DEF StoreStep

\* The others are as they were.
LEMMA OthersAble ==
  ASSUME AbleInv, UNCHANGED file, NEW q \in Requests,
         phase'[q] = phase[q], model'[q] = model[q], list'[q] = list[q],
         virtual'[q] = virtual[q], skewed'[q] = skewed[q], able'[q] = able[q]
  PROVE  AbleAt(q)'
BY DEF AbleInv, AbleAt, Waiting

\* A request that comes in has no accounts listed; one that is checked keeps its list; one
\* that ran out of accounts had none waiting.
LEMMA EnterAble ==
  ASSUME AbleInv, NEW r \in Requests, Extract(r) \/ CheckKey(r) \/ RunOut(r)
  PROVE  AbleInv'
<1>1. StateInv'
  BY EnterTypes DEF AbleInv
<1>2. UNCHANGED <<file, pen, list, able, skewed>>
  BY DEF Extract, CheckKey, RunOut, storeVars
<1>3. ASSUME NEW q \in Requests \ {r} PROVE AbleAt(q)'
  <2>1. phase'[q] = phase[q] /\ model'[q] = model[q] /\ virtual'[q] = virtual[q]
    BY DEF Extract, CheckKey, RunOut, Go, AbleInv, StateInv, TypeOK
  <2>. QED
    BY <1>2, <2>1, OthersAble
<1>4. AbleAt(r)'
  <2>. USE DEF AbleInv, StateInv, TypeOK
  <2>1. CASE Extract(r)
    <3>1. phase'[r] = "list"
      BY <2>1 DEF Extract, Go
    <3>. QED
      BY <3>1 DEF AbleAt
  <2>2. CASE CheckKey(r)
    <3>1. phase[r] = "check" /\ phase'[r] = "visit" /\ UNCHANGED model
      BY <2>2 DEF CheckKey, Go
    <3>. QED
      BY <1>2, <3>1 DEF AbleAt, Waiting
  <2>3. CASE RunOut(r)
    <3>1. /\ phase[r] = "visit" /\ list[r] = {} /\ UNCHANGED <<model, virtual>>
          /\ phase'[r] = IF virtual[r] THEN "refused" ELSE "direct"
      BY <2>3 DEF RunOut, Go
    <3>2. CASE virtual[r]
      <4>1. skewed[r] \/ able[r] = {}
        BY <3>1, <3>2 DEF AbleAt, Waiting
      <4>. QED
        BY <1>2, <3>1, <3>2, <4>1 DEF AbleAt
    <3>3. CASE ~virtual[r]
      BY <3>1, <3>3 DEF AbleAt
    <3>. QED
      BY <3>2, <3>3
  <2>. QED
    BY <2>1, <2>2, <2>3
<1>. QED
  BY <1>1, <1>2, <1>3, <1>4 DEF AbleInv

\* The listing holds the accounts that can serve.
LEMMA ListAble ==
  ASSUME AbleInv, NEW r \in Requests, List(r)
  PROVE  AbleInv'
<1>1. StateInv'
  BY ListTypes DEF AbleInv
<1>. USE DEF AbleInv, StateInv, TypeOK
<1>2. UNCHANGED <<file, pen, model, virtual, skewed>>
  BY DEF List, storeVars
<1>3. /\ phase'[r] = "check"
      /\ list'[r] = {[at |-> i, active |-> active[Accounts[i]]]
                       : i \in {j \in DOMAIN Accounts : active[Accounts[j]] # None}}
      /\ able'[r] = {a \in Ids : active[a] # None /\ active[a] /\ CanServe(file[a], model[r])}
  BY DEF List, Go
<1>4. ASSUME NEW q \in Requests \ {r} PROVE AbleAt(q)'
  <2>1. phase'[q] = phase[q] /\ list'[q] = list[q] /\ able'[q] = able[q]
    BY DEF List, Go
  <2>. QED
    BY <1>2, <2>1, OthersAble
<1>5. ASSUME NEW a \in able'[r] PROVE Waiting(r, a)' /\ CanServe(file'[a], model'[r])
  <2>1. a \in Ids /\ active[a] # None /\ active[a] /\ CanServe(file[a], model[r])
    BY <1>3, <1>5
  <2>2. PICK i \in DOMAIN Accounts : Accounts[i] = a
    BY <2>1, AccountPlace
  <2>3. [at |-> i, active |-> active[a]] \in list'[r]
    BY <1>3, <2>1, <2>2
  <2>. QED
    BY <1>2, <2>1, <2>2, <2>3 DEF Waiting
<1>6. AbleAt(r)'
  BY <1>3, <1>5 DEF AbleAt
<1>. QED
  BY <1>1, <1>2, <1>4, <1>6

\* An account that could serve all the while is not passed over.
LEMMA PassAble ==
  ASSUME AbleInv, NEW r \in Requests, NEW s \in list[r], Pass(r, s)
  PROVE  AbleInv'
<1>1. StateInv'
  BY VisitTypes DEF AbleInv
<1>. USE DEF AbleInv, StateInv, TypeOK
<1>2. UNCHANGED <<file, pen, phase, model, virtual, able, skewed>>
  BY DEF Pass, storeVars
<1>3. phase[r] = "visit" /\ list'[r] = list[r] \ {s}
  BY DEF Pass, Turn
<1>4. ASSUME NEW q \in Requests \ {r} PROVE AbleAt(q)'
  <2>1. list'[q] = list[q]
    BY DEF Pass
  <2>. QED
    BY <1>2, <2>1, OthersAble
<1>5. ASSUME virtual[r], ~skewed[r], NEW a \in able[r] PROVE Waiting(r, a)'
  <2>1. CanServe(file[a], model[r]) /\ Waiting(r, a)
    BY <1>3, <1>5 DEF AbleAt
  <2>2. PICK u \in list[r] : Accounts[u.at] = a /\ u.active
    BY <2>1 DEF Waiting
  <2>3. file[a] \notin {None, Torn} /\ file[a].quota # None
    BY <2>1, CanServeMeans
  <2>4. u # s
    BY <1>5, <2>2, <2>3 DEF Pass, Readable
  <2>. QED
    BY <1>3, <2>2, <2>4 DEF Waiting
<1>6. AbleAt(r)'
  BY <1>2, <1>3, <1>5 DEF AbleAt
<1>. QED
  BY <1>1, <1>2, <1>4, <1>6

\* One that is considered is taken, unless the name was changed on the way.
LEMMA ConsiderAble ==
  ASSUME AbleInv, NEW r \in Requests, NEW s \in list[r], Consider(r, s)
  PROVE  AbleInv'
<1>1. StateInv'
  BY VisitTypes DEF AbleInv
<1>. USE DEF AbleInv, StateInv, TypeOK
<1>. DEFINE quota == file[Accounts[s.at]].quota
<1>2. UNCHANGED <<file, pen, model, virtual, able>> /\ phase[r] = "visit"
  BY ConsiderShape DEF storeVars
<1>3. PICK m \in Models :
        /\ skewed' = [skewed EXCEPT ![r] = @ \/ m # Renamed(quota, model[r])]
        /\ \/ /\ phase' = [phase EXCEPT ![r] = "routed"]
              /\ list' = [list EXCEPT ![r] = {}]
           \/ /\ ~Serves(quota, m, virtual[r])
              /\ list' = [list EXCEPT ![r] = list[r] \ {s}]
              /\ UNCHANGED phase
  BY ConsiderShape
<1>4. ASSUME NEW q \in Requests \ {r} PROVE AbleAt(q)'
  <2>1. phase'[q] = phase[q] /\ list'[q] = list[q] /\ skewed'[q] = skewed[q]
    BY <1>3
  <2>. QED
    BY <1>2, <2>1, OthersAble
<1>5. AbleAt(r)'
  <2>1. CASE phase'[r] = "routed"
    BY <2>1 DEF AbleAt
  <2>2. CASE phase'[r] # "routed"
    <3>1. /\ ~Serves(quota, m, virtual[r])
          /\ list'[r] = list[r] \ {s} /\ phase'[r] = "visit"
      BY <1>2, <1>3, <2>2
    <3>2. ~skewed'[r] => ~skewed[r] /\ m = Renamed(quota, model[r])
      <4>1. skewed'[r] = (skewed[r] \/ m # Renamed(quota, model[r]))
        BY <1>3
      <4>. QED
        BY <4>1
    <3>3. ASSUME virtual[r], ~skewed'[r], NEW a \in able[r] PROVE Waiting(r, a)'
      <4>1. CanServe(file[a], model[r]) /\ Waiting(r, a)
        BY <1>2, <3>2, <3>3 DEF AbleAt
      <4>2. PICK u \in list[r] : Accounts[u.at] = a /\ u.active
        BY <4>1 DEF Waiting
      <4>3. Serves(file[a].quota, Renamed(file[a].quota, model[r]), TRUE)
        BY <4>1, CanServeMeans
      <4>4. u # s
        BY <3>1, <3>2, <3>3, <4>2, <4>3 DEF Serves
      <4>. QED
        BY <3>1, <4>2, <4>4 DEF Waiting
    <3>4. \A a \in able[r] : CanServe(file[a], model[r])
      BY <1>2 DEF AbleAt
    <3>. QED
      BY <1>2, <3>1, <3>3, <3>4 DEF AbleAt
  <2>. QED
    BY <2>1, <2>2
<1>. QED
  BY <1>1, <1>2, <1>4, <1>5

\* A death forgets what could have been served.
LEMMA DieAble ==
  ASSUME AbleInv, Die
  PROVE  AbleInv'
<1>1. StateInv'
  BY DieTypes DEF AbleInv
<1>2. /\ phase' = [r \in Requests |-> IF phase[r] \in Ended THEN phase[r] ELSE "idle"]
      /\ able' = [r \in Requests |-> {}] /\ pen' = None
  BY DEF Die
<1>3. \A r \in Requests : phase'[r] \notin {"check", "visit"} /\ able'[r] = {}
  BY <1>2 DEF Ended
<1>4. \A r \in Requests : AbleAt(r)'
  BY <1>3 DEF AbleAt
<1>. QED
  BY <1>1, <1>2, <1>4, TokenAssumption DEF AbleInv

\* Every step keeps it.
LEMMA StepAble == AbleInv /\ [Next]_vars => AbleInv'
<1>. SUFFICES ASSUME AbleInv, [Next]_vars PROVE AbleInv'
  OBVIOUS
<1>1. CASE ChangeKeys \/ UNCHANGED vars
  <2>1. UNCHANGED <<storeVars, requestVars, able>>
    BY <1>1 DEF ChangeKeys, vars
  <2>2. StateInv'
    BY StepState, <1>1 DEF AbleInv, Next
  <2>3. \A r \in Requests : AbleAt(r)'
    BY <2>1, AbleFrame DEF storeVars, requestVars
  <2>. QED
    BY <2>1, <2>2, <2>3 DEF AbleInv, storeVars
<1>. QED
  BY <1>1, StoreAble, EnterAble, ListAble, PassAble, ConsiderAble, DieAble DEF Next, StoreStep

\* A request with a key is refused only when every account that could have served it was
\* gone, unreadable or used up at some moment since the listing was taken: no interleaving
\* of quota updates, bans, removals and other requests makes it overlook one, as long as
\* the rules of the accounts before it agree on the name.
THEOREM RefusalsAreRight == Spec => []RefusedOnlyWhenExhausted
<1>1. Init => AbleInv
  <2>. SUFFICES ASSUME Init PROVE AbleInv
    OBVIOUS
  <2>1. \A r \in Requests : phase[r] = "idle"
    BY DEF Init
  <2>2. \A r \in Requests : AbleAt(r)
    BY <2>1 DEF AbleAt
  <2>. QED
    BY <2>2, InitState, TokenAssumption DEF Init, AbleInv
<1>2. AbleInv => RefusedOnlyWhenExhausted
  BY DEF AbleInv, AbleAt, RefusedOnlyWhenExhausted
<1>. QED
  BY <1>1, <1>2, StepAble, PTL DEF Spec

=============================================================================
