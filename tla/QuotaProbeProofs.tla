-------------------------- MODULE QuotaProbeProofs --------------------------
(***************************************************************************)
(* Proofs about QuotaProbe, for every set of accounts, quota data and      *)
(* tasks, every room of the event channel and every number of starts.      *)
(***************************************************************************)
EXTENDS QuotaProbe, TLAPS

-----------------------------------------------------------------------------
(* The inductive invariants.                                               *)

\* A task at work has an account; a call that has read holds a record; a task that is
\* unhindered is the only one at its account.
TaskInv ==
  \A t \in Tasks :
    /\ pc[t] # "idle" => target[t] \in Accounts
    /\ pc[t] \notin Calls => step[t] = "read"
    /\ pc[t] \in Calls \ {"remove"} /\ step[t] # "read" => snap[t] \in Record
    /\ unhindered[t] => pc[t] # "idle" /\ Busy(target[t]) = {t}

StateInv == TypeOK /\ TaskInv

\* The ban is in the file of account a and in its summary, where they can be read.
Settled(a) ==
  Readable(a) =>
    /\ file[a].status = "Forbidden" /\ file[a].disabled
    /\ listing[a] # None => listing[a] = Summarised(file[a])

\* A task that is unhindered works on the record as it is; a probe that was told of a ban
\* has it settled once the call that writes it is through.
BanOf(t) ==
  unhindered[t] =>
    /\ pc[t] \in Calls \ {"remove"} /\ step[t] # "read" => snap[t] = file[target[t]]
    /\ banned[t] =>
         /\ pc[t] \in {"disable", "ban", "project", "fetch", "forbid", "quota", "done", "failed"}
         /\ pc[t] \in {"project", "fetch", "quota", "done", "failed"} => Settled(target[t])
         /\ pc[t] \in {"ban", "forbid"} /\ step[t] = "list" =>
              snap[t].status = "Forbidden" /\ snap[t].disabled

BanInv == StateInv /\ \A t \in Tasks : BanOf(t)

\* Something is on its way that makes the page ask again, or it is known that nothing is:
\* a task is at a change it has not announced, an event waits, or one was lost or left out.
Pending ==
  \/ \E t \in Tasks : changed[t]
  \/ unread > 0
  \/ missed
  \/ silent

\* A task that has set about writing says so until its event is sent.
ChangeInv ==
  \A t \in Tasks :
    /\ pc[t] \in Calls /\ step[t] # "read" => changed[t]
    /\ pc[t] \in {"idle", "done"} => ~changed[t]

\* What the newest load has read is as it is now, or something is pending; and what it has
\* not read it will, unless it failed.
LoadInv ==
  /\ newest # None => seen # None /\ answer[newest] = seen
  /\ seen # None =>
       \A a \in Accounts :
         IF seen[a] \in {Todo, Listed}
         THEN /\ newest # None \/ missed
              /\ seen[a] = Listed => listing[a] # None \/ Pending
         ELSE seen[a] = Shown[a] \/ Pending

NewsInv == StateInv /\ ChangeInv /\ LoadInv

-----------------------------------------------------------------------------
(* Types.                                                                  *)

\* The start satisfies them.
LEMMA InitState == Init => StateInv
<1>. SUFFICES ASSUME Init PROVE StateInv
  OBVIOUS
<1>1. file \in [Accounts -> Record] /\ listing = [a \in Accounts |-> Summarised(file[a])]
  BY DEF Init
<1>2. \A a \in Accounts : Summarised(file[a]) \in Summary
  BY <1>1 DEF Summarised, Record, Summary
<1>3. listing \in [Accounts -> Summary \cup {None}] /\ file \in [Accounts -> Record \cup {None, Torn}]
  BY <1>1, <1>2
<1>4. /\ answer \in [Loads -> PartView \cup {None}] /\ view \in View
      /\ newest \in Loads \cup {None} /\ seen \in PartView \cup {None}
  BY DEF Init, View
<1>5. /\ pc \in [Tasks -> PCs] /\ target \in [Tasks -> Accounts \cup {None}]
      /\ step \in [Tasks -> {"read", "write", "list"}]
      /\ snap \in [Tasks -> Record \cup {None}]
      /\ found \in [Tasks -> BOOLEAN] /\ banned \in [Tasks -> BOOLEAN]
      /\ unhindered \in [Tasks -> BOOLEAN] /\ changed \in [Tasks -> BOOLEAN]
  BY DEF Init, PCs
<1>6. unread \in 0 .. Capacity + 1 /\ starts \in 0 .. MaxStarts
  BY BoundsAssumption DEF Init
<1>7. connected \in BOOLEAN /\ missed \in BOOLEAN /\ silent \in BOOLEAN
  BY DEF Init
<1>8. TypeOK
  BY <1>3, <1>4, <1>5, <1>6, <1>7 DEF TypeOK
<1>. QED
  BY <1>8 DEF Init, StateInv, TaskInv, Calls, ProbeCalls, ByHand

\* An edit makes a record of a record.
LEMMA EditedType ==
  ASSUME NEW kind, NEW r \in Record, NEW e \in Edited(kind, r)
  PROVE  e \in Record
<1>1. CASE kind = "quota"
  BY <1>1 DEF Edited, Record
<1>2. CASE kind = "recover" /\ r.status = "Forbidden"
  BY <1>2 DEF Edited, Record, Status
<1>3. CASE kind = "switch_on"
  BY <1>3 DEF Edited, Record, Status
<1>4. CASE kind \in {"disable", "switch_off"}
  BY <1>4 DEF Edited, Record
<1>5. CASE kind \in {"ban", "forbid"}
  BY <1>5 DEF Edited, Record, Status
<1>6. CASE kind \notin {"quota", "switch_on", "disable", "switch_off", "ban", "forbid"}
           /\ ~(kind = "recover" /\ r.status = "Forbidden")
  BY <1>6 DEF Edited
<1>. QED
  BY <1>1, <1>2, <1>3, <1>4, <1>5, <1>6

\* An event keeps the types of what it touches.
LEMMA SendTypes ==
  ASSUME TypeOK, NEW t \in Tasks, Send(t)
  PROVE  /\ unread' \in 0 .. Capacity + 1
         /\ missed' \in BOOLEAN
         /\ changed' = [changed EXCEPT ![t] = FALSE]
         /\ UNCHANGED <<silent, pageVars>>
BY BoundsAssumption DEF TypeOK, Send

\* Whatever a call returns, its task goes on to another stage, and the events keep their
\* types.
LEMMA ReturnTypes ==
  ASSUME StateInv, NEW t \in Tasks, pc[t] \in Calls, NEW ok \in BOOLEAN, Return(t, ok)
  PROVE  /\ \E to \in PCs \ {"idle"} : pc' = [pc EXCEPT ![t] = to]
         /\ step' = [step EXCEPT ![t] = "read"]
         /\ snap' = [snap EXCEPT ![t] = None]
         /\ unread' \in 0 .. Capacity + 1 /\ missed' \in BOOLEAN
         /\ changed' \in {changed, [changed EXCEPT ![t] = FALSE]}
         /\ UNCHANGED <<silent, pageVars>>
<1>1. After(pc[t], ok) \in PCs \ {"idle"}
  BY DEF After, PCs, Calls, ProbeCalls
<1>2. pc' = [pc EXCEPT ![t] = After(pc[t], ok)]
  BY DEF Return, Go
<1>3. /\ unread' \in 0 .. Capacity + 1 /\ missed' \in BOOLEAN
      /\ changed' \in {changed, [changed EXCEPT ![t] = FALSE]}
      /\ UNCHANGED <<silent, pageVars>>
  <2>1. CASE Send(t)
    BY <2>1, SendTypes DEF StateInv
  <2>2. CASE Quiet
    BY <2>2 DEF Quiet, eventVars, StateInv, TypeOK
  <2>. QED
    BY <2>1, <2>2 DEF Return
<1>. QED
  BY <1>1, <1>2, <1>3 DEF Return

\* The steps of a task at work.
Work(t) ==
  \/ Read(t) \/ ReadFails(t) \/ Write(t) \/ WriteFails(t) \/ List(t)
  \/ Resolve(t) \/ ProbeFails(t) \/ Find(t) \/ Load(t) \/ Fetch(t)

\* A task at work stays at work, on the same account, and nobody comes or goes.
LEMMA WorkStays ==
  ASSUME StateInv, NEW t \in Tasks, Work(t)
  PROVE  /\ pc[t] # "idle" /\ target[t] \in Accounts
         /\ \E to \in PCs \ {"idle"} : pc' = [pc EXCEPT ![t] = to]
         /\ unhindered' \in {unhindered, [unhindered EXCEPT ![t] = FALSE]}
         /\ UNCHANGED <<target, starts, pageVars, silent>>
         /\ \A a : Busy(a)' = Busy(a)
<1>1. pc[t] # "idle" /\ target[t] \in Accounts
  BY DEF Work, Read, ReadFails, Write, WriteFails, List, Resolve, ProbeFails, Find, Load, Fetch,
         StateInv, TaskInv, Calls, ProbeCalls, ByHand
<1>2. /\ \E to \in PCs \ {"idle"} : pc' = [pc EXCEPT ![t] = to]
      /\ UNCHANGED <<pageVars, silent>>
  <2>1. CASE Read(t)
    BY <2>1, <1>1 DEF Read, StateInv, TypeOK
  <2>2. CASE ReadFails(t) \/ WriteFails(t) \/ List(t)
    <3>1. pc[t] \in Calls /\ \E ok \in BOOLEAN : Return(t, ok)
      BY <2>2 DEF ReadFails, WriteFails, List
    <3>. QED
      BY <3>1, ReturnTypes
  <2>3. CASE Write(t)
    <3>1. CASE pc[t] \in FileOnly
      BY <2>3, <3>1, ReturnTypes DEF Write
    <3>2. CASE pc[t] \notin FileOnly
      <4>1. pc' = pc /\ UNCHANGED <<pageVars, silent>>
        BY <2>3, <3>2 DEF Write, Quiet, eventVars
      <4>. QED
        BY <1>1, <4>1 DEF StateInv, TypeOK
    <3>. QED
      BY <3>1, <3>2
  <2>4. CASE Resolve(t) \/ ProbeFails(t) \/ Find(t)
    BY <2>4 DEF Resolve, ProbeFails, Find, Go, PCs, Calls, ProbeCalls, Quiet, eventVars
  <2>5. CASE Load(t) \/ Fetch(t)
    BY <2>5 DEF Load, Fetch, Go, PCs, Calls, ProbeCalls, Quiet, eventVars
  <2>. QED
    BY <2>1, <2>2, <2>3, <2>4, <2>5 DEF Work
<1>3. /\ UNCHANGED <<target, starts>>
      /\ unhindered' \in {unhindered, [unhindered EXCEPT ![t] = FALSE]}
  BY DEF Work, Read, ReadFails, Write, WriteFails, List, Resolve, ProbeFails, Find, Load, Fetch
<1>4. \A u \in Tasks : (pc'[u] # "idle") <=> (pc[u] # "idle")
  BY <1>1, <1>2 DEF StateInv, TypeOK
<1>. QED
  BY <1>1, <1>2, <1>3, <1>4 DEF Busy

\* What a call reads is a record, or nothing where there is nothing to remove.
LEMMA ReadTypes ==
  ASSUME StateInv, NEW t \in Tasks, Read(t)
  PROVE  StateInv'
<1>. USE DEF StateInv
<1>1. /\ pc[t] \in Calls /\ target[t] \in Accounts
      /\ step' = [step EXCEPT ![t] = "write"]
      /\ changed' = [changed EXCEPT ![t] = TRUE]
      /\ UNCHANGED <<storeVars, pc, target, found, starts, banned, unhindered,
                     unread, missed, silent, pageVars>>
  BY WorkStays DEF Work, Read
<1>2. PICK r \in Record \cup {None} :
        /\ snap' = [snap EXCEPT ![t] = r]
        /\ pc[t] # "remove" => r \in Record
  <2>1. file[target[t]] \in Record \cup {None, Torn}
    BY <1>1 DEF TypeOK
  <2>. QED
    BY <2>1 DEF Read, Readable
<1>3. snap' \in [Tasks -> Record \cup {None}]
  BY <1>2 DEF TypeOK
<1>4. TypeOK'
  BY <1>1, <1>3 DEF TypeOK, storeVars, pageVars
<1>5. \A a : Busy(a)' = Busy(a)
  BY <1>1 DEF Busy
<1>6. TaskInv'
  BY <1>1, <1>2, <1>5 DEF TaskInv, TypeOK
<1>. QED
  BY <1>4, <1>6

\* A call that returns keeps them, whatever it has written to the file.
LEMMA ReturnKeepsState ==
  ASSUME StateInv, NEW t \in Tasks, NEW ok \in BOOLEAN, Return(t, ok), Work(t),
         pc[t] \in Calls,
         file' \in [Accounts -> Record \cup {None, Torn}],
         listing' \in [Accounts -> Summary \cup {None}],
         UNCHANGED <<target, found, starts, banned>>
  PROVE  StateInv'
<1>. USE DEF StateInv
<1>1. /\ \E to \in PCs \ {"idle"} : pc' = [pc EXCEPT ![t] = to]
      /\ step' = [step EXCEPT ![t] = "read"]
      /\ snap' = [snap EXCEPT ![t] = None]
      /\ unread' \in 0 .. Capacity + 1 /\ missed' \in BOOLEAN
      /\ changed' \in {changed, [changed EXCEPT ![t] = FALSE]}
      /\ UNCHANGED <<silent, pageVars>>
  BY ReturnTypes
<1>2. unhindered' \in [Tasks -> BOOLEAN] /\ \A u \in Tasks : unhindered'[u] => unhindered[u]
  BY WorkStays DEF TypeOK
<1>3. TypeOK'
  <2>1. pc' \in [Tasks -> PCs] /\ step' \in [Tasks -> {"read", "write", "list"}]
    BY <1>1 DEF TypeOK
  <2>2. snap' \in [Tasks -> Record \cup {None}] /\ changed' \in [Tasks -> BOOLEAN]
    BY <1>1 DEF TypeOK
  <2>3. starts' \in 0 .. MaxStarts /\ UNCHANGED <<connected, answer, view, newest, seen>>
    BY <1>1 DEF TypeOK, pageVars
  <2>. QED
    BY <1>1, <1>2, <2>1, <2>2, <2>3 DEF TypeOK
<1>4. TaskInv'
  <2>1. pc[t] # "idle" /\ target[t] \in Accounts /\ \A a : Busy(a)' = Busy(a)
    BY WorkStays
  <2>2. pc'[t] # "idle" /\ step'[t] = "read"
    BY <1>1 DEF TypeOK
  <2>3. \A u \in Tasks \ {t} : pc'[u] = pc[u] /\ step'[u] = step[u] /\ snap'[u] = snap[u]
    BY <1>1 DEF TypeOK
  <2>. QED
    BY <1>2, <2>1, <2>2, <2>3 DEF TaskInv
<1>. QED
  BY <1>3, <1>4

\* A file is written with a record, or goes.
LEMMA WriteTypes ==
  ASSUME StateInv, NEW t \in Tasks, Write(t)
  PROVE  StateInv'
<1>. USE DEF StateInv
<1>1. /\ pc[t] \in Calls /\ pc[t] # "idle" /\ target[t] \in Accounts /\ step[t] = "write"
      /\ UNCHANGED <<listing, target, found, starts, banned, unhindered>>
  BY WorkStays DEF Work, Write
<1>2. PICK e \in Record \cup {None} :
        /\ file' = [file EXCEPT ![target[t]] = e]
        /\ pc[t] # "remove" => e \in Record
  <2>1. CASE pc[t] = "remove"
    BY <2>1 DEF Write
  <2>2. CASE pc[t] # "remove"
    <3>1. snap[t] \in Record
      BY <1>1, <2>2 DEF TaskInv, TypeOK
    <3>2. PICK e \in Edited(pc[t], snap[t]) : file' = [file EXCEPT ![target[t]] = e]
      BY <2>2 DEF Write
    <3>3. e \in Record
      BY <3>1, <3>2, EditedType
    <3>. QED
      BY <3>2, <3>3
  <2>. QED
    BY <2>1, <2>2
<1>3. file' \in [Accounts -> Record \cup {None, Torn}] /\ file'[target[t]] = e
  BY <1>1, <1>2 DEF TypeOK
<1>4. CASE pc[t] \in FileOnly
  BY <1>1, <1>3, <1>4, ReturnKeepsState DEF Work, Write, TypeOK
<1>5. CASE pc[t] \notin FileOnly
  <2>1. /\ step' = [step EXCEPT ![t] = "list"]
        /\ snap' = [snap EXCEPT ![t] = e]
        /\ pc' = pc /\ UNCHANGED <<eventVars, pageVars>>
    BY <1>3, <1>5 DEF Write, Quiet
  <2>2. TypeOK'
    BY <1>1, <1>3, <2>1 DEF TypeOK, eventVars, pageVars
  <2>3. \A a : Busy(a)' = Busy(a)
    BY <1>1, <2>1 DEF Busy
  <2>4. TaskInv'
    BY <1>1, <1>2, <2>1, <2>3 DEF TaskInv, TypeOK
  <2>. QED
    BY <2>2, <2>4
<1>. QED
  BY <1>4, <1>5

\* A write that fails leaves the file as it was or torn.
LEMMA WriteFailsTypes ==
  ASSUME StateInv, NEW t \in Tasks, WriteFails(t)
  PROVE  StateInv'
<1>1. file' \in [Accounts -> Record \cup {None, Torn}]
  BY DEF WriteFails, StateInv, TypeOK
<1>2. /\ pc[t] \in Calls /\ Return(t, FALSE) /\ Work(t)
      /\ listing' \in [Accounts -> Summary \cup {None}]
      /\ UNCHANGED <<target, found, starts, banned>>
  BY DEF WriteFails, StateInv, TypeOK, Work
<1>. QED
  BY <1>1, <1>2, ReturnKeepsState

\* The listing gets a summary of what the call has written, or loses one.
LEMMA ListTypes ==
  ASSUME StateInv, NEW t \in Tasks, List(t)
  PROVE  StateInv'
<1>. USE DEF StateInv
<1>1. /\ pc[t] \in Calls /\ step[t] = "list" /\ target[t] \in Accounts
      /\ \E ok \in BOOLEAN : Return(t, ok)
      /\ UNCHANGED <<file, target, found, starts, banned, unhindered>>
  BY WorkStays DEF Work, List
<1>2. PICK s \in Summary \cup {None} : listing' = [listing EXCEPT ![target[t]] = s]
  <2>1. CASE pc[t] = "remove"
    BY <2>1 DEF List
  <2>2. CASE pc[t] # "remove"
    <3>1. snap[t] \in Record
      BY <1>1, <2>2 DEF TaskInv
    <3>2. Summarised(snap[t]) \in Summary
      BY <3>1 DEF Summarised, Record, Summary
    <3>. QED
      BY <3>2 DEF List
  <2>. QED
    BY <2>1, <2>2
<1>3. listing' \in [Accounts -> Summary \cup {None}]
      /\ file' \in [Accounts -> Record \cup {None, Torn}]
  BY <1>1, <1>2 DEF TypeOK
<1>. QED
  BY <1>1, <1>3, ReturnKeepsState DEF Work

\* The steps of a probe between its calls of the account database.
Deciding(t) == Resolve(t) \/ ProbeFails(t) \/ Find(t) \/ Load(t) \/ Fetch(t)

\* They keep them.
LEMMA ProbeTypes ==
  ASSUME StateInv, NEW t \in Tasks, Deciding(t)
  PROVE  StateInv'
<1>. USE DEF StateInv
<1>1. /\ pc[t] # "idle" /\ target[t] \in Accounts
      /\ \E to \in PCs \ {"idle"} : pc' = [pc EXCEPT ![t] = to]
      /\ UNCHANGED <<target, starts>>
      /\ \A a : Busy(a)' = Busy(a)
  BY WorkStays DEF Work, Deciding
<1>2. /\ pc[t] \notin Calls
      /\ UNCHANGED <<file, listing, step, snap, unhindered, eventVars, pageVars>>
  BY DEF Deciding, Resolve, ProbeFails, Find, Load, Fetch, storeVars, Quiet,
         Calls, ProbeCalls, ByHand
<1>3. found' \in [Tasks -> BOOLEAN] /\ banned' \in [Tasks -> BOOLEAN]
  BY DEF Deciding, Resolve, ProbeFails, Find, Load, Fetch, TypeOK
<1>4. TypeOK'
  <2>1. pc' \in [Tasks -> PCs] /\ target' \in [Tasks -> Accounts \cup {None}]
        /\ starts' \in 0 .. MaxStarts
    BY <1>1 DEF TypeOK
  <2>2. UNCHANGED <<changed, unread, missed, silent, connected, answer, view, newest, seen>>
    BY <1>2 DEF eventVars, pageVars
  <2>. QED
    BY <1>2, <1>3, <2>1, <2>2 DEF TypeOK
<1>5. TaskInv'
  <2>1. pc'[t] # "idle" /\ step'[t] = "read"
    BY <1>1, <1>2 DEF TypeOK, TaskInv
  <2>2. \A u \in Tasks \ {t} : pc'[u] = pc[u]
    BY <1>1 DEF TypeOK
  <2>. QED
    BY <1>1, <1>2, <2>1, <2>2 DEF TaskInv
<1>. QED
  BY <1>4, <1>5

\* A task that starts is unhindered exactly when nobody is at its account, and ends the
\* solitude of whoever is.
LEMMA StartTypes ==
  ASSUME StateInv, NEW t \in Tasks, NEW a \in Accounts, NEW at \in {"resolve"} \cup ByHand,
         Free(t), Start(t, a, at)
  PROVE  StateInv'
<1>. USE DEF StateInv
<1>1. /\ pc' = [pc EXCEPT ![t] = at] /\ target' = [target EXCEPT ![t] = a]
      /\ step' = [step EXCEPT ![t] = "read"]
      /\ found' = [found EXCEPT ![t] = FALSE] /\ banned' = [banned EXCEPT ![t] = FALSE]
      /\ starts' = starts + 1
      /\ UNCHANGED <<file, listing, snap, eventVars, pageVars>>
  BY DEF Start, storeVars, Quiet
<1>2. unhindered' = [u \in Tasks |-> IF u = t THEN Busy(a) = {} ELSE unhindered[u] /\ ~(u \in Busy(a))]
  BY DEF Start
<1>3. at \in PCs \ {"idle"} /\ pc[t] = "idle" /\ starts < MaxStarts
  BY DEF PCs, Calls, ByHand, Free
<1>4. starts' \in 0 .. MaxStarts
  BY <1>1, <1>3, BoundsAssumption DEF TypeOK
<1>5. unhindered' \in [Tasks -> BOOLEAN]
  <2>1. \A u \in Tasks : unhindered[u] \in BOOLEAN
    BY DEF TypeOK
  <2>. QED
    BY <1>2, <2>1
<1>6. TypeOK'
  BY <1>1, <1>3, <1>4, <1>5 DEF TypeOK, eventVars, pageVars
<1>7. /\ t \notin Busy(a)
      /\ Busy(a)' = Busy(a) \cup {t}
      /\ \A b \in Accounts : b # a => Busy(b)' = Busy(b)
  BY <1>1, <1>3 DEF Busy, TypeOK
<1>8. TaskInv'
  <2>1. /\ pc'[t] # "idle" /\ target'[t] = a /\ step'[t] = "read"
        /\ unhindered'[t] => Busy(a)' = {t}
    BY <1>1, <1>2, <1>3, <1>7 DEF TypeOK
  <2>2. ASSUME NEW u \in Tasks, u # t
        PROVE  /\ pc'[u] = pc[u] /\ target'[u] = target[u] /\ step'[u] = step[u]
               /\ unhindered'[u] => /\ unhindered[u]
                              /\ target[u] # a
    <3>1. pc'[u] = pc[u] /\ target'[u] = target[u] /\ step'[u] = step[u]
      BY <1>1, <2>2 DEF TypeOK
    <3>2. unhindered'[u] => unhindered[u] /\ u \notin Busy(a)
      BY <1>2, <2>2
    <3>3. unhindered[u] => pc[u] # "idle"
      BY DEF TaskInv
    <3>. QED
      BY <3>1, <3>2, <3>3 DEF Busy
  <2>. QED
    BY <1>1, <1>7, <2>1, <2>2 DEF TaskInv
<1>. QED
  BY <1>6, <1>8

\* A task that ends leaves its account to the others.
LEMMA EndTypes ==
  ASSUME StateInv, NEW t \in Tasks, End(t)
  PROVE  StateInv'
<1>. USE DEF StateInv
<1>1. /\ pc[t] \in {"done", "failed"} /\ pc' = [pc EXCEPT ![t] = "idle"]
      /\ target' = [target EXCEPT ![t] = None]
      /\ found' = [found EXCEPT ![t] = FALSE] /\ banned' = [banned EXCEPT ![t] = FALSE]
      /\ unhindered' = [unhindered EXCEPT ![t] = FALSE]
      /\ changed' = [changed EXCEPT ![t] = FALSE]
      /\ silent' = (silent \/ (pc[t] = "failed" /\ changed[t]))
      /\ UNCHANGED <<file, listing, step, snap, starts, unread, missed, pageVars>>
  BY DEF End, Go, storeVars
<1>2. TypeOK'
  BY <1>1 DEF TypeOK, PCs, pageVars
<1>3. TaskInv'
  <2>1. pc'[t] = "idle" /\ step'[t] = "read" /\ ~unhindered'[t]
    BY <1>1 DEF TypeOK, TaskInv, Calls, ProbeCalls, ByHand
  <2>2. ASSUME NEW u \in Tasks, u # t
        PROVE  /\ pc'[u] = pc[u] /\ target'[u] = target[u] /\ unhindered'[u] = unhindered[u]
               /\ unhindered[u] => Busy(target[u])' = {u}
    <3>1. pc'[u] = pc[u] /\ target'[u] = target[u] /\ unhindered'[u] = unhindered[u]
      BY <1>1, <2>2 DEF TypeOK
    <3>2. \A b : Busy(b)' \subseteq Busy(b) /\ Busy(b) \ {t} \subseteq Busy(b)'
      BY <1>1 DEF Busy, TypeOK
    <3>3. unhindered[u] => Busy(target[u]) = {u}
      BY DEF TaskInv
    <3>. QED
      BY <2>2, <3>1, <3>2, <3>3
  <2>3. "idle" \notin Calls
    BY DEF Calls, ProbeCalls, ByHand
  <2>. QED
    BY <1>1, <2>1, <2>2, <2>3 DEF TaskInv
<1>. QED
  BY <1>2, <1>3

\* The steps of the page and of its loads.
Page ==
  \/ StreamEnds \/ Connect
  \/ \E l \in Loads :
       \/ Open(l) \/ Hear(l) \/ Summaries(l) \/ Answer(l) \/ LoadFails(l)
       \/ \E a \in Accounts : Serve(l, a)

\* They leave accounts and tasks alone.
LEMMA PageApart ==
  ASSUME Page
  PROVE  UNCHANGED <<storeVars, taskVars, changed>>
BY DEF Page, StreamEnds, Connect, Open, Hear, Request, Answer, LoadFails, Over, Put, Summaries, Serve, eventVars

\* What the server puts together is a view, or part of one.
LEMMA ShownType ==
  ASSUME TypeOK
  PROVE  Shown \in View
BY DEF TypeOK, Shown, Filed, Readable, View

\* Summaries and files are put into a load that is under way.
LEMMA PutFits ==
  ASSUME TypeOK, NEW l \in Loads,
         Summaries(l) \/ \E a \in Accounts : Serve(l, a)
  PROVE  \E part \in PartView : Put(l, part)
<1>1. CASE Summaries(l)
  BY <1>1 DEF Summaries, PartView
<1>2. ASSUME NEW a \in Accounts, Serve(l, a) PROVE \E part \in PartView : Put(l, part)
  <2>1. answer[l] \in PartView
    BY <1>2 DEF Serve, TypeOK
  <2>2. Filed(a) \in Record \cup {None}
    BY DEF TypeOK, Filed, Readable
  <2>3. /\ [answer[l] EXCEPT ![a] = Filed(a)] \in PartView
        /\ [answer[l] EXCEPT ![a] = None] \in PartView
    BY <2>1, <2>2 DEF PartView
  <2>. QED
    BY <1>2, <2>3 DEF Serve
<1>. QED
  BY <1>1, <1>2

\* What a load has, what the page shows and what was read last keep their types.
LEMMA LoadTypes ==
  ASSUME TypeOK, Page
  PROVE  /\ answer' \in [Loads -> PartView \cup {None}]
         /\ view' \in View
         /\ newest' \in Loads \cup {None}
         /\ seen' \in PartView \cup {None}
<1>1. NotYet \in PartView
  BY DEF NotYet, PartView
<1>2. CASE StreamEnds \/ Connect
  BY <1>2 DEF StreamEnds, Connect, TypeOK
<1>3. ASSUME NEW l \in Loads, Open(l) \/ Hear(l)
      PROVE  /\ answer' \in [Loads -> PartView \cup {None}] /\ view' \in View
             /\ newest' \in Loads \cup {None} /\ seen' \in PartView \cup {None}
  BY <1>1, <1>3 DEF Open, Hear, Request, TypeOK
<1>4. ASSUME NEW l \in Loads, Answer(l) \/ LoadFails(l)
      PROVE  /\ answer' \in [Loads -> PartView \cup {None}] /\ view' \in View
             /\ newest' \in Loads \cup {None} /\ seen' \in PartView \cup {None}
  <2>1. Answer(l) => answer[l] \in View
    <3>1. SUFFICES ASSUME Answer(l) PROVE answer[l] \in View
      OBVIOUS
    <3>2. answer[l] \in PartView /\ \A a \in Accounts : answer[l][a] \notin {Todo, Listed}
      BY <3>1 DEF Answer, TypeOK
    <3>. QED
      BY <3>2 DEF PartView, View
  <2>2. view' \in View
    BY <1>4, <2>1 DEF Answer, LoadFails, TypeOK
  <2>. QED
    BY <1>4, <2>2 DEF Answer, LoadFails, Over, TypeOK
<1>5. ASSUME NEW l \in Loads, Summaries(l) \/ \E a \in Accounts : Serve(l, a)
      PROVE  /\ answer' \in [Loads -> PartView \cup {None}] /\ view' \in View
             /\ newest' \in Loads \cup {None} /\ seen' \in PartView \cup {None}
  <2>1. PICK part \in PartView : Put(l, part)
    BY <1>5, PutFits
  <2>. QED
    BY <2>1 DEF Put, TypeOK
<1>. QED
  BY <1>2, <1>3, <1>4, <1>5 DEF Page

\* The page's steps keep them.
LEMMA PageTypes ==
  ASSUME StateInv, Page
  PROVE  StateInv'
<1>. USE DEF StateInv
<1>1. UNCHANGED <<file, listing, pc, target, step, snap, found, starts, banned, unhindered, changed>>
  BY PageApart DEF storeVars, taskVars
<1>2. connected' \in BOOLEAN /\ missed' \in BOOLEAN /\ silent' \in BOOLEAN
  BY DEF Page, StreamEnds, Connect, Open, Hear, Request, Answer, LoadFails, Over, Put, Summaries, Serve,
         eventVars, TypeOK
<1>3. unread' \in 0 .. Capacity + 1
  <2>1. unread' \in {0, unread} \/ (unread \in 1 .. Capacity /\ unread' = unread - 1)
    BY DEF Page, StreamEnds, Connect, Open, Hear, Request, Answer, LoadFails, Over, Put, Summaries, Serve, eventVars
  <2>. QED
    BY <2>1, BoundsAssumption DEF TypeOK
<1>4. TypeOK'
  BY <1>1, <1>2, <1>3, LoadTypes DEF TypeOK
<1>5. TaskInv'
  BY <1>1 DEF TaskInv, Busy
<1>. QED
  BY <1>4, <1>5

\* A step is one of the page, the start or the end of a task or a step of its work.
LEMMA StepKinds ==
  ASSUME [Next]_vars
  PROVE  \/ Page
         \/ \E t \in Tasks, a \in Accounts, at \in {"resolve"} \cup ByHand :
              Free(t) /\ Start(t, a, at)
         \/ \E t \in Tasks : End(t) \/ Work(t)
         \/ UNCHANGED vars
BY DEF Next, Page, BackgroundProbe, ManualProbe, Administer, Work

\* Every step keeps them.
LEMMA StepState == StateInv /\ [Next]_vars => StateInv'
<1>. SUFFICES ASSUME StateInv, [Next]_vars PROVE StateInv'
  OBVIOUS
<1>1. ASSUME NEW t \in Tasks, Work(t) PROVE StateInv'
  <2>1. CASE ReadFails(t)
    BY <2>1, <1>1, ReturnKeepsState DEF ReadFails, storeVars, StateInv, TypeOK
  <2>. QED
    BY <1>1, <2>1, ReadTypes, WriteTypes, WriteFailsTypes, ListTypes, ProbeTypes DEF Work, Deciding
<1>2. CASE UNCHANGED vars
  BY <1>2 DEF vars, storeVars, taskVars, eventVars, pageVars, StateInv, TypeOK, TaskInv, Busy
<1>. QED
  BY <1>1, <1>2, StepKinds, StartTypes, EndTypes, PageTypes

\* The records, summaries and events keep their types, whatever tasks interleave.
THEOREM ProbeTypesHold == Spec => []TypeOK
<1>1. StateInv => TypeOK
  BY DEF StateInv
<1>. QED
  BY <1>1, InitState, StepState, PTL DEF Spec

-----------------------------------------------------------------------------
(* Bans.                                                                   *)

\* A task that touches neither the task nor the account of another keeps what holds of
\* that one.
LEMMA OthersKeepBan ==
  ASSUME NEW t \in Tasks, BanOf(t),
         unhindered'[t] => /\ unhindered[t]
                      /\ target'[t] = target[t]
                      /\ pc'[t] = pc[t] /\ step'[t] = step[t] /\ snap'[t] = snap[t]
                      /\ banned'[t] = banned[t]
                      /\ file'[target[t]] = file[target[t]]
                      /\ listing'[target[t]] = listing[target[t]]
  PROVE  BanOf(t)'
BY DEF BanOf, Settled, Readable, Summarised

\* Two tasks of which one is unhindered are at different accounts.
LEMMA UnhinderedApart ==
  ASSUME StateInv, NEW t \in Tasks, unhindered[t], NEW u \in Tasks, u # t, pc[u] # "idle"
  PROVE  target[u] # target[t]
BY DEF StateInv, TaskInv, Busy

\* What a working task leaves of the others.
LEMMA WorkApart ==
  ASSUME BanInv, NEW u \in Tasks, Work(u), NEW t \in Tasks, t # u
  PROVE  BanOf(t)'
<1>. USE DEF BanInv, StateInv
<1>1. /\ pc[u] # "idle" /\ target[u] \in Accounts
      /\ \E to \in PCs \ {"idle"} : pc' = [pc EXCEPT ![u] = to]
      /\ UNCHANGED target /\ unhindered'[t] = unhindered[t]
  BY WorkStays DEF TypeOK
<1>2. /\ pc'[t] = pc[t]
      /\ step'[t] = step[t] /\ snap'[t] = snap[t] /\ banned'[t] = banned[t]
  <2>1. pc'[t] = pc[t]
    BY <1>1 DEF TypeOK
  <2>2. step'[t] = step[t] /\ snap'[t] = snap[t]
    BY DEF Work, Read, ReadFails, Write, WriteFails, List, Return, Resolve, ProbeFails, Find,
           Load, Fetch, TypeOK
  <2>3. banned'[t] = banned[t]
    BY DEF Work, Read, ReadFails, Write, WriteFails, List, Resolve, ProbeFails, Find, Load,
           Fetch, TypeOK
  <2>. QED
    BY <2>1, <2>2, <2>3
<1>3. \A a \in Accounts : a # target[u] => file'[a] = file[a] /\ listing'[a] = listing[a]
  <2>1. CASE Write(u) \/ WriteFails(u)
    BY <2>1 DEF Write, WriteFails, TypeOK
  <2>2. CASE List(u)
    BY <2>2 DEF List, TypeOK
  <2>3. CASE ~Write(u) /\ ~WriteFails(u) /\ ~List(u)
    BY <2>3 DEF Work, Read, ReadFails, Resolve, ProbeFails, Find, Load, Fetch, storeVars
  <2>. QED
    BY <2>1, <2>2, <2>3
<1>4. unhindered[t] => target[t] \in Accounts /\ target[t] # target[u]
  <2>1. unhindered[t] => pc[t] # "idle" /\ target[t] \in Accounts
    BY DEF TaskInv
  <2>. QED
    BY <1>1, <2>1, UnhinderedApart
<1>5. BanOf(t)
  OBVIOUS
<1>. QED
  BY <1>1, <1>2, <1>3, <1>4, <1>5, OthersKeepBan

\* The edit of a call that is no recovery leaves a banned record banned, and its summary
\* as it is unless the call lists it anew.
LEMMA EditKeepsBan ==
  ASSUME NEW r \in Record, NEW kind \in {"project", "quota"}, NEW e \in Edited(kind, r)
  PROVE  e.status = r.status /\ e.disabled = r.disabled
<1>1. CASE kind = "project"
  BY <1>1 DEF Edited
<1>2. CASE kind = "quota"
  BY <1>2 DEF Edited, Record
<1>. QED
  BY <1>1, <1>2

\* The calls that write a ban do.
LEMMA EditBans ==
  ASSUME NEW r \in Record, NEW kind \in {"ban", "forbid"}, NEW e \in Edited(kind, r)
  PROVE  e.status = "Forbidden" /\ e.disabled
BY DEF Edited, Record

\* A call reads the record it will edit.
LEMMA ReadKeepsBan ==
  ASSUME BanInv, NEW t \in Tasks, Read(t)
  PROVE  BanOf(t)'
<1>1. /\ pc[t] # "remove" => snap'[t] = file[target[t]]
      /\ step'[t] = "write"
      /\ UNCHANGED <<file, listing, pc, target, banned, unhindered>>
  BY DEF Read, BanInv, StateInv, TypeOK, storeVars
<1>2. BanOf(t)
  BY DEF BanInv
<1>. QED
  BY <1>1, <1>2 DEF BanOf, Settled, Readable, Summarised

\* A call fails to read only a file that holds no record, when its task is unhindered.
LEMMA ReadFailsKeepsBan ==
  ASSUME BanInv, NEW t \in Tasks, ReadFails(t)
  PROVE  BanOf(t)'
<1>. USE DEF BanInv, StateInv
<1>1. /\ pc[t] \in Calls \ {"remove"}
      /\ pc'[t] = After(pc[t], FALSE) /\ step'[t] = "read"
      /\ UNCHANGED <<file, listing, target, banned, unhindered>>
  BY DEF ReadFails, Return, Go, TypeOK, storeVars
<1>2. unhindered[t] => ~Readable(target[t])
  <2>1. ASSUME unhindered[t], NEW u \in Writers(target[t]) \ {t} PROVE FALSE
    <3>1. u \in Busy(target[t])
      BY DEF Writers, Busy, Calls, ProbeCalls, ByHand
    <3>. QED
      BY <2>1, <3>1 DEF TaskInv
  <2>. QED
    BY <2>1 DEF ReadFails
<1>3. banned[t] /\ unhindered[t] =>
        pc'[t] \in {"disable", "ban", "project", "fetch", "forbid", "quota", "done", "failed"}
  BY <1>1 DEF BanOf, After
<1>. QED
  BY <1>1, <1>2, <1>3 DEF BanOf, Settled, Readable

\* A task whose write has failed is not unhindered any more.
LEMMA WriteFailsKeepsBan ==
  ASSUME BanInv, NEW t \in Tasks, WriteFails(t)
  PROVE  BanOf(t)'
BY DEF BanInv, StateInv, TypeOK, WriteFails, BanOf

\* A call that writes the file unhindered keeps a ban that is settled.
LEMMA WriteKeepsBan ==
  ASSUME BanInv, NEW t \in Tasks, Write(t)
  PROVE  BanOf(t)'
<1>. USE DEF BanInv, StateInv
<1>. DEFINE a == target[t]
<1>1. /\ pc[t] \in Calls /\ step[t] = "write" /\ a \in Accounts
      /\ UNCHANGED <<listing, target, banned, unhindered>>
  BY WorkStays DEF Work, Write
<1>2. SUFFICES ASSUME unhindered[t] PROVE BanOf(t)'
  BY <1>1 DEF BanOf
<1>3. CASE pc[t] = "remove"
  <2>1. ~banned[t]
    BY <1>2, <1>3 DEF BanOf
  <2>2. pc'[t] = "remove"
    BY <1>3 DEF Write, FileOnly
  <2>. QED
    BY <1>1, <2>1, <2>2 DEF BanOf
<1>4. CASE pc[t] # "remove"
  <2>1. snap[t] \in Record /\ snap[t] = file[a]
    BY <1>1, <1>2, <1>4 DEF TaskInv, BanOf
  <2>2. PICK e \in Edited(pc[t], snap[t]) : file' = [file EXCEPT ![a] = e]
    BY <1>4 DEF Write
  <2>3. file'[a] = e
    BY <1>1, <2>2 DEF TypeOK
  <2>4. CASE pc[t] \in FileOnly
    <3>1. pc'[t] = After(pc[t], TRUE) /\ step'[t] = "read"
      BY <2>4 DEF Write, Return, Go, TypeOK
    <3>2. pc'[t] \in {"fetch", "done"}
      BY <2>4, <3>1 DEF FileOnly, After
    <3>3. e.status = snap[t].status /\ e.disabled = snap[t].disabled
      BY <2>1, <2>2, <2>4, EditKeepsBan DEF FileOnly
    <3>4. banned[t] => Settled(a)
      BY <1>2, <2>4 DEF BanOf, FileOnly
    <3>5. banned[t] => Settled(a)'
      <4>1. SUFFICES ASSUME banned[t], Readable(a) PROVE Settled(a)'
        BY <2>1, NoneAssumption DEF Readable
      <4>. QED
        BY <1>1, <2>1, <2>3, <3>3, <3>4, <4>1 DEF Settled, Summarised
    <3>. QED
      BY <1>1, <3>1, <3>2, <3>5 DEF BanOf
  <2>5. CASE pc[t] \notin FileOnly
    <3>1. /\ step'[t] = "list" /\ snap'[t] = e /\ pc' = pc
      BY <1>1, <2>3, <2>5 DEF Write, TypeOK
    <3>2. banned[t] => pc[t] \in {"disable", "ban", "forbid"}
      BY <1>1, <1>2, <2>5 DEF BanOf, FileOnly, Calls, ProbeCalls, ByHand
    <3>3. pc[t] \in {"ban", "forbid"} => e.status = "Forbidden" /\ e.disabled
      BY <2>1, <2>2, EditBans
    <3>. QED
      BY <1>1, <2>3, <3>1, <3>2, <3>3 DEF BanOf
  <2>. QED
    BY <2>4, <2>5
<1>. QED
  BY <1>3, <1>4

\* A call that ends brings its record to the listing.
LEMMA ListKeepsBan ==
  ASSUME BanInv, NEW t \in Tasks, List(t)
  PROVE  BanOf(t)'
<1>. USE DEF BanInv, StateInv
<1>. DEFINE a == target[t]
<1>1. /\ pc[t] \in Calls /\ step[t] = "list" /\ a \in Accounts
      /\ \E ok \in BOOLEAN : pc'[t] = After(pc[t], ok)
      /\ step'[t] = "read"
      /\ UNCHANGED <<file, target, banned, unhindered>>
  BY WorkStays DEF Work, List, Return, Go, TypeOK
<1>2. SUFFICES ASSUME unhindered[t], banned[t] PROVE BanOf(t)'
  BY <1>1 DEF BanOf
<1>3. /\ pc[t] \in {"disable", "ban", "project", "forbid", "quota"}
      /\ snap[t] = file[a]
  BY <1>1, <1>2 DEF BanOf, Calls, ProbeCalls, ByHand
<1>4. listing'[a] = None \/ listing'[a] = Summarised(file[a])
  BY <1>1, <1>3 DEF List, TypeOK
<1>5. pc[t] # "disable" /\ Readable(a) => file[a].status = "Forbidden" /\ file[a].disabled
  BY <1>1, <1>2, <1>3 DEF BanOf, Settled
<1>6. pc'[t] = "ban" \/ (pc'[t] \in {"project", "fetch", "done", "failed"} /\ pc[t] # "disable")
  BY <1>1, <1>3 DEF After
<1>7. pc[t] # "disable" => Settled(a)'
  BY <1>1, <1>4, <1>5 DEF Settled, Readable, Summarised
<1>. QED
  BY <1>1, <1>6, <1>7 DEF BanOf

\* An answer of Google that speaks of a ban is followed by the calls that write it.
LEMMA ProbeKeepsBan ==
  ASSUME BanInv, NEW t \in Tasks, Deciding(t)
  PROVE  BanOf(t)'
<1>. USE DEF BanInv, StateInv
<1>1. UNCHANGED <<file, listing, target, step, snap, unhindered>>
  BY DEF Deciding, Resolve, ProbeFails, Find, Load, Fetch, storeVars
<1>2. step'[t] = "read"
  BY <1>1 DEF TaskInv, Deciding, Resolve, ProbeFails, Find, Load, Fetch, Calls, ProbeCalls, ByHand
<1>3. BanOf(t)
  OBVIOUS
<1>4. CASE Resolve(t) \/ Find(t) \/ (ProbeFails(t) /\ pc[t] = "resolve")
  <2>1. unhindered[t] => ~banned[t]
    BY <1>3, <1>4 DEF BanOf, Resolve, Find
  <2>2. banned' = banned
    BY <1>4 DEF Resolve, ProbeFails, Find
  <2>. QED
    BY <1>1, <1>2, <2>1, <2>2 DEF BanOf
<1>5. CASE Load(t)
  <2>1. unhindered[t] => ~banned[t]
    BY <1>3, <1>5 DEF BanOf, Load
  <2>2. banned' = banned \/ pc'[t] = "disable"
    BY <1>5 DEF Load, Go, TypeOK
  <2>. QED
    BY <1>1, <1>2, <2>1, <2>2 DEF BanOf
<1>6. CASE Fetch(t) \/ (ProbeFails(t) /\ pc[t] # "resolve")
  <2>1. \/ pc'[t] = "forbid"
        \/ pc'[t] \in {"quota", "failed"} /\ banned' = banned
    BY <1>6 DEF Fetch, ProbeFails, Go, TypeOK
  <2>2. pc[t] = "fetch"
    BY <1>6 DEF Fetch, ProbeFails
  <2>3. Settled(target[t])' <=> Settled(target[t])
    BY <1>1 DEF Settled, Readable, Summarised
  <2>. QED
    BY <1>1, <1>2, <1>3, <2>1, <2>2, <2>3 DEF BanOf
<1>. QED
  BY <1>4, <1>5, <1>6 DEF Deciding

\* Who comes and goes.
LEMMA StartKeepsBan ==
  ASSUME BanInv, NEW u \in Tasks, NEW a \in Accounts, NEW at \in {"resolve"} \cup ByHand,
         Free(u), Start(u, a, at), NEW t \in Tasks
  PROVE  BanOf(t)'
<1>. USE DEF BanInv, StateInv
<1>1. CASE t = u
  <2>1. step'[t] = "read" /\ ~banned'[t]
    BY <1>1 DEF Start, TypeOK
  <2>. QED
    BY <2>1 DEF BanOf
<1>2. CASE t # u
  <2>1. /\ pc'[t] = pc[t] /\ target'[t] = target[t] /\ step'[t] = step[t]
        /\ banned'[t] = banned[t] /\ snap' = snap /\ file' = file /\ listing' = listing
    BY <1>2 DEF Start, TypeOK, storeVars
  <2>2. unhindered'[t] => unhindered[t]
    BY <1>2 DEF Start
  <2>. QED
    BY <2>1, <2>2, OthersKeepBan
<1>. QED
  BY <1>1, <1>2

\* A task that ends takes its own claim with it.
LEMMA EndKeepsBan ==
  ASSUME BanInv, NEW u \in Tasks, End(u), NEW t \in Tasks
  PROVE  BanOf(t)'
<1>. USE DEF BanInv, StateInv
<1>1. CASE t = u
  BY <1>1 DEF End, TypeOK, BanOf
<1>2. CASE t # u
  <2>1. /\ pc'[t] = pc[t] /\ target'[t] = target[t] /\ step' = step /\ unhindered'[t] = unhindered[t]
        /\ banned'[t] = banned[t] /\ snap' = snap /\ file' = file /\ listing' = listing
    BY <1>2 DEF End, Go, TypeOK, storeVars
  <2>. QED
    BY <2>1, OthersKeepBan
<1>. QED
  BY <1>1, <1>2

\* Every step keeps what holds of the bans.
LEMMA StepBan == BanInv /\ [Next]_vars => BanInv'
<1>. SUFFICES ASSUME BanInv, [Next]_vars, NEW t \in Tasks PROVE BanOf(t)'
  BY StepState DEF BanInv
<1>1. ASSUME Work(t) PROVE BanOf(t)'
  BY <1>1, ReadKeepsBan, ReadFailsKeepsBan, WriteKeepsBan, WriteFailsKeepsBan, ListKeepsBan,
     ProbeKeepsBan DEF Work, Deciding
<1>2. ASSUME NEW u \in Tasks, u # t, Work(u) PROVE BanOf(t)'
  BY <1>2, WorkApart
<1>3. ASSUME Page \/ UNCHANGED vars PROVE BanOf(t)'
  <2>1. UNCHANGED <<storeVars, taskVars>>
    BY <1>3, PageApart DEF vars, storeVars, taskVars
  <2>. QED
    BY <2>1, OthersKeepBan DEF BanInv, storeVars, taskVars
<1>. QED
  BY <1>1, <1>2, <1>3, StepKinds, StartKeepsBan, EndKeepsBan

\* A ban that a probe was told of is what it leaves behind, in the file and in the
\* listing, whatever else it did on its way and whatever the tasks of other accounts do,
\* when no other task was at its account and none of its writes failed.
THEOREM BansSettle == Spec => []BanSettles
<1>1. Init => BanInv
  BY InitState DEF Init, BanInv, BanOf
<1>2. BanInv => BanSettles
  BY DEF BanInv, BanOf, Settled, BanSettles
<1>. QED
  BY <1>1, <1>2, StepBan, PTL DEF Spec

-----------------------------------------------------------------------------
(* Events and loads.                                                       *)

\* An event that is sent waits for the page or is lost.
LEMMA SendIsNews ==
  ASSUME StateInv, NEW t \in Tasks, Send(t)
  PROVE  missed' \/ unread' > 0
<1>1. unread \in 0 .. Capacity + 1
  BY DEF StateInv, TypeOK
<1>2. CASE connected
  <2>1. unread' = IF unread > Capacity THEN unread ELSE unread + 1
    BY <1>2 DEF Send
  <2>. QED
    BY <1>1, <2>1, BoundsAssumption
<1>3. CASE ~connected
  BY <1>3 DEF Send
<1>. QED
  BY <1>2, <1>3

\* A call that returns has sent its event when it is through.
LEMMA ReturnPays ==
  ASSUME NewsInv, NEW t \in Tasks, pc[t] \in Calls, NEW ok \in BOOLEAN, Return(t, ok)
  PROVE  /\ Pending => Pending'
         /\ ChangeInv'
         /\ missed => missed'
<1>. USE DEF NewsInv, StateInv
<1>1. pc'[t] = After(pc[t], ok) /\ step'[t] = "read"
  BY DEF Return, Go, TypeOK
<1>2. \A u \in Tasks \ {t} : pc'[u] = pc[u] /\ step'[u] = step[u]
  BY DEF Return, Go, TypeOK
<1>3. CASE Send(t)
  <2>1. Pending'
    BY <1>3, SendIsNews DEF Pending
  <2>2. /\ ~changed'[t] /\ \A u \in Tasks \ {t} : changed'[u] = changed[u]
        /\ missed => missed'
    BY <1>3 DEF Send, TypeOK
  <2>. QED
    BY <1>1, <1>2, <2>1, <2>2 DEF ChangeInv
<1>4. CASE Quiet /\ ~(pc[t] \in Announced /\ (ok \/ pc[t] \in {"disable", "forbid"}))
  <2>1. UNCHANGED eventVars
    BY <1>4 DEF Quiet
  <2>2. After(pc[t], ok) \notin {"idle", "done"}
    BY <1>4 DEF After, Announced, Calls, ProbeCalls, ByHand
  <2>. QED
    BY <1>1, <1>2, <2>1, <2>2 DEF ChangeInv, Pending, eventVars
<1>. QED
  BY <1>3, <1>4 DEF Return

\* A task at work takes nothing away from what is pending: only the page reads events.
LEMMA WorkPays ==
  ASSUME NewsInv, NEW t \in Tasks, Work(t)
  PROVE  /\ Pending => Pending'
         /\ ChangeInv'
         /\ missed => missed'
<1>. USE DEF NewsInv, StateInv
<1>1. CASE Read(t)
  <2>1. /\ pc' = pc /\ UNCHANGED <<unread, missed, silent>>
        /\ changed' = [changed EXCEPT ![t] = TRUE] /\ step' = [step EXCEPT ![t] = "write"]
        /\ pc[t] \in Calls
    BY <1>1 DEF Read
  <2>2. pc[t] \notin {"idle", "done"}
    BY <2>1 DEF Calls, ProbeCalls, ByHand
  <2>3. changed'[t] /\ \A u \in Tasks \ {t} : changed'[u] = changed[u] /\ step'[u] = step[u]
    BY <2>1 DEF TypeOK
  <2>. QED
    BY <2>1, <2>2, <2>3 DEF Pending, ChangeInv
<1>2. CASE ReadFails(t) \/ WriteFails(t) \/ List(t) \/ (Write(t) /\ pc[t] \in FileOnly)
  <2>1. pc[t] \in Calls /\ \E ok \in BOOLEAN : Return(t, ok)
    BY <1>2 DEF ReadFails, WriteFails, List, Write
  <2>. QED
    BY <2>1, ReturnPays
<1>3. CASE Write(t) /\ pc[t] \notin FileOnly
  <2>1. /\ pc' = pc /\ step' = [step EXCEPT ![t] = "list"] /\ UNCHANGED eventVars
        /\ pc[t] \in Calls /\ step[t] = "write"
    BY <1>3 DEF Write, Quiet
  <2>2. changed[t] /\ \A u \in Tasks \ {t} : step'[u] = step[u]
    BY <2>1 DEF ChangeInv, TypeOK
  <2>. QED
    BY <2>1, <2>2 DEF Pending, ChangeInv, eventVars
<1>4. CASE Deciding(t)
  <2>1. UNCHANGED <<step, eventVars>> /\ pc[t] \notin Calls
    BY <1>4 DEF Deciding, Resolve, ProbeFails, Find, Load, Fetch, Quiet, Calls, ProbeCalls, ByHand
  <2>2. /\ pc'[t] \notin {"idle", "done"}
        /\ \A u \in Tasks \ {t} : pc'[u] = pc[u]
    BY <1>4 DEF Deciding, Resolve, ProbeFails, Find, Load, Fetch, Go, TypeOK
  <2>3. step[t] = "read"
    BY <2>1 DEF TaskInv
  <2>. QED
    BY <2>1, <2>2, <2>3 DEF Pending, ChangeInv, eventVars
<1>. QED
  BY <1>1, <1>2, <1>3, <1>4 DEF Work, Deciding

\* A task that changes what a load would read has something pending.
LEMMA ChangesArePending ==
  ASSUME NewsInv, NEW t \in Tasks, Work(t)
  PROVE  (Shown' = Shown /\ listing' = listing) \/ Pending
<1>1. CASE Write(t) \/ WriteFails(t) \/ List(t)
  <2>1. pc[t] \in Calls /\ step[t] # "read"
    BY <1>1 DEF Write, WriteFails, List
  <2>. QED
    BY <2>1 DEF NewsInv, ChangeInv, Pending
<1>2. CASE ~(Write(t) \/ WriteFails(t) \/ List(t))
  <2>1. UNCHANGED storeVars
    BY <1>2 DEF Work, Read, ReadFails, Resolve, ProbeFails, Find, Load, Fetch
  <2>. QED
    BY <2>1 DEF Shown, Filed, Readable, storeVars
<1>. QED
  BY <1>1, <1>2

\* Where the loads are left alone, they stay in order as long as nothing pending is lost.
LEMMA LoadsKeep ==
  ASSUME LoadInv, UNCHANGED <<answer, newest, seen>>,
         Pending => Pending', missed => missed',
         (Shown' = Shown /\ listing' = listing) \/ Pending
  PROVE  LoadInv'
BY DEF LoadInv

\* Who comes or goes keeps them: a task that fails after it set about writing is on record.
LEMMA MoveNews ==
  ASSUME NewsInv, NEW t \in Tasks,
         \/ End(t)
         \/ \E a \in Accounts, at \in {"resolve"} \cup ByHand : Free(t) /\ Start(t, a, at)
  PROVE  ChangeInv' /\ LoadInv'
<1>. USE DEF NewsInv, StateInv
<1>1. CASE End(t)
  <2>1. /\ pc[t] \in {"done", "failed"} /\ pc' = [pc EXCEPT ![t] = "idle"]
        /\ changed' = [changed EXCEPT ![t] = FALSE]
        /\ silent' = (silent \/ (pc[t] = "failed" /\ changed[t]))
        /\ UNCHANGED <<file, listing, step, unread, missed, answer, newest, seen>>
    BY <1>1 DEF End, Go, storeVars, pageVars
  <2>2. pc'[t] = "idle" /\ ~changed'[t] /\ "idle" \notin Calls
    BY <2>1 DEF TypeOK, Calls, ProbeCalls, ByHand
  <2>3. \A u \in Tasks \ {t} : pc'[u] = pc[u] /\ changed'[u] = changed[u]
    BY <2>1 DEF TypeOK
  <2>4. ChangeInv'
    BY <2>1, <2>2, <2>3 DEF ChangeInv
  <2>5. changed[t] => silent'
    BY <2>1 DEF ChangeInv
  <2>6. Pending => Pending'
    BY <2>1, <2>3, <2>5 DEF Pending
  <2>7. Shown' = Shown
    BY <2>1 DEF Shown, Filed, Readable
  <2>. QED
    BY <2>1, <2>4, <2>6, <2>7, LoadsKeep
<1>2. ASSUME NEW a \in Accounts, NEW at \in {"resolve"} \cup ByHand, Free(t), Start(t, a, at)
      PROVE  ChangeInv' /\ LoadInv'
  <2>1. /\ pc[t] = "idle" /\ pc' = [pc EXCEPT ![t] = at] /\ step' = [step EXCEPT ![t] = "read"]
        /\ UNCHANGED <<file, listing, changed, unread, missed, silent, answer, newest, seen>>
    BY <1>2 DEF Free, Start, Quiet, storeVars, eventVars, pageVars
  <2>2. /\ ~changed[t] /\ step'[t] = "read"
        /\ \A u \in Tasks \ {t} : pc'[u] = pc[u] /\ step'[u] = step[u]
    BY <2>1 DEF ChangeInv, TypeOK
  <2>3. ChangeInv'
    BY <2>1, <2>2 DEF ChangeInv
  <2>4. Shown' = Shown /\ Pending' = Pending
    BY <2>1 DEF Shown, Filed, Readable, Pending
  <2>. QED
    BY <2>1, <2>3, <2>4, LoadsKeep
<1>. QED
  BY <1>1, <1>2

\* What is put into the newest load is as it is now, or something is pending.
LEMMA PartIsRight ==
  ASSUME NewsInv, NEW l \in Loads, answer[l] = seen, seen # None,
         Summaries(l) \/ \E a \in Accounts : Serve(l, a), NEW b \in Accounts
  PROVE  IF answer'[l][b] \in {Todo, Listed}
         THEN answer'[l][b] = Listed => listing[b] # None \/ Pending
         ELSE answer'[l][b] = Shown[b] \/ Pending
<1>. USE DEF NewsInv, StateInv
<1>1. CASE Summaries(l)
  <2>1. answer'[l] = [a \in Accounts |-> IF listing[a] # None THEN Listed ELSE None]
    BY <1>1 DEF Summaries, Put, TypeOK
  <2>2. listing[b] = None => Shown[b] = None
    BY DEF Shown
  <2>. QED
    BY <2>1, <2>2, NoneAssumption
<1>2. ASSUME NEW a \in Accounts, Serve(l, a)
      PROVE  IF answer'[l][b] \in {Todo, Listed}
             THEN answer'[l][b] = Listed => listing[b] # None \/ Pending
             ELSE answer'[l][b] = Shown[b] \/ Pending
  <2>1. answer[l] \in PartView /\ answer[l][a] = Listed
    BY <1>2 DEF Serve, TypeOK
  <2>2. listing[a] # None \/ Pending
    BY <2>1 DEF LoadInv
  <2>3. PICK r \in {Filed(a), None} :
          /\ answer'[l] = [answer[l] EXCEPT ![a] = r]
          /\ r = Filed(a) \/ Writers(a) # {}
    BY <1>2 DEF Serve, Put, TypeOK
  <2>4. Writers(a) # {} => Pending
    BY DEF Writers, ChangeInv, Pending
  <2>5. /\ answer'[l][a] = r
        /\ b # a => answer'[l][b] = answer[l][b]
    BY <2>1, <2>3 DEF PartView
  <2>6. CASE b = a
    <3>1. Filed(a) = Shown[a] \/ Pending
      BY <2>2 DEF Shown
    <3>2. r \notin {Todo, Listed}
      BY <2>3, NoneAssumption DEF TypeOK, Filed, Readable
    <3>. QED
      BY <2>3, <2>4, <2>5, <2>6, <3>1, <3>2
  <2>7. CASE b # a
    BY <2>5, <2>7 DEF LoadInv
  <2>. QED
    BY <2>6, <2>7
<1>. QED
  BY <1>1, <1>2

\* The page asks with nothing read, reads what is there, and knows when it has lost
\* something.
LEMMA PageNews ==
  ASSUME NewsInv, Page
  PROVE  ChangeInv' /\ LoadInv'
<1>. USE DEF NewsInv, StateInv
<1>1. UNCHANGED <<file, listing, pc, step, target, changed>>
  BY PageApart DEF storeVars, taskVars
<1>2. Shown' = Shown /\ ChangeInv'
  BY <1>1 DEF Shown, Filed, Readable, ChangeInv
<1>3. CASE StreamEnds \/ Connect
  <2>1. /\ UNCHANGED <<answer, newest, seen>> /\ (missed => missed')
        /\ missed' \/ UNCHANGED <<unread, missed, silent>>
    BY <1>3 DEF StreamEnds, Connect, eventVars
  <2>2. Pending => Pending'
    BY <1>1, <2>1 DEF Pending
  <2>. QED
    BY <1>1, <1>2, <2>1, <2>2, LoadsKeep
<1>4. ASSUME NEW l \in Loads, Open(l) \/ Hear(l) PROVE LoadInv'
  <2>1. /\ newest' = l /\ seen' = NotYet /\ answer' = [answer EXCEPT ![l] = NotYet]
    BY <1>4 DEF Open, Hear, Request
  <2>2. /\ answer'[l] = NotYet /\ \A a \in Accounts : NotYet[a] = Todo
        /\ NotYet # None /\ l # None /\ Todo # Listed
    BY <2>1, NoneAssumption DEF TypeOK, NotYet, PartView
  <2>. QED
    BY <2>1, <2>2 DEF LoadInv
<1>5. ASSUME NEW l \in Loads, Answer(l) \/ LoadFails(l) PROVE LoadInv'
  <2>1. /\ answer' = [answer EXCEPT ![l] = None] /\ newest' = IF l = newest THEN None ELSE newest
        /\ UNCHANGED <<unread, silent, seen>>
    BY <1>5 DEF Answer, LoadFails, Over
  <2>m. missed => missed'
    BY <1>5 DEF Answer, LoadFails
  <2>2. Pending => Pending'
    BY <1>1, <2>1, <2>m DEF Pending
  <2>3. newest' # None => seen' # None /\ answer'[newest'] = seen'
    BY <2>1 DEF LoadInv, TypeOK
  <2>4. ASSUME seen # None, NEW a \in Accounts, seen[a] \in {Todo, Listed}
        PROVE  newest' # None \/ missed'
    <3>1. CASE newest = None
      BY <2>m, <2>4, <3>1 DEF LoadInv
    <3>2. CASE newest # None /\ newest # l
      BY <2>1, <3>2
    <3>3. CASE newest = l /\ newest # None
      <4>1. answer[l] = seen
        BY <3>3 DEF LoadInv
      <4>. QED
        BY <1>5, <2>4, <3>3, <4>1 DEF Answer, LoadFails
    <3>. QED
      BY <3>1, <3>2, <3>3
  <2>. QED
    BY <1>1, <1>2, <2>1, <2>2, <2>3, <2>4 DEF LoadInv
<1>6. ASSUME NEW l \in Loads, Summaries(l) \/ \E a \in Accounts : Serve(l, a) PROVE LoadInv'
  <2>1. PICK part \in PartView : Put(l, part)
    BY <1>6, PutFits
  <2>2. /\ answer' = [answer EXCEPT ![l] = part] /\ seen' = IF l = newest THEN part ELSE seen
        /\ UNCHANGED <<unread, missed, silent, newest>>
    BY <2>1 DEF Put, eventVars
  <2>3. Pending' = Pending
    BY <1>1, <2>2 DEF Pending
  <2>4. CASE l # newest
    <3>1. seen' = seen /\ (newest # None => answer'[newest] = answer[newest])
      BY <2>2, <2>4 DEF TypeOK
    <3>. QED
      BY <1>1, <1>2, <2>2, <2>3, <3>1 DEF LoadInv
  <2>5. CASE l = newest
    <3>1. /\ newest # None /\ part # None /\ seen' = part /\ answer'[newest'] = part
      BY <2>1, <2>2, <2>5, NoneAssumption DEF TypeOK
    <3>2. answer[l] = seen /\ seen # None
      BY <2>5, <3>1 DEF LoadInv
    <3>3. ASSUME NEW b \in Accounts
          PROVE  IF part[b] \in {Todo, Listed}
                 THEN part[b] = Listed => listing[b] # None \/ Pending
                 ELSE part[b] = Shown[b] \/ Pending
      <4>1. answer'[l] = part
        BY <2>2 DEF TypeOK
      <4>. QED
        BY <1>6, <3>2, <4>1, PartIsRight
    <3>. QED
      BY <1>1, <1>2, <2>2, <2>3, <3>1, <3>3 DEF LoadInv
  <2>. QED
    BY <2>4, <2>5
<1>. QED
  BY <1>2, <1>3, <1>4, <1>5, <1>6 DEF Page

\* Every step keeps the changes announced and the loads in order.
LEMMA StepNews == NewsInv /\ [Next]_vars => NewsInv'
<1>. SUFFICES ASSUME NewsInv, [Next]_vars PROVE NewsInv'
  OBVIOUS
<1>1. StateInv'
  BY StepState DEF NewsInv
<1>2. ASSUME NEW t \in Tasks, Work(t) PROVE ChangeInv' /\ LoadInv'
  <2>1. UNCHANGED <<answer, newest, seen>>
    BY <1>2, WorkStays DEF NewsInv, pageVars
  <2>. QED
    BY <1>2, <2>1, WorkPays, ChangesArePending, LoadsKeep DEF NewsInv
<1>3. CASE UNCHANGED vars
  <2>1. UNCHANGED <<file, listing, pc, step, changed, unread, missed, silent, answer, newest, seen>>
    BY <1>3 DEF vars, storeVars, taskVars, eventVars, pageVars
  <2>2. Shown' = Shown /\ Pending' = Pending
    BY <2>1 DEF Shown, Filed, Readable, Pending
  <2>3. ChangeInv' /\ LoadInv'
    BY <2>1, <2>2 DEF NewsInv, ChangeInv, LoadInv
  <2>. QED
    BY <1>1, <2>3 DEF NewsInv
<1>. QED
  BY <1>1, <1>2, <1>3, StepKinds, MoveNews, PageNews DEF NewsInv

\* When all is quiet, the load that the page asked last has read every account as it is,
\* for any number of tasks that change accounts at once and of loads that overlap, unless
\* since it was asked an event was lost or sent to a closed stream, the load itself
\* failed, or a task failed after it had set about writing.
THEOREM LastLoadReadsAll == Spec => []LastLoadIsFresh
<1>1. Init => NewsInv
  BY InitState, NoneAssumption DEF Init, NewsInv, ChangeInv, LoadInv, Calls, ProbeCalls, ByHand
<1>2. NewsInv => LastLoadIsFresh
  <2>. SUFFICES ASSUME NewsInv, AllIsQuiet, ~missed, ~silent PROVE seen = Shown
    BY DEF LastLoadIsFresh
  <2>1. seen # None /\ seen \in PartView /\ Shown \in View
    BY ShownType DEF AllIsQuiet, NewsInv, StateInv, TypeOK
  <2>2. ~Pending
    BY DEF Pending, AllIsQuiet, NewsInv, ChangeInv
  <2>3. newest = None
    BY <2>1 DEF AllIsQuiet, NewsInv, StateInv, TypeOK, LoadInv
  <2>4. \A a \in Accounts : seen[a] = Shown[a]
    BY <2>1, <2>2, <2>3 DEF NewsInv, LoadInv
  <2>. QED
    BY <2>1, <2>4 DEF PartView, View
<1>. QED
  BY <1>1, <1>2, StepNews, PTL DEF Spec

=============================================================================
