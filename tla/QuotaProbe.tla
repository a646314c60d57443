----------------------------- MODULE QuotaProbe -----------------------------
(***************************************************************************)
(* The quota probe of cli-server/src/handlers/probes.rs                    *)
(* (refresh_quota_internal), started by the background loop of lib.rs and  *)
(* by the dashboard, next to the calls of the dashboard that change an     *)
(* account, and the events that tell the dashboard to load the accounts    *)
(* again (account_events.rs, Accounts.jsx, useAccountStore.js).            *)
(*                                                                         *)
(* A probe decides about an account from two answers of Google, with calls *)
(* of the account database in between.  Such a call reads the account      *)
(* file, writes the edited record back and edits the listing: three steps, *)
(* between which other tasks run (AccountStore has the locks, torn files   *)
(* and deaths).  The dashboard loads the accounts by requests of its own,  *)
(* several of which may be under way at once.                              *)
(*                                                                         *)
(* Tokens, labels, project ids and the mark of a ban in the quota data are *)
(* left out of a record.  Left out of the page are the loads that follow   *)
(* its own calls (one more load beside those of the events) and the row it *)
(* takes off by itself when it has removed an account.                     *)
(***************************************************************************)
EXTENDS Naturals, FiniteSets

CONSTANTS
  Accounts,   \* account ids
  Quotas,     \* quota data
  Tasks,      \* probes and calls of the dashboard
  Loads,      \* loads of the dashboard that may be under way at once
  Capacity,   \* the room of the broadcast channel: 32
  MaxStarts,  \* bound on the tasks started
  None,       \* no record, no summary, no task's account, no load
  Torn,       \* a file that holds no record: a write did not get all of it in
  Todo,       \* an account of which a load does not know yet whether it is listed
  Listed      \* an account that a load has found listed and not come to yet

ASSUME BoundsAssumption == Capacity \in Nat \ {0} /\ MaxStarts \in Nat

VARIABLES
  file,       \* file[a]: the record in accounts/a.json, or None, or Torn
  listing,    \* listing[a]: the summary in the index, or None
  pc,         \* pc[t]: where task t is
  target,     \* target[t]: its account
  step,       \* step[t]: where its call of the account database is
  snap,       \* snap[t]: the record the call has read
  found,      \* found[t]: the probe knows the account of its token
  starts,     \* tasks started so far
  banned,     \* history: an answer of Google to probe t spoke of a ban
  unhindered, \* history: no other task was at its account, and no write of t has failed
  changed,    \* history: t has set about writing since it last sent an event
  unread,     \* events the dashboard has not read, Capacity + 1: too many
  connected,  \* the dashboard's event stream is open
  answer,     \* answer[l]: what the server has put together for load l, or None: no load
  view,       \* view[a]: what the dashboard shows
  newest,     \* the load that was asked last, while it is under way
  seen,       \* history: what the load that was asked last has read, None before any
  missed,     \* history: since it was asked an event was lost, or it failed
  silent      \* history: since then a task failed that had set about writing

storeVars == <<file, listing>>
taskVars == <<pc, target, step, snap, found, starts, banned, unhindered>>
eventVars == <<changed, unread, missed, silent>>
pageVars == <<connected, answer, view, newest, seen>>
vars == <<storeVars, taskVars, eventVars, pageVars>>

Status == {"Active", "Forbidden"}
Record == [status : Status, disabled : BOOLEAN, quota : Quotas]
Summary == [status : Status, disabled : BOOLEAN]
View == [Accounts -> Record \cup {None}]
PartView == [Accounts -> Record \cup {None, Todo, Listed}]
ASSUME NoneAssumption ==
  /\ {None, Torn, Todo, Listed} \cap
       (Accounts \cup Quotas \cup Loads \cup Record \cup Summary) = {}
  /\ None # Torn /\ None \notin {Todo, Listed} /\ Todo # Listed /\ None \notin PartView

ProbeCalls == {"refresh", "disable", "ban", "recover", "project", "forbid", "quota"}
ByHand == {"switch_off", "switch_on", "remove"}
Calls == ProbeCalls \cup ByHand

\* "done" has sent its event, "failed" ends without one.
PCs == Calls \cup {"idle", "resolve", "find", "load", "fetch", "done", "failed"}

TypeOK ==
  /\ file \in [Accounts -> Record \cup {None, Torn}]
  /\ listing \in [Accounts -> Summary \cup {None}]
  /\ pc \in [Tasks -> PCs]
  /\ target \in [Tasks -> Accounts \cup {None}]
  /\ step \in [Tasks -> {"read", "write", "list"}]
  /\ snap \in [Tasks -> Record \cup {None}]
  /\ found \in [Tasks -> BOOLEAN]
  /\ starts \in 0 .. MaxStarts
  /\ banned \in [Tasks -> BOOLEAN] /\ unhindered \in [Tasks -> BOOLEAN]
  /\ changed \in [Tasks -> BOOLEAN]
  /\ unread \in 0 .. Capacity + 1
  /\ missed \in BOOLEAN /\ silent \in BOOLEAN
  /\ connected \in BOOLEAN
  /\ answer \in [Loads -> PartView \cup {None}]
  /\ view \in View
  /\ newest \in Loads \cup {None}
  /\ seen \in PartView \cup {None}

\* get_account: an error and no account are alike to most callers.
Readable(a) == file[a] \notin {None, Torn}

Filed(a) == IF Readable(a) THEN file[a] ELSE None

\* What list_accounts_api would answer now: the files of the accounts that are listed.
Shown == [a \in Accounts |-> IF listing[a] # None THEN Filed(a) ELSE None]

\* What a load has when it is asked.
NotYet == [a \in Accounts |-> Todo]

\* The tasks that are writing the file of account a.
Writers(a) == {t \in Tasks : pc[t] \in Calls /\ step[t] = "write" /\ target[t] = a}

Summarised(r) == [status |-> r.status, disabled |-> r.disabled]

\* The accounts are at rest and the page is not open.
Init ==
  /\ file \in [Accounts -> {r \in Record : r.disabled = (r.status = "Forbidden")}]
  /\ listing = [a \in Accounts |-> Summarised(file[a])]
  /\ pc = [t \in Tasks |-> "idle"]
  /\ target = [t \in Tasks |-> None]
  /\ step = [t \in Tasks |-> "read"]
  /\ snap = [t \in Tasks |-> None]
  /\ found = [t \in Tasks |-> FALSE]
  /\ starts = 0
  /\ banned = [t \in Tasks |-> FALSE]
  /\ unhindered = [t \in Tasks |-> FALSE]
  /\ changed = [t \in Tasks |-> FALSE]
  /\ unread = 0
  /\ missed = FALSE
  /\ silent = FALSE
  /\ connected = FALSE
  /\ answer = [l \in Loads |-> None]
  /\ view = [a \in Accounts |-> None]
  /\ newest = None
  /\ seen = None

-----------------------------------------------------------------------------
(* Events.                                                                 *)

\* Mutant: the channel has no bound.
SendUncapped(t) ==
  /\ unread' = IF connected THEN unread + 1 ELSE 0
  /\ missed' = (missed \/ ~connected)
  /\ changed' = [changed EXCEPT ![t] = FALSE]
  /\ UNCHANGED <<silent, pageVars>>

\* account_tx.send: nobody may listen; a reader who is Capacity behind loses events.
Send(t) ==
  /\ unread' = IF ~connected THEN 0 ELSE IF unread > Capacity THEN unread ELSE unread + 1
  /\ missed' = (missed \/ ~connected)
  /\ changed' = [changed EXCEPT ![t] = FALSE]
  /\ UNCHANGED <<silent, pageVars>>

Quiet == UNCHANGED <<eventVars, pageVars>>

\* The stream ends: recv() answers Lagged, or the connection breaks.  What it has not
\* delivered is lost; where nothing waits, the end is put off until something does.
StreamEnds ==
  /\ connected /\ unread > 0
  /\ connected' = FALSE
  /\ unread' = 0
  /\ missed' = TRUE
  /\ UNCHANGED <<storeVars, taskVars, changed, silent, answer, view, newest, seen>>

\* The browser opens the stream (again); "connected" does not make it load.
Connect ==
  /\ ~connected /\ seen # None
  /\ connected' = TRUE
  /\ UNCHANGED <<storeVars, taskVars, eventVars, answer, view, newest, seen>>

-----------------------------------------------------------------------------
(* The dashboard loads the accounts.                                       *)

\* fetchAccounts sends its request, whatever other requests are under way.
Request(l) ==
  /\ answer[l] = None
  /\ answer' = [answer EXCEPT ![l] = NotYet]
  /\ newest' = l
  /\ seen' = NotYet
  /\ missed' = FALSE
  /\ silent' = FALSE
  /\ UNCHANGED <<storeVars, taskVars, changed, connected, view>>

\* The page is opened.
Open(l) == seen = None /\ Request(l) /\ UNCHANGED unread

\* An event that arrives makes the page load the accounts.
Hear(l) ==
  /\ connected /\ unread \in 1 .. Capacity
  /\ unread' = unread - 1
  /\ Request(l)

Put(l, part) ==
  /\ answer' = [answer EXCEPT ![l] = part]
  /\ seen' = IF l = newest THEN part ELSE seen
  /\ UNCHANGED <<storeVars, taskVars, eventVars, connected, view, newest>>

\* list_accounts_api takes the listing
Summaries(l) ==
  /\ answer[l] = NotYet
  /\ Put(l, [a \in Accounts |-> IF listing[a] # None THEN Listed ELSE None])

\* and then reads the accounts one after the other; one whose file is being written may
\* be left out.
Serve(l, a) ==
  /\ answer[l] # None /\ answer[l][a] = Listed
  /\ \/ Put(l, [answer[l] EXCEPT ![a] = Filed(a)])
     \/ Writers(a) # {} /\ Put(l, [answer[l] EXCEPT ![a] = None])

Over(l) ==
  /\ answer' = [answer EXCEPT ![l] = None]
  /\ newest' = IF l = newest THEN None ELSE newest
  /\ UNCHANGED <<storeVars, taskVars, changed, unread, silent, connected, seen>>

\* An answer arrives, in any order, and is shown.
Answer(l) ==
  /\ answer[l] # None /\ \A a \in Accounts : answer[l][a] \notin {Todo, Listed}
  /\ view' = answer[l]
  /\ Over(l)
  /\ UNCHANGED missed

\* No answer: the page keeps what it shows.
LoadFails(l) ==
  /\ answer[l] # None
  /\ missed' = (missed \/ l = newest)
  /\ Over(l)
  /\ UNCHANGED view

-----------------------------------------------------------------------------
(* Tasks.                                                                  *)

Busy(a) == {t \in Tasks : pc[t] # "idle" /\ target[t] = a}
Free(t) == pc[t] = "idle" /\ starts < MaxStarts

Start(t, a, at) ==
  /\ pc' = [pc EXCEPT ![t] = at]
  /\ target' = [target EXCEPT ![t] = a]
  /\ step' = [step EXCEPT ![t] = "read"]
  /\ found' = [found EXCEPT ![t] = FALSE]
  /\ banned' = [banned EXCEPT ![t] = FALSE]
  /\ unhindered' = [u \in Tasks |-> IF u = t THEN Busy(a) = {}
                                    ELSE unhindered[u] /\ ~(u \in Busy(a))]
  /\ starts' = starts + 1
  /\ UNCHANGED <<storeVars, snap>>
  /\ Quiet

\* The background loop starts a probe for every account listed as Active, whether or
\* not the last one has ended.
BackgroundProbe(t, a) ==
  /\ Free(t)
  /\ listing[a] # None /\ listing[a].status = "Active"
  /\ Readable(a)
  /\ Start(t, a, "resolve")

\* /v1/quota with a token starts one for any account.
ManualProbe(t, a) == Free(t) /\ Start(t, a, "resolve")

\* The dashboard switches an account off or on, or removes it.
Administer(t, a) == Free(t) /\ \E kind \in ByHand : Start(t, a, kind)

Go(t, to) == pc' = [pc EXCEPT ![t] = to]

End(t) ==
  /\ pc[t] \in {"done", "failed"}
  /\ Go(t, "idle")
  /\ target' = [target EXCEPT ![t] = None]
  /\ found' = [found EXCEPT ![t] = FALSE]
  /\ banned' = [banned EXCEPT ![t] = FALSE]
  /\ unhindered' = [unhindered EXCEPT ![t] = FALSE]
  /\ changed' = [changed EXCEPT ![t] = FALSE]
  /\ silent' = (silent \/ (pc[t] = "failed" /\ changed[t]))
  /\ UNCHANGED <<storeVars, step, snap, starts, unread, missed, pageVars>>

-----------------------------------------------------------------------------
(* Calls of the account database.                                          *)

\* Mutant: quota data without a ban makes the account active again.
EditedReviving(kind, r) ==
  CASE kind = "quota" -> {[r EXCEPT !.status = "Active", !.disabled = FALSE, !.quota = q] : q \in Quotas}
    [] kind = "recover" /\ r.status = "Forbidden" ->
         {[r EXCEPT !.status = "Active", !.disabled = FALSE]}
    [] kind = "switch_on" -> {[r EXCEPT !.status = "Active", !.disabled = FALSE]}
    [] kind \in {"disable", "switch_off"} -> {[r EXCEPT !.disabled = TRUE]}
    [] kind \in {"ban", "forbid"} ->
         {[r EXCEPT !.status = "Forbidden", !.disabled = TRUE]}
    [] OTHER -> {r}

\* What a call makes of the record it has read.
Edited(kind, r) ==
  CASE kind = "quota" -> {[r EXCEPT !.quota = q] : q \in Quotas}
    [] kind = "recover" /\ r.status = "Forbidden" ->
         {[r EXCEPT !.status = "Active", !.disabled = FALSE]}
    [] kind = "switch_on" -> {[r EXCEPT !.status = "Active", !.disabled = FALSE]}
    [] kind \in {"disable", "switch_off"} -> {[r EXCEPT !.disabled = TRUE]}
    [] kind \in {"ban", "forbid"} ->
         {[r EXCEPT !.status = "Forbidden", !.disabled = TRUE]}
    [] OTHER -> {r}

FileOnly == {"quota", "project"}
Upserts == {"refresh", "recover"}

\* Mutant: new quota data are not announced.
AnnouncedByHand == {"disable", "forbid", "switch_off", "switch_on", "remove"}

\* Calls whose end is followed by an event: a ban in the answer of loadCodeAssist is
\* announced between its two calls.
Announced == {"disable", "forbid", "quota", "switch_off", "switch_on", "remove"}

After(kind, ok) ==
  CASE kind = "refresh" -> "find"
    [] kind = "disable" -> "ban"
    [] kind \in {"ban", "recover"} -> "project"
    [] kind = "project" -> "fetch"
    [] OTHER -> IF ok \/ kind = "forbid" THEN "done" ELSE "failed"

\* The call returns.  update_quota and the handlers of the dashboard send an event when
\* it is well; the other calls of a probe drop their error.
Return(t, ok) ==
  /\ Go(t, After(pc[t], ok))
  /\ step' = [step EXCEPT ![t] = "read"]
  /\ snap' = [snap EXCEPT ![t] = None]
  /\ IF pc[t] \in Announced /\ (ok \/ pc[t] \in {"disable", "forbid"}) THEN Send(t) ELSE Quiet

\* The file is there and is read; a removal does not need what it holds.
Read(t) ==
  /\ pc[t] \in Calls /\ step[t] = "read"
  /\ Readable(target[t]) \/ pc[t] = "remove"
  /\ snap' = [snap EXCEPT ![t] = IF pc[t] = "remove" THEN None ELSE file[target[t]]]
  /\ step' = [step EXCEPT ![t] = "write"]
  /\ changed' = [changed EXCEPT ![t] = TRUE]
  /\ UNCHANGED <<storeVars, pc, target, found, starts, banned, unhindered,
                 unread, missed, silent, pageVars>>

\* The file is gone or holds no record, or another task is writing it.
ReadFails(t) ==
  /\ pc[t] \in Calls \ {"remove"} /\ step[t] = "read"
  /\ ~Readable(target[t]) \/ Writers(target[t]) \ {t} # {}
  /\ Return(t, FALSE)
  /\ UNCHANGED <<storeVars, target, found, starts, banned, unhindered>>

\* The edited record is written over whatever the file holds by now.
Write(t) ==
  /\ pc[t] \in Calls /\ step[t] = "write"
  /\ IF pc[t] = "remove"
     THEN file' = [file EXCEPT ![target[t]] = None]
     ELSE \E r \in Edited(pc[t], snap[t]) : file' = [file EXCEPT ![target[t]] = r]
  /\ IF pc[t] \in FileOnly
     THEN Return(t, TRUE)
     ELSE /\ step' = [step EXCEPT ![t] = "list"]
          /\ snap' = [snap EXCEPT ![t] = file'[target[t]]]
          /\ UNCHANGED pc
          /\ Quiet
  /\ UNCHANGED <<listing, target, found, starts, banned, unhindered>>

\* The file cannot be opened or removed, or its content does not all get into it.
WriteFails(t) ==
  /\ pc[t] \in Calls /\ step[t] = "write"
  /\ pc[t] = "remove" => file[target[t]] # None
  /\ file' = file \/ (pc[t] # "remove" /\ file' = [file EXCEPT ![target[t]] = Torn])
  /\ Return(t, FALSE)
  /\ unhindered' = [unhindered EXCEPT ![t] = FALSE]
  /\ UNCHANGED <<listing, target, found, starts, banned>>

\* The summary follows; only an upsert lists an account anew.  The index file may fail
\* to be saved when there was something to save.
List(t) ==
  /\ pc[t] \in Calls /\ step[t] = "list"
  /\ listing' = [listing EXCEPT ![target[t]] =
                   IF pc[t] = "remove" \/ (@ = None /\ pc[t] \notin Upserts)
                   THEN None ELSE Summarised(snap[t])]
  /\ \E ok \in BOOLEAN :
       /\ ok \/ listing[target[t]] # None \/ pc[t] \in Upserts
       /\ Return(t, ok)
  /\ UNCHANGED <<file, target, found, starts, banned, unhindered>>

-----------------------------------------------------------------------------
(* refresh_quota_internal.                                                 *)

\* resolve_access_token: a cached token, or a new one that is stored with the account.
Resolve(t) ==
  /\ pc[t] = "resolve"
  /\ \/ Go(t, "find")
     \/ Readable(target[t]) /\ Go(t, "refresh")
  /\ UNCHANGED <<storeVars, target, step, snap, found, starts, banned, unhindered>>
  /\ Quiet

\* No access token, or fetchAvailableModels fails with anything but a refusal: the probe
\* returns an error and sends no event, whatever it has changed before.
ProbeFails(t) ==
  /\ pc[t] \in {"resolve", "fetch"}
  /\ Go(t, "failed")
  /\ UNCHANGED <<storeVars, target, step, snap, found, starts, banned, unhindered>>
  /\ Quiet

\* find_account_id_by_token: an account that is removed may or may not be found.
Find(t) ==
  /\ pc[t] = "find"
  /\ \E known \in BOOLEAN :
       /\ known \/ ~Readable(target[t])
                \/ \E u \in Busy(target[t]) : pc[u] = "remove"
       /\ found' = [found EXCEPT ![t] = known]
  /\ Go(t, "load")
  /\ UNCHANGED <<storeVars, target, step, snap, starts, banned, unhindered>>
  /\ Quiet

\* loadCodeAssist: no answer or no restriction; a restriction that is a ban; or one
\* that is none, which brings a banned account back.
Load(t) ==
  /\ pc[t] = "load"
  /\ IF found[t]
     THEN \/ Go(t, "project") /\ UNCHANGED banned
          \/ Go(t, "disable") /\ banned' = [banned EXCEPT ![t] = TRUE]
          \/ Go(t, "recover") /\ UNCHANGED banned
     ELSE Go(t, "fetch") /\ UNCHANGED banned
  /\ UNCHANGED <<storeVars, target, step, snap, found, starts, unhindered>>
  /\ Quiet

\* fetchAvailableModels: refused as forbidden, or quota data; nothing is stored for an
\* account it does not know.
Fetch(t) ==
  /\ pc[t] = "fetch"
  /\ IF found[t]
     THEN \/ Go(t, "forbid") /\ banned' = [banned EXCEPT ![t] = TRUE]
          \/ Go(t, "quota") /\ UNCHANGED banned
     ELSE Go(t, "failed") /\ UNCHANGED banned
  /\ UNCHANGED <<storeVars, target, step, snap, found, starts, unhindered>>
  /\ Quiet

Next ==
  \/ StreamEnds \/ Connect
  \/ \E l \in Loads :
       \/ Open(l) \/ Hear(l) \/ Summaries(l) \/ Answer(l) \/ LoadFails(l)
       \/ \E a \in Accounts : Serve(l, a)
  \/ \E t \in Tasks :
       \/ \E a \in Accounts : BackgroundProbe(t, a) \/ ManualProbe(t, a) \/ Administer(t, a)
       \/ End(t)
       \/ Read(t) \/ ReadFails(t) \/ Write(t) \/ WriteFails(t) \/ List(t)
       \/ Resolve(t) \/ ProbeFails(t) \/ Find(t) \/ Load(t) \/ Fetch(t)

Spec == Init /\ [][Next]_vars

-----------------------------------------------------------------------------
(* What probes and events promise.                                         *)

\* The page is open, nobody is at work and nothing is under way to the page.
AllIsQuiet ==
  /\ seen # None
  /\ \A t \in Tasks : pc[t] = "idle"
  /\ unread = 0
  /\ \A l \in Loads : answer[l] = None

\* When all is quiet, the load that the page asked last has read every account as it is,
\* however many tasks changed the accounts at once and however their events interleave
\* with the loads: a task sends its event after its last write, and that event makes the
\* page ask again.  It excepts what reaches nobody, each since that load was asked: an
\* event sent while the stream was closed or lost with it, a load that failed
\* (`missed'), and a task that failed after it had set about writing (`silent').  It is
\* about what the load has read, not about what the page shows in the end.
LastLoadIsFresh == AllIsQuiet /\ ~missed /\ ~silent => seen = Shown

\* The page shows what the load it asked last has read.  It does not hold: answers that
\* overtake one another are shown in the order they arrive.
ShowsLastLoad == AllIsQuiet /\ ~missed => view = seen

\* A change reaches a connected page in any case.  It does not hold: nothing is loaded
\* when the stream opens again, a load that fails is not repeated, and a task that fails
\* is silent about what it has changed.
ChangesReachThePage == AllIsQuiet /\ connected => seen = Shown

\* A ban that a probe was told of is what that probe leaves behind in the file and in the
\* listing: the calls of one probe are in an order in which none undoes it, although the
\* probe may have brought the account back before and may store quota data after.  It
\* is about the probe by itself: no other task beside it at the account, no failed write.
BanSettles ==
  \A t \in Tasks :
    pc[t] \in {"done", "failed"} /\ banned[t] /\ unhindered[t] /\ Readable(target[t]) =>
      /\ file[target[t]].status = "Forbidden" /\ file[target[t]].disabled
      /\ listing[target[t]] # None => listing[target[t]] = Summarised(file[target[t]])

=============================================================================
