---------------------------- MODULE AccountStore ----------------------------
(***************************************************************************)
(* The account database of ls-accounts/src/store.rs (AccountManager): one  *)
(* file per account, the index accounts.json, the index in memory with the *)
(* rotation position, and the token -> account map.                        *)
(*                                                                         *)
(* A task is one call of an operation that changes the store, made by an   *)
(* HTTP handler or a background loop; tasks interleave at every .await.    *)
(* Account files have no lock: an operation reads the file, edits the      *)
(* record and writes it back.  The index has a write lock, held from the   *)
(* edit in memory to the end of the save.                                  *)
(*                                                                         *)
(* tokio::fs::write truncates the file and then fills it; a file caught    *)
(* between the two does not parse (Torn).  The access and the refresh      *)
(* token of an account are written and removed together, and are one       *)
(* token here.  Label, quota, project id and device profile are carried by *)
(* the record as a whole and decide nothing: they are left out.            *)
(***************************************************************************)
EXTENDS Naturals, FiniteSets, SequencesExt

CONSTANTS
  Accounts,  \* account ids: md5 of the e-mail address
  Tokens,    \* OAuth tokens
  Tasks,     \* calls of an operation that writes
  Crashes,   \* bound: how often the process may die
  None,
  Torn       \* the content of a file that is only partly written

ASSUME SetsAssumption ==
  IsFiniteSet(Accounts) /\ IsFiniteSet(Tokens) /\ IsFiniteSet(Tasks)
ASSUME SentinelAssumption ==
  /\ None \notin Accounts \cup Tasks
  /\ Torn # None
ASSUME CrashesAssumption == Crashes \in Nat

VARIABLES
  file,      \* file[a]: accounts/a.json: None, Torn or an account
  disk,      \* accounts.json: Torn, or the listing and the rotation position
  index,     \* index.accounts in memory: the listing, a sequence of summaries
  current,   \* index.current_account_id
  tokenMap,  \* token_map: token -> account id or None
  lock,      \* the task that holds the write lock of the index, or None
  op,        \* op[t]: the kind of operation t runs
  target,    \* target[t]: the account it runs on
  snap,      \* snap[t]: the record it read and edited
  pc,        \* pc[t]: where it is
  up,        \* the process runs
  crashes,   \* deaths so far
  handed     \* history: the last accounts get_best_account gave out

memory == <<index, current, tokenMap, lock>>
task == <<op, target, snap, pc>>
vars == <<file, disk, memory, task, up, crashes, handed>>

Status == {"Active", "Forbidden"}
Record == [status : Status, disabled : BOOLEAN, token : Tokens]
Summary == [id : Accounts, status : Status, disabled : BOOLEAN]
Listing == [accounts : Seq(Summary), current : Accounts \cup {None}]

\* Operations by what they do after the read: write the file only; upsert the
\* whole record; edit the status in the summary; save the index as it is.
FileOnly == {"quota"}                           \* update_quota, update_project_id
Upserts == {"import", "profile", "refresh", "recover"}
StatusEdits == {"disable", "enable", "forbid"}
Edits == FileOnly \cup (Upserts \ {"import"}) \cup StatusEdits \cup {"label"}
Kinds == Edits \cup {"import", "remove", "reorder"}
PCs == {"idle", "open", "fill", "void", "forget", "unlink", "lock", "save",
        "done", "failed"}

Readable(a) == file[a] \notin {None, Torn}
Ids(seq) == {seq[i].id : i \in DOMAIN seq}
Listed == Ids(index)
Eligible(s) == s.status = "Active" /\ ~s.disabled

\* A set of positions in their order.
Ordered(K) == CHOOSE seq \in SetToSeqs(K) : \A i, j \in DOMAIN seq : i < j => seq[i] < seq[j]
EligibleOf(seq) == LET places == Ordered({i \in DOMAIN seq : Eligible(seq[i])})
                   IN  [i \in DOMAIN places |-> seq[places[i]].id]
Candidates == EligibleOf(index)

TypeOK ==
  /\ file \in [Accounts -> Record \cup {None, Torn}]
  /\ disk \in Listing \cup {Torn}
  /\ index \in Seq(Summary)
  /\ current \in Accounts \cup {None}
  /\ tokenMap \in [Tokens -> Accounts \cup {None}]
  /\ lock \in Tasks \cup {None}
  /\ op \in [Tasks -> Kinds \cup {None}]
  /\ target \in [Tasks -> Accounts \cup {None}]
  /\ snap \in [Tasks -> Record \cup {None}]
  /\ pc \in [Tasks -> PCs]
  /\ up \in BOOLEAN
  /\ crashes \in 0 .. Crashes
  /\ handed \in Seq(Accounts)

\* The process has not started yet.  The disk holds what earlier runs may have
\* left when they ended in peace: some accounts, listed in some order.
Init ==
  \E order \in SetToAllKPermutations(Accounts), own \in [Accounts -> Tokens] :
    /\ file = [a \in Accounts |->
                IF a \in ToSet(order)
                THEN [status |-> "Active", disabled |-> FALSE, token |-> own[a]]
                ELSE None]
    /\ disk = [accounts |-> [i \in DOMAIN order |->
                              [id |-> order[i], status |-> "Active", disabled |-> FALSE]],
               current |-> IF order = <<>> THEN None ELSE order[1]]
    /\ index = <<>>
    /\ current = None
    /\ tokenMap = [k \in Tokens |-> None]
    /\ lock = None
    /\ op = [t \in Tasks |-> None]
    /\ target = [t \in Tasks |-> None]
    /\ snap = [t \in Tasks |-> None]
    /\ pc = [t \in Tasks |-> "idle"]
    /\ up = FALSE
    /\ crashes = 0
    /\ handed = <<>>

-----------------------------------------------------------------------------
(* Task steps outside the index lock.                                      *)

Go(t, to) == pc' = [pc EXCEPT ![t] = to]

Start(t, kind, a) ==
  /\ up /\ pc[t] = "idle"
  /\ op' = [op EXCEPT ![t] = kind]
  /\ target' = [target EXCEPT ![t] = a]
  /\ UNCHANGED <<file, disk, index, current, lock, up, crashes, handed>>

\* What the edit of an operation makes of the record it has read.
Edited(kind, r) ==
  CASE kind = "refresh" -> {[r EXCEPT !.token = k] : k \in Tokens}
    [] kind \in {"enable", "recover"} /\ r.status = "Forbidden" ->
         {[r EXCEPT !.status = "Active", !.disabled = FALSE]}
    [] kind = "enable" /\ r.status # "Forbidden" -> {[r EXCEPT !.disabled = FALSE]}
    [] kind = "disable" -> {[r EXCEPT !.disabled = TRUE]}
    [] kind = "forbid"  -> {[r EXCEPT !.status = "Forbidden", !.disabled = TRUE]}
    [] OTHER -> {r}

\* Mutant: a login whose answer has no token is upserted all the same.
ImportWithoutToken(t) ==
  \E a \in Accounts :
    /\ Start(t, "import", a)
    /\ snap' = [snap EXCEPT ![t] = [status |-> "Active", disabled |-> FALSE, token |-> None]]
    /\ Go(t, "open")
    /\ UNCHANGED tokenMap

\* A login or an import builds a new record for the account and upserts it.
Import(t) ==
  \E a \in Accounts, k \in Tokens :
    /\ Start(t, "import", a)
    /\ snap' = [snap EXCEPT ![t] = [status |-> "Active", disabled |-> FALSE, token |-> k]]
    /\ Go(t, "open")
    /\ UNCHANGED tokenMap

\* get_account, then the edit.  A missing or unreadable file ends the operation.
Load(t) ==
  \E kind \in Edits, a \in Accounts :
    /\ Start(t, kind, a)
    /\ IF Readable(a)
       THEN \E r \in Edited(kind, file[a]) :
              /\ snap' = [snap EXCEPT ![t] = r]
              /\ Go(t, "open")
       ELSE Go(t, "failed") /\ UNCHANGED snap
    /\ UNCHANGED tokenMap

\* remove_account reads the file for its tokens and goes on without them when
\* it cannot be read.
LoadForRemoval(t) ==
  \E a \in Accounts :
    /\ Start(t, "remove", a)
    /\ IF Readable(a)
       THEN snap' = [snap EXCEPT ![t] = file[a]] /\ Go(t, "forget")
       ELSE UNCHANGED snap /\ Go(t, IF file[a] = Torn THEN "unlink" ELSE "lock")
    /\ UNCHANGED tokenMap

\* The tokens leave the map; the existence of the file is tested in the same poll.
Forget(t) ==
  /\ up /\ pc[t] = "forget"
  /\ tokenMap' = [tokenMap EXCEPT ![snap[t].token] = None]
  /\ Go(t, IF file[target[t]] # None THEN "unlink" ELSE "lock")
  /\ UNCHANGED <<file, disk, index, current, lock, op, target, snap, up, crashes, handed>>

\* remove_file fails when another task has removed the file since.  Whoever has
\* it open for writing fills a file that has no name any more.
Unlink(t) ==
  /\ up /\ pc[t] = "unlink"
  /\ IF file[target[t]] = None
     THEN Go(t, "failed")
     ELSE pc' = [u \in Tasks |->
                  IF u = t THEN "lock"
                  ELSE IF pc[u] = "fill" /\ target[u] = target[t] THEN "void"
                  ELSE pc[u]]
  /\ file' = [file EXCEPT ![target[t]] = None]
  /\ UNCHANGED <<disk, memory, op, target, snap, up, crashes, handed>>

\* fs::write of the account file opens and truncates it ...
Truncate(t) ==
  /\ up /\ pc[t] = "open"
  /\ file' = [file EXCEPT ![target[t]] = Torn]
  /\ Go(t, "fill")
  /\ UNCHANGED <<disk, memory, op, target, snap, up, crashes, handed>>

\* ... and fills it.  Over what another task has filled in since, a shorter text
\* leaves a tail of the longer one.
Fill(t) ==
  /\ up /\ pc[t] \in {"fill", "void"}
  /\ IF pc[t] = "void"
     THEN UNCHANGED file
     ELSE \E content \in {snap[t]} \cup (IF Readable(target[t]) THEN {Torn} ELSE {}) :
            file' = [file EXCEPT ![target[t]] = content]
  /\ Go(t, IF op[t] \in FileOnly THEN "done" ELSE "lock")
  /\ UNCHANGED <<disk, memory, op, target, snap, up, crashes, handed>>

-----------------------------------------------------------------------------
(* The index: one write lock from the edit to the end of the save.         *)

Summarise(t) == [id |-> target[t], status |-> snap[t].status, disabled |-> snap[t].disabled]

Replaced(s) == [i \in DOMAIN index |-> IF index[i].id = s.id THEN s ELSE index[i]]

\* position() of the account in the index; it is listed once (IndexWellFormed).
PlaceOf(a) == CHOOSE i \in DOMAIN index : index[i].id = a

Without(a) == IF a \in Listed THEN RemoveAt(index, PlaceOf(a)) ELSE index

\* Mutant: an upsert always appends.
WithAppended(s) == Append(index, s)

\* Upsert: replace the summary in place or append it.
With(s) == IF s.id \in Listed THEN Replaced(s) ELSE Append(index, s)

\* Mutant: accounts the caller did not name are dropped.
ReorderedOnlyNamed(wanted) ==
  {[i \in DOMAIN order |-> CHOOSE s \in ToSet(index) : s.id = order[i]]
     : order \in {SelectSeq(wanted, LAMBDA a : a \in Listed)}}

\* The ids given come first, in their order.
NamedFirst(order, wanted) ==
  \A i, j \in DOMAIN order :
    i < j /\ order[j] \in ToSet(wanted) =>
      \E m, n \in DOMAIN wanted : m < n /\ wanted[m] = order[i] /\ wanted[n] = order[j]

\* reorder_accounts: the rest follow in the order of a hash map.
Reordered(wanted) ==
  LET Of(a) == CHOOSE s \in ToSet(index) : s.id = a
  IN  {[i \in DOMAIN order |-> Of(order[i])]
         : order \in {o \in SetToSeqs(Listed) : NamedFirst(o, wanted)}}

\* The index after the edit of task t, the rotation position, and whether the
\* operation saves the index (upsert and reorder always, the others when they
\* have found the account).
IndexEdits(t) ==
  LET a == target[t] IN
  CASE op[t] \in Upserts ->
         {[accounts |-> With(Summarise(t)),
           current |-> IF current = None THEN a ELSE current, save |-> TRUE]}
    [] op[t] \in StatusEdits ->
         {[accounts |-> Replaced(Summarise(t)), current |-> current, save |-> a \in Listed]}
    [] op[t] = "label" ->
         {[accounts |-> index, current |-> current, save |-> a \in Listed]}
    [] op[t] = "remove" ->
         {[accounts |-> Without(a),
           current |-> IF current # a THEN current
                       ELSE IF Without(a) = <<>> THEN None ELSE Without(a)[1].id,
           save |-> a \in Listed]}
    [] op[t] = "reorder" ->
         {[accounts |-> seq, current |-> current, save |-> TRUE]
            : seq \in UNION {Reordered(wanted) : wanted \in SetToAllKPermutations(Accounts)}}

\* A change of the candidates starts a new rotation.
KeepRotation == handed' = IF Candidates' = Candidates THEN handed ELSE <<>>

\* The lock is free: edit the index and begin the save, or finish without one.
EditIndex(t) ==
  /\ up /\ pc[t] = "lock" /\ lock = None
  /\ \E e \in IndexEdits(t) :
       /\ index' = e.accounts
       /\ current' = e.current
       /\ disk' = IF e.save THEN Torn ELSE disk
       /\ lock' = IF e.save THEN t ELSE None
       /\ Go(t, IF e.save THEN "save" ELSE "done")
  /\ KeepRotation
  /\ UNCHANGED <<file, tokenMap, op, target, snap, up, crashes>>

\* The save ends; an upsert enters its token into the map before the lock goes.
Save(t) ==
  /\ up /\ pc[t] = "save"
  /\ disk' = [accounts |-> index, current |-> current]
  /\ lock' = None
  /\ tokenMap' = IF op[t] \in Upserts
                 THEN [tokenMap EXCEPT ![snap[t].token] = target[t]]
                 ELSE tokenMap
  /\ Go(t, "done")
  /\ UNCHANGED <<file, index, current, op, target, snap, up, crashes, handed>>

\* The account file cannot be opened, or a write fails after the truncation (a full
\* disk): the operation ends there, with the memory as it is.
WriteFails(t) ==
  /\ up /\ pc[t] \in {"open", "fill", "void", "save"}
  /\ lock' = IF pc[t] = "save" THEN None ELSE lock
  /\ Go(t, "failed")
  /\ UNCHANGED <<file, disk, index, current, tokenMap, op, target, snap, up, crashes, handed>>

StartReorder(t) ==
  /\ Start(t, "reorder", None)
  /\ Go(t, "lock")
  /\ UNCHANGED <<tokenMap, snap>>

\* Mutant: the search starts at the rotation position itself.
NextOfSame(seq) == IF current \in ToSet(seq) THEN current ELSE seq[1]

\* get_best_account: the next candidate after the current one.  The lock is held
\* until the file of the account has been read, so it is one step.
NextOf(seq) ==
  LET pos == IF current \in ToSet(seq)
             THEN CHOOSE i \in DOMAIN seq : seq[i] = current ELSE 1
  IN  seq[(pos % Len(seq)) + 1]

GetBest ==
  /\ up /\ lock = None /\ Candidates # <<>>
  /\ current' = NextOf(Candidates)
  /\ handed' = Append(IF Len(handed) = Len(Candidates) THEN Tail(handed) ELSE handed,
                      current')
  /\ UNCHANGED <<file, disk, index, tokenMap, lock, task, up, crashes>>

-----------------------------------------------------------------------------
(* Death and restart.                                                      *)

\* The process dies anywhere, also inside a write.
Crash ==
  /\ up /\ crashes < Crashes
  /\ up' = FALSE
  /\ crashes' = crashes + 1
  /\ index' = <<>> /\ current' = None
  /\ tokenMap' = [k \in Tokens |-> None]
  /\ lock' = None
  /\ pc' = [t \in Tasks |-> IF pc[t] \in {"idle", "done"} THEN pc[t] ELSE "failed"]
  /\ handed' = <<>>
  /\ UNCHANGED <<file, disk, op, target, snap>>

\* accounts.json as AccountManager::new reads it: what does not parse is an empty
\* index.
Loaded == IF disk = Torn THEN [accounts |-> <<>>, current |-> None] ELSE disk

\* Mutant: the disabled flag is not taken from the file either.
SyncedLabelOnly == Loaded.accounts

\* new() takes label and is_proxy_disabled from the account file, not status.
Synced == [i \in DOMAIN Loaded.accounts |->
            LET s == Loaded.accounts[i]
            IN  IF Readable(s.id) THEN [s EXCEPT !.disabled = file[s.id].disabled] ELSE s]

\* The account a token leads to: of two listed with it the one listed last.
OwnerOf(k) ==
  LET holders == {i \in DOMAIN Synced : /\ Readable(Synced[i].id)
                                        /\ file[Synced[i].id].token = k}
  IN  IF holders = {} THEN None ELSE Synced[Max(holders)].id

Restart ==
  /\ ~up
  /\ up' = TRUE
  /\ index' = Synced
  /\ current' = Loaded.current
  /\ disk' = IF Synced = Loaded.accounts THEN disk
             ELSE [accounts |-> Synced, current |-> Loaded.current]
  /\ tokenMap' = [k \in Tokens |-> OwnerOf(k)]
  /\ UNCHANGED <<file, lock, task, crashes, handed>>

\* The process dies again while new() saves the synced index.
CrashInRestart ==
  /\ ~up /\ crashes < Crashes /\ Synced # Loaded.accounts
  /\ crashes' = crashes + 1
  /\ disk' = Torn
  /\ UNCHANGED <<file, memory, task, up, handed>>

-----------------------------------------------------------------------------
TaskStep(t) ==
  \/ Import(t) \/ Load(t) \/ LoadForRemoval(t) \/ StartReorder(t)
  \/ Forget(t) \/ Unlink(t) \/ Truncate(t) \/ Fill(t)
  \/ EditIndex(t) \/ Save(t) \/ WriteFails(t)

Next == (\E t \in Tasks : TaskStep(t)) \/ GetBest \/ Crash \/ Restart \/ CrashInRestart

Spec == Init /\ [][Next]_vars

-----------------------------------------------------------------------------
(* What holds.                                                             *)

\* The listing names no account twice, and the rotation position is one of its
\* accounts, or nothing exactly when it is empty: whatever upserts, removals,
\* reorderings and restarts ran (store.rs:105-113, 166-173, 346-365).
IndexWellFormed ==
  up => /\ \A i, j \in DOMAIN index : index[i].id = index[j].id => i = j
        /\ IF index = <<>> THEN current = None ELSE current \in Listed

\* get_best_account gives every candidate a turn before one gets a second: as
\* long as the candidates stay, the last |candidates| accounts handed out differ,
\* also when the rotation stood at a disabled or removed account.
RotationFair == IsInjective(handed)

\* While the process runs an account leaves the listing only by a removal of
\* that account: a reorder with an outdated list loses nobody (store.rs:362).
OnlyRemovalUnlists ==
  [][up /\ up' => \A a \in Listed \ Listed' :
       \E t \in Tasks : op[t] = "remove" /\ target[t] = a /\ pc[t] = "lock"]_vars

\* After a restart no account whose file says Forbidden is routed to, wherever
\* the process died: marking writes the file first, and new() brings the flag
\* from the file into the index (store.rs:55-58, 383-404).
RestartHonoursBan ==
  [][~up /\ up' => \A s \in ToSet(index') :
       (Readable(s.id) /\ file[s.id].status = "Forbidden") => ~Eligible(s)]_vars

(* What the documentation says and the code does not do.                   *)

\* README.md:78: "account ordering" is "protected by atomic writes to prevent
\* configuration corruption from power loss": a death leaves a whole accounts.json.
OrderingSurvivesPowerLoss == ~up => disk # Torn

\* probes.rs:352 wants the banned state persisted, so that it is not lost.  Once an
\* account has been marked forbidden, and nothing that enables accounts or creates
\* them has been called, the account is not routed to and its file says Forbidden
\* when all operations are through.
BanPersisted ==
  (up /\ \A t \in Tasks : pc[t] = "done") =>
    \A t \in Tasks :
      (op[t] = "forbid" /\ \A u \in Tasks : op[u] \notin {"enable", "recover", "import", "remove"})
        => file[target[t]].status = "Forbidden"
=============================================================================
