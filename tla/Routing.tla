------------------------------ MODULE Routing ------------------------------
(***************************************************************************)
(* From the credential of a request to an account: AuthContext             *)
(* (cli-server/src/extractors.rs) and route_and_resolve                    *)
(* (cli-server/src/handlers/chat.rs), on top of the API keys.              *)
(*                                                                         *)
(* A request checks its credential twice, lists the accounts once and then *)
(* reads one account file after the other; calls of /v1/keys, quota        *)
(* updates, bans and removals happen in between.  Of the account database  *)
(* (AccountStore) only what routing reads is kept: the listing and the     *)
(* files, which are rewritten in place and do not parse in between.        *)
(***************************************************************************)
EXTENDS ApiKeys, SequencesExt, FiniteSetsExt

CONSTANTS
  Accounts,   \* account ids, a sequence: the order of the listing
  Token,      \* Token[a]: the refresh token of account a
  Strange,    \* a token of no account
  Requests,   \* HTTP requests
  Models,     \* model names
  Quotas,     \* the quota data an account may have
  MaxWrites   \* bound on the changes to the account database

Stock == {"none", "spent", "left", "unmapped"}  \* absent; used up; left; no internal_model
Ids == ToSet(Accounts)
DirectTokens == {Token[a] : a \in Ids} \cup {Strange}

ASSUME TokenAssumption ==
  /\ IsInjective(Accounts) /\ DOMAIN Token = Ids
  /\ \A a, b \in Ids : a # b => Token[a] # Token[b]
  /\ DirectTokens \cap Keys = {} /\ None \notin Ids
ASSUME QuotasAssumption ==
  \A q \in Quotas : q # None => /\ q.stock \in [Models -> Stock]
                               /\ q.rules \in [Models -> Models \cup {None}]
ASSUME MaxWritesAssumption == MaxWrites \in Nat

VARIABLES
  active,   \* active[a]: listed as Active and not disabled; None: not listed
  file,     \* file[a]: None, Torn or a record
  pen,      \* the account whose file is being written, or None
  writes,   \* changes so far
  phase,    \* phase[r]: where request r is
  cred,     \* cred[r]: token_or_key
  model,    \* model[r]: model_name
  list,     \* list[r]: the summaries not visited yet, by their place in the listing
  virtual,  \* virtual[r]: is_virtual_key
  name,     \* name[r]: target_model_name
  answer,   \* answer[r]: the account and the model routed to
  held,     \* history: the credential has been a key without a break
  able,     \* history: accounts that could serve r at every moment since the listing
  skewed    \* history: a record of r was searched for a name that is neither
            \* the model asked for nor what the record's rules make of it

storeVars == <<active, file, pen, writes>>
requestVars == <<phase, cred, model, list, virtual, name, answer, skewed>>
vars == <<keyVars, storeVars, requestVars, held, able>>

Summary == [at : DOMAIN Accounts, active : BOOLEAN]
Phases == {"idle", "list", "check", "visit", "routed", "direct", "refused"}
Ended == {"routed", "direct", "refused"}

TypeOK ==
  /\ KeysTypeOK
  /\ active \in [Ids -> BOOLEAN \cup {None}]
  /\ file \in [Ids -> [quota : Quotas] \cup {None, Torn}]
  /\ pen \in Ids \cup {None}
  /\ writes \in 0 .. MaxWrites
  /\ phase \in [Requests -> Phases]
  /\ cred \in [Requests -> Keys \cup DirectTokens \cup {None}]
  /\ model \in [Requests -> Models \cup {None}]
  /\ list \in [Requests -> SUBSET Summary]
  /\ name \in [Requests -> Models \cup {None}]
  /\ answer \in [Requests -> [account : Ids, model : Models] \cup {None}]
  /\ able \in [Requests -> SUBSET Ids]
  /\ virtual \in [Requests -> BOOLEAN]
  /\ held \in [Requests -> BOOLEAN]
  /\ skewed \in [Requests -> BOOLEAN]

-----------------------------------------------------------------------------
(* What an account can serve.                                              *)

Readable(f) == f \notin {None, Torn}

\* The name the record's forwarding rules give to a name.
Renamed(quota, m) == IF quota.rules[m] # None THEN quota.rules[m] ELSE m

\* The first model of that name that has quota left and an internal_model.  For a
\* direct token the quota is not looked at.
Serves(quota, m, isKey) ==
  \/ quota.stock[m] = "left"
  \/ quota.stock[m] = "spent" /\ ~isKey

CanServe(f, m) ==
  Readable(f) /\ f.quota # None /\ Serves(f.quota, Renamed(f.quota, m), TRUE)

-----------------------------------------------------------------------------
(* The account database, as far as it is read here.                        *)

Init ==
  /\ KeysInit
  /\ active = [a \in Ids |-> TRUE]
  /\ file \in [Ids -> {[quota |-> q] : q \in Quotas}]
  /\ pen = None
  /\ writes = 0
  /\ phase = [r \in Requests |-> "idle"]
  /\ cred = [r \in Requests |-> None]
  /\ model = [r \in Requests |-> None]
  /\ list = [r \in Requests |-> {}]
  /\ virtual = [r \in Requests |-> FALSE]
  /\ name = model
  /\ answer = [r \in Requests |-> None]
  /\ held = [r \in Requests |-> FALSE]
  /\ able = [r \in Requests |-> {}]
  /\ skewed = [r \in Requests |-> FALSE]

\* update_quota, update_project_id, the first half of a ban: the file is truncated.
OpenFile(a) ==
  /\ up
  /\ pen = None
  /\ Readable(file[a])
  /\ writes < MaxWrites
  /\ writes' = writes + 1
  /\ pen' = a
  /\ file' = [file EXCEPT ![a] = Torn]
  /\ able' = [r \in Requests |-> able[r] \ {a}]
  /\ UNCHANGED <<keyVars, active, requestVars, held>>

\* The file holds the account again, perhaps with another quota.
FillFile(a) ==
  /\ up
  /\ pen = a
  /\ pen' = None
  /\ \E q \in Quotas : file' = [file EXCEPT ![a] = [quota |-> q]]
  /\ UNCHANGED <<keyVars, active, writes, requestVars, held, able>>

\* A ban or its end reaches the listing.
Relist(a) ==
  /\ up
  /\ writes < MaxWrites
  /\ writes' = writes + 1
  /\ active[a] # None
  /\ active' = [active EXCEPT ![a] = ~@]
  /\ UNCHANGED <<keyVars, file, pen, requestVars, held, able>>

\* remove_account deletes the file and then the entry of the listing.
RemoveFile(a) ==
  /\ up
  /\ pen # a /\ file[a] # None
  /\ writes < MaxWrites
  /\ writes' = writes + 1
  /\ file' = [file EXCEPT ![a] = None]
  /\ able' = [r \in Requests |-> able[r] \ {a}]
  /\ UNCHANGED <<keyVars, active, pen, requestVars, held>>

Unlist(a) ==
  /\ up
  /\ file[a] = None /\ active[a] # None
  /\ active' = [active EXCEPT ![a] = None]
  /\ UNCHANGED <<keyVars, file, pen, writes, requestVars, held, able>>

-----------------------------------------------------------------------------
(* Requests.                                                               *)

Go(r, to) == phase' = [phase EXCEPT ![r] = to]

\* A request comes in; AuthContext lets it through when its credential is a key or
\* looks like a token.
Extract(r) ==
  /\ phase[r] = "idle"
  /\ ReadableKeys
  /\ \E c \in Keys \cup DirectTokens :
       /\ IsValid(c) \/ c \in DirectTokens
       /\ cred' = [cred EXCEPT ![r] = c]
       /\ held' = [held EXCEPT ![r] = IsValid(c)]
  /\ \E m \in Models : /\ model' = [model EXCEPT ![r] = m]
                       /\ name' = [name EXCEPT ![r] = m]
  /\ Go(r, "list")
  /\ UNCHANGED <<keyVars, storeVars, list, virtual, answer, able, skewed>>

\* Mutant: a removed account stays in the listing.
ListRemoved(r) ==
  /\ phase[r] = "list"
  /\ list' = [list EXCEPT ![r] =
                {[at |-> i, active |-> active[Accounts[i]]] : i \in DOMAIN Accounts}]
  /\ able' = [able EXCEPT ![r] =
                {a \in Ids : active[a] # None /\ active[a] /\ CanServe(file[a], model[r])}]
  /\ Go(r, "check")
  /\ UNCHANGED <<keyVars, storeVars, cred, model, virtual, name, answer, held, skewed>>

\* list_accounts: one consistent copy of the listing.
List(r) ==
  /\ phase[r] = "list"
  /\ LET listed == {i \in DOMAIN Accounts : active[Accounts[i]] # None}
     IN  list' = [list EXCEPT ![r] = {[at |-> i, active |-> active[Accounts[i]]] : i \in listed}]
  /\ able' = [able EXCEPT ![r] =
                {a \in Ids : active[a] # None /\ active[a] /\ CanServe(file[a], model[r])}]
  /\ Go(r, "check")
  /\ UNCHANGED <<keyVars, storeVars, cred, model, virtual, name, answer, held, skewed>>

\* Mutant: the second check asks the file.
CheckKeyStored(r) ==
  /\ phase[r] = "check"
  /\ ReadableKeys
  /\ virtual' = [virtual EXCEPT ![r] = keyFile \notin {None, Torn} /\ cred[r] \in keyFile]
  /\ Go(r, "visit")
  /\ UNCHANGED <<keyVars, storeVars, cred, model, list, name, answer, held, able, skewed>>

\* The second look at the keys decides which kind of credential this is.
CheckKey(r) ==
  /\ phase[r] = "check"
  /\ ReadableKeys
  /\ virtual' = [virtual EXCEPT ![r] = IsValid(cred[r])]
  /\ Go(r, "visit")
  /\ UNCHANGED <<keyVars, storeVars, cred, model, list, name, answer, held, able, skewed>>

\* The summary s is the next to be visited.
Turn(r, s) == phase[r] = "visit" /\ s \in list[r] /\ \A u \in list[r] : s.at <= u.at

\* The next account is passed over: not eligible for a key, its file unreadable, not
\* the owner of the token, or without quota data.
Pass(r, s) ==
  /\ Turn(r, s)
  /\ LET a == Accounts[s.at]
         f == file[a]
     IN  \/ virtual[r] /\ ~s.active
         \/ ~Readable(f)
         \/ ~virtual[r] /\ Token[a] # cred[r]
         \/ Readable(f) /\ f.quota = None
  /\ list' = [list EXCEPT ![r] = @ \ {s}]
  /\ UNCHANGED <<keyVars, storeVars, phase, cred, model, virtual, name, answer,
                 held, able, skewed>>

Candidate(r, s) ==
  /\ Turn(r, s)
  /\ virtual[r] => s.active
  /\ Readable(file[Accounts[s.at]])
  /\ ~virtual[r] => Token[Accounts[s.at]] = cred[r]
  /\ file[Accounts[s.at]].quota # None

\* Mutant: an account that does not serve takes the next one with it.
ConsiderSkipping(r, s) ==
  /\ Candidate(r, s)
  /\ LET a == Accounts[s.at]
         quota == file[a].quota
         m == Renamed(quota, name[r])
     IN  /\ name' = [name EXCEPT ![r] = m]
         /\ skewed' = [skewed EXCEPT ![r] = @ \/ m # Renamed(quota, model[r])]
         /\ IF Serves(quota, m, virtual[r])
            THEN /\ Go(r, "routed")
                 /\ answer' = [answer EXCEPT ![r] = [account |-> a, model |-> m]]
                 /\ list' = [list EXCEPT ![r] = {}]
            ELSE /\ list' = [list EXCEPT ![r] = {u \in @ : u.at > s.at + 1}]
                 /\ UNCHANGED <<phase, answer>>
  /\ UNCHANGED <<keyVars, storeVars, cred, model, virtual, held, able>>

\* The next account is considered: its rules rename the model, for the accounts
\* after it as well; it is taken if it serves the name.
Consider(r, s) ==
  /\ Candidate(r, s)
  /\ LET a == Accounts[s.at]
         quota == file[a].quota
         m == Renamed(quota, name[r])
     IN  /\ name' = [name EXCEPT ![r] = m]
         /\ skewed' = [skewed EXCEPT ![r] = @ \/ m # Renamed(quota, model[r])]
         /\ IF Serves(quota, m, virtual[r])
            THEN /\ Go(r, "routed")
                 /\ answer' = [answer EXCEPT ![r] = [account |-> a, model |-> m]]
                 /\ list' = [list EXCEPT ![r] = {}]
            ELSE /\ list' = [list EXCEPT ![r] = @ \ {s}]
                 /\ UNCHANGED <<phase, answer>>
  /\ UNCHANGED <<keyVars, storeVars, cred, model, virtual, held, able>>

\* No account is left: a key is refused, anything else is used as a token.
RunOut(r) ==
  /\ phase[r] = "visit" /\ list[r] = {}
  /\ Go(r, IF virtual[r] THEN "refused" ELSE "direct")
  /\ UNCHANGED <<keyVars, storeVars, cred, model, list, virtual, name, answer,
                 held, able, skewed>>

\* A death of the process ends its requests.
Die ==
  /\ Crash
  /\ phase' = [r \in Requests |-> IF phase[r] \in Ended THEN phase[r] ELSE "idle"]
  /\ pen' = None
  /\ list' = [r \in Requests |-> {}]
  /\ held' = [r \in Requests |-> FALSE]
  /\ able' = [r \in Requests |-> {}]
  /\ cred' = [r \in Requests |-> IF phase[r] \in Ended THEN cred[r] ELSE None]
  /\ virtual' = [r \in Requests |-> FALSE]
  /\ skewed' = [r \in Requests |-> FALSE]
  /\ model' = [r \in Requests |-> IF phase[r] \in Ended THEN model[r] ELSE None]
  /\ name' = [r \in Requests |-> IF phase[r] \in Ended THEN name[r] ELSE None]
  /\ UNCHANGED <<active, file, writes, answer>>

\* Keys change under the requests.
ChangeKeys ==
  /\ KeysNext
  /\ held' = [r \in Requests |-> held[r] /\ cred[r] \in keys']
  /\ UNCHANGED <<storeVars, requestVars, able>>

Next ==
  \/ ChangeKeys
  \/ Die
  \/ \E a \in Ids :
       OpenFile(a) \/ FillFile(a) \/ Relist(a) \/ RemoveFile(a) \/ Unlist(a)
  \/ \E r \in Requests :
       \/ Extract(r) \/ List(r) \/ CheckKey(r) \/ RunOut(r)
       \/ \E s \in list[r] : Pass(r, s) \/ Consider(r, s)

Spec == Init /\ [][Next]_vars

-----------------------------------------------------------------------------
(* What routing promises.                                                  *)

\* A request with a key is refused only when no account could have served it: none
\* that was listed as usable, kept a readable file and had quota for the model all
\* the while.  It takes accounts whose forwarding rules agree on the model.
RefusedOnlyWhenExhausted ==
  \A r \in Requests : phase[r] = "refused" /\ ~skewed[r] => able[r] = {}

\* A key is sent to Google in place of a token (the direct mode at the end of
\* route_and_resolve) only if it was deleted or replaced while the request was
\* between the two checks.
KeyNotUsedAsToken ==
  \A r \in Requests : phase[r] = "direct" /\ cred[r] \in Keys => ~held[r]

=============================================================================
