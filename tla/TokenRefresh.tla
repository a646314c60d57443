---------------------------- MODULE TokenRefresh ----------------------------
(***************************************************************************)
(* Where access tokens come from: resolve_access_token of                  *)
(* cli-server/src/handlers/mod.rs with its lock per refresh token, and the *)
(* exchanges other code makes with the same refresh tokens: an import      *)
(* (handlers/auth.rs) and the start and the renewal of a language server   *)
(* (ls-orchestrator/src/native.rs).                                        *)
(*                                                                         *)
(* The account store is seen through the one file that holds the refresh   *)
(* token; another store operation may read it, and later truncate it and   *)
(* fill it with what it had read (see AccountStore).  Access tokens are    *)
(* numbered in the order Google issues them; Blank is the empty string an  *)
(* answer without access_token is turned into.  A token is expired from    *)
(* the moment the five-minute buffer before its end begins.                *)
(***************************************************************************)
EXTENDS Naturals, FiniteSets

CONSTANTS
  Callers,        \* calls of resolve_access_token
  Importers,      \* calls of manual_import_account_core
  Instances,      \* exchanges made by the start or renewal of an instance
  RefreshTokens,
  Clients,        \* how many OAuth clients an exchange may try
  Blank,
  None

Parties == Callers \cup Importers \cup Instances

ASSUME PartiesAssumption ==
  /\ IsFiniteSet(Parties)
  /\ Callers \cap (Importers \cup Instances) = {}
  /\ Importers \cap Instances = {}
ASSUME ClientsAssumption == Clients \in Nat \ {0}
ASSUME SentinelAssumption ==
  /\ None \notin Nat \cup Parties \cup {Blank}
  /\ Blank \notin Nat

VARIABLES
  stored,     \* stored[k]: the access token in the file of the account with k, or None
  copy,       \* copy[k]: what another operation has read and not yet written
              \* back, or None
  issued,     \* how many access tokens Google has issued
  expired,    \* the issued tokens that are past the buffer
  lock,       \* lock[k]: who holds the refresh lock of k, or None
  rt,         \* rt[p]: the refresh token p presents
  pc,         \* pc[p]: where p is
  found,      \* found[c]: target_account is Some
  got,        \* got[p]: the access token p has obtained and will store, or None
  tries,      \* tries[p]: OAuth clients p has tried in vain
  refreshed   \* history: refreshed[k]: callers that stored a usable token of k
              \* since it was last unusable or the file was last written by others

file == <<stored, copy>>
party == <<rt, pc, found, got, tries>>
vars == <<file, issued, expired, lock, party, refreshed>>

AccessTokens == Nat \cup {Blank}
Usable(tok) == tok \in Nat /\ tok \notin expired

\* Somebody may be in the middle of writing the file of k.
BeingWritten(k) ==
  copy[k] # None \/ \E p \in Callers \cup Importers : pc[p] = "write" /\ rt[p] = k

\* What get_account may find: a file that is only partly written does not parse,
\* which the callers treat like a missing account.
Reads(k) == {stored[k]} \cup (IF BeingWritten(k) THEN {None} ELSE {})

\* What a write of tok leaves in the file of k: the token, or, when it fails, what
\* was there or a file that does not parse.
Written(k, tok) == {tok, stored[k], None}

TypeOK ==
  /\ stored \in [RefreshTokens -> AccessTokens \cup {None}]
  /\ copy \in [RefreshTokens -> AccessTokens \cup {None}]
  /\ issued \in Nat
  /\ expired \subseteq 0 .. issued
  /\ lock \in [RefreshTokens -> Callers \cup {None}]
  /\ rt \in [Parties -> RefreshTokens]
  /\ pc \in [Parties -> {"start", "lookup", "queue", "recheck", "ask", "write", "done",
                          "failed"}]
  /\ found \in [Callers -> BOOLEAN]
  /\ got \in [Parties -> AccessTokens \cup {None}]
  /\ tries \in [Parties -> 0 .. Clients]
  /\ refreshed \in [RefreshTokens -> SUBSET Callers]

\* Some accounts are stored; their token 0 may have expired since.
Init ==
  /\ stored \in [RefreshTokens -> {0, None}]
  /\ copy = [k \in RefreshTokens |-> None]
  /\ issued = 1
  /\ expired \in {{}, {0}}
  /\ lock = [k \in RefreshTokens |-> None]
  /\ rt \in [Parties -> RefreshTokens]
  /\ pc = [p \in Parties |-> IF p \in Callers THEN "lookup" ELSE "start"]
  /\ found = [c \in Callers |-> FALSE]
  /\ got = [p \in Parties |-> None]
  /\ tries = [p \in Parties |-> 0]
  /\ refreshed = [k \in RefreshTokens |-> {}]
-----------------------------------------------------------------------------
(* resolve_access_token.                                                   *)

\* Somebody else writes the account of k.
Others(k) == refreshed' = [refreshed EXCEPT ![k] = {}]

Go(p, to) == pc' = [pc EXCEPT ![p] = to]

\* The scan of the accounts for the refresh token: a usable token is returned at
\* once; the account is remembered as it was read.
Lookup(c) ==
  /\ pc[c] = "lookup"
  /\ \E tok \in Reads(rt[c]) :
       IF Usable(tok)
       THEN Go(c, "done") /\ UNCHANGED found
       ELSE found' = [found EXCEPT ![c] = tok # None] /\ Go(c, "queue")
  /\ UNCHANGED <<file, issued, expired, lock, rt, got, tries, refreshed>>

\* Mutant: every call makes a mutex of its own.
LockUnshared(c) ==
  /\ pc[c] = "queue"
  /\ lock' = [lock EXCEPT ![rt[c]] = c]
  /\ Go(c, IF found[c] THEN "recheck" ELSE "ask")
  /\ UNCHANGED <<file, issued, expired, rt, found, got, tries, refreshed>>

\* The mutex of the refresh token.  Only a caller that found an account looks again.
Lock(c) ==
  /\ pc[c] = "queue"
  /\ lock[rt[c]] = None
  /\ lock' = [lock EXCEPT ![rt[c]] = c]
  /\ Go(c, IF found[c] THEN "recheck" ELSE "ask")
  /\ UNCHANGED <<file, issued, expired, rt, found, got, tries, refreshed>>

\* The guard of the mutex is dropped where the function returns.
Return(c, to) ==
  /\ Go(c, to)
  /\ lock' = [lock EXCEPT ![rt[c]] = None]

\* Mutant: nobody looks again once the lock is held.
RecheckNothing(c) ==
  /\ pc[c] = "recheck"
  /\ Go(c, "ask")
  /\ UNCHANGED <<file, issued, expired, lock, rt, found, got, tries, refreshed>>

\* The double check: another caller may have refreshed the token meanwhile.
Recheck(c) ==
  /\ pc[c] = "recheck"
  /\ \E tok \in Reads(rt[c]) :
       /\ IF Usable(tok) THEN Return(c, "done") ELSE Go(c, "ask") /\ UNCHANGED lock
       /\ IF tok = stored[rt[c]] THEN UNCHANGED refreshed ELSE Others(rt[c])
  /\ UNCHANGED <<file, issued, expired, rt, found, got, tries>>

\* upsert_account with the account as it was read before the lock and the new
\* token: it also brings back an account that was removed meanwhile.
Write(c) ==
  /\ pc[c] = "write" /\ c \in Callers
  /\ LET k == rt[c]
     IN  /\ stored' = [stored EXCEPT ![k] = got[c]]
         /\ refreshed' = [refreshed EXCEPT ![k] = IF Usable(got[c]) THEN @ \cup {c} ELSE {}]
  /\ Return(c, "done")
  /\ got' = [got EXCEPT ![c] = None]
  /\ UNCHANGED <<copy, issued, expired, rt, found, tries>>

\* The upsert fails and the failure is ignored; the new token is returned.
WriteFails(c) ==
  /\ pc[c] = "write" /\ c \in Callers
  /\ stored' \in {stored, [stored EXCEPT ![rt[c]] = None]}
  /\ Return(c, "done")
  /\ got' = [got EXCEPT ![c] = None]
  /\ UNCHANGED <<copy, issued, expired, rt, found, tries, refreshed>>

-----------------------------------------------------------------------------
(* One request to the token endpoint after another, by whoever asks.       *)

\* An import, and an instance that starts or renews, asks without any lock.
Begin(p) ==
  /\ pc[p] = "start"
  /\ Go(p, "ask")
  /\ UNCHANGED <<file, issued, expired, lock, rt, found, got, tries, refreshed>>

\* A caller that found no account and an instance store nothing.
Stores(p) == p \in Importers \/ (p \in Callers /\ found[p])

\* What p does with the token it has got.
Proceed(p, tok) ==
  IF Stores(p)
  THEN got' = [got EXCEPT ![p] = tok] /\ Go(p, "write") /\ UNCHANGED lock
  ELSE /\ IF p \in Callers THEN Return(p, "done") ELSE Go(p, "done") /\ UNCHANGED lock
       /\ UNCHANGED got

\* Google answers with a token.
Answered(p) ==
  /\ pc[p] = "ask"
  /\ issued' = issued + 1
  /\ Proceed(p, issued)
  /\ UNCHANGED <<file, expired, rt, found, tries, refreshed>>

\* A success without access_token: resolve_access_token and the import take the
\* empty string for the token; the exchange of native.rs tries the next client.
AnsweredBlank(p) ==
  /\ pc[p] = "ask" /\ p \notin Instances
  /\ Proceed(p, Blank)
  /\ UNCHANGED <<file, issued, expired, rt, found, tries, refreshed>>

\* Mutant: a failed exchange returns without giving the mutex back.
RefusedLocked(p) ==
  /\ pc[p] = "ask"
  /\ tries' = [tries EXCEPT ![p] = @ + 1]
  /\ IF tries[p] + 1 < Clients THEN UNCHANGED pc ELSE Go(p, "failed")
  /\ UNCHANGED <<file, issued, expired, lock, rt, found, got, refreshed>>

\* Mutant: the loop over the clients does not stop after the last one.
RefusedForever(p) ==
  /\ pc[p] = "ask"
  /\ tries' = [tries EXCEPT ![p] = @ + 1]
  /\ UNCHANGED <<file, issued, expired, lock, rt, pc, found, got, refreshed>>

\* Refused, a network error or no JSON: the next OAuth client, or give up.
Refused(p) ==
  /\ pc[p] = "ask"
  /\ tries' = [tries EXCEPT ![p] = @ + 1]
  /\ IF tries[p] + 1 < Clients THEN UNCHANGED <<pc, lock>>
     ELSE IF p \in Callers THEN Return(p, "failed")
     ELSE Go(p, "failed") /\ UNCHANGED lock
  /\ UNCHANGED <<file, issued, expired, rt, found, got, refreshed>>

\* A success that is no JSON ends the exchange of native.rs at once, and it knows
\* fewer clients than auth.rs.
GivesUp(p) ==
  /\ pc[p] = "ask" /\ p \in Instances
  /\ Go(p, "failed")
  /\ UNCHANGED <<file, issued, expired, lock, rt, found, got, tries, refreshed>>

-----------------------------------------------------------------------------
(* The rest of the system and time.                                        *)

\* The import saves the account it has built, or fails to.
Import(p) ==
  /\ pc[p] = "write" /\ p \in Importers
  /\ \E tok \in Written(rt[p], got[p]) : stored' = [stored EXCEPT ![rt[p]] = tok]
  /\ Others(rt[p])
  /\ Go(p, "done")
  /\ got' = [got EXCEPT ![p] = None]
  /\ UNCHANGED <<copy, issued, expired, lock, rt, found, tries>>

\* Another operation reads the account (update_quota, a label, a switch of the
\* IDE), and later fills the file with what it has read.
OtherReads(k) ==
  /\ copy[k] = None /\ stored[k] # None
  /\ copy' = [copy EXCEPT ![k] = stored[k]]
  /\ UNCHANGED <<stored, issued, expired, lock, party, refreshed>>

OtherWrites(k) ==
  /\ copy[k] # None
  /\ \E tok \in Written(k, copy[k]) : stored' = [stored EXCEPT ![k] = tok]
  /\ copy' = [copy EXCEPT ![k] = None]
  /\ Others(k)
  /\ UNCHANGED <<issued, expired, lock, party>>

Remove(k) ==
  /\ stored[k] # None
  /\ stored' = [stored EXCEPT ![k] = None]
  /\ Others(k)
  /\ UNCHANGED <<copy, issued, expired, lock, party>>

\* A token that somebody still has passes the buffer before its end.
Expire(n) ==
  /\ n \notin expired
  /\ \/ \E k \in RefreshTokens : n \in {stored[k], copy[k]}
     \/ \E p \in Parties : got[p] = n
  /\ expired' = expired \cup {n}
  /\ refreshed' = [k \in RefreshTokens |-> IF stored[k] = n THEN {} ELSE refreshed[k]]
  /\ UNCHANGED <<file, issued, lock, party>>

-----------------------------------------------------------------------------
Exchange(p) == Answered(p) \/ AnsweredBlank(p) \/ Refused(p)

Resolve(c) == Lookup(c) \/ Lock(c) \/ Recheck(c) \/ Exchange(c) \/ Write(c) \/ WriteFails(c)

Next ==
  \/ \E c \in Callers : Resolve(c)
  \/ \E p \in Importers : Begin(p) \/ Exchange(p) \/ Import(p)
  \/ \E p \in Instances : Begin(p) \/ Exchange(p) \/ GivesUp(p)
  \/ \E k \in RefreshTokens :
       OtherReads(k) \/ OtherWrites(k) \/ Remove(k)
  \/ \E n \in 0 .. issued : Expire(n)

Spec == Init /\ [][Next]_vars

\* Every caller goes on: the runtime polls it, Google answers or the connection
\* fails (the client has no timeout of its own), and the mutex is handed on.
Fairness == \A c \in Callers : WF_vars(Resolve(c))

FairSpec == Spec /\ Fairness

-----------------------------------------------------------------------------
(* What holds.                                                             *)

\* Callers of resolve_access_token never exchange one refresh token at the same
\* time: from the double check to the save one of them is at it (mod.rs:122-124).
ResolveExclusive ==
  \A c, d \in Callers :
    (rt[c] = rt[d] /\ {pc[c], pc[d]} \subseteq {"recheck", "ask", "write"}) => c = d

\* As long as nobody else writes the account, only one of the callers that have
\* found it replaces a token that has expired: those that waited take what it stored
\* (mod.rs:126-136).  A caller that met a half-written file is not among them: it
\* asks Google once more and stores nothing.
RefreshedOnce ==
  \A k \in RefreshTokens : \A c, d \in refreshed[k] : c = d

\* A caller that is polled returns: no return path keeps the lock (mod.rs:124-152).
CallersReturn == \A c \in Callers : <>(pc[c] \in {"done", "failed"})

(* What the code says and does not do.                                     *)

\* mod.rs:122: whoever refreshes must hold the mutex of the refresh token, so that
\* no concurrent exchange ends in invalid_grant.  Only this function takes it.
OneExchangePerToken ==
  \A p, q \in Parties :
    (rt[p] = rt[q] /\ pc[p] = "ask" /\ pc[q] = "ask") => p = q
=============================================================================
