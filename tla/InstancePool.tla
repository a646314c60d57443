---------------------------- MODULE InstancePool ----------------------------
(***************************************************************************)
(* The pool of language-server instances of ls-orchestrator/src/native.rs: *)
(* NativeLsProvider::acquire_instance, the TTL task, remove_instance,      *)
(* update_config and the token-renewal task of each instance.              *)
(*                                                                         *)
(* A request is one call of acquire_instance, kept until the handler that  *)
(* made it and the transcoding task have dropped the returned Arc.  It     *)
(* starts at most one instance, so the instance is named by the request.   *)
(*                                                                         *)
(* One action is one stretch of code between two points where another task *)
(* can run.  A block that holds the lock of `instances` is one action: the *)
(* locks taken inside it (config, expires_at) are held by nobody who waits *)
(* for `instances`.                                                        *)
(*                                                                         *)
(* Time is kept as what the code compares: which instance was accessed     *)
(* before which (older), which ones have been unused for longer than       *)
(* idle_timeout_secs (idle), which ones are past expires_at (expired).     *)
(***************************************************************************)
EXTENDS Naturals, FiniteSets

CONSTANTS
  Requests,     \* the calls of acquire_instance, and the instances they start
  Slots,        \* slot ids (the slot of the URL, or the account id)
  Tokens,       \* identity tokens; md5(token) is written as the token
  Calls,        \* the pairs of a slot id (or None) and a token that callers use
  None,
  Caps,         \* values max_instances is given
  CapBound,     \* no value of max_instances is above it
  MaxInFlight   \* how many requests are on the start path at once

ASSUME RequestsAssumption ==
  IsFiniteSet(Requests) /\ IsFiniteSet(Slots) /\ IsFiniteSet(Tokens)
ASSUME NoneAssumption == None \notin Requests \cup Slots \cup Tokens
\* A slot id is not the md5 of a token somebody uses without a slot.
ASSUME KeysAssumption == Slots \cap Tokens = {}
ASSUME CallsAssumption == Calls \subseteq (Slots \cup {None}) \X Tokens
ASSUME CapsAssumption ==
  /\ Caps \subseteq Nat
  /\ CapBound \in Nat \ {0}
  /\ \A c \in Caps : c <= CapBound
ASSUME MaxInFlightAssumption == MaxInFlight \in Nat \ {0}

VARIABLES
  slot,      \* slot[r]: the slot r asks for, None for a request without one
  token,     \* token[r]: the identity token r presents
  pc,        \* pc[r]: where r is in acquire_instance
  lease,     \* lease[r]: the instance whose Arc r holds
  pool,      \* the map `instances`: logic_id -> instance
  alive,     \* instances whose NativeLsInstance (and process) exists
  renewing,  \* instances whose renewal task runs; the task holds an Arc
  expired,   \* instances past expires_at
  older,     \* older[i]: the instances last accessed before i was
  idle,      \* instances unused for longer than idle_timeout_secs
  sandbox,   \* the ids k whose directory isolated_vs_k exists
  cap,       \* config.max_instances
  ttl,       \* config.idle_timeout_secs # 0
  sweep      \* the victims the TTL task has collected and not yet removed

vars == <<slot, token, pc, lease, pool, alive, renewing, expired, older, idle,
          sandbox, cap, ttl, sweep>>

Keys == Slots \cup Tokens
StartingPCs == {"prepare", "exchange", "probe", "insert"}
PCs == {"check", "evict", "serving", "done"} \cup StartingPCs

\* logic_id: the slot when there is one, else the md5 of the token.
KeyOf(r) == IF slot[r] = None THEN token[r] ELSE slot[r]

Occupied == {k \in Keys : pool[k] # None}
Starting == {r \in Requests : pc[r] \in StartingPCs}
InFlight == {r \in Requests : pc[r] \in StartingPCs \cup {"evict"}}

TypeOK ==
  /\ slot \in [Requests -> Slots \cup {None}]
  /\ token \in [Requests -> Tokens]
  /\ pc \in [Requests -> PCs]
  /\ lease \in [Requests -> Requests \cup {None}]
  /\ pool \in [Keys -> Requests \cup {None}]
  /\ alive \subseteq Requests
  /\ renewing \subseteq Requests
  /\ expired \subseteq Requests
  /\ older \in [Requests -> SUBSET Requests]
  /\ idle \subseteq Requests
  /\ sandbox \subseteq Keys
  /\ cap \in Caps
  /\ ttl \in BOOLEAN
  /\ sweep \subseteq Keys

Init ==
  /\ \E call \in [Requests -> Calls] :
       /\ slot = [r \in Requests |-> call[r][1]]
       /\ token = [r \in Requests |-> call[r][2]]
  /\ pc = [r \in Requests |-> "check"]
  /\ lease = [r \in Requests |-> None]
  /\ pool = [k \in Keys |-> None]
  /\ alive = {}
  /\ renewing = {}
  /\ expired = {}
  /\ older = [r \in Requests |-> {}]
  /\ idle = {}
  /\ sandbox = {}
  /\ cap \in Caps
  /\ ttl = TRUE
  /\ sweep = {}

-----------------------------------------------------------------------------
(* Reference counts, access times.                                         *)

Go(r, to) == pc' = [pc EXCEPT ![r] = to]

\* The instances some Arc points to after the step.
Referenced ==
  {i \in Requests : \/ i \in renewing'
                    \/ \E k \in Keys : pool'[k] = i
                    \/ \E r \in Requests : lease'[r] = i}

\* The instances no Arc points to any more are dropped: the process is killed
\* (kill_on_drop) and isolated_vs_<id> is deleted, whoever created it last.
DropUnreferenced ==
  /\ alive' = alive \cap Referenced
  /\ sandbox' = sandbox \ {KeyOf(i) : i \in alive \ alive'}

\* The instances somebody may still look up: cached, or about to be.
Pooled == {i \in Requests : pc[i] = "insert" \/ \E k \in Keys : pool[k] = i}

\* An instance that has left the pool never returns, so nobody reads its times
\* again: they are forgotten.
ForgetTimes ==
  LET kept == Pooled'
  IN  /\ expired' = expired \cap kept
      /\ idle' = idle \cap kept
      /\ older' = [j \in Requests |-> IF j \in kept THEN older[j] \cap kept ELSE {}]

\* last_accessed of i becomes the present.
Touch(i) ==
  /\ older' = [j \in Requests |->
                 IF j = i THEN Pooled' \ {i} ELSE older[j] \ {i}]
  /\ idle' = idle \ {i}

-----------------------------------------------------------------------------
(* acquire_instance.                                                       *)

\* Mutant: the token of a slot is not compared.
SlotMismatchIgnored(r, i) == FALSE

\* A cached instance is reused unless the slot's token changed or its own
\* token is about to expire.
SlotMismatch(r, i) == slot[r] # None /\ token[i] # token[r]

Reusable(r) ==
  LET i == pool[KeyOf(r)]
  IN  i # None /\ ~SlotMismatch(r, i) /\ i \notin expired

Reuse(r) ==
  /\ pc[r] = "check"
  /\ Reusable(r)
  /\ lease' = [lease EXCEPT ![r] = pool[KeyOf(r)]]
  /\ Go(r, "serving")
  /\ UNCHANGED pool
  /\ Touch(pool[KeyOf(r)])
  /\ UNCHANGED <<slot, token, alive, renewing, expired, sandbox, cap, ttl, sweep>>

Miss(r) ==
  /\ pc[r] = "check"
  /\ ~Reusable(r)
  /\ Cardinality(InFlight) < MaxInFlight
  /\ Go(r, "evict")
  /\ UNCHANGED <<slot, token, lease, pool, alive, renewing, expired, older,
                 idle, sandbox, cap, ttl, sweep>>

\* The least recently accessed of the entries K, if there is one.
LeastRecent(K) == {k \in K : \A l \in K : pool[l] \notin older[pool[k]]}

\* Mutant: the cap is compared with > instead of >=.
LruChoicesAboveCap(K) ==
  IF Cardinality(K) > cap /\ K # {}
  THEN {{k} : k \in LeastRecent(K)}
  ELSE {{}}

\* What the LRU block removes when the entries K are left: one entry at the
\* cap or above it, none below it or in an empty pool.
LruChoices(K) ==
  IF Cardinality(K) >= cap /\ K # {}
  THEN {{k} : k \in LeastRecent(K)}
  ELSE {{}}

Evict(r) ==
  /\ pc[r] = "evict"
  /\ \E out \in LruChoices(Occupied \ {KeyOf(r)}) :
       pool' = [k \in Keys |-> IF k \in out \cup {KeyOf(r)} THEN None ELSE pool[k]]
  /\ Go(r, "prepare")
  /\ UNCHANGED <<lease, renewing>>
  /\ DropUnreferenced
  /\ ForgetTimes
  /\ UNCHANGED <<slot, token, cap, ttl, sweep>>

\* remove_dir_all, then create_dir_all, which may fail.
Prepare(r) ==
  /\ pc[r] = "prepare"
  /\ \/ /\ sandbox' = sandbox \cup {KeyOf(r)}
        /\ Go(r, "exchange")
     \/ /\ sandbox' = sandbox \ {KeyOf(r)}
        /\ Go(r, "done")
  /\ UNCHANGED <<slot, token, lease, pool, alive, renewing, expired, older,
                 idle, cap, ttl, sweep>>

\* The token exchange (a failed one falls back to the raw token), the extension
\* server and the spawn.
Launch(r) ==
  /\ pc[r] = "exchange"
  /\ Go(r, "probe")
  /\ UNCHANGED <<slot, token, lease, pool, alive, renewing, expired, older,
                 idle, sandbox, cap, ttl, sweep>>

\* No free port, a failed bind or a failed spawn return an error; a response
\* with expires_in below 300 panics the request.
StartFails(r) ==
  /\ pc[r] \in {"evict", "exchange"}
  /\ Go(r, "done")
  /\ UNCHANGED <<slot, token, lease, pool, alive, renewing, expired, older,
                 idle, sandbox, cap, ttl, sweep>>

\* The process listens: the instance is built and its renewal task spawned.
Ready(r) ==
  /\ pc[r] = "probe"
  /\ alive' = alive \cup {r}
  /\ renewing' = renewing \cup {r}
  /\ lease' = [lease EXCEPT ![r] = r]
  /\ Go(r, "insert")
  /\ UNCHANGED pool
  /\ Touch(r)
  /\ UNCHANGED <<slot, token, expired, sandbox, cap, ttl, sweep>>

\* Mutant: the deadline is computed anew in every round of the probe.
ProbeTimeoutRearmed(r) ==
  /\ pc[r] = "probe"
  /\ UNCHANGED vars

\* Ten seconds without a listener: the child is dropped, hence killed; its
\* directory stays.
ProbeTimeout(r) ==
  /\ pc[r] = "probe"
  /\ Go(r, "done")
  /\ UNCHANGED <<slot, token, lease, pool, alive, renewing, expired, older,
                 idle, sandbox, cap, ttl, sweep>>

\* Mutant: an instance that is already there is kept, and the new one returned.
InsertKeepsFirst(r) ==
  /\ pc[r] = "insert"
  /\ pool' = [pool EXCEPT ![KeyOf(r)] = IF @ = None THEN r ELSE @]
  /\ Go(r, "serving")
  /\ UNCHANGED <<lease, renewing>>
  /\ DropUnreferenced
  /\ ForgetTimes
  /\ UNCHANGED <<slot, token, cap, ttl, sweep>>

Insert(r) ==
  /\ pc[r] = "insert"
  /\ pool' = [pool EXCEPT ![KeyOf(r)] = r]
  /\ Go(r, "serving")
  /\ UNCHANGED <<lease, renewing>>
  /\ DropUnreferenced
  /\ ForgetTimes
  /\ UNCHANGED <<slot, token, cap, ttl, sweep>>

\* The handler is done with the instance and drops its Arc.
Finish(r) ==
  /\ pc[r] = "serving"
  /\ Go(r, "done")
  /\ lease' = [lease EXCEPT ![r] = None]
  /\ UNCHANGED <<pool, renewing>>
  /\ DropUnreferenced
  /\ ForgetTimes
  /\ UNCHANGED <<slot, token, cap, ttl, sweep>>

\* The client disconnects and the handler's future is dropped where it waits.
Cancel(r) ==
  /\ pc[r] \in {"evict", "exchange", "probe", "insert"}
  /\ Go(r, "done")
  /\ lease' = [lease EXCEPT ![r] = None]
  /\ UNCHANGED <<pool, renewing>>
  /\ DropUnreferenced
  /\ ForgetTimes
  /\ UNCHANGED <<slot, token, cap, ttl, sweep>>

-----------------------------------------------------------------------------
(* The renewal task of an instance.                                        *)

Renew(i) ==
  /\ i \in renewing \cap expired
  /\ expired' = expired \ {i}
  /\ UNCHANGED <<slot, token, pc, lease, pool, alive, renewing, older, idle,
                 sandbox, cap, ttl, sweep>>

\* A response with expires_in below 300 panics the task, which frees its Arc.
RenewalPanics(i) ==
  /\ i \in renewing
  /\ renewing' = renewing \ {i}
  /\ UNCHANGED <<pool, lease>>
  /\ DropUnreferenced
  /\ UNCHANGED <<slot, token, pc, expired, older, idle, cap, ttl, sweep>>

-----------------------------------------------------------------------------
(* The TTL task, remove_instance and update_config.                        *)

\* Mutant: the TTL task collects the instances instead of their ids.
SweepScanInstances ==
  /\ ttl
  /\ sweep = {}
  /\ sweep' = {pool[k] : k \in {l \in Occupied : pool[l] \in idle}}
  /\ UNCHANGED <<slot, token, pc, lease, pool, alive, renewing, expired, older,
                 idle, sandbox, cap, ttl>>

\* The victims are collected under the read lock, which is then released.  The
\* configuration is read just before: a change in between counts as later.
SweepScan ==
  /\ ttl
  /\ sweep = {}
  /\ sweep' = {k \in Occupied : pool[k] \in idle}
  /\ UNCHANGED <<slot, token, pc, lease, pool, alive, renewing, expired, older,
                 idle, sandbox, cap, ttl>>

\* Mutant: a recheck under the write lock that is the wrong way round.
SweepRemoveUsed ==
  /\ sweep # {}
  /\ pool' = [k \in Keys |-> IF k \in sweep /\ pool[k] \notin idle THEN None ELSE pool[k]]
  /\ sweep' = {}
  /\ UNCHANGED <<lease, renewing>>
  /\ DropUnreferenced
  /\ UNCHANGED pc
  /\ ForgetTimes
  /\ UNCHANGED <<slot, token, cap, ttl>>

\* Under the write lock they are removed by id, whatever is there by now.
SweepRemove ==
  /\ sweep # {}
  /\ pool' = [k \in Keys |-> IF k \in sweep THEN None ELSE pool[k]]
  /\ sweep' = {}
  /\ UNCHANGED <<lease, renewing>>
  /\ DropUnreferenced
  /\ UNCHANGED pc
  /\ ForgetTimes
  /\ UNCHANGED <<slot, token, cap, ttl>>

\* The entry and the directory go, whoever is starting under this id.
Remove(k) ==
  /\ k \in Occupied \cup sandbox
  /\ pool' = [pool EXCEPT ![k] = None]
  /\ UNCHANGED <<lease, renewing>>
  /\ alive' = alive \cap Referenced
  /\ sandbox' = sandbox \ {k}
  /\ UNCHANGED pc
  /\ ForgetTimes
  /\ UNCHANGED <<slot, token, cap, ttl, sweep>>

\* With a longer idle_timeout_secs fewer instances count as idle, those accessed
\* first if any.  A shorter one is this step followed by Age.
UpdateConfig(c, t) ==
  /\ cap' = c
  /\ ttl' = t
  /\ idle' \in {S \in SUBSET idle : \A i \in S : older[i] \subseteq S}
  /\ UNCHANGED <<slot, token, pc, lease, pool, alive, renewing, expired, older,
                 sandbox, sweep>>

-----------------------------------------------------------------------------
(* Time passes.                                                            *)

Age(i) ==
  /\ i \in Pooled \ idle
  /\ idle' = idle \cup {i} \cup older[i]
  /\ UNCHANGED <<slot, token, pc, lease, pool, alive, renewing, expired, older,
                 sandbox, cap, ttl, sweep>>

Expire(i) ==
  /\ i \in Pooled \ expired
  /\ expired' = expired \cup {i}
  /\ UNCHANGED <<slot, token, pc, lease, pool, alive, renewing, older, idle,
                 sandbox, cap, ttl, sweep>>

-----------------------------------------------------------------------------
Acquire(r) ==
  \/ Reuse(r) \/ Miss(r) \/ Evict(r) \/ Prepare(r) \/ Launch(r) \/ StartFails(r)
  \/ Ready(r) \/ ProbeTimeout(r) \/ Insert(r) \/ Finish(r) \/ Cancel(r)

Next ==
  \/ \E r \in Requests : \/ Acquire(r)
                         \/ Renew(r) \/ RenewalPanics(r)
                         \/ Age(r) \/ Expire(r)
  \/ SweepScan \/ SweepRemove
  \/ \E k \in Keys : Remove(k)
  \/ \E c \in Caps, t \in BOOLEAN : UpdateConfig(c, t)

Spec == Init /\ [][Next]_vars

\* tokio runs a request that can go on, the probe gives up at its deadline, the
\* TTL task ticks every minute.  That a process starts to listen, a token is
\* renewed or a client goes away is not promised.
Fairness ==
  /\ \A r \in Requests :
       /\ WF_vars(Reuse(r) \/ Miss(r))
       /\ WF_vars(Evict(r))
       /\ WF_vars(Prepare(r))
       /\ WF_vars(Launch(r) \/ StartFails(r))
       /\ WF_vars(ProbeTimeout(r))
       /\ WF_vars(Insert(r))
  /\ WF_vars(SweepScan)
  /\ WF_vars(SweepRemove)

FairSpec == Spec /\ Fairness

-----------------------------------------------------------------------------
(* What the pool promises.                                                 *)

\* A request never works with an instance started for another identity or under
\* another logic_id, however requests for one slot with different tokens,
\* evictions and removals interleave.
ServedMatchesRequest ==
  \A r \in Requests : lease[r] # None =>
    /\ KeyOf(lease[r]) = KeyOf(r)
    /\ token[lease[r]] = token[r]

\* The room made for an instance is not reserved for it: the check of the LRU
\* block and the insertion lie a whole process start apart.  So max_instances can
\* be exceeded, but never by as many as there are requests starting at once,
\* counting the instances about to be inserted, and the excess does not add up.
PoolBounded ==
  Cardinality(Occupied) + Cardinality(Starting) <= CapBound + MaxInFlight - 1

\* Every call of acquire_instance comes back: no interleaving of starts,
\* evictions, sweeps and configuration changes leaves one waiting.
AcquireReturns ==
  \A r \in Requests : pc[r] \in StartingPCs \cup {"evict"} ~> pc[r] \in {"serving", "done"}

\* While reclaiming is on, no entry stays in the pool unused for good, although
\* the TTL task works on a list of ids that may be stale.
IdleReclaimed ==
  \A k \in Keys : []<>~(ttl /\ pool[k] \in idle)

-----------------------------------------------------------------------------
(* The pool is a registry of instances.                                    *)

\* How a client of the registry sees a request: the name it asks for, the instance that
\* serves it and how far it is.
Named == [r \in Requests |-> KeyOf(r)]
Using == [r \in Requests |-> IF pc[r] = "serving" THEN lease[r] ELSE None]
Stage == [r \in Requests |-> IF pc[r] = "serving" THEN "served"
                             ELSE IF pc[r] = "done" THEN "gone" ELSE "waiting"]

Registry == INSTANCE InstanceRegistry WITH
  Clients <- Requests,
  Names <- Keys,
  name <- Named,
  identity <- token,
  entry <- pool,
  using <- Using,
  stage <- Stage

\* The pool, with its locks given up between the check, the eviction, the start and the
\* insertion, its stale sweeps and its cancelled requests, keeps the promise of the
\* registry: a caller gets what is registered under its logic_id for its identity, or
\* registers what it gets.
RegistryImplemented == Registry!Spec

-----------------------------------------------------------------------------
(* What is said of the pool and does not hold.                             *)

\* README.md:77 and 232: reclaiming or deleting an instance ends its process.  So
\* the process of an entry that leaves the pool, and that no request works with,
\* is gone.
ReclaimedProcessesEnd ==
  [][\A k \in Keys :
       LET i == pool[k]
       IN  /\ i # None
           /\ pool'[k] # i
           /\ \A r \in Requests : lease'[r] # i
           => i \notin alive']_vars

=============================================================================
