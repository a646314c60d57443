------------------------- MODULE InstancePoolProofs -------------------------
(***************************************************************************)
(* Proofs about InstancePool, for every set of requests, slots and tokens, *)
(* every set of values of max_instances and every bound on the requests    *)
(* that start at once.                                                     *)
(***************************************************************************)
EXTENDS InstancePool, FiniteSetTheorems, TLAPS

-----------------------------------------------------------------------------
(* Types.                                                                  *)

\* A logic_id is a slot id or the md5 of a token.
LEMMA KeyOfType ==
  ASSUME TypeOK, NEW r \in Requests
  PROVE  KeyOf(r) \in Keys
BY DEF TypeOK, KeyOf, Keys

\* Dropping what nobody points to keeps the types of the two variables it
\* changes.
LEMMA DropTypes ==
  ASSUME TypeOK, DropUnreferenced
  PROVE  alive' \subseteq Requests /\ sandbox' \subseteq Keys
BY DEF TypeOK, DropUnreferenced

\* Forgetting times keeps the types of the three variables it changes.
LEMMA ForgetTypes ==
  ASSUME TypeOK, ForgetTimes
  PROVE  /\ expired' \subseteq Requests
         /\ idle' \subseteq Requests
         /\ older' \in [Requests -> SUBSET Requests]
<1>. DEFINE kept == Pooled'
<1>1. /\ expired' = expired \cap kept
      /\ idle' = idle \cap kept
      /\ older' = [j \in Requests |-> IF j \in kept THEN older[j] \cap kept ELSE {}]
  BY DEF ForgetTimes
<1>. HIDE DEF kept
<1>. QED
  BY <1>1 DEF TypeOK

\* Recording an access keeps the types of the two variables it changes.
LEMMA TouchTypes ==
  ASSUME TypeOK, NEW i \in Requests, Touch(i)
  PROVE  /\ idle' \subseteq Requests
         /\ older' \in [Requests -> SUBSET Requests]
<1>1. Pooled' \subseteq Requests
  BY DEF Pooled
<1>. QED
  BY <1>1 DEF TypeOK, Touch

\* No step changes what a request asked for.
LEMMA CallsFixed ==
  ASSUME [Next]_vars
  PROVE  slot' = slot /\ token' = token
BY DEF Next, vars, Acquire, Reuse, Miss, Evict, Prepare, Launch, StartFails,
       Ready, ProbeTimeout, Insert, Finish, Cancel, Renew, RenewalPanics, Age,
       Expire, SweepScan, SweepRemove, Remove, UpdateConfig

\* The pool starts empty, with values of the right types.
LEMMA InitTypes == Init => TypeOK
<1>. SUFFICES ASSUME Init PROVE TypeOK
  OBVIOUS
<1>1. PICK call \in [Requests -> Calls] :
        /\ slot = [r \in Requests |-> call[r][1]]
        /\ token = [r \in Requests |-> call[r][2]]
  BY DEF Init
<1>2. \A r \in Requests : call[r][1] \in Slots \cup {None} /\ call[r][2] \in Tokens
  BY CallsAssumption
<1>3. /\ slot \in [Requests -> Slots \cup {None}]
      /\ token \in [Requests -> Tokens]
  BY <1>1, <1>2
<1>. QED
  BY <1>3 DEF Init, TypeOK, PCs

\* The types are inductive.
LEMMA StepTypes == TypeOK /\ [Next]_vars => TypeOK'
<1>. SUFFICES ASSUME TypeOK, [Next]_vars PROVE TypeOK'
  OBVIOUS
<1>. USE DEF PCs, StartingPCs, Go
<1>1. ASSUME NEW r \in Requests, Reuse(r) PROVE TypeOK'
  <2>1. pool[KeyOf(r)] \in Requests
    BY <1>1, KeyOfType DEF TypeOK, Reuse, Reusable
  <2>2. /\ idle' \subseteq Requests
        /\ older' \in [Requests -> SUBSET Requests]
    BY <1>1, <2>1, TouchTypes DEF Reuse
  <2>. QED
    BY <1>1, <2>1, <2>2 DEF TypeOK, Reuse
<1>2. ASSUME NEW r \in Requests, Miss(r) PROVE TypeOK'
  BY <1>2 DEF TypeOK, Miss
<1>3. ASSUME NEW r \in Requests, Evict(r) PROVE TypeOK'
  BY <1>3, DropTypes, ForgetTypes DEF TypeOK, Evict
<1>4. ASSUME NEW r \in Requests, Prepare(r) PROVE TypeOK'
  BY <1>4, KeyOfType DEF TypeOK, Prepare
<1>5. ASSUME NEW r \in Requests, Launch(r) PROVE TypeOK'
  BY <1>5 DEF TypeOK, Launch
<1>6. ASSUME NEW r \in Requests, StartFails(r) PROVE TypeOK'
  BY <1>6 DEF TypeOK, StartFails
<1>7. ASSUME NEW r \in Requests, Ready(r) PROVE TypeOK'
  <2>1. /\ idle' \subseteq Requests
        /\ older' \in [Requests -> SUBSET Requests]
    BY <1>7, TouchTypes DEF Ready
  <2>. QED
    BY <1>7, <2>1 DEF TypeOK, Ready
<1>8. ASSUME NEW r \in Requests, ProbeTimeout(r) PROVE TypeOK'
  BY <1>8 DEF TypeOK, ProbeTimeout
<1>9. ASSUME NEW r \in Requests, Insert(r) PROVE TypeOK'
  BY <1>9, DropTypes, ForgetTypes DEF TypeOK, Insert
<1>10. ASSUME NEW r \in Requests, Finish(r) PROVE TypeOK'
  BY <1>10, DropTypes, ForgetTypes DEF TypeOK, Finish
<1>11. ASSUME NEW r \in Requests, Cancel(r) PROVE TypeOK'
  BY <1>11, DropTypes, ForgetTypes DEF TypeOK, Cancel
<1>12. ASSUME NEW r \in Requests, Renew(r) PROVE TypeOK'
  BY <1>12 DEF TypeOK, Renew
<1>13. ASSUME NEW r \in Requests, RenewalPanics(r) PROVE TypeOK'
  BY <1>13, DropTypes, ForgetTypes DEF TypeOK, RenewalPanics
<1>14. ASSUME NEW r \in Requests, Age(r) PROVE TypeOK'
  BY <1>14 DEF TypeOK, Age
<1>15. ASSUME NEW r \in Requests, Expire(r) PROVE TypeOK'
  BY <1>15 DEF TypeOK, Expire
<1>16. ASSUME SweepScan PROVE TypeOK'
  BY <1>16 DEF TypeOK, SweepScan, Occupied
<1>17. ASSUME SweepRemove PROVE TypeOK'
  BY <1>17, DropTypes, ForgetTypes DEF TypeOK, SweepRemove
<1>18. ASSUME NEW k \in Keys, Remove(k) PROVE TypeOK'
  BY <1>18, ForgetTypes DEF TypeOK, Remove
<1>19. ASSUME NEW c \in Caps, NEW t \in BOOLEAN, UpdateConfig(c, t) PROVE TypeOK'
  BY <1>19 DEF TypeOK, UpdateConfig
<1>20. CASE UNCHANGED vars
  BY <1>20 DEF TypeOK, vars
<1>. QED
  BY <1>1, <1>2, <1>3, <1>4, <1>5, <1>6, <1>7, <1>8, <1>9, <1>10, <1>11, <1>12,
     <1>13, <1>14, <1>15, <1>16, <1>17, <1>18, <1>19, <1>20
  DEF Next, Acquire

\* The variables of the pool keep their types.
THEOREM PoolTypes == Spec => []TypeOK
BY InitTypes, StepTypes, PTL DEF Spec

-----------------------------------------------------------------------------
(* Requests get instances of their own identity.                           *)

\* An instance is cached under the logic_id it was started with.
PoolKeyed == \A k \in Keys : pool[k] # None => KeyOf(pool[k]) = k

IdentityInv == TypeOK /\ PoolKeyed /\ ServedMatchesRequest

\* The logic_id of a request or an instance never changes.
LEMMA KeyOfFixed ==
  ASSUME [Next]_vars, NEW r
  PROVE  KeyOf(r)' = KeyOf(r)
BY CallsFixed DEF KeyOf

\* A step that only clears entries of the pool, and only clears leases, keeps
\* both parts of the invariant.
LEMMA ClearingKeepsIdentity ==
  ASSUME IdentityInv, [Next]_vars,
         \A k \in Keys : pool'[k] \in {pool[k], None},
         \A r \in Requests : lease'[r] \in {lease[r], None}
  PROVE  PoolKeyed' /\ ServedMatchesRequest'
<1>1. slot' = slot /\ token' = token
  BY CallsFixed
<1>2. PoolKeyed'
  BY <1>1 DEF IdentityInv, PoolKeyed, KeyOf
<1>3. ServedMatchesRequest'
  BY <1>1 DEF IdentityInv, ServedMatchesRequest, KeyOf
<1>. QED
  BY <1>2, <1>3

\* What acquire_instance reuses was started for the caller's identity: with a
\* slot the tokens are compared, without one the logic_id is the token's md5.
LEMMA ReuseMatches ==
  ASSUME IdentityInv, NEW r \in Requests, Reusable(r)
  PROVE  /\ KeyOf(pool[KeyOf(r)]) = KeyOf(r)
         /\ token[pool[KeyOf(r)]] = token[r]
<1>. DEFINE i == pool[KeyOf(r)]
<1>1. KeyOf(r) \in Keys /\ i # None /\ i \in Requests
  BY KeyOfType DEF IdentityInv, TypeOK, Reusable
<1>2. KeyOf(i) = KeyOf(r)
  BY <1>1 DEF IdentityInv, PoolKeyed
<1>3. CASE slot[r] # None
  BY <1>2, <1>3 DEF Reusable, SlotMismatch
<1>4. CASE slot[r] = None
  <2>1. KeyOf(r) \in Tokens
    BY <1>4 DEF IdentityInv, TypeOK, KeyOf
  <2>2. slot[i] = None
    BY <1>1, <1>2, <2>1, KeysAssumption DEF IdentityInv, TypeOK, KeyOf
  <2>. QED
    BY <1>2, <1>4, <2>2 DEF KeyOf
<1>. QED
  BY <1>2, <1>3, <1>4

\* Every step keeps the identities.
LEMMA StepIdentity == IdentityInv /\ [Next]_vars => IdentityInv'
<1>. SUFFICES ASSUME IdentityInv, [Next]_vars PROVE PoolKeyed' /\ ServedMatchesRequest'
  BY StepTypes DEF IdentityInv
<1>. USE DEF Go
<1>t. TypeOK
  BY DEF IdentityInv
<1>f. slot' = slot /\ token' = token
  BY CallsFixed
<1>1. ASSUME NEW r \in Requests, Reuse(r) PROVE PoolKeyed' /\ ServedMatchesRequest'
  <2>1. pool' = pool /\ lease' = [lease EXCEPT ![r] = pool[KeyOf(r)]]
    BY <1>1 DEF Reuse
  <2>2. /\ KeyOf(pool[KeyOf(r)]) = KeyOf(r)
        /\ token[pool[KeyOf(r)]] = token[r]
    BY <1>1, ReuseMatches DEF Reuse
  <2>3. PoolKeyed'
    BY <2>1, <1>f DEF IdentityInv, PoolKeyed, KeyOf
  <2>4. ServedMatchesRequest'
    BY <2>1, <2>2, <1>f, <1>t DEF IdentityInv, TypeOK, ServedMatchesRequest, KeyOf
  <2>. QED
    BY <2>3, <2>4
<1>2. ASSUME NEW r \in Requests, Ready(r) PROVE PoolKeyed' /\ ServedMatchesRequest'
  <2>1. pool' = pool /\ lease' = [lease EXCEPT ![r] = r]
    BY <1>2 DEF Ready
  <2>2. PoolKeyed'
    BY <2>1, <1>f DEF IdentityInv, PoolKeyed, KeyOf
  <2>3. ServedMatchesRequest'
    BY <2>1, <1>f, <1>t DEF IdentityInv, TypeOK, ServedMatchesRequest, KeyOf
  <2>. QED
    BY <2>2, <2>3
<1>3. ASSUME NEW r \in Requests, Insert(r) PROVE PoolKeyed' /\ ServedMatchesRequest'
  <2>1. lease' = lease /\ pool' = [pool EXCEPT ![KeyOf(r)] = r]
    BY <1>3 DEF Insert
  <2>2. PoolKeyed'
    BY <2>1, <1>f, <1>t DEF IdentityInv, TypeOK, PoolKeyed, KeyOf
  <2>3. ServedMatchesRequest'
    BY <2>1, <1>f DEF IdentityInv, ServedMatchesRequest, KeyOf
  <2>. QED
    BY <2>2, <2>3
<1>4. ASSUME NEW r \in Requests,
             \/ Miss(r) \/ Prepare(r) \/ Launch(r) \/ StartFails(r)
             \/ ProbeTimeout(r) \/ Renew(r) \/ RenewalPanics(r) \/ Age(r) \/ Expire(r)
      PROVE PoolKeyed' /\ ServedMatchesRequest'
  <2>1. pool' = pool /\ lease' = lease
    BY <1>4 DEF Miss, Prepare, Launch, StartFails, ProbeTimeout, Renew,
                RenewalPanics, Age, Expire
  <2>. QED
    BY <2>1, ClearingKeepsIdentity
<1>5. ASSUME NEW r \in Requests, Evict(r) PROVE PoolKeyed' /\ ServedMatchesRequest'
  <2>1. lease' = lease /\ \A k \in Keys : pool'[k] \in {pool[k], None}
    BY <1>5 DEF Evict
  <2>. QED
    BY <2>1, ClearingKeepsIdentity
<1>6. ASSUME NEW r \in Requests, Finish(r) \/ Cancel(r)
      PROVE PoolKeyed' /\ ServedMatchesRequest'
  <2>1. pool' = pool /\ lease' = [lease EXCEPT ![r] = None]
    BY <1>6 DEF Finish, Cancel
  <2>. QED
    BY <2>1, <1>t, ClearingKeepsIdentity DEF TypeOK
<1>7. ASSUME SweepRemove PROVE PoolKeyed' /\ ServedMatchesRequest'
  <2>1. lease' = lease /\ \A k \in Keys : pool'[k] \in {pool[k], None}
    BY <1>7 DEF SweepRemove
  <2>. QED
    BY <2>1, ClearingKeepsIdentity
<1>8. ASSUME NEW k \in Keys, Remove(k) PROVE PoolKeyed' /\ ServedMatchesRequest'
  <2>1. lease' = lease /\ pool' = [pool EXCEPT ![k] = None]
    BY <1>8 DEF Remove
  <2>. QED
    BY <2>1, <1>t, ClearingKeepsIdentity DEF TypeOK
<1>9. ASSUME SweepScan \/ \E c \in Caps, t \in BOOLEAN : UpdateConfig(c, t)
      PROVE PoolKeyed' /\ ServedMatchesRequest'
  <2>1. pool' = pool /\ lease' = lease
    BY <1>9 DEF SweepScan, UpdateConfig
  <2>. QED
    BY <2>1, ClearingKeepsIdentity
<1>10. CASE UNCHANGED vars
  BY <1>10, ClearingKeepsIdentity DEF vars
<1>. QED
  BY <1>1, <1>2, <1>3, <1>4, <1>5, <1>6, <1>7, <1>8, <1>9, <1>10 DEF Next, Acquire

\* No request ever works with an instance of another identity or logic_id,
\* whatever starts, evictions, sweeps, removals and disconnects interleave.
THEOREM PoolIdentity == Spec => []ServedMatchesRequest
<1>1. Init => IdentityInv
  BY InitTypes DEF Init, IdentityInv, PoolKeyed, ServedMatchesRequest
<1>2. IdentityInv => ServedMatchesRequest
  BY DEF IdentityInv
<1>. QED
  BY <1>1, <1>2, StepIdentity, PTL DEF Spec

-----------------------------------------------------------------------------
(* The size of the pool.                                                   *)

BoundInv ==
  /\ TypeOK
  /\ Cardinality(InFlight) <= MaxInFlight
  /\ PoolBounded

\* The sets that are counted are finite.
LEMMA CountedFinite ==
  /\ IsFiniteSet(Occupied) /\ Cardinality(Occupied) \in Nat
  /\ IsFiniteSet(Starting) /\ Cardinality(Starting) \in Nat
  /\ IsFiniteSet(InFlight) /\ Cardinality(InFlight) \in Nat
<1>1. IsFiniteSet(Keys)
  BY RequestsAssumption, FS_Union DEF Keys
<1>2. Occupied \subseteq Keys /\ Starting \subseteq Requests /\ InFlight \subseteq Requests
  BY DEF Occupied, Starting, InFlight
<1>3. IsFiniteSet(Occupied) /\ IsFiniteSet(Starting) /\ IsFiniteSet(InFlight)
  BY <1>1, <1>2, RequestsAssumption, FS_Subset
<1>. QED
  BY <1>3, FS_CardinalityType

\* A step after which fewer or the same entries are occupied and fewer or the
\* same requests are starting and in flight keeps the bound.
LEMMA ShrinkingKeepsBound ==
  ASSUME BoundInv,
         Occupied' \subseteq Occupied,
         Starting' \subseteq Starting,
         InFlight' \subseteq InFlight
  PROVE  Cardinality(InFlight') <= MaxInFlight /\ PoolBounded'
<1>1. /\ Cardinality(Occupied') \in Nat /\ Cardinality(Occupied') <= Cardinality(Occupied)
      /\ Cardinality(Starting') \in Nat /\ Cardinality(Starting') <= Cardinality(Starting)
      /\ Cardinality(InFlight') \in Nat /\ Cardinality(InFlight') <= Cardinality(InFlight)
  BY CountedFinite, FS_Subset, FS_CardinalityType
<1>. QED
  BY <1>1, CountedFinite, CapsAssumption, MaxInFlightAssumption DEF BoundInv, PoolBounded

\* Moving one request on its way changes the counted sets by that request only.
LEMMA GoCounts ==
  ASSUME TypeOK, NEW r \in Requests, NEW to \in PCs, Go(r, to)
  PROVE  /\ Starting' = IF to \in StartingPCs THEN Starting \cup {r} ELSE Starting \ {r}
         /\ InFlight' = IF to \in StartingPCs \cup {"evict"}
                        THEN InFlight \cup {r} ELSE InFlight \ {r}
BY DEF TypeOK, Go, Starting, InFlight

\* The LRU block makes room: at or above max_instances one entry goes, unless
\* there is none.
LEMMA LruMakesRoom ==
  ASSUME TypeOK, NEW K \in SUBSET Occupied, NEW out \in LruChoices(K)
  PROVE  \/ Cardinality(K \ out) < CapBound
         \/ Cardinality(K \ out) + 1 <= Cardinality(Occupied)
<1>1. /\ IsFiniteSet(K) /\ Cardinality(K) \in Nat
      /\ Cardinality(K) <= Cardinality(Occupied)
  BY CountedFinite, FS_Subset, FS_CardinalityType
<1>2. cap \in Nat /\ cap <= CapBound /\ CapBound \in Nat /\ CapBound > 0
  BY CapsAssumption DEF TypeOK
<1>3. CASE Cardinality(K) >= cap /\ K # {}
  <2>1. PICK k \in K : out = {k}
    BY <1>3 DEF LruChoices, LeastRecent
  <2>2. Cardinality(K \ out) = Cardinality(K) - 1
    BY <1>1, <2>1, FS_RemoveElement
  <2>. QED
    BY <1>1, <2>2, CountedFinite
<1>4. CASE ~(Cardinality(K) >= cap /\ K # {})
  <2>1. out = {} /\ K \ out = K
    BY <1>4 DEF LruChoices
  <2>2. CASE K = {}
    BY <2>1, <2>2, <1>2, FS_EmptySet
  <2>3. CASE Cardinality(K) < cap
    BY <1>1, <1>2, <2>1, <2>3
  <2>. QED
    BY <1>1, <1>2, <1>4, <2>2, <2>3
<1>. QED
  BY <1>3, <1>4

\* Every step keeps the bound.
LEMMA StepBound == BoundInv /\ [Next]_vars => BoundInv'
<1>. SUFFICES ASSUME BoundInv, [Next]_vars
              PROVE  Cardinality(InFlight') <= MaxInFlight /\ PoolBounded'
  BY StepTypes DEF BoundInv
<1>t. TypeOK
  BY DEF BoundInv
<1>. USE DEF PCs, StartingPCs
<1>1. ASSUME NEW r \in Requests, Miss(r)
      PROVE  Cardinality(InFlight') <= MaxInFlight /\ PoolBounded'
  <2>1. Go(r, "evict") /\ pool' = pool /\ r \notin InFlight /\ r \notin Starting
    BY <1>1 DEF Miss, InFlight, Starting
  <2>2. Starting' = Starting /\ InFlight' = InFlight \cup {r} /\ Occupied' = Occupied
    BY <2>1, <1>t, GoCounts DEF Occupied
  <2>3. Cardinality(InFlight') = Cardinality(InFlight) + 1
    BY <2>1, <2>2, CountedFinite, FS_AddElement
  <2>4. Cardinality(InFlight) < MaxInFlight
    BY <1>1 DEF Miss
  <2>. QED
    BY <2>2, <2>3, <2>4, CountedFinite, MaxInFlightAssumption DEF BoundInv, PoolBounded
<1>2. ASSUME NEW r \in Requests, Evict(r)
      PROVE  Cardinality(InFlight') <= MaxInFlight /\ PoolBounded'
  <2>. DEFINE K == Occupied \ {KeyOf(r)}
  <2>1. PICK out \in LruChoices(K) :
          pool' = [k \in Keys |-> IF k \in out \cup {KeyOf(r)} THEN None ELSE pool[k]]
    BY <1>2 DEF Evict
  <2>2. Occupied' = K \ out
    BY <2>1 DEF Occupied
  <2>3. Go(r, "prepare") /\ r \in InFlight /\ r \notin Starting
    BY <1>2 DEF Evict, InFlight, Starting
  <2>4. Starting' = Starting \cup {r} /\ InFlight' = InFlight
    BY <2>3, <1>t, GoCounts
  <2>5. Cardinality(Starting') = Cardinality(Starting) + 1
    BY <2>3, <2>4, CountedFinite, FS_AddElement
  <2>6. Cardinality(Starting') <= MaxInFlight
    <3>1. Starting' \subseteq InFlight
      BY <2>3, <2>4 DEF Starting, InFlight
    <3>2. Cardinality(Starting') <= Cardinality(InFlight)
      BY <3>1, CountedFinite, FS_Subset
    <3>. QED
      BY <3>2, <2>5, CountedFinite, MaxInFlightAssumption DEF BoundInv
  <2>7. \/ Cardinality(K \ out) < CapBound
        \/ Cardinality(K \ out) + 1 <= Cardinality(Occupied)
    <3>1. K \in SUBSET Occupied
      OBVIOUS
    <3>. HIDE DEF K
    <3>. QED
      BY <1>t, <2>1, <3>1, LruMakesRoom
  <2>8. Cardinality(K \ out) \in Nat
    BY CountedFinite, FS_Subset, FS_CardinalityType
  <2>9. PoolBounded'
    <3>. HIDE DEF K
    <3>. QED
      BY <2>2, <2>5, <2>6, <2>7, <2>8, CountedFinite, CapsAssumption, MaxInFlightAssumption
      DEF BoundInv, PoolBounded
  <2>. QED
    BY <2>4, <2>9 DEF BoundInv
<1>3. ASSUME NEW r \in Requests, Insert(r)
      PROVE  Cardinality(InFlight') <= MaxInFlight /\ PoolBounded'
  <2>1. /\ Go(r, "serving") /\ pool' = [pool EXCEPT ![KeyOf(r)] = r]
        /\ r \in Starting /\ r # None
    BY <1>3, NoneAssumption DEF Insert, Starting
  <2>2. Starting' = Starting \ {r} /\ InFlight' = InFlight \ {r}
    BY <2>1, <1>t, GoCounts
  <2>3. Occupied' \subseteq Occupied \cup {KeyOf(r)}
    BY <2>1, <1>t DEF Occupied, TypeOK
  <2>4. Cardinality(Starting') = Cardinality(Starting) - 1
    BY <2>1, <2>2, CountedFinite, FS_RemoveElement
  <2>5. /\ Cardinality(Occupied') \in Nat
        /\ Cardinality(Occupied') <= Cardinality(Occupied) + 1
    <3>1. /\ IsFiniteSet(Occupied \cup {KeyOf(r)})
          /\ Cardinality(Occupied \cup {KeyOf(r)}) <= Cardinality(Occupied) + 1
      <4>1. CASE KeyOf(r) \in Occupied
        <5>1. Occupied \cup {KeyOf(r)} = Occupied
          BY <4>1
        <5>. QED
          BY <5>1, CountedFinite
      <4>2. CASE KeyOf(r) \notin Occupied
        <5>1. /\ IsFiniteSet(Occupied \cup {KeyOf(r)})
              /\ Cardinality(Occupied \cup {KeyOf(r)}) = Cardinality(Occupied) + 1
          BY <4>2, CountedFinite, FS_AddElement
        <5>. QED
          BY <5>1, CountedFinite
      <4>. QED
        BY <4>1, <4>2
    <3>2. /\ IsFiniteSet(Occupied')
          /\ Cardinality(Occupied') <= Cardinality(Occupied \cup {KeyOf(r)})
      BY <2>3, <3>1, FS_Subset
    <3>3. /\ Cardinality(Occupied') \in Nat
          /\ Cardinality(Occupied \cup {KeyOf(r)}) \in Nat
      BY <3>1, <3>2, FS_CardinalityType
    <3>. QED
      BY <3>1, <3>2, <3>3, CountedFinite
  <2>6. Cardinality(InFlight') \in Nat /\ Cardinality(InFlight') <= Cardinality(InFlight)
    BY <2>2, CountedFinite, FS_Subset, FS_CardinalityType
  <2>. QED
    BY <2>4, <2>5, <2>6, CountedFinite, CapsAssumption, MaxInFlightAssumption
    DEF BoundInv, PoolBounded
<1>4. ASSUME NEW r \in Requests, Prepare(r) \/ Launch(r) \/ Ready(r)
      PROVE  Cardinality(InFlight') <= MaxInFlight /\ PoolBounded'
  <2>1. pool' = pool /\ r \in Starting /\ r \in InFlight
    BY <1>4 DEF Prepare, Launch, Ready, Starting, InFlight
  <2>2. Go(r, "exchange") \/ Go(r, "probe") \/ Go(r, "insert") \/ Go(r, "done")
    BY <1>4 DEF Prepare, Launch, Ready
  <2>3. Occupied' = Occupied /\ Starting' \subseteq Starting /\ InFlight' \subseteq InFlight
    BY <2>1, <2>2, <1>t, GoCounts DEF Occupied
  <2>. QED
    BY <2>3, ShrinkingKeepsBound
<1>5. ASSUME NEW r \in Requests,
             Reuse(r) \/ StartFails(r) \/ ProbeTimeout(r) \/ Finish(r) \/ Cancel(r)
      PROVE  Cardinality(InFlight') <= MaxInFlight /\ PoolBounded'
  <2>1. pool' = pool /\ (Go(r, "serving") \/ Go(r, "done"))
    BY <1>5 DEF Reuse, StartFails, ProbeTimeout, Finish, Cancel
  <2>2. Occupied' = Occupied /\ Starting' \subseteq Starting /\ InFlight' \subseteq InFlight
    BY <2>1, <1>t, GoCounts DEF Occupied
  <2>. QED
    BY <2>2, ShrinkingKeepsBound
<1>6. ASSUME pc' = pc, \A k \in Keys : pool'[k] \in {pool[k], None}
      PROVE  Cardinality(InFlight') <= MaxInFlight /\ PoolBounded'
  <2>1. Occupied' \subseteq Occupied /\ Starting' = Starting /\ InFlight' = InFlight
    BY <1>6 DEF Occupied, Starting, InFlight
  <2>. QED
    BY <2>1, ShrinkingKeepsBound
<1>7. ASSUME NEW r \in Requests, Renew(r) \/ RenewalPanics(r) \/ Age(r) \/ Expire(r)
      PROVE  pc' = pc /\ \A k \in Keys : pool'[k] \in {pool[k], None}
  BY <1>7 DEF Renew, RenewalPanics, Age, Expire
<1>8. ASSUME SweepScan \/ SweepRemove \/ \E c \in Caps, t \in BOOLEAN : UpdateConfig(c, t)
      PROVE  pc' = pc /\ \A k \in Keys : pool'[k] \in {pool[k], None}
  BY <1>8 DEF SweepScan, SweepRemove, UpdateConfig
<1>9. ASSUME NEW k \in Keys, Remove(k)
      PROVE  pc' = pc /\ \A l \in Keys : pool'[l] \in {pool[l], None}
  BY <1>9, <1>t DEF Remove, TypeOK
<1>10. CASE UNCHANGED vars
  BY <1>6, <1>10 DEF vars
<1>. QED
  BY <1>1, <1>2, <1>3, <1>4, <1>5, <1>6, <1>7, <1>8, <1>9, <1>10 DEF Next, Acquire

\* The pool and the instances about to join it never exceed the largest
\* max_instances by as many as there are requests starting at once.
THEOREM PoolSize == Spec => []PoolBounded
<1>1. Init => BoundInv
  <2>. SUFFICES ASSUME Init PROVE BoundInv
    OBVIOUS
  <2>1. Occupied = {} /\ Starting = {} /\ InFlight = {}
    BY DEF Init, Occupied, Starting, InFlight, StartingPCs
  <2>. QED
    BY <2>1, InitTypes, FS_EmptySet, CapsAssumption, MaxInFlightAssumption
    DEF BoundInv, PoolBounded
<1>2. BoundInv => PoolBounded
  BY DEF BoundInv
<1>. QED
  BY <1>1, <1>2, StepBound, PTL DEF Spec

-----------------------------------------------------------------------------
(* The order of the accesses.  The LRU block must find an entry in every   *)
(* pool that is full, or a request would wait in it for ever.              *)

\* The instances that may be looked up are ordered by their last access, and the times
\* of the others are forgotten.
AccessOrder ==
  /\ \A j \in Requests : older[j] \subseteq Pooled \ {j}
  /\ \A i, j \in Requests : j \in older[i] => older[j] \subseteq older[i]
  /\ \A i, j \in Pooled : i = j \/ i \in older[j] \/ j \in older[i]

OrderInv == IdentityInv /\ AccessOrder

\* Of the entries of any part of the pool exactly one was not accessed after another.
OneLeastRecent ==
  \A K \in SUBSET Occupied : K # {} => \E k \in K : LeastRecent(K) = {k}

\* Nothing changes for who does not touch an instance.
LEMMA SameOrder ==
  ASSUME AccessOrder, older' = older, Pooled' = Pooled
  PROVE  AccessOrder'
BY DEF AccessOrder

\* What leaves the pool leaves the order.
LEMMA ForgettingKeepsOrder ==
  ASSUME TypeOK, AccessOrder, ForgetTimes, Pooled' \subseteq Pooled
  PROVE  AccessOrder'
<1>. DEFINE kept == Pooled'
<1>1. older' = [j \in Requests |-> IF j \in kept THEN older[j] \cap kept ELSE {}]
  BY DEF ForgetTimes
<1>2. kept \subseteq Pooled /\ kept \subseteq Requests
  BY DEF Pooled
<1>. HIDE DEF kept
<1>3. /\ \A j \in Requests : older'[j] \subseteq kept \ {j}
      /\ \A i, j \in Requests : j \in older'[i] => older'[j] \subseteq older'[i]
      /\ \A i, j \in kept : i = j \/ i \in older'[j] \/ j \in older'[i]
  BY <1>1, <1>2 DEF AccessOrder
<1>. QED
  BY <1>3 DEF AccessOrder, kept

\* An access comes after all others.
LEMMA TouchKeepsOrder ==
  ASSUME TypeOK, AccessOrder, NEW i \in Requests, Touch(i), Pooled' = Pooled \cup {i}
  PROVE  AccessOrder'
<1>. DEFINE new == Pooled'
<1>1. older' = [j \in Requests |-> IF j = i THEN new \ {i} ELSE older[j] \ {i}]
  BY DEF Touch
<1>2. new = Pooled \cup {i} /\ new \subseteq Requests
  BY DEF Pooled
<1>. HIDE DEF new
<1>3. \A j \in Requests : older'[j] \subseteq new \ {j}
  BY <1>1, <1>2 DEF AccessOrder
<1>4. \A a, j \in Requests : j \in older'[a] => older'[j] \subseteq older'[a]
  <2>. SUFFICES ASSUME NEW a \in Requests, NEW j \in Requests, j \in older'[a]
                PROVE  older'[j] \subseteq older'[a]
    OBVIOUS
  <2>1. j # i /\ older'[j] = older[j] \ {i}
    BY <1>1
  <2>2. CASE a = i
    BY <1>1, <1>2, <2>1, <2>2 DEF AccessOrder
  <2>3. CASE a # i
    BY <1>1, <2>1, <2>3 DEF AccessOrder
  <2>. QED
    BY <2>2, <2>3
<1>5. \A a, j \in new : a = j \/ a \in older'[j] \/ j \in older'[a]
  BY <1>1, <1>2 DEF AccessOrder
<1>. QED
  BY <1>3, <1>4, <1>5 DEF AccessOrder, new

\* A request that does not insert and leaves the pool alone changes nothing in the order.
LEMMA SamePooled ==
  ASSUME TypeOK, NEW r \in Requests, NEW to, pc[r] # "insert", to # "insert", Go(r, to),
         pool' = pool
  PROVE  Pooled' = Pooled
BY DEF TypeOK, Pooled, Go

\* Every step keeps the order.
LEMMA StepOrder == OrderInv /\ [Next]_vars => AccessOrder'
<1>. SUFFICES ASSUME OrderInv, [Next]_vars PROVE AccessOrder'
  OBVIOUS
<1>t. TypeOK /\ AccessOrder
  BY DEF OrderInv, IdentityInv
<1>1. ASSUME NEW r \in Requests, Reuse(r) PROVE AccessOrder'
  <2>1. /\ pc[r] = "check" /\ Go(r, "serving") /\ pool' = pool /\ Touch(pool[KeyOf(r)])
        /\ pool[KeyOf(r)] # None
    BY <1>1 DEF Reuse, Reusable
  <2>2. KeyOf(r) \in Keys /\ pool[KeyOf(r)] \in Requests
    BY <1>t, <2>1, KeyOfType DEF TypeOK
  <2>3. Pooled' = Pooled
    BY <1>t, <2>1, SamePooled
  <2>4. pool[KeyOf(r)] \in Pooled
    BY <2>2 DEF Pooled
  <2>5. Pooled' = Pooled \cup {pool[KeyOf(r)]}
    BY <2>3, <2>4
  <2>. QED
    BY <1>t, <2>1, <2>2, <2>5, TouchKeepsOrder
<1>2. ASSUME NEW r \in Requests, Ready(r) PROVE AccessOrder'
  <2>1. pc[r] = "probe" /\ Go(r, "insert") /\ pool' = pool /\ Touch(r)
    BY <1>2 DEF Ready
  <2>2. Pooled' = Pooled \cup {r}
    BY <1>t, <2>1 DEF TypeOK, Pooled, Go
  <2>. QED
    BY <1>t, <2>1, <2>2, TouchKeepsOrder
<1>3. ASSUME NEW r \in Requests,
             Miss(r) \/ Prepare(r) \/ Launch(r) \/ StartFails(r) \/ ProbeTimeout(r)
      PROVE AccessOrder'
  <2>1. /\ pc[r] # "insert" /\ pool' = pool /\ older' = older
        /\ \E to \in {"evict", "exchange", "probe", "done"} : Go(r, to)
    BY <1>3 DEF Miss, Prepare, Launch, StartFails, ProbeTimeout
  <2>2. Pooled' = Pooled
    BY <1>t, <2>1, SamePooled
  <2>. QED
    BY <1>t, <2>1, <2>2, SameOrder
<1>4. ASSUME NEW r \in Requests, Evict(r) PROVE AccessOrder'
  <2>1. /\ pc[r] = "evict" /\ Go(r, "prepare") /\ ForgetTimes
        /\ \A k \in Keys : pool'[k] \in {pool[k], None}
    BY <1>4 DEF Evict
  <2>2. Pooled' \subseteq Pooled
    BY <1>t, <2>1, NoneAssumption DEF TypeOK, Pooled, Go
  <2>. QED
    BY <1>t, <2>1, <2>2, ForgettingKeepsOrder
<1>5. ASSUME NEW r \in Requests, Insert(r) PROVE AccessOrder'
  <2>1. /\ pc[r] = "insert" /\ Go(r, "serving") /\ ForgetTimes
        /\ pool' = [pool EXCEPT ![KeyOf(r)] = r]
    BY <1>5 DEF Insert
  <2>2. \A k \in Keys : pool'[k] \in {pool[k], r}
    BY <1>t, <2>1 DEF TypeOK
  <2>3. Pooled' \subseteq Pooled
    BY <1>t, <2>1, <2>2 DEF TypeOK, Pooled, Go
  <2>. QED
    BY <1>t, <2>1, <2>3, ForgettingKeepsOrder
<1>6. ASSUME NEW r \in Requests, Finish(r) \/ Cancel(r) PROVE AccessOrder'
  <2>1. Go(r, "done") /\ ForgetTimes /\ pool' = pool
    BY <1>6 DEF Finish, Cancel
  <2>2. Pooled' \subseteq Pooled
    BY <1>t, <2>1 DEF TypeOK, Pooled, Go
  <2>. QED
    BY <1>t, <2>1, <2>2, ForgettingKeepsOrder
<1>7. ASSUME SweepRemove \/ \E k \in Keys : Remove(k) PROVE AccessOrder'
  <2>1. pc' = pc /\ ForgetTimes /\ \A k \in Keys : pool'[k] \in {pool[k], None}
    BY <1>7, <1>t DEF SweepRemove, Remove, TypeOK
  <2>2. Pooled' \subseteq Pooled
    BY <2>1, NoneAssumption DEF Pooled
  <2>. QED
    BY <1>t, <2>1, <2>2, ForgettingKeepsOrder
<1>8. ASSUME UNCHANGED <<pc, pool, older>> PROVE AccessOrder'
  <2>1. Pooled' = Pooled
    BY <1>8 DEF Pooled
  <2>. QED
    BY <1>t, <1>8, <2>1, SameOrder
<1>. QED
  BY <1>1, <1>2, <1>3, <1>4, <1>5, <1>6, <1>7, <1>8
  DEF Next, Acquire, Renew, RenewalPanics, Age, Expire, SweepScan, UpdateConfig, vars

\* In a finite order there is a first, and it is the only one.
LEMMA OrderHasFirst == OrderInv => OneLeastRecent
<1>. SUFFICES ASSUME OrderInv, NEW K \in SUBSET Occupied, K # {}
              PROVE  \E k \in K : LeastRecent(K) = {k}
  BY DEF OneLeastRecent
<1>. DEFINE D == {older[pool[k]] : k \in K}
            R == StrictSubsetOrdering(Requests)
<1>o. /\ older \in [Requests -> SUBSET Requests]
      /\ \A k \in K : k \in Keys /\ pool[k] \in Requests /\ pool[k] \in Pooled
  BY DEF OrderInv, IdentityInv, TypeOK, Occupied, Pooled
<1>1. IsWellFoundedOn(R, FiniteSubsetsOf(Requests))
  BY FS_StrictSubsetOrderingWellFounded
<1>2. D \subseteq FiniteSubsetsOf(Requests) /\ D # {}
  <2>1. \A S \in SUBSET Requests : IsFiniteSet(S)
    BY RequestsAssumption, FS_Subset
  <2>. QED
    BY <1>o, <2>1 DEF FiniteSubsetsOf
<1>3. \E x \in D : \A y \in D : <<y, x>> \notin R
  <2>. HIDE DEF D, R
  <2>. QED
    BY <1>1, <1>2, WFMin
<1>4. PICK m \in K : \A l \in K : <<older[pool[l]], older[pool[m]]>> \notin R
  BY <1>3
<1>5. \A l \in K : pool[l] \notin older[pool[m]]
  <2>. SUFFICES ASSUME NEW l \in K, pool[l] \in older[pool[m]] PROVE FALSE
    OBVIOUS
  <2>1. older[pool[l]] \subseteq older[pool[m]] /\ pool[l] \notin older[pool[l]]
    BY <1>o DEF OrderInv, AccessOrder
  <2>2. older[pool[l]] # older[pool[m]]
    BY <2>1
  <2>. QED
    BY <1>4, <1>o, <2>1, <2>2 DEF StrictSubsetOrdering
\* Two entries are two instances.
<1>6. \A k, l \in K : pool[k] = pool[l] => k = l
  BY <1>o, NoneAssumption DEF OrderInv, IdentityInv, PoolKeyed
<1>7. \A k \in K : k # m => pool[m] \in older[pool[k]]
  BY <1>5, <1>6, <1>o DEF OrderInv, AccessOrder
<1>8. LeastRecent(K) = {m}
  BY <1>5, <1>7 DEF LeastRecent
<1>. QED
  BY <1>8

\* However accesses, insertions and removals interleave, the LRU block finds an entry to remove
\* in every pool that is not empty, and there is no choice which.
THEOREM EvictionFindsOne == Spec => []OneLeastRecent
<1>1. Init => OrderInv
  <2>. SUFFICES ASSUME Init PROVE OrderInv
    OBVIOUS
  <2>1. IdentityInv
    BY InitTypes DEF Init, IdentityInv, PoolKeyed, ServedMatchesRequest
  <2>2. Pooled = {}
    BY NoneAssumption DEF Init, Pooled
  <2>3. AccessOrder
    BY <2>2 DEF Init, AccessOrder
  <2>. QED
    BY <2>1, <2>3 DEF OrderInv
<1>2. OrderInv /\ [Next]_vars => OrderInv'
  BY StepIdentity, StepOrder DEF OrderInv
<1>. QED
  BY <1>1, <1>2, OrderHasFirst, PTL DEF Spec

\* How many steps a request may still take.
StepsLeft(r) ==
  CASE pc[r] = "check" -> 7
    [] pc[r] = "evict" -> 6
    [] pc[r] = "prepare" -> 5
    [] pc[r] = "exchange" -> 4
    [] pc[r] = "probe" -> 3
    [] pc[r] = "insert" -> 2
    [] pc[r] = "serving" -> 1
    [] OTHER -> 0

\* Where a request goes, and that it stands still in the steps of the others.
LEMMA AcquireMoves ==
  ASSUME TypeOK, [Next]_vars, NEW r \in Requests
  PROVE  /\ \/ pc'[r] = pc[r]
            \/ pc[r] = "check" /\ pc'[r] \in {"evict", "serving"}
            \/ pc[r] = "evict" /\ pc'[r] \in {"prepare", "done"}
            \/ pc[r] = "prepare" /\ pc'[r] \in {"exchange", "done"}
            \/ pc[r] = "exchange" /\ pc'[r] \in {"probe", "done"}
            \/ pc[r] = "probe" /\ pc'[r] \in {"insert", "done"}
            \/ pc[r] = "insert" /\ pc'[r] \in {"serving", "done"}
            \/ pc[r] = "serving" /\ pc'[r] = "done"
         /\ Acquire(r) => pc'[r] # pc[r]
<1>. USE DEF Go
<1>. DEFINE Moves(q) ==
       /\ pc' = [pc EXCEPT ![q] = pc'[q]]
       /\ \/ pc[q] = "check" /\ pc'[q] \in {"evict", "serving"}
          \/ pc[q] = "evict" /\ pc'[q] \in {"prepare", "done"}
          \/ pc[q] = "prepare" /\ pc'[q] \in {"exchange", "done"}
          \/ pc[q] = "exchange" /\ pc'[q] \in {"probe", "done"}
          \/ pc[q] = "probe" /\ pc'[q] \in {"insert", "done"}
          \/ pc[q] = "insert" /\ pc'[q] \in {"serving", "done"}
          \/ pc[q] = "serving" /\ pc'[q] = "done"
<1>1. ASSUME NEW q \in Requests, Acquire(q) PROVE Moves(q)
  <2>t. pc \in [Requests -> PCs]
    BY DEF TypeOK
  <2>1. CASE Reuse(q) \/ Miss(q) \/ Evict(q)
    BY <2>1, <2>t DEF Reuse, Miss, Evict
  <2>2. CASE Prepare(q) \/ Launch(q) \/ StartFails(q)
    BY <2>2, <2>t DEF Prepare, Launch, StartFails
  <2>3. CASE Ready(q) \/ ProbeTimeout(q) \/ Insert(q)
    BY <2>3, <2>t DEF Ready, ProbeTimeout, Insert
  <2>4. CASE Finish(q) \/ Cancel(q)
    BY <2>4, <2>t DEF Finish, Cancel
  <2>. QED
    BY <1>1, <2>1, <2>2, <2>3, <2>4 DEF Acquire
<1>2. (\A q \in Requests : ~Acquire(q)) => pc' = pc
  BY DEF Next, vars, Renew, RenewalPanics, Age, Expire, SweepScan, SweepRemove, Remove, UpdateConfig
<1>3. pc \in [Requests -> PCs]
  BY DEF TypeOK
<1>. QED
  BY <1>1, <1>2, <1>3

\* What AcquireReturns rests on beside the entry to evict: each step of a request brings it closer
\* to its end, and nobody else moves it.
THEOREM RequestsComeCloser ==
  Spec => [][\A r \in Requests :
               /\ StepsLeft(r) \in 0 .. 7 /\ StepsLeft(r)' <= StepsLeft(r)
               /\ Acquire(r) => StepsLeft(r)' < StepsLeft(r)]_vars
<1>. DEFINE Closer ==
       \A r \in Requests :
         /\ StepsLeft(r) \in 0 .. 7 /\ StepsLeft(r)' <= StepsLeft(r)
         /\ Acquire(r) => StepsLeft(r)' < StepsLeft(r)
<1>1. TypeOK /\ [Next]_vars => Closer
  <2>. SUFFICES ASSUME TypeOK, [Next]_vars, NEW r \in Requests
                PROVE  /\ StepsLeft(r) \in 0 .. 7 /\ StepsLeft(r)' <= StepsLeft(r)
                       /\ Acquire(r) => StepsLeft(r)' < StepsLeft(r)
    OBVIOUS
  <2>1. StepsLeft(r) \in 0 .. 7
    BY DEF StepsLeft
  <2>2. pc'[r] = pc[r] => StepsLeft(r)' = StepsLeft(r)
    BY DEF StepsLeft
  <2>3. pc'[r] # pc[r] => StepsLeft(r)' < StepsLeft(r)
    BY AcquireMoves DEF StepsLeft
  <2>4. pc'[r] # pc[r] => StepsLeft(r)' <= StepsLeft(r)
    BY AcquireMoves DEF StepsLeft
  <2>. QED
    BY <2>1, <2>2, <2>3, <2>4, AcquireMoves
<1>. QED
  BY <1>1, InitTypes, StepTypes, PTL DEF Spec

-----------------------------------------------------------------------------
(* The pool implements the registry.                                       *)

\* What the mapping of the steps needs beside the identities: a request that is about
\* to insert holds the instance it has started, and no other.
InsertsOwn == \A r \in Requests : pc[r] = "insert" => lease[r] = r

RegistryInv == IdentityInv /\ InsertsOwn

\* Every step keeps it: only Ready leads to the insertion, and the lease is given up
\* only on the way to the end.
LEMMA StepInsertsOwn ==
  ASSUME RegistryInv, [Next]_vars
  PROVE  InsertsOwn'
<1>. USE DEF Go
<1>t. TypeOK /\ InsertsOwn
  BY DEF RegistryInv, IdentityInv
<1>1. ASSUME NEW r \in Requests, Acquire(r) PROVE InsertsOwn'
  <2>1. CASE Ready(r)
    BY <2>1, <1>t DEF Ready, TypeOK, InsertsOwn
  <2>2. CASE Reuse(r)
    BY <2>2, <1>t DEF Reuse, TypeOK, InsertsOwn
  <2>3. CASE \/ Miss(r) \/ Evict(r) \/ Prepare(r) \/ Launch(r) \/ StartFails(r)
             \/ ProbeTimeout(r) \/ Insert(r)
    BY <2>3, <1>t DEF Miss, Evict, Prepare, Launch, StartFails, ProbeTimeout, Insert,
                      TypeOK, InsertsOwn
  <2>4. CASE Finish(r) \/ Cancel(r)
    BY <2>4, <1>t DEF Finish, Cancel, TypeOK, InsertsOwn
  <2>. QED
    BY <1>1, <2>1, <2>2, <2>3, <2>4 DEF Acquire
<1>2. ASSUME pc' = pc, lease' = lease PROVE InsertsOwn'
  BY <1>2, <1>t DEF InsertsOwn
<1>3. ASSUME NEW r \in Requests, Renew(r) \/ RenewalPanics(r) \/ Age(r) \/ Expire(r)
      PROVE  pc' = pc /\ lease' = lease
  BY <1>3 DEF Renew, RenewalPanics, Age, Expire
<1>4. ASSUME \/ SweepScan \/ SweepRemove \/ \E k \in Keys : Remove(k)
             \/ \E c \in Caps, t \in BOOLEAN : UpdateConfig(c, t)
             \/ UNCHANGED vars
      PROVE  pc' = pc /\ lease' = lease
  BY <1>4 DEF SweepScan, SweepRemove, Remove, UpdateConfig, vars
<1>. QED
  BY <1>1, <1>2, <1>3, <1>4 DEF Next

\* A request that goes on without being served looks the same to the registry.
LEMMA WaitingStutters ==
  ASSUME TypeOK, NEW r \in Requests, NEW to \in PCs \ {"serving", "done"}, Go(r, to),
         pc[r] \notin {"serving", "done"},
         \A q \in Requests \ {r} : lease'[q] = lease[q]
  PROVE  Using' = Using /\ Stage' = Stage
<1>1. \A q \in Requests \ {r} : pc'[q] = pc[q]
  BY DEF TypeOK, Go
<1>2. pc'[r] = to
  BY DEF TypeOK, Go
<1>. QED
  BY <1>1, <1>2 DEF Using, Stage

\* A request that ends, served or not, leaves the registry.
LEMMA EndLeaves ==
  ASSUME TypeOK, NEW r \in Requests, Go(r, "done"), pc[r] # "done",
         \A q \in Requests \ {r} : lease'[q] = lease[q],
         slot' = slot, token' = token, pool' = pool
  PROVE  Registry!Leave(r)
<1>1. /\ \A q \in Requests \ {r} : pc'[q] = pc[q]
      /\ pc'[r] = "done"
  BY DEF TypeOK, Go
<1>2. Using' = [Using EXCEPT ![r] = None] /\ Stage' = [Stage EXCEPT ![r] = "gone"]
  BY <1>1 DEF Using, Stage
<1>3. Stage[r] # "gone" /\ Named' = Named
  BY DEF Stage, Named, KeyOf
<1>. QED
  BY <1>2, <1>3 DEF Registry!Leave

\* A request that gets an instance is served with it.
LEMMA ServedUses ==
  ASSUME TypeOK, NEW r \in Requests, Go(r, "serving"), pc[r] \notin {"serving", "done"},
         \A q \in Requests \ {r} : lease'[q] = lease[q]
  PROVE  /\ Stage[r] = "waiting"
         /\ Using' = [Using EXCEPT ![r] = lease'[r]]
         /\ Stage' = [Stage EXCEPT ![r] = "served"]
<1>1. /\ \A q \in Requests \ {r} : pc'[q] = pc[q]
      /\ pc'[r] = "serving"
  BY DEF TypeOK, Go
<1>. QED
  BY <1>1 DEF Using, Stage

\* Removing entries is dropping them from the registry.
LEMMA ClearingDiscards ==
  ASSUME TypeOK, NEW S \in SUBSET Keys,
         pool' = [k \in Keys |-> IF k \in S THEN None ELSE pool[k]],
         slot' = slot, token' = token, Using' = Using, Stage' = Stage
  PROVE  Registry!Discard
<1>1. Named' = Named
  BY DEF Named, KeyOf
<1>. QED
  BY <1>1 DEF Registry!Discard

\* Every step of the pool is a step of the registry or none.
LEMMA StepRefines ==
  ASSUME RegistryInv, [Next]_vars
  PROVE  [Registry!Next]_(Registry!vars)
<1>. USE DEF PCs, StartingPCs
<1>t. TypeOK
  BY DEF RegistryInv, IdentityInv
<1>f. slot' = slot /\ token' = token
  BY CallsFixed
<1>n. Named' = Named
  BY <1>f DEF Named, KeyOf
<1>1. ASSUME NEW r \in Requests, Reuse(r) PROVE Registry!Join(r)
  <2>1. /\ Go(r, "serving") /\ pc[r] = "check" /\ pool' = pool
        /\ lease' = [lease EXCEPT ![r] = pool[KeyOf(r)]]
    BY <1>1 DEF Reuse
  <2>2. /\ Stage[r] = "waiting"
        /\ Using' = [Using EXCEPT ![r] = lease'[r]]
        /\ Stage' = [Stage EXCEPT ![r] = "served"]
    BY <2>1, <1>t, ServedUses DEF TypeOK
  <2>3. lease'[r] = pool[KeyOf(r)] /\ Named[r] = KeyOf(r)
    BY <2>1, <1>t DEF TypeOK, Named
  <2>4. /\ pool[KeyOf(r)] # None /\ pool[KeyOf(r)] \in Requests
        /\ KeyOf(pool[KeyOf(r)]) = KeyOf(r)
        /\ token[pool[KeyOf(r)]] = token[r]
    BY <1>1, <1>t, ReuseMatches, KeyOfType DEF Reuse, Reusable, RegistryInv, TypeOK
  <2>5. Named[pool[KeyOf(r)]] = Named[r]
    BY <2>4 DEF Named
  <2>. QED
    BY <2>1, <2>2, <2>3, <2>4, <2>5, <1>f, <1>n DEF Registry!Join
<1>2. ASSUME NEW r \in Requests, Insert(r) PROVE Registry!Found(r)
  <2>1. /\ Go(r, "serving") /\ pc[r] = "insert" /\ lease' = lease
        /\ pool' = [pool EXCEPT ![KeyOf(r)] = r]
    BY <1>2 DEF Insert
  <2>2. /\ Stage[r] = "waiting"
        /\ Using' = [Using EXCEPT ![r] = lease'[r]]
        /\ Stage' = [Stage EXCEPT ![r] = "served"]
    BY <2>1, <1>t, ServedUses
  <2>3. lease'[r] = r /\ Named[r] = KeyOf(r)
    BY <2>1 DEF RegistryInv, InsertsOwn, Named
  <2>. QED
    BY <2>1, <2>2, <2>3, <1>f, <1>n DEF Registry!Found
<1>3. ASSUME NEW r \in Requests,
             \/ StartFails(r) \/ ProbeTimeout(r) \/ Finish(r) \/ Cancel(r)
             \/ Prepare(r) /\ Go(r, "done")
      PROVE  Registry!Leave(r)
  <2>1. /\ Go(r, "done") /\ pc[r] # "done" /\ pool' = pool
        /\ lease' = lease \/ lease' = [lease EXCEPT ![r] = None]
    BY <1>3 DEF StartFails, ProbeTimeout, Finish, Cancel, Prepare
  <2>. QED
    BY <2>1, <1>t, <1>f, EndLeaves DEF TypeOK
<1>4. ASSUME NEW r \in Requests,
             \/ Miss(r) \/ Launch(r) \/ Ready(r)
             \/ Prepare(r) /\ ~Go(r, "done")
      PROVE  [Registry!Next]_(Registry!vars)
  <2>1. /\ pool' = pool /\ pc[r] \notin {"serving", "done"}
        /\ \E to \in PCs \ {"serving", "done"} : Go(r, to)
        /\ lease' = lease \/ lease' = [lease EXCEPT ![r] = r]
    BY <1>4 DEF Miss, Launch, Ready, Prepare
  <2>2. Using' = Using /\ Stage' = Stage
    BY <2>1, <1>t, WaitingStutters DEF TypeOK
  <2>. QED
    BY <2>1, <2>2, <1>f, <1>n DEF Registry!vars
<1>5. ASSUME NEW r \in Requests, Evict(r) PROVE Registry!Discard
  <2>1. PICK out \in LruChoices(Occupied \ {KeyOf(r)}) :
          pool' = [k \in Keys |-> IF k \in out \cup {KeyOf(r)} THEN None ELSE pool[k]]
    BY <1>5 DEF Evict
  <2>. DEFINE S == {k \in Keys : k \in out \cup {KeyOf(r)}}
  <2>2. pool' = [k \in Keys |-> IF k \in S THEN None ELSE pool[k]]
    BY <2>1
  <2>3. Using' = Using /\ Stage' = Stage
    BY <1>5, <1>t, WaitingStutters DEF Evict
  <2>4. S \in SUBSET Keys
    OBVIOUS
  <2>. HIDE DEF S
  <2>. QED
    BY <2>2, <2>3, <2>4, <1>t, <1>f, ClearingDiscards
<1>6. ASSUME pc' = pc, lease' = lease PROVE Using' = Using /\ Stage' = Stage
  BY <1>6 DEF Using, Stage
<1>7. ASSUME SweepRemove PROVE Registry!Discard
  <2>1. sweep \in SUBSET Keys /\ Using' = Using /\ Stage' = Stage
    BY <1>6, <1>7, <1>t DEF SweepRemove, TypeOK
  <2>2. pool' = [k \in Keys |-> IF k \in sweep THEN None ELSE pool[k]]
    BY <1>7 DEF SweepRemove
  <2>. QED
    BY <2>1, <2>2, <1>t, <1>f, ClearingDiscards
<1>8. ASSUME NEW k \in Keys, Remove(k) PROVE Registry!Discard
  <2>1. {k} \in SUBSET Keys /\ Using' = Using /\ Stage' = Stage
    BY <1>6, <1>8 DEF Remove
  <2>2. pool' = [l \in Keys |-> IF l \in {k} THEN None ELSE pool[l]]
    BY <1>8, <1>t DEF Remove, TypeOK
  <2>. QED
    BY <2>1, <2>2, <1>t, <1>f, ClearingDiscards
<1>9. ASSUME \/ \E r \in Requests : Renew(r) \/ RenewalPanics(r) \/ Age(r) \/ Expire(r)
             \/ SweepScan \/ \E c \in Caps, t \in BOOLEAN : UpdateConfig(c, t)
             \/ UNCHANGED vars
      PROVE  [Registry!Next]_(Registry!vars)
  <2>1. pc' = pc /\ lease' = lease /\ pool' = pool
    BY <1>9 DEF Renew, RenewalPanics, Age, Expire, SweepScan, UpdateConfig, vars
  <2>. QED
    BY <2>1, <1>6, <1>f, <1>n DEF Registry!vars
<1>10. ASSUME NEW r \in Requests, Acquire(r) PROVE [Registry!Next]_(Registry!vars)
  <2>1. CASE Reuse(r)
    BY <2>1, <1>1 DEF Registry!Next
  <2>2. CASE Insert(r)
    BY <2>2, <1>2 DEF Registry!Next
  <2>3. CASE StartFails(r) \/ ProbeTimeout(r) \/ Finish(r) \/ Cancel(r)
    BY <2>3, <1>3 DEF Registry!Next
  <2>4. CASE Miss(r) \/ Launch(r) \/ Ready(r)
    BY <2>4, <1>4
  <2>5. CASE Prepare(r) /\ Go(r, "done")
    BY <2>5, <1>3 DEF Registry!Next
  <2>6. CASE Prepare(r) /\ ~Go(r, "done")
    BY <2>6, <1>4
  <2>7. CASE Evict(r)
    BY <2>7, <1>5 DEF Registry!Next
  <2>. QED
    BY <1>10, <2>1, <2>2, <2>3, <2>4, <2>5, <2>6, <2>7 DEF Acquire
<1>11. ASSUME SweepRemove \/ \E k \in Keys : Remove(k) PROVE Registry!Next
  BY <1>11, <1>7, <1>8 DEF Registry!Next
<1>. QED
  BY <1>9, <1>10, <1>11 DEF Next

\* The pool keeps the promise of the registry: however the lock of `instances` is given
\* up between the check, the eviction, the start and the insertion, a caller is served
\* by the instance registered under its logic_id for its identity, or registers the one
\* it is served by, and nothing else ever enters the registry.
THEOREM PoolImplementsRegistry == Spec => RegistryImplemented
<1>1. Init => RegistryInv /\ Registry!Init
  <2>. SUFFICES ASSUME Init PROVE RegistryInv /\ Registry!Init
    OBVIOUS
  <2>1. TypeOK
    BY InitTypes
  <2>2. RegistryInv
    BY <2>1 DEF Init, RegistryInv, IdentityInv, PoolKeyed, ServedMatchesRequest, InsertsOwn
  <2>3. Named \in [Requests -> Keys]
    BY <2>1, KeyOfType DEF Named
  <2>4. /\ Using = [r \in Requests |-> None]
        /\ Stage = [r \in Requests |-> "waiting"]
    BY DEF Init, Using, Stage
  <2>. QED
    BY <2>2, <2>3, <2>4 DEF Init, Registry!Init
<1>2. RegistryInv /\ [Next]_vars => RegistryInv'
  BY StepIdentity, StepInsertsOwn DEF RegistryInv
<1>3. RegistryInv /\ [Next]_vars => [Registry!Next]_(Registry!vars)
  BY StepRefines
<1>. QED
  BY <1>1, <1>2, <1>3, PTL DEF Spec, RegistryImplemented, Registry!Spec

=============================================================================
