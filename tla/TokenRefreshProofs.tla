------------------------- MODULE TokenRefreshProofs -------------------------
(***************************************************************************)
(* Proofs about TokenRefresh, for every set of callers, importers,         *)
(* instances and refresh tokens and every number of OAuth clients.         *)
(***************************************************************************)
EXTENDS TokenRefresh, TLAPS

-----------------------------------------------------------------------------
(* The inductive invariant.                                                *)

Critical == {"recheck", "ask", "write"}

\* The loop over the clients has one left until the exchange has failed.
ClientsLeft == \A p \in Parties : pc[p] # "failed" => tries[p] < Clients

TypeInv == TypeOK /\ ClientsLeft

\* A caller between the double check and the save holds the lock of its token.
HoldsLock == \A c \in Callers : pc[c] \in Critical => lock[rt[c]] = c

\* Only a caller with an account looks again or saves.
FoundFirst == \A c \in Callers : pc[c] \in {"recheck", "write"} => found[c]

\* What a caller stored is usable until somebody else writes or it expires.
StillUsable == \A k \in RefreshTokens : refreshed[k] # {} => Usable(stored[k])

\* Nobody refreshes an account that has been refreshed already.
NobodyElse ==
  \A c \in Callers : (pc[c] \in {"ask", "write"} /\ found[c]) => refreshed[rt[c]] = {}

RefreshInv == HoldsLock /\ FoundFirst /\ StillUsable /\ NobodyElse /\ RefreshedOnce

-----------------------------------------------------------------------------
(* Types.                                                                  *)

\* The first values have their types, and every client is left.
LEMMA InitTypes == Init => TypeInv
BY ClientsAssumption DEF Init, TypeInv, TypeOK, ClientsLeft, AccessTokens, Parties

\* The types are inductive together with the count of the clients.
LEMMA StepTypes == TypeInv /\ [Next]_vars => TypeInv'
<1>. SUFFICES ASSUME TypeInv, [Next]_vars PROVE TypeInv'
  OBVIOUS
<1>. USE DEF Go, Return, Others, AccessTokens, TypeInv, TypeOK, ClientsLeft
<1>p. Callers \subseteq Parties /\ Importers \subseteq Parties /\ Instances \subseteq Parties
  BY DEF Parties
<1>1. ASSUME NEW c \in Callers, Lookup(c) PROVE TypeInv'
  BY <1>1, <1>p DEF Lookup, file
<1>2. ASSUME NEW c \in Callers, Lock(c) PROVE TypeInv'
  BY <1>2, <1>p DEF Lock, file
<1>3. ASSUME NEW c \in Callers, Recheck(c) PROVE TypeInv'
  BY <1>3, <1>p DEF Recheck, file
<1>4. ASSUME NEW c \in Callers, Write(c) PROVE TypeInv'
  BY <1>4, <1>p DEF Write, file
<1>5. ASSUME NEW c \in Callers, WriteFails(c) PROVE TypeInv'
  BY <1>5, <1>p DEF WriteFails, file
<1>6. ASSUME NEW p \in Parties, Begin(p) PROVE TypeInv'
  BY <1>6 DEF Begin, file
<1>7. ASSUME NEW p \in Parties, Answered(p) PROVE TypeInv'
  BY <1>7 DEF Answered, Proceed, file
<1>8. ASSUME NEW p \in Parties, AnsweredBlank(p) PROVE TypeInv'
  BY <1>8 DEF AnsweredBlank, Proceed, file
<1>9. ASSUME NEW p \in Parties, Refused(p) PROVE TypeInv'
  BY <1>9, ClientsAssumption DEF Refused, file
<1>10. ASSUME NEW p \in Importers, Import(p) PROVE TypeInv'
  BY <1>10, <1>p DEF Import, Written
<1>11. ASSUME NEW k \in RefreshTokens, OtherReads(k) PROVE TypeInv'
  BY <1>11 DEF OtherReads, party
<1>12. ASSUME NEW k \in RefreshTokens, OtherWrites(k) PROVE TypeInv'
  BY <1>12 DEF OtherWrites, Written, party
<1>13. ASSUME NEW k \in RefreshTokens, Remove(k) PROVE TypeInv'
  BY <1>13 DEF Remove, party
<1>14. ASSUME NEW n \in 0 .. issued, Expire(n) PROVE TypeInv'
  BY <1>14 DEF Expire, file, party
<1>15. ASSUME NEW p \in Instances, GivesUp(p) PROVE TypeInv'
  BY <1>15, <1>p DEF GivesUp, file
<1>16. CASE UNCHANGED vars
  BY <1>16 DEF vars, file, party
<1>. QED
  BY <1>1, <1>2, <1>3, <1>4, <1>5, <1>6, <1>7, <1>8, <1>9, <1>10, <1>11, <1>12,
     <1>13, <1>14, <1>15, <1>16, <1>p DEF Next, Resolve, Exchange

\* The types hold, and an exchange tries no more clients than there are.
THEOREM RefreshTypes == Spec => []TypeOK
<1>1. TypeInv => TypeOK
  BY DEF TypeInv
<1>. QED
  BY <1>1, InitTypes, StepTypes, PTL DEF Spec

-----------------------------------------------------------------------------
(* Mutual exclusion of the refresh and its effect.                         *)

\* One holder per lock: two callers in the critical section are one.
LEMMA Exclusion == HoldsLock => ResolveExclusive
BY DEF HoldsLock, ResolveExclusive, Critical

\* At first no lock is held and nothing has been refreshed.
LEMMA InitRefresh == Init => RefreshInv
BY DEF Init, RefreshInv, HoldsLock, FoundFirst, StillUsable, NobodyElse, RefreshedOnce,
       Critical, Parties

\* Every step preserves the invariant.
LEMMA StepRefresh == TypeInv /\ RefreshInv /\ [Next]_vars => RefreshInv'
<1>. SUFFICES ASSUME TypeInv, RefreshInv, [Next]_vars PROVE RefreshInv'
  OBVIOUS
<1>. USE DEF Go, Return, Others, TypeInv, TypeOK, RefreshInv, HoldsLock, FoundFirst,
             StillUsable, NobodyElse, RefreshedOnce, Critical, Usable
<1>p. /\ Callers \subseteq Parties /\ Importers \subseteq Parties /\ Instances \subseteq Parties
      /\ None \notin Callers /\ None \notin Nat
      /\ Callers \cap (Importers \cup Instances) = {}
  BY PartiesAssumption, SentinelAssumption DEF Parties
<1>1. ASSUME NEW c \in Callers, Lookup(c) PROVE RefreshInv'
  BY <1>1, <1>p DEF Lookup, file
<1>2. ASSUME NEW c \in Callers, Lock(c) PROVE RefreshInv'
  BY <1>2, <1>p DEF Lock, file
<1>3. ASSUME NEW c \in Callers, Recheck(c) PROVE RefreshInv'
  BY <1>3, <1>p DEF Recheck, Reads, file
<1>4. ASSUME NEW c \in Callers, Write(c) PROVE RefreshInv'
  BY <1>4, <1>p DEF Write, file
<1>5. ASSUME NEW c \in Callers, WriteFails(c) PROVE RefreshInv'
  BY <1>5, <1>p DEF WriteFails, file
<1>6. ASSUME NEW p \in Importers \cup Instances, Begin(p) PROVE RefreshInv'
  BY <1>6, <1>p DEF Begin, file
<1>7. ASSUME NEW p \in Parties, Answered(p) PROVE RefreshInv'
  BY <1>7, <1>p DEF Answered, Proceed, Stores, file
<1>8. ASSUME NEW p \in Parties, AnsweredBlank(p) PROVE RefreshInv'
  BY <1>8, <1>p DEF AnsweredBlank, Proceed, Stores, file
<1>9. ASSUME NEW p \in Parties, Refused(p) PROVE RefreshInv'
  BY <1>9, <1>p DEF Refused, file
<1>10. ASSUME NEW p \in Importers, Import(p) PROVE RefreshInv'
  BY <1>10, <1>p DEF Import
<1>11. ASSUME NEW k \in RefreshTokens, OtherReads(k) PROVE RefreshInv'
  BY <1>11 DEF OtherReads, party
<1>12. ASSUME NEW k \in RefreshTokens, OtherWrites(k) PROVE RefreshInv'
  BY <1>12 DEF OtherWrites, party
<1>13. ASSUME NEW k \in RefreshTokens, Remove(k) PROVE RefreshInv'
  BY <1>13 DEF Remove, party
<1>14. ASSUME NEW n \in 0 .. issued, Expire(n) PROVE RefreshInv'
  <2>1. /\ stored' = stored /\ expired' = expired \cup {n}
        /\ lock' = lock /\ rt' = rt /\ pc' = pc /\ found' = found
        /\ refreshed' = [k \in RefreshTokens |->
                           IF stored[k] = n THEN {} ELSE refreshed[k]]
    BY <1>14 DEF Expire, file, party
  <2>2. HoldsLock' /\ FoundFirst'
    BY <2>1
  <2>3. StillUsable'
    BY <2>1
  <2>4. \A k \in RefreshTokens : refreshed'[k] \in {refreshed[k], {}}
    BY <2>1
  <2>5. \A c \in Callers : rt[c] \in RefreshTokens
    BY <1>p
  <2>6. NobodyElse' /\ RefreshedOnce'
    BY <2>1, <2>4, <2>5
  <2>. QED
    BY <2>2, <2>3, <2>6
<1>15. ASSUME NEW p \in Instances, GivesUp(p) PROVE RefreshInv'
  BY <1>15, <1>p DEF GivesUp, file
<1>16. CASE UNCHANGED vars
  BY <1>16 DEF vars, file, party
<1>. QED
  BY <1>1, <1>2, <1>3, <1>4, <1>5, <1>6, <1>7, <1>8, <1>9, <1>10, <1>11, <1>12,
     <1>13, <1>14, <1>15, <1>16, <1>p DEF Next, Resolve, Exchange

\* No two callers of resolve_access_token present one refresh token at once.
THEOREM RefreshExclusive == Spec => []ResolveExclusive
<1>1. RefreshInv => ResolveExclusive
  BY Exclusion DEF RefreshInv
<1>. QED
  BY <1>1, InitTypes, StepTypes, InitRefresh, StepRefresh, PTL DEF Spec

\* The double check works: an account that one caller has refreshed, and nobody else
\* has written, is not refreshed by another as long as the new token is good.
THEOREM RefreshOnce == Spec => []RefreshedOnce
<1>1. RefreshInv => RefreshedOnce
  BY DEF RefreshInv
<1>. QED
  BY <1>1, InitTypes, StepTypes, InitRefresh, StepRefresh, PTL DEF Spec

-----------------------------------------------------------------------------
(* What CallersReturn rests on: a lock that is held is on its way back, and *)
(* a caller that goes on comes closer to its return.                        *)

\* Whoever has a lock is between the double check and the save of its token.
LockIsUsed ==
  \A k \in RefreshTokens :
    lock[k] # None => /\ lock[k] \in Callers
                      /\ rt[lock[k]] = k
                      /\ pc[lock[k]] \in Critical

\* How many steps a caller may still take, the wait for the lock counted as one.
StepsLeft(c) ==
  CASE pc[c] = "lookup" -> Clients + 4
    [] pc[c] = "queue" -> Clients + 3
    [] pc[c] = "recheck" -> Clients + 2
    [] pc[c] = "ask" -> (Clients - tries[c]) + 1
    [] pc[c] = "write" -> 1
    [] OTHER -> 0

\* At first no lock is held.
LEMMA InitLocks == Init => LockIsUsed
<1>. SUFFICES ASSUME Init PROVE LockIsUsed
  OBVIOUS
<1>1. Callers \subseteq Parties
  BY DEF Parties
<1>. QED
  BY <1>1 DEF Init, LockIsUsed

\* Every way out of the section gives the lock back.
LEMMA StepLocks ==
  TypeInv /\ HoldsLock /\ LockIsUsed /\ [Next]_vars => LockIsUsed'
<1>. SUFFICES ASSUME TypeInv, HoldsLock, LockIsUsed, [Next]_vars
              PROVE LockIsUsed'
  OBVIOUS
<1>. USE DEF Go, Return, TypeInv, TypeOK, HoldsLock, LockIsUsed, Critical
<1>p. /\ Callers \subseteq Parties /\ Importers \subseteq Parties /\ Instances \subseteq Parties
      /\ None \notin Callers
      /\ Callers \cap (Importers \cup Instances) = {}
  BY PartiesAssumption, SentinelAssumption DEF Parties
<1>1. ASSUME NEW c \in Callers, Lookup(c) PROVE LockIsUsed'
  BY <1>1, <1>p DEF Lookup
<1>2. ASSUME NEW c \in Callers, Lock(c) PROVE LockIsUsed'
  BY <1>2, <1>p DEF Lock
<1>3. ASSUME NEW c \in Callers, Recheck(c) PROVE LockIsUsed'
  BY <1>3, <1>p DEF Recheck
<1>4. ASSUME NEW c \in Callers, Write(c) PROVE LockIsUsed'
  BY <1>4, <1>p DEF Write
<1>5. ASSUME NEW c \in Callers, WriteFails(c) PROVE LockIsUsed'
  BY <1>5, <1>p DEF WriteFails
<1>6. ASSUME NEW p \in Importers \cup Instances, Begin(p) PROVE LockIsUsed'
  BY <1>6, <1>p DEF Begin
<1>7. ASSUME NEW p \in Parties, Answered(p) PROVE LockIsUsed'
  BY <1>7, <1>p DEF Answered, Proceed, Stores
<1>8. ASSUME NEW p \in Parties, AnsweredBlank(p) PROVE LockIsUsed'
  BY <1>8, <1>p DEF AnsweredBlank, Proceed, Stores
<1>9. ASSUME NEW p \in Parties, Refused(p) PROVE LockIsUsed'
  BY <1>9, <1>p DEF Refused
<1>10. ASSUME NEW p \in Importers, Import(p) PROVE LockIsUsed'
  BY <1>10, <1>p DEF Import
<1>11. ASSUME NEW p \in Instances, GivesUp(p) PROVE LockIsUsed'
  BY <1>11, <1>p DEF GivesUp
<1>12. ASSUME UNCHANGED <<lock, party>> PROVE LockIsUsed'
  BY <1>12 DEF party
<1>. QED
  BY <1>1, <1>2, <1>3, <1>4, <1>5, <1>6, <1>7, <1>8, <1>9, <1>10, <1>11, <1>12, <1>p
  DEF Next, Resolve, Exchange, OtherReads, OtherWrites, Remove, Expire, vars

\* No return path of resolve_access_token leaves the lock behind: who waits for one waits for
\* a caller that is past the double check.
THEOREM LocksComeBack == Spec => []LockIsUsed
<1>1. RefreshInv => HoldsLock
  BY DEF RefreshInv
<1>. QED
  BY <1>1, InitTypes, StepTypes, InitRefresh, StepRefresh, InitLocks, StepLocks, PTL DEF Spec

\* A step of a caller brings it closer to its return, the others keep it where it is.
LEMMA StepCloser ==
  ASSUME TypeInv, [Next]_vars, NEW c \in Callers
  PROVE  /\ StepsLeft(c) \in Nat
         /\ StepsLeft(c)' <= StepsLeft(c)
         /\ Resolve(c) => StepsLeft(c)' < StepsLeft(c)
<1>. USE DEF Go, Return, TypeInv, TypeOK, ClientsLeft
<1>p. /\ Callers \subseteq Parties /\ Importers \subseteq Parties /\ Instances \subseteq Parties
      /\ Callers \cap (Importers \cup Instances) = {}
  BY PartiesAssumption DEF Parties
<1>t. /\ Clients \in Nat /\ tries[c] \in 0 .. Clients
      /\ pc[c] # "failed" => tries[c] < Clients
  BY <1>p, ClientsAssumption
<1>n. StepsLeft(c) \in Nat
  BY <1>t DEF StepsLeft
\* Where the caller may go from where it is.
<1>a. \/ pc'[c] = pc[c] /\ tries'[c] = tries[c]
      \/ pc[c] = "lookup" /\ pc'[c] \in {"queue", "done"}
      \/ pc[c] = "queue" /\ pc'[c] \in {"recheck", "ask"} /\ tries'[c] = tries[c]
      \/ pc[c] = "recheck" /\ pc'[c] \in {"ask", "done"} /\ tries'[c] = tries[c]
      \/ pc[c] = "ask" /\ pc'[c] = "ask" /\ tries'[c] = tries[c] + 1
      \/ pc[c] = "ask" /\ pc'[c] \in {"write", "done", "failed"}
      \/ pc[c] = "write" /\ pc'[c] = "done"
  <2>. DEFINE Goal ==
         \/ pc'[c] = pc[c] /\ tries'[c] = tries[c]
         \/ pc[c] = "lookup" /\ pc'[c] \in {"queue", "done"}
         \/ pc[c] = "queue" /\ pc'[c] \in {"recheck", "ask"} /\ tries'[c] = tries[c]
         \/ pc[c] = "recheck" /\ pc'[c] \in {"ask", "done"} /\ tries'[c] = tries[c]
         \/ pc[c] = "ask" /\ pc'[c] = "ask" /\ tries'[c] = tries[c] + 1
         \/ pc[c] = "ask" /\ pc'[c] \in {"write", "done", "failed"}
         \/ pc[c] = "write" /\ pc'[c] = "done"
  <2>1. ASSUME NEW d \in Callers, Lookup(d) PROVE Goal
    BY <2>1, <1>p DEF Lookup
  <2>2. ASSUME NEW d \in Callers, Lock(d) PROVE Goal
    BY <2>2, <1>p DEF Lock
  <2>3. ASSUME NEW d \in Callers, Recheck(d) PROVE Goal
    BY <2>3, <1>p DEF Recheck
  <2>4. ASSUME NEW d \in Callers, Write(d) \/ WriteFails(d) PROVE Goal
    BY <2>4, <1>p DEF Write, WriteFails
  <2>5. ASSUME NEW p \in Importers \cup Instances, Begin(p) PROVE Goal
    BY <2>5, <1>p DEF Begin
  <2>6. ASSUME NEW p \in Parties, Answered(p) \/ AnsweredBlank(p) PROVE Goal
    BY <2>6, <1>p DEF Answered, AnsweredBlank, Proceed
  <2>7. ASSUME NEW p \in Parties, Refused(p) PROVE Goal
    BY <2>7, <1>p DEF Refused
  <2>8. ASSUME NEW p \in Importers, Import(p) PROVE Goal
    BY <2>8, <1>p DEF Import
  <2>9. ASSUME NEW p \in Instances, GivesUp(p) PROVE Goal
    BY <2>9, <1>p DEF GivesUp
  <2>10. ASSUME UNCHANGED party PROVE Goal
    BY <2>10 DEF party
  <2>. HIDE DEF Goal
  <2>11. Goal
    BY <2>1, <2>2, <2>3, <2>4, <2>5, <2>6, <2>7, <2>8, <2>9, <2>10, <1>p
    DEF Next, Resolve, Exchange, OtherReads, OtherWrites, Remove, Expire, vars
  <2>. QED
    BY <2>11 DEF Goal
<1>b. tries'[c] \in Nat /\ tries'[c] <= Clients
  BY <1>p, StepTypes
<1>c. pc'[c] # pc[c] \/ tries'[c] # tries[c] => StepsLeft(c)' < StepsLeft(c)
  BY <1>a, <1>b, <1>n, <1>t DEF StepsLeft
<1>d. pc'[c] = pc[c] /\ tries'[c] = tries[c] => StepsLeft(c)' = StepsLeft(c)
  BY DEF StepsLeft
<1>e. Resolve(c) => pc'[c] # pc[c] \/ tries'[c] # tries[c]
  <2>1. Lookup(c) \/ Lock(c) \/ Recheck(c) \/ Write(c) \/ WriteFails(c) => pc'[c] # pc[c]
    BY <1>p DEF Lookup, Lock, Recheck, Write, WriteFails
  <2>2. Answered(c) \/ AnsweredBlank(c) => pc'[c] # pc[c]
    BY <1>p DEF Answered, AnsweredBlank, Proceed
  <2>3. Refused(c) => tries'[c] # tries[c]
    <3>1. Refused(c) => tries'[c] = tries[c] + 1
      BY <1>p DEF Refused
    <3>. QED
      BY <3>1, <1>t
  <2>. QED
    BY <2>1, <2>2, <2>3 DEF Resolve, Exchange
<1>f. StepsLeft(c)' \in Nat
  BY <1>a, <1>b, <1>n, <1>t DEF StepsLeft
<1>. QED
  BY <1>c, <1>d, <1>e, <1>f, <1>n

\* A caller takes finitely many steps, at most four more than there are clients: no step,
\* its own or another's, sets it back.
THEOREM CallersComeCloser ==
  Spec => [][\A c \in Callers :
               /\ StepsLeft(c) \in Nat /\ StepsLeft(c)' <= StepsLeft(c)
               /\ Resolve(c) => StepsLeft(c)' < StepsLeft(c)]_vars
<1>. DEFINE Closer ==
       \A c \in Callers :
         /\ StepsLeft(c) \in Nat /\ StepsLeft(c)' <= StepsLeft(c)
         /\ Resolve(c) => StepsLeft(c)' < StepsLeft(c)
<1>1. TypeInv /\ [Next]_vars => Closer
  BY StepCloser
<1>. QED
  BY <1>1, InitTypes, StepTypes, PTL DEF Spec

=============================================================================
