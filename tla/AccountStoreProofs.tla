------------------------- MODULE AccountStoreProofs -------------------------
(***************************************************************************)
(* Proofs about AccountStore, for all accounts, tokens, tasks and deaths.  *)
(***************************************************************************)
EXTENDS AccountStore, FiniteSetTheorems, SequenceTheorems, TLAPS

-----------------------------------------------------------------------------
(* The inductive invariants.                                               *)

\* What a task holds at each of its steps.
Settles == {"label", "remove", "reorder"} \cup Upserts \cup StatusEdits
TaskShape(t) ==
  /\ pc[t] \in {"open", "fill", "void"} => /\ op[t] \in Edits \cup {"import"}
                                           /\ target[t] \in Accounts /\ snap[t] \in Record
  /\ pc[t] \in {"forget", "unlink"} => op[t] = "remove" /\ target[t] \in Accounts
  /\ pc[t] = "forget" => snap[t] \in Record
  /\ pc[t] \in {"lock", "save"} =>
       /\ op[t] \in Settles
       /\ op[t] # "reorder" => target[t] \in Accounts
       /\ op[t] \notin {"remove", "reorder"} => snap[t] \in Record
TasksInv == TypeOK /\ \A t \in Tasks : TaskShape(t)

\* A listing that names no account twice and whose rotation position is in it.
Distinct(seq) == \A i, j \in DOMAIN seq : seq[i].id = seq[j].id => i = j
WellFormed(seq, cur) ==
  Distinct(seq) /\ IF seq = <<>> THEN cur = None ELSE cur \in Ids(seq)

\* The listing in memory and the one on disk, unless that one is torn.
IndexInv ==
  /\ TasksInv
  /\ IndexWellFormed
  /\ disk # Torn => WellFormed(disk.accounts, disk.current)

\* A record that says Forbidden says disabled too, in the files and in what is to be written.
BanMarked(r) == r.status = "Forbidden" => r.disabled
BanInv ==
  /\ TasksInv
  /\ \A a \in Accounts : Readable(a) => BanMarked(file[a])
  /\ \A t \in Tasks : pc[t] \in {"open", "fill"} => BanMarked(snap[t])

\* The accounts handed out are the last ones of the rotation: the account d places before
\* the current one was handed out d calls ago.
Back(p, d) == IF p > d THEN p - d ELSE p - d + Len(Candidates)
Rotation(p) ==
  /\ current = Candidates[p]
  /\ \A k \in 1 .. Len(handed) : handed[k] = Candidates[Back(p, Len(handed) - k)]
RotationInv ==
  /\ ~up => handed = <<>>
  /\ handed # <<>> => /\ Len(handed) <= Len(Candidates)
                      /\ \E p \in 1 .. Len(Candidates) : Rotation(p)

-----------------------------------------------------------------------------
(* Numbers and positions.                                                  *)

\* A set of natural numbers has a least member.  The library's induction theorems speak of
\* operators; finite sets under strict inclusion give it without one.
LEMMA LeastNatural ==
  ASSUME NEW T, T \subseteq Nat, T # {}
  PROVE  \E m \in T : \A n \in T : m <= n
<1>. DEFINE Below(n) == 0 .. n
            D == {Below(n) : n \in T}
            R == StrictSubsetOrdering(Nat)
<1>1. IsWellFoundedOn(R, FiniteSubsetsOf(Nat))
  BY FS_StrictSubsetOrderingWellFounded
<1>2. D \subseteq FiniteSubsetsOf(Nat) /\ D # {}
  <2>1. \A n \in T : Below(n) \in SUBSET Nat /\ IsFiniteSet(Below(n))
    BY FS_Interval
  <2>. QED
    BY <2>1 DEF FiniteSubsetsOf
<1>3. \E x \in D : \A y \in D : <<y, x>> \notin R
  <2>. HIDE DEF D, R
  <2>. QED
    BY <1>1, <1>2, WFMin
<1>4. PICK m \in T : \A n \in T : <<Below(n), Below(m)>> \notin R
  BY <1>3
<1>5. ASSUME NEW n \in T, n < m PROVE FALSE
  <2>1. n \in Nat /\ m \in Nat
    OBVIOUS
  <2>2. Below(n) \subseteq Below(m) /\ Below(n) # Below(m)
    <3>1. m \in Below(m) /\ m \notin Below(n)
      BY <1>5, <2>1
    <3>. QED
      BY <1>5, <2>1, <3>1
  <2>3. Below(n) \subseteq Nat /\ Below(m) \subseteq Nat
    BY <2>1
  <2>. QED
    BY <1>4, <2>2, <2>3 DEF StrictSubsetOrdering
<1>. QED
  BY <1>5

\* A set of positions that is not empty has a last one.
LEMMA LastPlace ==
  ASSUME NEW n \in Nat, NEW K \in SUBSET (1 .. n), K # {}
  PROVE  \E m \in K : \A k \in K : k <= m
<1>. DEFINE T == {n - k : k \in K}
<1>1. T \subseteq Nat /\ T # {}
  <2>1. \A k \in K : n - k \in Nat
    OBVIOUS
  <2>. QED
    BY <2>1
<1>2. PICK t \in T : \A u \in T : t <= u
  BY <1>1, LeastNatural
<1>3. PICK m \in K : t = n - m
  BY <1>2
<1>4. \A k \in K : n - m <= n - k
  BY <1>2, <1>3
<1>5. \A k \in K : k \in 1 .. n
  OBVIOUS
<1>. QED
  BY <1>4, <1>5

\* The members of a set of positions, each once, from the first to the last.
Increasing(seq) == \A i, j \in DOMAIN seq : i < j => seq[i] < seq[j]
OrderOf(K) == {seq \in SetToSeqs(K) : Increasing(seq)}

\* What makes a sequence one.
LEMMA SeqsOf ==
  ASSUME NEW K, IsFiniteSet(K), NEW c \in Nat, c = Cardinality(K)
  PROVE  \A seq : seq \in SetToSeqs(K) <=>
           seq \in [1 .. c -> K] /\ \A i, j \in 1 .. c : i # j => seq[i] # seq[j]
BY DEF SetToSeqs

\* One more position at the end.
LEMMA OrderExtends ==
  ASSUME NEW n \in Nat \ {0}, NEW K \in SUBSET (1 .. n), n \in K, OrderOf(K \ {n}) # {}
  PROVE  OrderOf(K) # {}
<1>. DEFINE L == K \ {n}
<1>1. IsFiniteSet(K) /\ IsFiniteSet(L)
  <2>1. IsFiniteSet(1 .. n)
    BY FS_Interval
  <2>. QED
    BY <2>1, FS_Subset
<1>2. PICK c \in Nat : c = Cardinality(L)
  BY <1>1, FS_CardinalityType
<1>3. Cardinality(K) = c + 1
  <2>1. L \cup {n} = K /\ n \notin L
    OBVIOUS
  <2>. QED
    BY <1>1, <1>2, <2>1, FS_AddElement
<1>4. PICK seq \in SetToSeqs(L) : Increasing(seq)
  BY DEF OrderOf
<1>5. seq \in [1 .. c -> L]
  BY <1>1, <1>2, <1>4, SeqsOf
<1>. DEFINE new == [i \in 1 .. c + 1 |-> IF i <= c THEN seq[i] ELSE n]
<1>6. \A i \in 1 .. c : seq[i] \in K /\ seq[i] < n /\ seq[i] \in Int
  <2>1. \A k \in L : k \in K /\ k < n /\ k \in Int
    <3>1. \A k \in L : k \in K /\ k \in 1 .. n /\ k # n
      OBVIOUS
    <3>. HIDE DEF L
    <3>. QED
      BY <3>1
  <2>2. \A i \in 1 .. c : seq[i] \in L
    BY <1>5
  <2>. HIDE DEF L
  <2>. QED
    BY <2>1, <2>2
<1>7. \A i, j \in 1 .. c : i < j => seq[i] < seq[j]
  BY <1>4, <1>5 DEF Increasing
<1>8. DOMAIN new = 1 .. c + 1 /\ (\A i \in 1 .. c : new[i] = seq[i]) /\ new[c + 1] = n
  OBVIOUS
<1>9. new \in [1 .. c + 1 -> K]
  BY <1>6
<1>. HIDE DEF new
<1>10. \A i, j \in 1 .. c + 1 : i < j => new[i] < new[j]
  <2>. SUFFICES ASSUME NEW i \in 1 .. c + 1, NEW j \in 1 .. c + 1, i < j PROVE new[i] < new[j]
    OBVIOUS
  <2>1. i \in 1 .. c
    OBVIOUS
  <2>2. CASE j = c + 1
    BY <1>6, <1>8, <2>1, <2>2
  <2>3. CASE j # c + 1
    <3>1. j \in 1 .. c
      BY <2>3
    <3>. QED
      BY <1>7, <1>8, <2>1, <3>1
  <2>. QED
    BY <2>2, <2>3
<1>11. \A i, j \in 1 .. c + 1 : i # j => new[i] # new[j]
  <2>. SUFFICES ASSUME NEW i \in 1 .. c + 1, NEW j \in 1 .. c + 1, i # j PROVE new[i] # new[j]
    OBVIOUS
  <2>1. new[i] \in Int /\ new[j] \in Int
    <3>1. new[i] \in K /\ new[j] \in K
      BY <1>9
    <3>2. \A k \in K : k \in Int
      OBVIOUS
    <3>. QED
      BY <3>1, <3>2
  <2>2. i < j \/ j < i
    OBVIOUS
  <2>. QED
    BY <1>10, <2>1, <2>2
<1>12. new \in SetToSeqs(K)
  <2>1. c + 1 \in Nat
    OBVIOUS
  <2>. QED
    BY <1>1, <1>3, <1>9, <1>11, <2>1, SeqsOf
<1>13. Increasing(new)
  BY <1>8, <1>10 DEF Increasing
<1>. QED
  BY <1>12, <1>13 DEF OrderOf

\* Every set of positions has its order: there is no first bound at which one has none.
LEMMA OrderExists ==
  ASSUME NEW n \in Nat, NEW K \in SUBSET (1 .. n)
  PROVE  OrderOf(K) # {}
<1>. DEFINE Bad == {m \in Nat : \E L \in SUBSET (1 .. m) : OrderOf(L) = {}}
<1>1. ASSUME Bad # {} PROVE FALSE
  <2>1. PICK m \in Bad : \A k \in Bad : m <= k
    <3>1. Bad \subseteq Nat
      OBVIOUS
    <3>. QED
      BY <1>1, <3>1, LeastNatural
  <2>2. PICK L \in SUBSET (1 .. m) : OrderOf(L) = {}
    BY <2>1
  <2>3. m \in Nat
    BY <2>1
  <2>4. CASE L = {}
    <3>1. IsFiniteSet(L) /\ Cardinality(L) = 0
      BY <2>4, FS_EmptySet
    <3>. DEFINE e == [i \in 1 .. 0 |-> 0]
    <3>2. e \in SetToSeqs(L)
      <4>1. e \in [1 .. 0 -> L] /\ \A i, j \in 1 .. 0 : i # j => e[i] # e[j]
        OBVIOUS
      <4>2. 0 \in Nat
        OBVIOUS
      <4>. QED
        BY <3>1, <4>1, <4>2, SeqsOf
    <3>3. Increasing(e)
      BY DEF Increasing
    <3>. QED
      BY <2>2, <3>2, <3>3 DEF OrderOf
  <2>5. CASE L # {}
    <3>1. m # 0 /\ m - 1 \in Nat /\ m - 1 \notin Bad
      <4>1. PICK k \in 1 .. m : k \in L
        BY <2>5
      <4>2. m # 0 /\ m - 1 \in Nat /\ ~(m <= m - 1)
        BY <2>3, <4>1
      <4>. HIDE DEF Bad
      <4>. QED
        BY <2>1, <4>2
    <3>2. L \ {m} \in SUBSET (1 .. m - 1)
      BY <2>3
    <3>3. OrderOf(L \ {m}) # {}
      BY <3>1, <3>2
    <3>4. CASE m \in L
      BY <2>2, <2>3, <3>1, <3>3, <3>4, OrderExtends
    <3>5. CASE m \notin L
      <4>1. L \ {m} = L
        BY <3>5
      <4>. QED
        BY <2>2, <3>3, <4>1
    <3>. QED
      BY <3>4, <3>5
  <2>. QED
    BY <2>4, <2>5
<1>. QED
  BY <1>1

\* Ordered gives it.
LEMMA OrderedMeans ==
  ASSUME NEW n \in Nat, NEW K \in SUBSET (1 .. n)
  PROVE  \E c \in Nat :
           /\ Ordered(K) \in [1 .. c -> K]
           /\ \A i, j \in 1 .. c : i # j => Ordered(K)[i] # Ordered(K)[j]
<1>1. IsFiniteSet(K)
  <2>1. IsFiniteSet(1 .. n)
    BY FS_Interval
  <2>. QED
    BY <2>1, FS_Subset
<1>2. PICK c \in Nat : c = Cardinality(K)
  BY <1>1, FS_CardinalityType
<1>3. Ordered(K) \in SetToSeqs(K)
  BY OrderExists DEF OrderOf, Increasing, Ordered
<1>. QED
  BY <1>1, <1>2, <1>3, SeqsOf

-----------------------------------------------------------------------------
(* Listings.                                                               *)

\* What a listing is made of.
LEMMA ListingShape ==
  ASSUME NEW seq \in Seq(Summary)
  PROVE  /\ Len(seq) \in Nat /\ DOMAIN seq = 1 .. Len(seq)
         /\ \A i \in 1 .. Len(seq) : seq[i] \in Summary /\ seq[i].id \in Accounts
         /\ Ids(seq) \in SUBSET Accounts /\ IsFiniteSet(Ids(seq))
<1>1. Len(seq) \in Nat /\ DOMAIN seq = 1 .. Len(seq)
      /\ \A i \in 1 .. Len(seq) : seq[i] \in Summary /\ seq[i].id \in Accounts
  <2>1. Len(seq) \in Nat /\ DOMAIN seq = 1 .. Len(seq)
        /\ \A i \in 1 .. Len(seq) : seq[i] \in Summary
    BY ElementOfSeq, LenProperties
  <2>2. \A x \in Summary : x.id \in Accounts
    BY DEF Summary
  <2>. QED
    BY <2>1, <2>2
<1>2. Ids(seq) \in SUBSET Accounts
  BY <1>1 DEF Ids
<1>. QED
  BY <1>1, <1>2, SetsAssumption, FS_Subset

\* The candidates are accounts of the listing, each once.
LEMMA EligibleMeans ==
  ASSUME NEW seq \in Seq(Summary), Distinct(seq)
  PROVE  \E c \in Nat :
           /\ EligibleOf(seq) \in [1 .. c -> Ids(seq)]
           /\ Len(EligibleOf(seq)) = c
           /\ \A i, j \in 1 .. c : i # j => EligibleOf(seq)[i] # EligibleOf(seq)[j]
<1>. DEFINE K == {i \in DOMAIN seq : Eligible(seq[i])}
            O == Ordered(K)
<1>1. Len(seq) \in Nat /\ K \in SUBSET (1 .. Len(seq))
  BY ListingShape
<1>2. PICK c \in Nat : /\ O \in [1 .. c -> K]
                       /\ \A i, j \in 1 .. c : i # j => O[i] # O[j]
  BY <1>1, OrderedMeans
<1>3. EligibleOf(seq) = [i \in DOMAIN O |-> seq[O[i]].id]
  BY DEF EligibleOf
<1>. HIDE DEF O
<1>4. EligibleOf(seq) = [i \in 1 .. c |-> seq[O[i]].id]
  BY <1>2, <1>3
<1>5. \A i \in 1 .. c : O[i] \in DOMAIN seq
  BY <1>2
<1>6. EligibleOf(seq) \in [1 .. c -> Ids(seq)]
  BY <1>4, <1>5 DEF Ids
<1>7. \A i, j \in 1 .. c : i # j => EligibleOf(seq)[i] # EligibleOf(seq)[j]
  BY <1>2, <1>4, <1>5 DEF Distinct
<1>8. Len(EligibleOf(seq)) = c
  BY <1>4
<1>. QED
  BY <1>6, <1>7, <1>8

\* Removing one entry.
LEMMA RemoveAtMeans ==
  ASSUME NEW seq \in Seq(Summary), NEW p \in 1 .. Len(seq)
  PROVE  /\ RemoveAt(seq, p) \in Seq(Summary)
         /\ Len(RemoveAt(seq, p)) = Len(seq) - 1
         /\ \A i \in 1 .. Len(seq) - 1 :
              RemoveAt(seq, p)[i] = IF i < p THEN seq[i] ELSE seq[i + 1]
<1>. DEFINE before == SubSeq(seq, 1, p - 1)
            after == SubSeq(seq, p + 1, Len(seq))
<1>1. Len(seq) \in Nat /\ p \in Nat
  OBVIOUS
<1>2. /\ before \in Seq(Summary) /\ Len(before) = p - 1
      /\ \A i \in 1 .. p - 1 : before[i] = seq[i]
  BY <1>1
<1>3. /\ after \in Seq(Summary) /\ Len(after) = Len(seq) - p
      /\ \A i \in 1 .. Len(seq) - p : after[i] = seq[p + i]
  BY <1>1
<1>4. RemoveAt(seq, p) = before \o after
  BY DEF RemoveAt
<1>. HIDE DEF before, after
<1>5. /\ before \o after \in Seq(Summary) /\ Len(before \o after) = Len(seq) - 1
      /\ \A i \in 1 .. Len(seq) - 1 :
           (before \o after)[i] = IF i <= p - 1 THEN before[i] ELSE after[i - (p - 1)]
  <2>1. Len(before) + Len(after) = Len(seq) - 1
    BY <1>1, <1>2, <1>3
  <2>2. /\ before \o after \in Seq(Summary)
        /\ Len(before \o after) = Len(before) + Len(after)
        /\ \A i \in 1 .. Len(before) + Len(after) :
             (before \o after)[i] = IF i <= Len(before) THEN before[i] ELSE after[i - Len(before)]
    BY <1>2, <1>3, ConcatProperties
  <2>. QED
    BY <1>2, <2>1, <2>2
<1>6. ASSUME NEW i \in 1 .. Len(seq) - 1
      PROVE  RemoveAt(seq, p)[i] = IF i < p THEN seq[i] ELSE seq[i + 1]
  <2>1. CASE i < p
    <3>1. i \in 1 .. p - 1
      BY <1>1, <2>1
    <3>. QED
      BY <1>2, <1>4, <1>5, <2>1, <3>1
  <2>2. CASE ~(i < p)
    <3>1. i - (p - 1) \in 1 .. Len(seq) - p /\ p + (i - (p - 1)) = i + 1
      BY <1>1, <2>2
    <3>2. after[i - (p - 1)] = seq[i + 1]
      BY <1>3, <3>1
    <3>3. ~(i <= p - 1)
      BY <1>1, <2>2
    <3>. QED
      BY <1>4, <1>5, <2>2, <3>2, <3>3
  <2>. QED
    BY <2>1, <2>2
<1>. QED
  BY <1>4, <1>5, <1>6

\* A listing is empty when it names nobody.
LEMMA EmptyListing ==
  ASSUME NEW seq \in Seq(Summary)
  PROVE  seq = <<>> <=> Ids(seq) = {}
<1>1. Len(seq) \in Nat /\ DOMAIN seq = 1 .. Len(seq)
  BY ListingShape
<1>2. seq = <<>> <=> Len(seq) = 0
  BY EmptySeq, <1>1
<1>3. Ids(seq) = {} <=> DOMAIN seq = {}
  BY DEF Ids
<1>4. \A n \in Nat : 1 .. n = {} <=> n = 0
  OBVIOUS
<1>5. DOMAIN seq = {} <=> Len(seq) = 0
  BY <1>1, <1>4
<1>. QED
  BY <1>2, <1>3, <1>5

\* Entries are replaced in place.
LEMMA ReplacedMeans ==
  ASSUME index \in Seq(Summary), Distinct(index), NEW s \in Summary
  PROVE  Replaced(s) \in Seq(Summary) /\ Distinct(Replaced(s)) /\ Ids(Replaced(s)) = Listed
<1>. DEFINE new == Replaced(s)
<1>1. Len(index) \in Nat /\ DOMAIN index = 1 .. Len(index)
      /\ \A i \in 1 .. Len(index) : index[i] \in Summary
  BY ListingShape
<1>2. new = [i \in 1 .. Len(index) |-> IF index[i].id = s.id THEN s ELSE index[i]]
  BY <1>1 DEF Replaced
<1>3. \A i \in 1 .. Len(index) : new[i] \in Summary /\ new[i].id = index[i].id
  BY <1>1, <1>2
<1>4. new \in Seq(Summary) /\ DOMAIN new = 1 .. Len(index)
  BY <1>1, <1>2, <1>3
<1>5. Ids(new) = Listed
  <2>. HIDE DEF new
  <2>. QED
    BY <1>1, <1>3, <1>4 DEF Ids, Listed
<1>6. Distinct(new)
  <2>. HIDE DEF new
  <2>. QED
    BY <1>1, <1>3, <1>4 DEF Distinct
<1>. QED
  BY <1>4, <1>5, <1>6

\* An upsert lists the account, once.
LEMMA WithMeans ==
  ASSUME index \in Seq(Summary), Distinct(index), NEW s \in Summary
  PROVE  With(s) \in Seq(Summary) /\ Distinct(With(s)) /\ Ids(With(s)) = Listed \cup {s.id}
<1>1. CASE s.id \in Listed
  BY <1>1, ReplacedMeans DEF With
<1>2. CASE s.id \notin Listed
  <2>. DEFINE new == Append(index, s)
              n == Len(index)
  <2>1. n \in Nat /\ DOMAIN index = 1 .. n
    BY ListingShape
  <2>2. new \in Seq(Summary) /\ Len(new) = n + 1 /\ new[n + 1] = s
        /\ \A i \in 1 .. n : new[i] = index[i]
    BY AppendProperties
  <2>3. DOMAIN new = 1 .. n + 1
    BY <2>2, ListingShape
  <2>. HIDE DEF new
  <2>4. \A i \in 1 .. n + 1 : i \in 1 .. n \/ i = n + 1
    BY <2>1
  <2>5. 1 .. n \subseteq 1 .. n + 1 /\ n + 1 \in 1 .. n + 1 /\ n + 1 \notin 1 .. n
    BY <2>1
  <2>. HIDE DEF n
  <2>6. Ids(new) = Listed \cup {s.id}
    BY <2>1, <2>2, <2>3, <2>4, <2>5 DEF Ids, Listed
  <2>7. \A i \in 1 .. n : index[i].id # s.id
    BY <1>2, <2>1 DEF Listed, Ids
  <2>8. Distinct(new)
    BY <2>1, <2>2, <2>3, <2>4, <2>7 DEF Distinct
  <2>. QED
    BY <1>2, <2>2, <2>6, <2>8 DEF With, new
<1>. QED
  BY <1>1, <1>2

\* A removal takes out one account and no other.
LEMMA WithoutMeans ==
  ASSUME index \in Seq(Summary), Distinct(index), NEW a \in Accounts
  PROVE  Without(a) \in Seq(Summary) /\ Distinct(Without(a)) /\ Ids(Without(a)) = Listed \ {a}
<1>1. CASE a \notin Listed
  BY <1>1 DEF Without, Listed
<1>2. CASE a \in Listed
  <2>. DEFINE p == PlaceOf(a)
              n == Len(index)
              new == RemoveAt(index, p)
  <2>1. n \in Nat /\ DOMAIN index = 1 .. n
    BY ListingShape
  <2>2. p \in 1 .. n /\ index[p].id = a
    BY <1>2, <2>1 DEF Listed, Ids, PlaceOf
  <2>. HIDE DEF p
  <2>3. /\ new \in Seq(Summary) /\ Len(new) = n - 1
        /\ \A i \in 1 .. n - 1 : new[i] = IF i < p THEN index[i] ELSE index[i + 1]
    BY <2>2, RemoveAtMeans
  <2>4. DOMAIN new = 1 .. n - 1
    BY <2>3, ListingShape
  <2>. HIDE DEF new
  <2>. DEFINE From(i) == IF i < p THEN i ELSE i + 1
              To(j) == IF j < p THEN j ELSE j - 1
  <2>5. \A i \in 1 .. n - 1 : From(i) \in 1 .. n /\ From(i) # p /\ new[i] = index[From(i)]
    BY <2>1, <2>2, <2>3
  <2>6. \A j \in 1 .. n : j # p => To(j) \in 1 .. n - 1 /\ From(To(j)) = j
    BY <2>1, <2>2
  <2>7. \A i, j \in 1 .. n - 1 : From(i) = From(j) => i = j
    BY <2>1, <2>2
  <2>. HIDE DEF From, To, n
  <2>8. \A j \in 1 .. n : index[j].id = a => j = p
    BY <2>1, <2>2 DEF Distinct
  <2>9. Distinct(new)
    <3>. SUFFICES ASSUME NEW i \in 1 .. n - 1, NEW j \in 1 .. n - 1, new[i].id = new[j].id
                  PROVE  i = j
      BY <2>4 DEF Distinct
    <3>1. index[From(i)].id = index[From(j)].id /\ From(i) \in 1 .. n /\ From(j) \in 1 .. n
      BY <2>5
    <3>2. From(i) = From(j)
      BY <2>1, <3>1 DEF Distinct
    <3>. QED
      BY <2>7, <3>2
  <2>10. Ids(new) \subseteq Listed \ {a}
    <3>. SUFFICES ASSUME NEW i \in 1 .. n - 1 PROVE new[i].id \in Listed \ {a}
      BY <2>4 DEF Ids
    <3>1. From(i) \in 1 .. n /\ From(i) # p /\ new[i] = index[From(i)]
      BY <2>5
    <3>. QED
      BY <2>1, <2>8, <3>1 DEF Listed, Ids
  <2>11. Listed \ {a} \subseteq Ids(new)
    <3>. SUFFICES ASSUME NEW j \in 1 .. n, index[j].id # a PROVE index[j].id \in Ids(new)
      BY <2>1 DEF Listed, Ids
    <3>1. To(j) \in 1 .. n - 1 /\ new[To(j)] = index[j]
      BY <2>2, <2>5, <2>6
    <3>. QED
      BY <2>4, <3>1 DEF Ids
  <2>. QED
    BY <1>2, <2>3, <2>9, <2>10, <2>11 DEF Without, new, p
<1>. QED
  BY <1>1, <1>2

\* A new order lists the same accounts: as many distinct ones as there are.
LEMMA ReorderedMeans ==
  ASSUME index \in Seq(Summary), Distinct(index), NEW wanted, NEW new \in Reordered(wanted)
  PROVE  new \in Seq(Summary) /\ Distinct(new) /\ Ids(new) = Listed
<1>. DEFINE Of(a) == CHOOSE s \in ToSet(index) : s.id = a
<1>1. PICK order \in SetToSeqs(Listed) : new = [i \in DOMAIN order |-> Of(order[i])]
  BY DEF Reordered
<1>2. IsFiniteSet(Listed)
  BY ListingShape DEF Listed
<1>3. PICK c \in Nat : c = Cardinality(Listed)
  BY <1>2, FS_CardinalityType
<1>4. order \in [1 .. c -> Listed] /\ \A i, j \in 1 .. c : i # j => order[i] # order[j]
  BY <1>1, <1>2, <1>3, SeqsOf
<1>5. \A a \in Listed : \E i \in 1 .. c : order[i] = a
  <2>1. order \in Injection(1 .. c, Listed)
    BY <1>4 DEF Injection, IsInjective
  <2>2. Cardinality(1 .. c) = Cardinality(Listed)
    BY <1>3, FS_Interval
  <2>3. order \in Surjection(1 .. c, Listed)
    BY <1>2, <2>1, <2>2, FS_Injection
  <2>. QED
    BY <2>3 DEF Surjection
<1>6. \A a \in Listed : Of(a) \in Summary /\ Of(a).id = a
  <2>. SUFFICES ASSUME NEW a \in Listed PROVE Of(a) \in Summary /\ Of(a).id = a
    OBVIOUS
  <2>1. \E s \in ToSet(index) : s.id = a
    BY DEF Listed, Ids, ToSet
  <2>2. Of(a) \in ToSet(index) /\ Of(a).id = a
    BY <2>1
  <2>. QED
    BY <2>2, ListingShape DEF ToSet
<1>. HIDE DEF Of
<1>7. DOMAIN new = 1 .. c /\ \A i \in 1 .. c : new[i] \in Summary /\ new[i].id = order[i]
  BY <1>1, <1>4, <1>6
<1>8. new \in Seq(Summary)
  <2>1. new = [i \in 1 .. c |-> new[i]]
    BY <1>1, <1>4
  <2>. QED
    BY <1>7, <2>1
<1>9. Distinct(new)
  BY <1>4, <1>7 DEF Distinct
<1>10. Ids(new) = Listed
  BY <1>4, <1>5, <1>7 DEF Ids
<1>. QED
  BY <1>8, <1>9, <1>10

\* The summary an upsert or a status edit puts into the index.
LEMMA SummaryOfTask ==
  ASSUME NEW t \in Tasks, target[t] \in Accounts, snap[t] \in Record
  PROVE  Summarise(t) \in Summary /\ Summarise(t).id = target[t]
BY DEF Summarise, Record, Summary

\* What an operation may make of the index.
LEMMA EditsMean ==
  ASSUME IndexInv, up, NEW t \in Tasks, pc[t] = "lock", NEW e \in IndexEdits(t)
  PROVE  /\ e.accounts \in Seq(Summary) /\ e.save \in BOOLEAN
         /\ e.current \in Accounts \cup {None}
         /\ WellFormed(e.accounts, e.current)
         /\ Listed \ Ids(e.accounts) \subseteq {a \in Accounts : op[t] = "remove" /\ target[t] = a}
         /\ \/ e.current = current
            \/ current = None
            \/ current \in Accounts \ Ids(e.accounts)
<1>. DEFINE a == target[t]
<1>1. /\ op[t] \in Settles
      /\ op[t] # "reorder" => a \in Accounts
      /\ op[t] \notin {"remove", "reorder"} => snap[t] \in Record
  BY DEF IndexInv, TasksInv, TaskShape
<1>2. index \in Seq(Summary) /\ Distinct(index) /\ current \in Accounts \cup {None}
  BY DEF IndexInv, TasksInv, TypeOK, IndexWellFormed, Distinct
<1>3. /\ Listed = {} => current = None
      /\ Listed # {} => current \in Listed /\ current \in Accounts /\ current # None
  <2>1. index = <<>> <=> Listed = {}
    BY <1>2, EmptyListing DEF Listed
  <2>2. Listed \subseteq Accounts
    BY <1>2, ListingShape DEF Listed
  <2>. QED
    BY <2>1, <2>2, SentinelAssumption DEF IndexInv, IndexWellFormed
<1>4. ASSUME NEW seq \in Seq(Summary), Distinct(seq), Ids(seq) = Listed
      PROVE  WellFormed(seq, current)
  BY <1>3, <1>4, EmptyListing DEF WellFormed
<1>5. CASE op[t] \in Upserts
  <2>1. e = [accounts |-> With(Summarise(t)),
             current |-> IF current = None THEN a ELSE current, save |-> TRUE]
    BY <1>5 DEF IndexEdits, Upserts, StatusEdits
  <2>2. a \in Accounts /\ snap[t] \in Record
    BY <1>1, <1>5 DEF Upserts
  <2>3. /\ With(Summarise(t)) \in Seq(Summary) /\ Distinct(With(Summarise(t)))
        /\ Ids(With(Summarise(t))) = Listed \cup {a}
    BY <1>2, <2>2, SummaryOfTask, WithMeans
  <2>4. With(Summarise(t)) # <<>>
    BY <2>3, EmptyListing
  <2>5. WellFormed(e.accounts, e.current)
    BY <1>3, <2>1, <2>3, <2>4 DEF WellFormed
  <2>. QED
    BY <1>2, <2>1, <2>2, <2>3, <2>5
<1>6. CASE op[t] \in StatusEdits
  <2>1. e = [accounts |-> Replaced(Summarise(t)), current |-> current, save |-> a \in Listed]
    BY <1>6 DEF IndexEdits, Upserts, StatusEdits
  <2>2. a \in Accounts /\ snap[t] \in Record
    BY <1>1, <1>6 DEF StatusEdits
  <2>3. /\ Replaced(Summarise(t)) \in Seq(Summary) /\ Distinct(Replaced(Summarise(t)))
        /\ Ids(Replaced(Summarise(t))) = Listed
    BY <1>2, <2>2, SummaryOfTask, ReplacedMeans
  <2>. QED
    BY <1>2, <1>4, <2>1, <2>3
<1>7. CASE op[t] = "label"
  <2>1. e = [accounts |-> index, current |-> current, save |-> a \in Listed]
    BY <1>7 DEF IndexEdits, Upserts, StatusEdits
  <2>2. Ids(index) = Listed
    BY DEF Listed
  <2>. QED
    BY <1>2, <1>4, <2>1, <2>2
<1>8. CASE op[t] = "remove"
  <2>1. e = [accounts |-> Without(a),
             current |-> IF current # a THEN current
                         ELSE IF Without(a) = <<>> THEN None ELSE Without(a)[1].id,
             save |-> a \in Listed]
    BY <1>8 DEF IndexEdits, Upserts, StatusEdits
  <2>2. a \in Accounts
    BY <1>1, <1>8
  <2>3. Without(a) \in Seq(Summary) /\ Distinct(Without(a)) /\ Ids(Without(a)) = Listed \ {a}
    BY <1>2, <2>2, WithoutMeans
  <2>4. Without(a) = <<>> <=> Listed \ {a} = {}
    BY <2>3, EmptyListing
  <2>5. Without(a) # <<>> => Without(a)[1].id \in Listed \ {a}
    <3>1. Without(a) # <<>> => 1 \in DOMAIN Without(a)
      BY <2>3, EmptySeq, ListingShape
    <3>. QED
      BY <2>3, <3>1 DEF Ids
  <2>6. WellFormed(e.accounts, e.current) /\ e.current \in Accounts \cup {None}
    <3>1. CASE current # a
      BY <1>2, <1>3, <2>1, <2>3, <2>4, <3>1 DEF WellFormed
    <3>2. CASE current = a
      <4>1. Listed \subseteq Accounts
        BY <1>2, ListingShape DEF Listed
      <4>. QED
        BY <2>1, <2>3, <2>5, <3>2, <4>1 DEF WellFormed
    <3>. QED
      BY <3>1, <3>2
  <2>. QED
    BY <1>8, <2>1, <2>2, <2>3, <2>6
<1>9. CASE op[t] = "reorder"
  <2>1. PICK wanted : \E seq \in Reordered(wanted) :
          e = [accounts |-> seq, current |-> current, save |-> TRUE]
    BY <1>9 DEF IndexEdits, Upserts, StatusEdits
  <2>2. PICK seq \in Reordered(wanted) : e = [accounts |-> seq, current |-> current, save |-> TRUE]
    BY <2>1
  <2>3. seq \in Seq(Summary) /\ Distinct(seq) /\ Ids(seq) = Listed
    BY <1>2, ReorderedMeans
  <2>. QED
    BY <1>2, <1>4, <2>2, <2>3
<1>. QED
  BY <1>1, <1>5, <1>6, <1>7, <1>8, <1>9 DEF Settles

-----------------------------------------------------------------------------
(* Types, and what tasks hold.                                             *)

\* A readable file holds a record.
LEMMA ReadableRecord ==
  ASSUME TypeOK, NEW a \in Accounts, Readable(a)
  PROVE  file[a] \in Record
BY DEF TypeOK, Readable

\* An edit makes a record of a record, and one that is banned stays marked as such.
LEMMA EditedType ==
  ASSUME NEW kind, NEW r \in Record, NEW new \in Edited(kind, r)
  PROVE  new \in Record /\ (BanMarked(r) => BanMarked(new))
<1>1. r = [status |-> r.status, disabled |-> r.disabled, token |-> r.token]
      /\ r.status \in Status /\ r.disabled \in BOOLEAN /\ r.token \in Tokens
  BY DEF Record
<1>2. CASE kind = "refresh"
  <2>1. PICK k \in Tokens : new = [r EXCEPT !.token = k]
    BY <1>2 DEF Edited
  <2>. QED
    BY <1>1, <2>1 DEF Record, BanMarked
<1>3. CASE kind \in {"enable", "recover"} /\ r.status = "Forbidden"
  <2>1. new = [r EXCEPT !.status = "Active", !.disabled = FALSE]
    BY <1>3 DEF Edited
  <2>. QED
    BY <1>1, <2>1 DEF Record, BanMarked, Status
<1>4. CASE kind = "enable" /\ r.status # "Forbidden"
  <2>1. new = [r EXCEPT !.disabled = FALSE]
    BY <1>4 DEF Edited
  <2>. QED
    BY <1>1, <1>4, <2>1 DEF Record, BanMarked
<1>5. CASE kind = "disable"
  <2>1. new = [r EXCEPT !.disabled = TRUE]
    BY <1>5 DEF Edited
  <2>. QED
    BY <1>1, <2>1 DEF Record, BanMarked
<1>6. CASE kind = "forbid"
  <2>1. new = [r EXCEPT !.status = "Forbidden", !.disabled = TRUE]
    BY <1>6 DEF Edited
  <2>. QED
    BY <1>1, <2>1 DEF Record, BanMarked, Status
<1>7. CASE kind \notin {"refresh", "enable", "disable", "forbid"}
           /\ ~(kind = "recover" /\ r.status = "Forbidden")
  BY <1>7 DEF Edited
<1>. QED
  BY <1>2, <1>3, <1>4, <1>5, <1>6, <1>7

\* The start: nobody runs, and the disk holds some accounts in some order.
OrderOfStart(c, order) ==
  /\ \A i, j \in 1 .. c : i # j => order[i] # order[j]
  /\ disk = [accounts |-> [i \in 1 .. c |->
                            [id |-> order[i], status |-> "Active", disabled |-> FALSE]],
             current |-> IF order = <<>> THEN None ELSE order[1]]

\* It has one, each account once, and files that say Active.
LEMMA InitMeans ==
  ASSUME Init
  PROVE  /\ \E c \in Nat : \E order \in [1 .. c -> Accounts] : OrderOfStart(c, order)
         /\ file \in [Accounts -> Record \cup {None, Torn}]
         /\ \A a \in Accounts : file[a] = None \/ file[a].status = "Active"
<1>1. PICK order \in SetToAllKPermutations(Accounts), own \in [Accounts -> Tokens] :
        /\ file = [a \in Accounts |->
                IF a \in ToSet(order)
                THEN [status |-> "Active", disabled |-> FALSE, token |-> own[a]]
                ELSE None]
        /\ disk = [accounts |-> [i \in DOMAIN order |->
                              [id |-> order[i], status |-> "Active", disabled |-> FALSE]],
                   current |-> IF order = <<>> THEN None ELSE order[1]]
  BY DEF Init
<1>2. PICK L \in SUBSET Accounts : order \in SetToSeqs(L)
  BY DEF SetToAllKPermutations
<1>3. IsFiniteSet(L)
  BY SetsAssumption, FS_Subset
<1>4. PICK c \in Nat : c = Cardinality(L)
  BY <1>3, FS_CardinalityType
<1>5. order \in [1 .. c -> L] /\ \A i, j \in 1 .. c : i # j => order[i] # order[j]
  BY <1>2, <1>3, <1>4, SeqsOf
<1>6. order \in [1 .. c -> Accounts] /\ DOMAIN order = 1 .. c
  BY <1>5
<1>7. /\ file \in [Accounts -> Record \cup {None, Torn}]
      /\ \A a \in Accounts : file[a] = None \/ file[a].status = "Active"
  BY <1>1 DEF Record, Status
<1>. QED
  BY <1>1, <1>5, <1>6, <1>7 DEF OrderOfStart

\* The start satisfies the invariants.
LEMMA InitStore == Init => IndexInv /\ BanInv /\ RotationInv
<1>. SUFFICES ASSUME Init PROVE IndexInv /\ BanInv /\ RotationInv
  OBVIOUS
<1>0. PICK c \in Nat : \E order \in [1 .. c -> Accounts] : OrderOfStart(c, order)
  BY InitMeans
<1>1. PICK order \in [1 .. c -> Accounts] : OrderOfStart(c, order)
  BY <1>0
<1>2. /\ file \in [Accounts -> Record \cup {None, Torn}]
      /\ \A a \in Accounts : file[a] = None \/ file[a].status = "Active"
  BY InitMeans
<1>3. /\ index = <<>> /\ current = None /\ lock = None /\ up = FALSE /\ crashes = 0
      /\ handed = <<>>
      /\ tokenMap = [k \in Tokens |-> None] /\ op = [t \in Tasks |-> None]
      /\ target = [t \in Tasks |-> None] /\ snap = [t \in Tasks |-> None]
      /\ pc = [t \in Tasks |-> "idle"]
  BY DEF Init
<1>. DEFINE seq == [i \in 1 .. c |-> [id |-> order[i], status |-> "Active", disabled |-> FALSE]]
            cur == IF order = <<>> THEN None ELSE order[1]
<1>4. /\ DOMAIN seq = 1 .. c
      /\ \A i \in 1 .. c : seq[i] \in Summary /\ seq[i].id = order[i]
  BY DEF Summary, Status
<1>5. seq \in Seq(Summary)
  BY <1>4
<1>6. order = <<>> <=> c = 0
  <2>1. order \in Seq(Accounts) /\ Len(order) = c
    OBVIOUS
  <2>. QED
    BY <2>1, EmptySeq
<1>7. seq = <<>> <=> c = 0
  <2>1. Len(seq) = c
    OBVIOUS
  <2>. QED
    BY <1>5, <2>1, EmptySeq
<1>8. disk.accounts = seq /\ disk.current = cur
  BY <1>1 DEF OrderOfStart
<1>. HIDE DEF seq
<1>9. c # 0 => order[1] \in Ids(seq) /\ order[1] \in Accounts
  <2>1. c # 0 => 1 \in 1 .. c
    OBVIOUS
  <2>. QED
    BY <1>4, <2>1 DEF Ids
<1>10. WellFormed(seq, cur)
  BY <1>1, <1>4, <1>6, <1>7, <1>9 DEF OrderOfStart, WellFormed, Distinct
<1>11. disk \in Listing
  <2>1. cur \in Accounts \cup {None}
    BY <1>6, <1>9
  <2>. QED
    BY <1>1, <1>5, <2>1 DEF Listing, OrderOfStart, seq
<1>12. TypeOK
  <2>1. crashes \in 0 .. Crashes
    BY <1>3, CrashesAssumption
  <2>2. index \in Seq(Summary) /\ handed \in Seq(Accounts)
    BY <1>3, EmptySeq
  <2>. QED
    BY <1>2, <1>3, <1>11, <2>1, <2>2 DEF TypeOK, PCs
<1>13. TasksInv
  BY <1>3, <1>12 DEF TasksInv, TaskShape
<1>14. IndexInv
  BY <1>3, <1>8, <1>10, <1>13 DEF IndexInv, IndexWellFormed
<1>15. BanInv
  BY <1>2, <1>3, <1>13 DEF BanInv, BanMarked, Readable
<1>16. RotationInv
  BY <1>3 DEF RotationInv
<1>. QED
  BY <1>14, <1>15, <1>16

\* How a task starts: with an operation, an account and a place to go, and with a record
\* if it has one to write or to forget.
StartShape(t, kind, a, to) ==
  /\ Start(t, kind, a) /\ Go(t, to)
  /\ kind # "reorder" => a \in Accounts
  /\ \/ to = "failed" /\ snap' = snap
     \/ /\ \/ to = "open" /\ kind \in Edits \cup {"import"}
           \/ to = "forget" /\ kind = "remove"
        /\ \E r \in Record : /\ snap' = [snap EXCEPT ![t] = r]
                             /\ BanInv => BanMarked(r)
     \/ to \in {"unlink", "lock"} /\ kind = "remove" /\ snap' = snap
     \/ to = "lock" /\ kind = "reorder" /\ snap' = snap
Starts(t) == Import(t) \/ Load(t) \/ LoadForRemoval(t) \/ StartReorder(t)

\* The operations start like that.
LEMMA StartsMean ==
  ASSUME TasksInv, NEW t \in Tasks, Starts(t)
  PROVE  /\ UNCHANGED <<file, disk, index, current, lock, tokenMap, up, crashes, handed>> /\ up
         /\ \E kind \in Kinds, a \in Accounts \cup {None},
               to \in {"failed", "open", "forget", "unlink", "lock"} : StartShape(t, kind, a, to)
<1>1. UNCHANGED <<file, disk, index, current, lock, tokenMap, up, crashes, handed>> /\ up
  BY DEF Starts, Import, Load, LoadForRemoval, StartReorder, Start
<1>2. CASE Import(t)
  <2>1. PICK a \in Accounts, k \in Tokens :
          /\ Start(t, "import", a)
          /\ snap' = [snap EXCEPT ![t] = [status |-> "Active", disabled |-> FALSE, token |-> k]]
          /\ Go(t, "open")
    BY <1>2 DEF Import
  <2>. DEFINE r == [status |-> "Active", disabled |-> FALSE, token |-> k]
  <2>2. r \in Record /\ BanMarked(r)
    BY DEF Record, Status, BanMarked
  <2>. HIDE DEF r
  <2>3. "import" \in Kinds /\ snap' = [snap EXCEPT ![t] = r]
    BY <2>1 DEF Kinds, r
  <2>4. StartShape(t, "import", a, "open")
    BY <2>1, <2>2, <2>3 DEF StartShape
  <2>. QED
    BY <1>1, <2>3, <2>4
<1>3. CASE Load(t)
  <2>1. PICK kind \in Edits, a \in Accounts :
          /\ Start(t, kind, a)
          /\ IF Readable(a)
             THEN \E r \in Edited(kind, file[a]) :
                    snap' = [snap EXCEPT ![t] = r] /\ Go(t, "open")
             ELSE Go(t, "failed") /\ UNCHANGED snap
    BY <1>3 DEF Load
  <2>2. kind \in Kinds
    BY DEF Kinds
  <2>3. CASE Readable(a)
    <3>1. PICK r \in Edited(kind, file[a]) : snap' = [snap EXCEPT ![t] = r] /\ Go(t, "open")
      BY <2>1, <2>3
    <3>2. file[a] \in Record
      BY <2>3, ReadableRecord DEF TasksInv
    <3>3. r \in Record /\ (BanMarked(file[a]) => BanMarked(r))
      BY <3>2, EditedType
    <3>4. BanInv => BanMarked(r)
      BY <2>3, <3>3 DEF BanInv
    <3>5. StartShape(t, kind, a, "open")
      BY <2>1, <3>1, <3>3, <3>4 DEF StartShape
    <3>. QED
      BY <1>1, <2>2, <3>5
  <2>4. CASE ~Readable(a)
    <3>1. StartShape(t, kind, a, "failed")
      BY <2>1, <2>4 DEF StartShape
    <3>. QED
      BY <1>1, <2>2, <3>1
  <2>. QED
    BY <2>3, <2>4
<1>4. CASE LoadForRemoval(t)
  <2>1. PICK a \in Accounts :
          /\ Start(t, "remove", a)
          /\ IF Readable(a)
             THEN snap' = [snap EXCEPT ![t] = file[a]] /\ Go(t, "forget")
             ELSE UNCHANGED snap /\ Go(t, IF file[a] = Torn THEN "unlink" ELSE "lock")
    BY <1>4 DEF LoadForRemoval
  <2>2. "remove" \in Kinds
    BY DEF Kinds
  <2>3. CASE Readable(a)
    <3>1. file[a] \in Record
      BY <2>3, ReadableRecord DEF TasksInv
    <3>2. BanInv => BanMarked(file[a])
      BY <2>3 DEF BanInv
    <3>3. StartShape(t, "remove", a, "forget")
      BY <2>1, <2>3, <3>1, <3>2 DEF StartShape
    <3>. QED
      BY <1>1, <2>2, <3>3
  <2>4. CASE ~Readable(a)
    <3>1. PICK to \in {"unlink", "lock"} : Go(t, to) /\ snap' = snap
      BY <2>1, <2>4
    <3>2. StartShape(t, "remove", a, to)
      BY <2>1, <3>1 DEF StartShape
    <3>. QED
      BY <1>1, <2>2, <3>2
  <2>. QED
    BY <2>3, <2>4
<1>5. CASE StartReorder(t)
  <2>1. StartShape(t, "reorder", None, "lock") /\ "reorder" \in Kinds
    BY <1>5 DEF StartReorder, StartShape, Kinds
  <2>. QED
    BY <1>1, <2>1
<1>. QED
  BY <1>2, <1>3, <1>4, <1>5 DEF Starts

\* What a step of one task leaves of the others; their files may lose their names.
OthersStay(t) ==
  \A u \in Tasks \ {t} :
    /\ op'[u] = op[u] /\ target'[u] = target[u] /\ snap'[u] = snap[u]
    /\ pc'[u] = pc[u] \/ (pc[u] = "fill" /\ pc'[u] = "void")

\* The others hold what they held.
LEMMA OthersHold ==
  ASSUME TasksInv, NEW t \in Tasks, OthersStay(t), TaskShape(t)'
  PROVE  \A u \in Tasks : TaskShape(u)'
<1>. SUFFICES ASSUME NEW u \in Tasks \ {t} PROVE TaskShape(u)'
  OBVIOUS
<1>1. TaskShape(u)
  BY DEF TasksInv
<1>2. CASE pc'[u] = pc[u]
  BY <1>1, <1>2 DEF OthersStay, TaskShape
<1>3. CASE pc[u] = "fill" /\ pc'[u] = "void"
  BY <1>1, <1>3 DEF OthersStay, TaskShape
<1>. QED
  BY <1>2, <1>3 DEF OthersStay

\* A task that starts holds what it should.
LEMMA StartTasks ==
  ASSUME TasksInv, NEW t \in Tasks, Starts(t)
  PROVE  TasksInv'
<1>1. UNCHANGED <<file, disk, index, current, lock, tokenMap, up, crashes, handed>>
  BY StartsMean
<1>2. PICK kind \in Kinds, a \in Accounts \cup {None},
           to \in {"failed", "open", "forget", "unlink", "lock"} : StartShape(t, kind, a, to)
  BY StartsMean
<1>. USE DEF TasksInv
<1>3. /\ op' = [op EXCEPT ![t] = kind] /\ target' = [target EXCEPT ![t] = a]
      /\ pc' = [pc EXCEPT ![t] = to]
  BY <1>2 DEF StartShape, Start, Go
<1>4. op' \in [Tasks -> Kinds \cup {None}] /\ target' \in [Tasks -> Accounts \cup {None}]
      /\ pc' \in [Tasks -> PCs]
  BY <1>3 DEF TypeOK, PCs
<1>5. \/ snap' = snap
      \/ \E r \in Record : snap' = [snap EXCEPT ![t] = r]
  BY <1>2 DEF StartShape
<1>6. snap' \in [Tasks -> Record \cup {None}]
  BY <1>5 DEF TypeOK
<1>7. TypeOK'
  BY <1>1, <1>4, <1>6 DEF TypeOK
<1>8. OthersStay(t)
  BY <1>3, <1>5 DEF TypeOK, OthersStay
<1>9. TaskShape(t)'
  <2>1. op'[t] = kind /\ target'[t] = a /\ pc'[t] = to
    BY <1>3 DEF TypeOK
  <2>2. to \in {"open", "forget"} => snap'[t] \in Record
    <3>1. to \in {"open", "forget"} => \E r \in Record : snap' = [snap EXCEPT ![t] = r]
      BY <1>2 DEF StartShape
    <3>. QED
      BY <3>1 DEF TypeOK
  <2>3. /\ kind # "reorder" => a \in Accounts
        /\ to = "open" => kind \in Edits \cup {"import"}
        /\ to \in {"forget", "unlink"} => kind = "remove"
        /\ to = "lock" => kind \in {"remove", "reorder"}
    BY <1>2 DEF StartShape
  <2>4. "reorder" \notin Edits \cup {"import"}
    BY DEF Edits, FileOnly, Upserts, StatusEdits
  <2>. QED
    BY <2>1, <2>2, <2>3, <2>4 DEF TaskShape, Settles
<1>. QED
  BY <1>7, <1>8, <1>9, OthersHold

\* Steps on account files: the removal of tokens and of the file, the write and its failure.
FileSteps(t) == Forget(t) \/ Unlink(t) \/ Truncate(t) \/ Fill(t) \/ WriteFails(t)

\* They leave the listing alone.
LEMMA FileTasks ==
  ASSUME TasksInv, NEW t \in Tasks, FileSteps(t)
  PROVE  TasksInv' /\ UNCHANGED <<disk, index, current, up, crashes, handed>>
<1>. USE DEF TasksInv
<1>1. UNCHANGED <<op, target, snap, disk, index, current, up, crashes, handed>>
  BY DEF FileSteps, Forget, Unlink, Truncate, Fill, WriteFails, memory
<1>2. TaskShape(t) /\ op[t] \in Kinds \cup {None}
  BY DEF TypeOK
<1>3. /\ pc'[t] \in {"unlink", "lock", "fill", "done", "failed"}
      /\ pc'[t] = "unlink" => pc[t] = "forget"
      /\ pc'[t] = "fill" => pc[t] = "open"
      /\ pc'[t] = "lock" => \/ pc[t] \in {"forget", "unlink"}
                            \/ pc[t] \in {"fill", "void"} /\ op[t] \notin FileOnly
      /\ \A u \in Tasks \ {t} : pc'[u] = pc[u] \/ (pc[u] = "fill" /\ pc'[u] = "void")
      /\ pc' \in [Tasks -> PCs]
  <2>. USE DEF TypeOK, Go
  <2>1. CASE Forget(t)
    <3>1. \E to \in {"unlink", "lock"} : pc' = [pc EXCEPT ![t] = to]
      BY <2>1 DEF Forget
    <3>. QED
      BY <2>1, <3>1 DEF Forget, PCs
  <2>2. CASE Unlink(t)
    <3>1. CASE file[target[t]] = None
      BY <2>2, <3>1 DEF Unlink, PCs
    <3>2. CASE file[target[t]] # None
      <4>1. pc' = [u \in Tasks |-> IF u = t THEN "lock"
                                   ELSE IF pc[u] = "fill" /\ target[u] = target[t] THEN "void"
                                   ELSE pc[u]]
        BY <2>2, <3>2 DEF Unlink
      <4>. QED
        BY <2>2, <4>1 DEF Unlink, PCs
    <3>. QED
      BY <3>1, <3>2
  <2>3. CASE Truncate(t)
    BY <2>3 DEF Truncate, PCs
  <2>4. CASE Fill(t)
    <3>1. \E to \in {"done", "lock"} : /\ pc' = [pc EXCEPT ![t] = to]
                                       /\ to = "lock" => op[t] \notin FileOnly
      BY <2>4 DEF Fill
    <3>. QED
      BY <2>4, <3>1 DEF Fill, PCs
  <2>5. CASE WriteFails(t)
    BY <2>5 DEF WriteFails, PCs
  <2>. QED
    BY <2>1, <2>2, <2>3, <2>4, <2>5 DEF FileSteps
<1>4. OthersStay(t)
  BY <1>1, <1>3 DEF OthersStay
<1>5. TaskShape(t)'
  <2>1. op[t] \in Edits \cup {"import"} /\ op[t] \notin FileOnly => op[t] \in Settles \ {"remove", "reorder"}
    BY DEF Edits, FileOnly, Upserts, StatusEdits, Settles
  <2>2. "remove" \in Settles
    BY DEF Settles
  <2>. QED
    BY <1>1, <1>2, <1>3, <2>1, <2>2 DEF TaskShape
<1>6. file' \in [Accounts -> Record \cup {None, Torn}]
  <2>. USE DEF TypeOK
  <2>1. CASE Unlink(t)
    BY <2>1 DEF Unlink
  <2>2. CASE Truncate(t)
    BY <2>2 DEF Truncate
  <2>3. CASE Fill(t)
    <3>1. CASE pc[t] = "void"
      BY <2>3, <3>1 DEF Fill
    <3>2. CASE pc[t] # "void"
      <4>1. PICK content \in {snap[t]} \cup {Torn} : file' = [file EXCEPT ![target[t]] = content]
        BY <2>3, <3>2 DEF Fill
      <4>2. snap[t] \in Record
        BY <1>2, <2>3 DEF Fill, TaskShape
      <4>. QED
        BY <4>1, <4>2
    <3>. QED
      BY <3>1, <3>2
  <2>4. CASE Forget(t) \/ WriteFails(t)
    BY <2>4 DEF Forget, WriteFails
  <2>. QED
    BY <2>1, <2>2, <2>3, <2>4 DEF FileSteps
<1>7. tokenMap' \in [Tokens -> Accounts \cup {None}] /\ lock' \in Tasks \cup {None}
  <2>. USE DEF TypeOK
  <2>1. CASE Forget(t)
    BY <2>1 DEF Forget
  <2>2. CASE WriteFails(t)
    BY <2>2 DEF WriteFails
  <2>3. CASE Unlink(t) \/ Truncate(t) \/ Fill(t)
    BY <2>3 DEF Unlink, Truncate, Fill, memory
  <2>. QED
    BY <2>1, <2>2, <2>3 DEF FileSteps
<1>8. TypeOK'
  BY <1>1, <1>3, <1>6, <1>7 DEF TypeOK
<1>. QED
  BY <1>1, <1>4, <1>5, <1>8, OthersHold

\* A listing nobody touches stays well formed.
LEMMA IndexFrame ==
  ASSUME IndexInv, TasksInv', UNCHANGED <<index, current, disk, up>>
  PROVE  IndexInv'
BY DEF IndexInv, IndexWellFormed, Listed

-----------------------------------------------------------------------------
(* The listing.                                                            *)

\* IndexWellFormed in one word.
LEMMA WellFormedIndex ==
  IndexWellFormed <=> (up => WellFormed(index, current))
BY DEF IndexWellFormed, WellFormed, Distinct, Listed

\* An edit under the lock.
LEMMA EditIndexKeeps ==
  ASSUME IndexInv, NEW t \in Tasks, EditIndex(t)
  PROVE  IndexInv'
<1>1. up /\ pc[t] = "lock"
  BY DEF EditIndex
<1>2. PICK e \in IndexEdits(t) :
        /\ index' = e.accounts /\ current' = e.current
        /\ disk' = IF e.save THEN Torn ELSE disk
        /\ lock' = IF e.save THEN t ELSE None
        /\ Go(t, IF e.save THEN "save" ELSE "done")
  BY DEF EditIndex
<1>3. /\ e.accounts \in Seq(Summary) /\ e.save \in BOOLEAN
      /\ e.current \in Accounts \cup {None}
      /\ WellFormed(e.accounts, e.current)
  BY <1>1, EditsMean
<1>4. UNCHANGED <<file, tokenMap, op, target, snap, up, crashes>>
      /\ handed' = IF Candidates' = Candidates THEN handed ELSE <<>>
  BY DEF EditIndex, KeepRotation
<1>. USE DEF IndexInv, TasksInv
<1>5. PICK to \in {"save", "done"} : pc' = [pc EXCEPT ![t] = to]
  BY <1>2 DEF Go
<1>6. TypeOK'
  <2>1. handed' \in Seq(Accounts)
    BY <1>4, EmptySeq DEF TypeOK
  <2>2. pc' \in [Tasks -> PCs]
    BY <1>5 DEF TypeOK, PCs
  <2>3. disk' \in Listing \cup {Torn} /\ lock' \in Tasks \cup {None}
    BY <1>2, <1>3 DEF TypeOK
  <2>. QED
    BY <1>2, <1>3, <1>4, <2>1, <2>2, <2>3 DEF TypeOK
<1>7. TaskShape(t)'
  <2>1. pc'[t] = to
    BY <1>5 DEF TypeOK
  <2>. QED
    BY <1>1, <1>4, <1>5, <2>1 DEF TaskShape
<1>8. OthersStay(t)
  BY <1>4, <1>5 DEF OthersStay, TypeOK
<1>9. TasksInv'
  BY <1>6, <1>7, <1>8, OthersHold
<1>10. WellFormed(index, current)'
  BY <1>2, <1>3
<1>11. disk' # Torn => WellFormed(disk.accounts, disk.current)'
  <2>1. disk' # Torn => disk' = disk
    BY <1>2
  <2>. QED
    BY <2>1
<1>12. IndexWellFormed'
  BY <1>10, WellFormedIndex DEF IndexWellFormed, WellFormed, Distinct, Listed
<1>. QED
  BY <1>9, <1>11, <1>12

\* The end of a save.
LEMMA SaveKeeps ==
  ASSUME IndexInv, NEW t \in Tasks, Save(t)
  PROVE  IndexInv'
<1>. USE DEF IndexInv, TasksInv
<1>1. /\ up /\ pc[t] = "save" /\ disk' = [accounts |-> index, current |-> current]
      /\ lock' = None /\ pc' = [pc EXCEPT ![t] = "done"]
      /\ UNCHANGED <<file, index, current, op, target, snap, up, crashes, handed>>
  BY DEF Save, Go
<1>2. tokenMap' \in [Tokens -> Accounts \cup {None}]
  <2>1. CASE op[t] \in Upserts
    <3>1. target[t] \in Accounts /\ snap[t] \in Record
      BY <1>1, <2>1 DEF TaskShape, Upserts
    <3>2. tokenMap' = [tokenMap EXCEPT ![snap[t].token] = target[t]]
      BY <2>1 DEF Save
    <3>. QED
      BY <3>1, <3>2 DEF TypeOK
  <2>2. CASE op[t] \notin Upserts
    BY <2>2 DEF Save, TypeOK
  <2>. QED
    BY <2>1, <2>2
<1>3. TypeOK'
  BY <1>1, <1>2 DEF TypeOK, PCs, Listing
<1>4. TaskShape(t)' /\ OthersStay(t)
  BY <1>1 DEF TaskShape, OthersStay, TypeOK
<1>5. TasksInv'
  BY <1>3, <1>4, OthersHold
<1>6. WellFormed(index, current)
  BY <1>1, WellFormedIndex
<1>7. disk'.accounts = index /\ disk'.current = current
  BY <1>1
<1>. QED
  BY <1>1, <1>5, <1>6, <1>7 DEF IndexWellFormed, Listed

\* get_best_account moves the position to a candidate.
LEMMA GetBestKeeps ==
  ASSUME IndexInv, GetBest
  PROVE  /\ IndexInv'
         /\ \E c \in Nat \ {0} :
              /\ Candidates \in [1 .. c -> Listed] /\ Len(Candidates) = c
              /\ \A i, j \in 1 .. c : i # j => Candidates[i] # Candidates[j]
              /\ \E q \in 1 .. c :
                   /\ current' = Candidates[q]
                   /\ \A p \in 1 .. c : current = Candidates[p] => q = (p % c) + 1
         /\ handed' = Append(IF Len(handed) = Len(Candidates) THEN Tail(handed) ELSE handed, current')
<1>. USE DEF IndexInv, TasksInv
<1>1. /\ up /\ Candidates # <<>> /\ current' = NextOf(Candidates)
      /\ UNCHANGED <<file, disk, index, tokenMap, lock, task, up, crashes>>
      /\ handed' = Append(IF Len(handed) = Len(Candidates) THEN Tail(handed) ELSE handed, current')
  BY DEF GetBest
<1>2. index \in Seq(Summary) /\ Distinct(index)
  BY <1>1, WellFormedIndex DEF TypeOK, WellFormed
<1>3. PICK c \in Nat :
        /\ Candidates \in [1 .. c -> Listed] /\ Len(Candidates) = c
        /\ \A i, j \in 1 .. c : i # j => Candidates[i] # Candidates[j]
  BY <1>2, EligibleMeans DEF Candidates, Listed
<1>4. Listed \subseteq Accounts
  BY <1>2, ListingShape DEF Listed
<1>5. Candidates \in Seq(Accounts)
  BY <1>3, <1>4
<1>6. c # 0
  BY <1>1, <1>3, <1>5, EmptySeq
<1>. DEFINE C == Candidates
            pos == IF current \in ToSet(C) THEN CHOOSE i \in DOMAIN C : C[i] = current ELSE 1
            q == (pos % Len(C)) + 1
<1>7. pos \in 1 .. c /\ \A p \in 1 .. c : current = C[p] => pos = p
  <2>1. CASE current \in ToSet(C)
    <3>1. \E i \in DOMAIN C : C[i] = current
      BY <2>1 DEF ToSet
    <3>2. pos \in DOMAIN C /\ C[pos] = current
      BY <2>1, <3>1
    <3>. HIDE DEF pos
    <3>. QED
      BY <1>3, <3>2
  <2>2. CASE current \notin ToSet(C)
    <3>1. \A p \in 1 .. c : current # C[p]
      BY <1>3, <2>2 DEF ToSet
    <3>. QED
      BY <1>6, <2>2, <3>1
  <2>. QED
    BY <2>1, <2>2
<1>8. current' = C[q]
  BY <1>1 DEF NextOf
<1>. HIDE DEF C, pos
<1>9. q \in 1 .. c /\ q = (pos % c) + 1
  BY <1>3, <1>6, <1>7 DEF C
<1>10. current' \in Listed
  BY <1>3, <1>8, <1>9 DEF C
<1>11. TypeOK'
  <2>1. handed' \in Seq(Accounts)
    <3>1. CASE Len(handed) = Len(Candidates)
      <4>1. handed \in Seq(Accounts) /\ handed # <<>>
        BY <1>3, <1>6, <3>1, EmptySeq DEF TypeOK
      <4>2. Tail(handed) \in Seq(Accounts)
        BY <4>1, HeadTailProperties
      <4>. QED
        BY <1>1, <1>4, <1>10, <3>1, <4>2, AppendProperties
    <3>2. CASE Len(handed) # Len(Candidates)
      BY <1>1, <1>4, <1>10, <3>2, AppendProperties DEF TypeOK
    <3>. QED
      BY <3>1, <3>2
  <2>. QED
    BY <1>1, <1>4, <1>10, <2>1 DEF TypeOK, task
<1>12. TasksInv'
  BY <1>1, <1>11 DEF task, TaskShape
<1>13. IndexWellFormed'
  <2>1. index # <<>>
    BY <1>2, <1>10, EmptyListing DEF Listed
  <2>. QED
    BY <1>1, <1>10, <2>1 DEF IndexWellFormed, Listed
<1>14. IndexInv'
  BY <1>1, <1>12, <1>13
<1>. QED
  BY <1>1, <1>3, <1>6, <1>7, <1>8, <1>9, <1>14 DEF C

-----------------------------------------------------------------------------
(* Deaths and starts.                                                      *)

\* What new() reads from accounts.json.
LEMMA LoadedMeans ==
  ASSUME IndexInv
  PROVE  /\ Loaded.accounts \in Seq(Summary) /\ Loaded.current \in Accounts \cup {None}
         /\ WellFormed(Loaded.accounts, Loaded.current)
<1>1. CASE disk = Torn
  <2>1. Loaded.accounts = <<>> /\ Loaded.current = None
    BY <1>1 DEF Loaded
  <2>. QED
    BY <2>1, EmptySeq DEF WellFormed, Distinct
<1>2. CASE disk # Torn
  <2>1. Loaded = disk /\ disk \in Listing
    BY <1>2 DEF Loaded, IndexInv, TasksInv, TypeOK
  <2>. QED
    BY <1>2, <2>1 DEF IndexInv, Listing
<1>. QED
  BY <1>1, <1>2

\* And what it makes of it: the same accounts, disabled where their files say so.
LEMMA SyncedMeans ==
  ASSUME IndexInv
  PROVE  /\ Synced \in Seq(Summary) /\ WellFormed(Synced, Loaded.current)
         /\ Ids(Synced) = Ids(Loaded.accounts)
         /\ \A i \in DOMAIN Synced :
              /\ Synced[i] \in Summary
              /\ Readable(Synced[i].id) => Synced[i].disabled = file[Synced[i].id].disabled
<1>. DEFINE seq == Loaded.accounts
            n == Len(seq)
            new == Synced
<1>1. seq \in Seq(Summary) /\ WellFormed(seq, Loaded.current)
  BY LoadedMeans
<1>2. /\ n \in Nat /\ DOMAIN seq = 1 .. n
      /\ \A i \in 1 .. n : seq[i] \in Summary /\ seq[i].id \in Accounts
  BY <1>1, ListingShape
<1>3. new = [i \in 1 .. n |-> IF Readable(seq[i].id)
                              THEN [seq[i] EXCEPT !.disabled = file[seq[i].id].disabled]
                              ELSE seq[i]]
  BY <1>2 DEF Synced
<1>. HIDE DEF seq, n, new
<1>4. ASSUME NEW i \in 1 .. n
      PROVE  /\ new[i] \in Summary /\ new[i].id = seq[i].id
             /\ Readable(new[i].id) => new[i].disabled = file[new[i].id].disabled
  <2>1. CASE Readable(seq[i].id)
    <3>1. new[i] = [seq[i] EXCEPT !.disabled = file[seq[i].id].disabled]
      BY <1>3, <2>1
    <3>2. file[seq[i].id] \in Record
      BY <1>2, <2>1, ReadableRecord DEF IndexInv, TasksInv
    <3>3. file[seq[i].id].disabled \in BOOLEAN
      BY <3>2 DEF Record
    <3>. QED
      BY <1>2, <3>1, <3>3 DEF Summary
  <2>2. CASE ~Readable(seq[i].id)
    BY <1>2, <1>3, <2>2
  <2>. QED
    BY <2>1, <2>2
<1>5. DOMAIN new = 1 .. n
  BY <1>3
<1>6. new \in Seq(Summary)
  BY <1>2, <1>3, <1>4, <1>5
<1>7. Ids(new) = Ids(seq)
  BY <1>2, <1>4, <1>5 DEF Ids
<1>8. Distinct(new)
  BY <1>1, <1>2, <1>4, <1>5 DEF WellFormed, Distinct
<1>9. WellFormed(new, Loaded.current)
  <2>1. new = <<>> <=> seq = <<>>
    BY <1>1, <1>6, <1>7, EmptyListing
  <2>. QED
    BY <1>1, <1>7, <1>8, <2>1 DEF WellFormed
<1>. QED
  BY <1>4, <1>5, <1>6, <1>7, <1>9 DEF new, seq

\* A token leads to an account or nowhere.
LEMMA OwnerType ==
  ASSUME IndexInv, NEW k \in Tokens
  PROVE  OwnerOf(k) \in Accounts \cup {None}
<1>. DEFINE holders == {i \in DOMAIN Synced : Readable(Synced[i].id) /\ file[Synced[i].id].token = k}
<1>1. Synced \in Seq(Summary)
  BY SyncedMeans
<1>2. Len(Synced) \in Nat /\ DOMAIN Synced = 1 .. Len(Synced)
  BY <1>1, ListingShape
<1>3. OwnerOf(k) = IF holders = {} THEN None ELSE Synced[Max(holders)].id
  BY DEF OwnerOf
<1>4. holders \in SUBSET (1 .. Len(Synced))
  BY <1>2
<1>. HIDE DEF holders
<1>5. ASSUME holders # {} PROVE Max(holders) \in holders
  <2>1. PICK m \in holders : \A h \in holders : h <= m
    BY <1>2, <1>4, <1>5, LastPlace
  <2>2. \A h \in holders : m >= h
    BY <1>2, <1>4, <2>1
  <2>. QED
    BY <2>2 DEF Max
<1>6. holders # {} => Synced[Max(holders)].id \in Accounts
  BY <1>1, <1>4, <1>5, ListingShape
<1>. QED
  BY <1>3, <1>6

\* A start makes the index out of the disk.
LEMMA RestartKeeps ==
  ASSUME IndexInv, Restart
  PROVE  IndexInv'
<1>. DEFINE map == [k \in Tokens |-> OwnerOf(k)]
<1>1. /\ up' = TRUE /\ index' = Synced /\ current' = Loaded.current
      /\ disk' = IF Synced = Loaded.accounts THEN disk
                 ELSE [accounts |-> Synced, current |-> Loaded.current]
      /\ tokenMap' = map
      /\ UNCHANGED <<file, lock, task, crashes, handed>>
  BY DEF Restart
<1>2. map \in [Tokens -> Accounts \cup {None}]
  BY OwnerType
<1>. HIDE DEF map
<1>3. /\ Synced \in Seq(Summary) /\ WellFormed(Synced, Loaded.current)
      /\ Loaded.current \in Accounts \cup {None}
  BY SyncedMeans, LoadedMeans
<1>4. /\ disk' \in Listing \cup {Torn}
      /\ disk' # Torn => WellFormed(disk'.accounts, disk'.current)
  <2>1. CASE Synced = Loaded.accounts
    BY <1>1, <2>1 DEF IndexInv, TasksInv, TypeOK
  <2>2. CASE Synced # Loaded.accounts
    <3>1. disk' = [accounts |-> Synced, current |-> Loaded.current]
      BY <1>1, <2>2
    <3>. QED
      BY <1>3, <3>1 DEF Listing
  <2>. QED
    BY <2>1, <2>2
<1>5. TypeOK'
  BY <1>1, <1>2, <1>3, <1>4 DEF IndexInv, TasksInv, TypeOK, task
<1>6. TasksInv'
  BY <1>1, <1>5 DEF IndexInv, TasksInv, TaskShape, task
<1>7. WellFormed(index, current)'
  BY <1>1, <1>3
<1>8. IndexWellFormed'
  BY <1>7 DEF IndexWellFormed, WellFormed, Distinct, Listed
<1>. QED
  BY <1>4, <1>6, <1>8 DEF IndexInv, WellFormed, Distinct, Ids

\* A death, in a run or in a start.
LEMMA CrashKeeps ==
  ASSUME IndexInv, Crash \/ CrashInRestart
  PROVE  IndexInv'
<1>. USE DEF IndexInv, TasksInv
<1>1. /\ up' = FALSE /\ crashes < Crashes /\ crashes' = crashes + 1
      /\ UNCHANGED <<file, op, target, snap>>
      /\ disk' = disk \/ disk' = Torn
  BY DEF Crash, CrashInRestart, task, TypeOK
<1>2. crashes' \in 0 .. Crashes
  BY <1>1, CrashesAssumption DEF TypeOK
<1>3. CASE Crash
  <2>1. /\ index' = <<>> /\ current' = None /\ lock' = None /\ handed' = <<>>
        /\ tokenMap' = [k \in Tokens |-> None] /\ UNCHANGED disk
        /\ pc' = [t \in Tasks |-> IF pc[t] \in {"idle", "done"} THEN pc[t] ELSE "failed"]
    BY <1>3 DEF Crash
  <2>2. pc' \in [Tasks -> PCs] /\ \A t \in Tasks : pc'[t] \in {"idle", "done", "failed"}
    BY <2>1 DEF TypeOK, PCs
  <2>3. index' \in Seq(Summary) /\ handed' \in Seq(Accounts)
    BY <2>1, EmptySeq
  <2>4. TypeOK'
    BY <1>1, <1>2, <2>1, <2>2, <2>3 DEF TypeOK
  <2>5. \A t \in Tasks : TaskShape(t)'
    BY <2>2 DEF TaskShape
  <2>. QED
    BY <1>1, <2>1, <2>4, <2>5 DEF IndexWellFormed
<1>4. CASE CrashInRestart
  <2>1. disk' = Torn /\ UNCHANGED <<memory, task, handed, up>>
    BY <1>4 DEF CrashInRestart
  <2>2. TypeOK'
    BY <1>1, <1>2, <2>1 DEF TypeOK, memory, task
  <2>3. \A t \in Tasks : TaskShape(t)'
    BY <2>1 DEF TaskShape, task
  <2>. QED
    BY <1>1, <2>1, <2>2, <2>3 DEF IndexWellFormed
<1>. QED
  BY <1>3, <1>4

\* Every step keeps the listing well formed.
LEMMA StepIndex == IndexInv /\ [Next]_vars => IndexInv'
<1>. SUFFICES ASSUME IndexInv, [Next]_vars PROVE IndexInv'
  OBVIOUS
<1>1. ASSUME NEW t \in Tasks, Starts(t) PROVE IndexInv'
  BY <1>1, StartsMean, StartTasks, IndexFrame DEF IndexInv
<1>2. ASSUME NEW t \in Tasks, FileSteps(t) PROVE IndexInv'
  BY <1>2, FileTasks, IndexFrame DEF IndexInv
<1>3. CASE UNCHANGED vars
  <2>1. TasksInv'
    BY <1>3 DEF vars, memory, task, IndexInv, TasksInv, TypeOK, TaskShape
  <2>. QED
    BY <1>3, <2>1, IndexFrame DEF vars, memory
<1>. QED
  BY <1>1, <1>2, <1>3, EditIndexKeeps, SaveKeeps, GetBestKeeps, RestartKeeps, CrashKeeps
     DEF Next, TaskStep, Starts, FileSteps

\* Files, disk, index, token map and tasks keep their types, and tasks hold what their
\* next step needs.
THEOREM StoreTypes == Spec => []TypeOK
<1>1. IndexInv => TypeOK
  BY DEF IndexInv, TasksInv
<1>2. Init => IndexInv
  BY InitStore
<1>. QED
  BY <1>1, <1>2, StepIndex, PTL DEF Spec

\* The listing names no account twice and its rotation position is in it, whatever upserts,
\* removals, reorderings, deaths and starts interleave.
THEOREM ListingWellFormed == Spec => []IndexWellFormed
<1>1. IndexInv => IndexWellFormed
  BY DEF IndexInv
<1>2. Init => IndexInv
  BY InitStore
<1>. QED
  BY <1>1, <1>2, StepIndex, PTL DEF Spec

-----------------------------------------------------------------------------
(* Nobody is unlisted but by a removal.                                    *)

\* The listing shrinks only where an operation edits it, and there only by the account a
\* removal is about.
LEMMA UnlistStep ==
  ASSUME IndexInv, [Next]_vars, up, up', NEW a \in Listed \ Listed'
  PROVE  \E t \in Tasks : op[t] = "remove" /\ target[t] = a /\ pc[t] = "lock"
<1>1. ASSUME NEW t \in Tasks, EditIndex(t) PROVE op[t] = "remove" /\ target[t] = a /\ pc[t] = "lock"
  <2>1. up /\ pc[t] = "lock" /\ \E e \in IndexEdits(t) : index' = e.accounts
    BY <1>1 DEF EditIndex
  <2>2. PICK e \in IndexEdits(t) : index' = e.accounts
    BY <2>1
  <2>3. Listed' = Ids(e.accounts)
    BY <2>2 DEF Listed
  <2>. QED
    BY <2>1, <2>3, EditsMean
<1>2. ASSUME index' = index PROVE FALSE
  BY <1>2 DEF Listed
<1>3. ASSUME NEW t \in Tasks, Starts(t) PROVE FALSE
  BY <1>2, <1>3, StartsMean DEF IndexInv
<1>4. ASSUME NEW t \in Tasks, FileSteps(t) PROVE FALSE
  BY <1>2, <1>4, FileTasks DEF IndexInv
<1>5. ASSUME NEW t \in Tasks, Save(t) PROVE FALSE
  BY <1>2, <1>5 DEF Save
<1>6. CASE GetBest \/ UNCHANGED vars
  BY <1>2, <1>6 DEF GetBest, vars, memory
<1>7. CASE Crash \/ Restart \/ CrashInRestart
  BY <1>7 DEF Crash, Restart, CrashInRestart
<1>. QED
  BY <1>1, <1>3, <1>4, <1>5, <1>6, <1>7 DEF Next, TaskStep, Starts, FileSteps

\* While the process runs, an account leaves the listing only by a removal of that account:
\* no upsert, status edit or reorder that was prepared before others changed the list.
THEOREM RemovalAloneUnlists == Spec => OnlyRemovalUnlists
<1>1. Init => IndexInv
  BY InitStore
<1>2. IndexInv /\ [Next]_vars =>
        [up /\ up' => \A a \in Listed \ Listed' :
           \E t \in Tasks : op[t] = "remove" /\ target[t] = a /\ pc[t] = "lock"]_vars
  BY UnlistStep
<1>. QED
  BY <1>1, <1>2, StepIndex, PTL DEF Spec, OnlyRemovalUnlists

-----------------------------------------------------------------------------
(* Bans and starts.                                                        *)

\* Whatever is written says disabled when it says Forbidden.
LEMMA StepBan ==
  ASSUME IndexInv, BanInv, [Next]_vars
  PROVE  BanInv'
<1>1. TasksInv /\ TasksInv'
  BY StepIndex DEF IndexInv
<1>2. ASSUME UNCHANGED file,
             \A t \in Tasks : pc'[t] \in {"open", "fill"} =>
                pc[t] \in {"open", "fill"} /\ snap'[t] = snap[t]
      PROVE  BanInv'
  BY <1>1, <1>2 DEF BanInv, Readable
<1>3. ASSUME NEW t \in Tasks, Starts(t) PROVE BanInv'
  <2>1. UNCHANGED file
    BY <1>1, <1>3, StartsMean
  <2>2. PICK kind \in Kinds, a \in Accounts \cup {None},
             to \in {"failed", "open", "forget", "unlink", "lock"} : StartShape(t, kind, a, to)
    BY <1>1, <1>3, StartsMean
  <2>3. pc' = [pc EXCEPT ![t] = to]
    BY <2>2 DEF StartShape, Go
  <2>4. \/ to # "open" /\ snap' = snap
        \/ /\ to # "fill"
           /\ \E r \in Record : snap' = [snap EXCEPT ![t] = r] /\ BanMarked(r)
    BY <2>2 DEF StartShape
  <2>5. pc'[t] = to /\ \A u \in Tasks \ {t} : pc'[u] = pc[u] /\ snap'[u] = snap[u]
    BY <1>1, <2>3, <2>4 DEF TasksInv, TypeOK
  <2>6. to \in {"open", "fill"} => BanMarked(snap'[t])
    BY <1>1, <2>4 DEF TasksInv, TypeOK
  <2>7. \A u \in Tasks : pc'[u] \in {"open", "fill"} => BanMarked(snap'[u])
    BY <2>5, <2>6 DEF BanInv
  <2>. QED
    BY <1>1, <2>1, <2>7 DEF BanInv, Readable
<1>4. ASSUME NEW t \in Tasks, Forget(t) \/ WriteFails(t) \/ EditIndex(t) \/ Save(t) PROVE BanInv'
  <2>1. UNCHANGED <<file, snap>>
    BY <1>4 DEF Forget, WriteFails, EditIndex, Save
  <2>2. \E to \in PCs \ {"open", "fill"} : pc' = [pc EXCEPT ![t] = to]
    BY <1>4 DEF Forget, WriteFails, EditIndex, Save, Go, PCs
  <2>3. \A u \in Tasks : pc'[u] \in {"open", "fill"} => pc'[u] = pc[u]
    BY <1>1, <2>2 DEF TasksInv, TypeOK
  <2>. QED
    BY <1>2, <2>1, <2>3
<1>5. ASSUME NEW t \in Tasks, Unlink(t) PROVE BanInv'
  <2>1. /\ file' = [file EXCEPT ![target[t]] = None] /\ UNCHANGED snap
        /\ \A u \in Tasks : pc'[u] \in {"open", "fill"} => pc'[u] = pc[u]
    BY <1>1, <1>5 DEF Unlink, Go, TasksInv, TypeOK
  <2>2. \A a \in Accounts : Readable(a)' => file'[a] = file[a] /\ Readable(a)
    BY <1>1, <2>1 DEF Readable, TasksInv, TypeOK
  <2>. QED
    BY <1>1, <2>1, <2>2 DEF BanInv
<1>6. ASSUME NEW t \in Tasks, Truncate(t) PROVE BanInv'
  <2>1. /\ file' = [file EXCEPT ![target[t]] = Torn] /\ UNCHANGED snap /\ pc[t] = "open"
        /\ pc' = [pc EXCEPT ![t] = "fill"]
    BY <1>6 DEF Truncate, Go
  <2>2. \A a \in Accounts : Readable(a)' => file'[a] = file[a] /\ Readable(a)
    BY <1>1, <2>1 DEF Readable, TasksInv, TypeOK
  <2>3. \A u \in Tasks : pc'[u] \in {"open", "fill"} => pc[u] \in {"open", "fill"}
    BY <1>1, <2>1 DEF TasksInv, TypeOK
  <2>. QED
    BY <1>1, <2>1, <2>2, <2>3 DEF BanInv
<1>7. ASSUME NEW t \in Tasks, Fill(t) PROVE BanInv'
  <2>1. UNCHANGED snap /\ \E to \in {"done", "lock"} : pc' = [pc EXCEPT ![t] = to]
    BY <1>7 DEF Fill, Go
  <2>2. \A u \in Tasks : pc'[u] \in {"open", "fill"} => pc'[u] = pc[u]
    BY <1>1, <2>1 DEF TasksInv, TypeOK
  <2>3. CASE pc[t] = "void"
    <3>1. UNCHANGED file
      BY <1>7, <2>3 DEF Fill
    <3>. QED
      BY <1>2, <2>1, <2>2, <3>1
  <2>4. CASE pc[t] = "fill"
    <3>1. PICK content \in {snap[t], Torn} : file' = [file EXCEPT ![target[t]] = content]
      BY <1>7, <2>4 DEF Fill
    <3>2. target[t] \in Accounts /\ BanMarked(snap[t])
      BY <1>1, <2>4 DEF TasksInv, TaskShape, BanInv
    <3>3. \A a \in Accounts : Readable(a)' => \/ file'[a] = snap[t]
                                              \/ file'[a] = file[a] /\ Readable(a)
      BY <1>1, <3>1, <3>2 DEF Readable, TasksInv, TypeOK
    <3>4. \A a \in Accounts : Readable(a)' => BanMarked(file'[a])
      BY <3>2, <3>3 DEF BanInv
    <3>. QED
      BY <1>1, <2>1, <2>2, <3>4 DEF BanInv
  <2>. QED
    BY <1>7, <2>3, <2>4 DEF Fill
<1>8. CASE GetBest \/ Restart \/ CrashInRestart \/ UNCHANGED vars
  <2>1. UNCHANGED <<file, task>>
    BY <1>8 DEF GetBest, Restart, CrashInRestart, vars
  <2>. QED
    BY <1>2, <2>1 DEF task
<1>9. CASE Crash
  <2>1. UNCHANGED <<file, snap>>
        /\ pc' = [t \in Tasks |-> IF pc[t] \in {"idle", "done"} THEN pc[t] ELSE "failed"]
    BY <1>9 DEF Crash
  <2>. QED
    BY <1>2, <2>1
<1>. QED
  BY <1>3, <1>4, <1>5, <1>6, <1>7, <1>8, <1>9 DEF Next, TaskStep, Starts

\* A start disables what the files ban.
LEMMA RestartBans ==
  ASSUME IndexInv, BanInv, [Next]_vars, ~up, up'
  PROVE  \A s \in ToSet(index') :
           (Readable(s.id) /\ file[s.id].status = "Forbidden") => ~Eligible(s)
<1>1. Restart
  <2>1. ASSUME NEW t \in Tasks, TaskStep(t) PROVE FALSE
    BY <2>1 DEF TaskStep, Import, Load, LoadForRemoval, StartReorder, Start, Forget, Unlink,
                Truncate, Fill, EditIndex, Save, WriteFails
  <2>. QED
    BY <2>1 DEF Next, GetBest, Crash, CrashInRestart, vars
<1>. SUFFICES ASSUME NEW i \in DOMAIN Synced, Readable(Synced[i].id),
                     file[Synced[i].id].status = "Forbidden"
              PROVE  ~Eligible(Synced[i])
  BY <1>1 DEF Restart, ToSet
<1>2. Synced[i] \in Summary /\ Synced[i].disabled = file[Synced[i].id].disabled
  BY SyncedMeans
<1>3. BanMarked(file[Synced[i].id])
  BY <1>2 DEF BanInv, Summary
<1>. QED
  BY <1>2, <1>3 DEF BanMarked, Eligible

\* After a start no account whose file says Forbidden is routed to, wherever the process
\* died before: the mark is in the file before it is in the index, always with the flag, and
\* a start carries the flag over.
THEOREM StartsHonourBans == Spec => RestartHonoursBan
<1>1. Init => IndexInv /\ BanInv
  BY InitStore
<1>2. IndexInv /\ BanInv /\ [Next]_vars => IndexInv' /\ BanInv'
  BY StepIndex, StepBan
<1>3. IndexInv /\ BanInv /\ [Next]_vars =>
        [~up /\ up' => \A s \in ToSet(index') :
           (Readable(s.id) /\ file[s.id].status = "Forbidden") => ~Eligible(s)]_vars
  BY RestartBans
<1>. QED
  BY <1>1, <1>2, <1>3, PTL DEF Spec, RestartHonoursBan

-----------------------------------------------------------------------------
(* The rotation.                                                           *)

\* Going back from the next place is staying where one was, one call earlier.
LEMMA BackSteps ==
  ASSUME NEW c \in Nat \ {0}, c = Len(Candidates), NEW p \in 1 .. c
  PROVE  /\ (p % c) + 1 \in 1 .. c
         /\ \A d \in 0 .. c - 1 : Back(p, d) \in 1 .. c
         /\ \A d, e \in 0 .. c - 1 : Back(p, d) = Back(p, e) => d = e
         /\ Back((p % c) + 1, 0) = (p % c) + 1
         /\ \A d \in 0 .. c - 2 : Back((p % c) + 1, d + 1) = Back(p, d)
<1>1. (p % c) + 1 = IF p = c THEN 1 ELSE p + 1
  <2>1. CASE p = c
    <3>1. c % c = 0
      OBVIOUS
    <3>. QED
      BY <2>1, <3>1
  <2>2. CASE p # c
    <3>1. p \in 0 .. c - 1
      BY <2>2
    <3>2. p % c = p
      BY <3>1
    <3>. QED
      BY <2>2, <3>2
  <2>. QED
    BY <2>1, <2>2
<1>. QED
  BY <1>1 DEF Back

\* A call that hands an account out puts it at the end of the turns.
LEMMA GetBestRotates ==
  ASSUME IndexInv, RotationInv, GetBest
  PROVE  RotationInv'
<1>1. PICK c \in Nat \ {0} :
        /\ Candidates \in [1 .. c -> Listed] /\ Len(Candidates) = c
        /\ \A i, j \in 1 .. c : i # j => Candidates[i] # Candidates[j]
        /\ \E q \in 1 .. c :
             /\ current' = Candidates[q]
             /\ \A p \in 1 .. c : current = Candidates[p] => q = (p % c) + 1
  BY GetBestKeeps
<1>2. PICK q \in 1 .. c :
        /\ current' = Candidates[q]
        /\ \A p \in 1 .. c : current = Candidates[p] => q = (p % c) + 1
  BY <1>1
<1>3. handed' = Append(IF Len(handed) = c THEN Tail(handed) ELSE handed, current')
      /\ up /\ UNCHANGED <<index, up>>
  BY <1>1 DEF GetBest
<1>4. Candidates' = Candidates
  BY <1>3 DEF Candidates
<1>5. handed \in Seq(Accounts) /\ current' \in Accounts
  <2>1. TypeOK /\ TypeOK'
    BY GetBestKeeps DEF IndexInv, TasksInv
  <2>2. Listed \subseteq Accounts
    BY <2>1, ListingShape DEF Listed, TypeOK
  <2>. QED
    BY <1>1, <1>2, <2>1, <2>2 DEF TypeOK
<1>. DEFINE kept == IF Len(handed) = c THEN Tail(handed) ELSE handed
            n == Len(kept)
            gone == Len(handed) - n
<1>6. /\ kept \in Seq(Accounts) /\ n \in Nat /\ n <= c - 1 /\ gone \in {0, 1}
      /\ n > 0 => handed # <<>>
      /\ \A k \in 1 .. n : k + gone \in 1 .. Len(handed) /\ kept[k] = handed[k + gone]
  <2>1. Len(handed) \in Nat /\ Len(handed) <= c
    <3>1. handed = <<>> => Len(handed) = 0
      BY EmptySeq
    <3>. QED
      BY <1>1, <1>5, <3>1 DEF RotationInv
  <2>2. CASE Len(handed) = c
    <3>1. handed # <<>>
      BY <1>1, <2>2, EmptySeq
    <3>2. /\ Tail(handed) \in Seq(Accounts) /\ Len(Tail(handed)) = c - 1
          /\ \A k \in 1 .. c - 1 : Tail(handed)[k] = handed[k + 1]
      BY <1>5, <2>2, <3>1, HeadTailProperties
    <3>. QED
      BY <1>1, <2>2, <3>1, <3>2
  <2>3. CASE Len(handed) # c
    <3>1. kept = handed /\ n = Len(handed) /\ gone = 0
      BY <2>1, <2>3
    <3>2. n > 0 => handed # <<>>
      BY <3>1, EmptySeq
    <3>3. n <= c - 1 /\ gone \in {0, 1}
      BY <2>1, <2>3, <3>1
    <3>4. kept \in Seq(Accounts) /\ n \in Nat
      BY <1>5, <2>1, <3>1
    <3>5. ASSUME NEW k \in 1 .. n
          PROVE  k + gone \in 1 .. Len(handed) /\ kept[k] = handed[k + gone]
      <4>1. k + gone = k
        BY <2>1, <3>1
      <4>. QED
        BY <3>1, <4>1
    <3>. QED
      BY <3>2, <3>3, <3>4, <3>5
  <2>. QED
    BY <2>2, <2>3
<1>7. handed' = Append(kept, current')
  BY <1>3
<1>. HIDE DEF kept
<1>8. /\ handed' # <<>> /\ Len(handed') = n + 1 /\ handed'[n + 1] = current'
      /\ \A k \in 1 .. n : handed'[k] = kept[k]
  BY <1>5, <1>6, <1>7, AppendProperties
<1>9. ASSUME NEW k \in 1 .. n PROVE handed'[k] = Candidates[Back(q, n + 1 - k)]
  <2>1. handed # <<>>
    BY <1>6
  <2>2. PICK p \in 1 .. c : Rotation(p)
    BY <1>1, <2>1 DEF RotationInv
  <2>3. q = (p % c) + 1
    BY <1>2, <2>2 DEF Rotation
  <2>. DEFINE d == n - k
  <2>4. d \in 0 .. c - 2 /\ Len(handed) - (k + gone) = d /\ n + 1 - k = d + 1
    BY <1>6
  <2>5. handed[k + gone] = Candidates[Back(p, d)]
    BY <1>6, <2>2, <2>4 DEF Rotation
  <2>6. Back(q, d + 1) = Back(p, d)
    BY <1>1, <2>3, <2>4, BackSteps
  <2>. QED
    BY <1>6, <1>8, <2>4, <2>5, <2>6
<1>10. Back(q, 0) = q
  BY DEF Back
<1>11. \A k \in 1 .. n + 1 : handed'[k] = Candidates[Back(q, n + 1 - k)]
  <2>. SUFFICES ASSUME NEW k \in 1 .. n + 1 PROVE handed'[k] = Candidates[Back(q, n + 1 - k)]
    OBVIOUS
  <2>1. CASE k = n + 1
    <3>1. n + 1 - k = 0
      BY <1>6, <2>1
    <3>. QED
      BY <1>2, <1>8, <1>10, <2>1, <3>1
  <2>2. CASE k # n + 1
    <3>1. k \in 1 .. n
      BY <1>6, <2>2
    <3>. QED
      BY <1>9, <3>1
  <2>. QED
    BY <2>1, <2>2
<1>12. \A x, d : Back(x, d)' = Back(x, d)
  BY <1>4 DEF Back
<1>13. Rotation(q)'
  BY <1>2, <1>4, <1>8, <1>11, <1>12 DEF Rotation
<1>14. Len(handed') <= Len(Candidates')
  BY <1>1, <1>4, <1>6, <1>8
<1>. QED
  BY <1>1, <1>3, <1>4, <1>13, <1>14 DEF RotationInv

\* The turns stay while the candidates and the position do.
LEMMA RotationFrame ==
  ASSUME RotationInv, UNCHANGED <<index, current, handed, up>>
  PROVE  RotationInv'
<1>1. Candidates' = Candidates
  BY DEF Candidates
<1>2. \A p, d : Back(p, d)' = Back(p, d)
  BY <1>1 DEF Back
<1>3. \A p : Rotation(p)' <=> Rotation(p)
  BY <1>1, <1>2 DEF Rotation
<1>. QED
  BY <1>1, <1>3 DEF RotationInv

\* An edit that keeps the candidates keeps the position, once there were turns: it is a
\* candidate, and stays listed.
LEMMA EditRotates ==
  ASSUME IndexInv, RotationInv, NEW t \in Tasks, EditIndex(t)
  PROVE  RotationInv'
<1>1. up /\ pc[t] = "lock" /\ UNCHANGED up
      /\ handed' = IF Candidates' = Candidates THEN handed ELSE <<>>
  BY DEF EditIndex, KeepRotation
<1>2. PICK e \in IndexEdits(t) : index' = e.accounts /\ current' = e.current
  BY DEF EditIndex
<1>3. /\ e.accounts \in Seq(Summary) /\ Distinct(e.accounts)
      /\ \/ e.current = current
         \/ current = None
         \/ current \in Accounts \ Ids(e.accounts)
  BY <1>1, EditsMean DEF WellFormed
<1>4. CASE handed' = <<>>
  BY <1>1, <1>4 DEF RotationInv
<1>5. CASE handed' # <<>>
  <2>1. handed' = handed /\ handed # <<>> /\ Candidates' = Candidates
    BY <1>1, <1>5
  <2>2. Len(handed) <= Len(Candidates) /\ \E p \in 1 .. Len(Candidates) : Rotation(p)
    BY <2>1 DEF RotationInv
  <2>3. PICK p \in 1 .. Len(Candidates) : Rotation(p)
    BY <2>2
  <2>4. PICK c \in Nat : EligibleOf(e.accounts) \in [1 .. c -> Ids(e.accounts)]
                         /\ Len(EligibleOf(e.accounts)) = c
    BY <1>3, EligibleMeans
  <2>5. Candidates = EligibleOf(e.accounts)
    BY <1>2, <2>1 DEF Candidates
  <2>6. current \in Ids(e.accounts)
    BY <2>3, <2>4, <2>5 DEF Rotation
  <2>7. current \in Accounts
    BY <1>3, <2>6, ListingShape
  <2>8. current' = current
    BY <1>2, <1>3, <2>6, <2>7, SentinelAssumption
  <2>9. \A d : Back(p, d)' = Back(p, d)
    BY <2>1 DEF Back
  <2>10. Rotation(p)'
    BY <2>1, <2>3, <2>8, <2>9 DEF Rotation
  <2>. QED
    BY <1>1, <2>1, <2>2, <2>10 DEF RotationInv
<1>. QED
  BY <1>4, <1>5

\* Every step keeps the turns.
LEMMA StepRotation ==
  ASSUME IndexInv, RotationInv, [Next]_vars
  PROVE  RotationInv'
<1>1. ASSUME NEW t \in Tasks, Starts(t) \/ FileSteps(t) PROVE RotationInv'
  BY <1>1, StartsMean, FileTasks, RotationFrame DEF IndexInv
<1>2. ASSUME NEW t \in Tasks, Save(t) PROVE RotationInv'
  BY <1>2, RotationFrame DEF Save
<1>3. CASE CrashInRestart \/ UNCHANGED vars
  BY <1>3, RotationFrame DEF CrashInRestart, vars, memory
<1>4. CASE Restart \/ Crash
  BY <1>4 DEF Restart, Crash, RotationInv
<1>. QED
  BY <1>1, <1>2, <1>3, <1>4, EditRotates, GetBestRotates DEF Next, TaskStep, Starts, FileSteps

\* As long as the candidates stay, get_best_account hands out every one of them before it
\* hands one out again: whatever is listed, disabled, banned or removed in between starts a
\* new round, and nothing else disturbs one.
THEOREM RotationIsFair == Spec => []RotationFair
<1>1. Init => IndexInv /\ RotationInv
  BY InitStore
<1>2. IndexInv /\ RotationInv /\ [Next]_vars => IndexInv' /\ RotationInv'
  BY StepIndex, StepRotation
<1>3. IndexInv /\ RotationInv => RotationFair
  <2>. SUFFICES ASSUME IndexInv, RotationInv PROVE IsInjective(handed)
    BY DEF RotationFair
  <2>1. handed \in Seq(Accounts) /\ index \in Seq(Summary)
    BY DEF IndexInv, TasksInv, TypeOK
  <2>2. CASE handed = <<>>
    BY <2>2 DEF IsInjective
  <2>3. CASE handed # <<>>
    <3>1. up /\ Distinct(index)
      BY <2>3, WellFormedIndex DEF RotationInv, IndexInv, WellFormed
    <3>2. PICK c \in Nat :
            /\ Len(Candidates) = c
            /\ \A i, j \in 1 .. c : i # j => Candidates[i] # Candidates[j]
      BY <2>1, <3>1, EligibleMeans DEF Candidates
    <3>3. Len(handed) <= c /\ \E p \in 1 .. c : Rotation(p)
      BY <2>3, <3>2 DEF RotationInv
    <3>4. PICK p \in 1 .. c : Rotation(p)
      BY <3>3
    <3>. DEFINE n == Len(handed)
    <3>5. n \in Nat /\ DOMAIN handed = 1 .. n /\ c \in Nat \ {0}
      BY <2>1
    <3>. SUFFICES ASSUME NEW i \in 1 .. n, NEW j \in 1 .. n, handed[i] = handed[j] PROVE i = j
      BY <3>5 DEF IsInjective
    <3>6. n - i \in 0 .. c - 1 /\ n - j \in 0 .. c - 1
      BY <3>3, <3>5
    <3>7. Back(p, n - i) \in 1 .. c /\ Back(p, n - j) \in 1 .. c
      BY <3>2, <3>5, <3>6, BackSteps
    <3>8. Back(p, n - i) = Back(p, n - j)
      BY <3>2, <3>4, <3>7 DEF Rotation
    <3>9. \A d, e \in 0 .. c - 1 : Back(p, d) = Back(p, e) => d = e
      BY <3>2, <3>5, BackSteps
    <3>10. n - i = n - j
      BY <3>6, <3>8, <3>9
    <3>. QED
      BY <3>5, <3>10
  <2>. QED
    BY <2>2, <2>3
<1>. QED
  BY <1>1, <1>2, <1>3, PTL DEF Spec

=============================================================================
