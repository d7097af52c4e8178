---------------------------- MODULE MempoolProofs ----------------------------
(***************************************************************************)
(* Proofs of the invariants of Mempool, for any accounts, limits, nonces   *)
(* and clock.  One lemma per operation of the mempool, then the inductive  *)
(* invariant IInv, then the theorems.                                      *)
(***************************************************************************)
EXTENDS Mempool, NaturalSets, FiniteSetTheorems, SequenceTheorems, TLAPS

-----------------------------------------------------------------------------
(* What holds of the entries, whatever the ring looks like. *)

OldestOf(m) == m.oldest \in InsertionTimes(m) \cup {None}
Core(m) == MempoolType(m) /\ m.total = Cardinality(Pending(m)) /\ OldestOf(m)

\* The tracked entries are finitely many.
LEMMA PendingIsFinite ==
  ASSUME NEW m, Pending(m) \subseteq Transactions
  PROVE  /\ IsFiniteSet(Pending(m))
         /\ Cardinality(Pending(m)) \in Nat
<1>1. IsFiniteSet(Nonces)
  BY MempoolAssumption, FS_Interval, 0 \in Int, MaxNonce \in Int DEF Nonces
<1>2. IsFiniteSet(Transactions)
  BY <1>1, MempoolAssumption, FS_Product DEF Transactions
<1>3. Pending(m) \in SUBSET Transactions
  OBVIOUS
<1> QED BY <1>2, <1>3, FS_Subset, FS_CardinalityType

\* Forgetting tracked entries (the removals in add, retain and pop_next) keeps the
\* types, the exact total and a cached oldest time that some entry still has.
LEMMA ForgetLemma ==
  ASSUME NEW m, Core(m), NEW S, S \subseteq Pending(m)
  PROVE  LET f == Forget(m, S) IN
         /\ Core(f)
         /\ Pending(f) = Pending(m) \ S
         /\ f.queue = m.queue /\ f.positions = m.positions /\ f.cursor = m.cursor
         /\ f.total = m.total - Cardinality(S)
<1> DEFINE f == Forget(m, S)
<1>1. /\ DOMAIN f = DOMAIN m
      /\ f.tracked = [t \in Pending(m) \ S |-> m.tracked[t]]
      /\ f.total = m.total - Cardinality(S)
      /\ f.oldest = (IF \E t \in S : m.tracked[t] = m.oldest THEN None ELSE m.oldest)
      /\ f.queue = m.queue /\ f.positions = m.positions /\ f.cursor = m.cursor
  BY DEF Forget, Core, MempoolType
<1>2. Pending(f) = Pending(m) \ S
  BY <1>1 DEF Pending
<1>3. f.total = Cardinality(Pending(f)) /\ f.total \in Nat
  <2>1. IsFiniteSet(Pending(m))
    BY PendingIsFinite DEF Core, MempoolType
  <2>2. Pending(m) \cap S = S
    OBVIOUS
  <2>3. Cardinality(Pending(m) \ S) = Cardinality(Pending(m)) - Cardinality(S)
    BY <2>1, <2>2, FS_Difference
  <2>4. Cardinality(Pending(m) \ S) \in Nat
    BY <2>1, FS_Difference, FS_CardinalityType
  <2> QED BY <1>1, <1>2, <2>3, <2>4 DEF Core
<1>4. OldestOf(f)
  BY <1>1, <1>2 DEF OldestOf, Core, InsertionTimes, Pending
<1>5. MempoolType(f)
  BY <1>1, <1>2, <1>3 DEF MempoolType, Core, Pending, None
<1> HIDE DEF f
<1> QED BY <1>1, <1>2, <1>3, <1>4, <1>5 DEF Core, f

\* Inserting one new entry keeps the types, the exact total and the oldest time.
LEMMA InsertLemma ==
  ASSUME NEW m, Core(m), NEW a \in Accounts, NEW n \in Nonces, NEW time \in Times,
         <<a, n>> \notin Pending(m)
  PROVE  LET f == Insert(m, a, n, time) IN
         /\ Core(f)
         /\ Pending(f) = Pending(m) \cup {<<a, n>>}
         /\ f.queue = m.queue /\ f.positions = m.positions /\ f.cursor = m.cursor
         /\ f.total = m.total + 1
<1> DEFINE f == Insert(m, a, n, time)
<1>1. /\ DOMAIN f = DOMAIN m
      /\ f.tracked = [t \in Pending(m) \cup {<<a, n>>} |->
                        IF t = <<a, n>> THEN time ELSE m.tracked[t]]
      /\ f.total = m.total + 1
      /\ f.oldest = (IF m.oldest = None \/ time < m.oldest THEN time ELSE m.oldest)
      /\ f.queue = m.queue /\ f.positions = m.positions /\ f.cursor = m.cursor
  BY DEF Insert, Core, MempoolType
<1>2. Pending(f) = Pending(m) \cup {<<a, n>>}
  BY <1>1 DEF Pending
<1>3. f.total = Cardinality(Pending(f)) /\ f.total \in Nat
  <2>1. IsFiniteSet(Pending(m)) /\ Cardinality(Pending(m)) \in Nat
    BY PendingIsFinite DEF Core, MempoolType
  <2>2. Cardinality(Pending(m) \cup {<<a, n>>}) = Cardinality(Pending(m)) + 1
    BY <2>1, FS_AddElement
  <2> QED BY <1>1, <1>2, <2>1, <2>2 DEF Core
<1>4. OldestOf(f)
  <2>1. f.tracked[<<a, n>>] = time /\ <<a, n>> \in Pending(f)
    BY <1>1, <1>2
  <2>2. \A t \in Pending(m) : t \in Pending(f) /\ f.tracked[t] = m.tracked[t]
    BY <1>1, <1>2
  <2>3. InsertionTimes(m) \subseteq InsertionTimes(f) /\ time \in InsertionTimes(f)
    BY <2>1, <2>2 DEF InsertionTimes
  <2> QED BY <1>1, <2>3 DEF OldestOf, Core
<1>5. MempoolType(f)
  <2>1. <<a, n>> \in Transactions
    BY DEF Transactions
  <2>2. f.oldest \in Times \cup {None}
    BY <1>1 DEF Core, MempoolType
  <2>3. \A t \in Pending(f) : f.tracked[t] \in Times
    BY <1>1, <1>2 DEF Core, MempoolType
  <2> QED BY <1>1, <1>2, <1>3, <2>1, <2>2, <2>3 DEF MempoolType, Core
<1> HIDE DEF f
<1> QED BY <1>1, <1>2, <1>3, <1>4, <1>5 DEF Core, f

-----------------------------------------------------------------------------
(* What holds of the ring, whatever the entries are. *)

SameEntries(f, m) == f.tracked = m.tracked /\ f.total = m.total /\ f.oldest = m.oldest

\* enqueue_account adds the account to the ring and leaves the entries alone.
LEMMA EnqueueLemma ==
  ASSUME NEW m, MempoolType(m), NEW B \in SUBSET Accounts, RingOver(m, B),
         NEW a \in Accounts, a \notin B
  PROVE  LET f == Enqueue(m, a) IN
         MempoolType(f) /\ SameEntries(f, m) /\ RingOver(f, B \cup {a})
<1> DEFINE f == Enqueue(m, a)
<1>1. /\ DOMAIN f = DOMAIN m /\ SameEntries(f, m)
      /\ f.queue = Append(m.queue, a) /\ f.cursor = m.cursor
      /\ f.positions = [b \in B \cup {a} |->
                          IF b = a THEN Len(m.queue) ELSE m.positions[b]]
  BY DEF Enqueue, MempoolType, RingOver, SameEntries
<1>2. /\ f.queue \in Seq(Accounts)
      /\ Len(f.queue) = Len(m.queue) + 1
      /\ f.queue[Len(m.queue) + 1] = a
      /\ \A i \in 1 .. Len(m.queue) : f.queue[i] = m.queue[i]
      /\ Len(m.queue) \in Nat
  BY <1>1, AppendProperties DEF MempoolType
<1>3. MempoolType(f)
  BY <1>1, <1>2 DEF MempoolType, SameEntries, Pending, RingOver
<1>4. RingOver(f, B \cup {a})
  <2>1. \A b \in B : m.positions[b] \in Nat /\ m.positions[b] + 1 \in 1 .. Len(m.queue)
    BY <1>2 DEF MempoolType, RingOver
  <2>2. \A b \in B \cup {a} : /\ f.positions[b] < Len(f.queue)
                              /\ f.queue[f.positions[b] + 1] = b
    BY <1>1, <1>2, <2>1 DEF RingOver
  <2>3. \A i \in 1 .. Len(f.queue) : /\ f.queue[i] \in B \cup {a}
                                     /\ f.positions[f.queue[i]] = i - 1
    <3> SUFFICES ASSUME NEW i \in 1 .. Len(f.queue)
                 PROVE  f.queue[i] \in B \cup {a} /\ f.positions[f.queue[i]] = i - 1
      OBVIOUS
    <3>1. CASE i = Len(m.queue) + 1
      BY <1>1, <1>2, <3>1
    <3>2. CASE i \in 1 .. Len(m.queue)
      BY <1>1, <1>2, <3>2 DEF RingOver
    <3> QED BY <1>2, <3>1, <3>2
  <2>4. f.cursor < Len(f.queue) \/ f.cursor = 0
    BY <1>1, <1>2 DEF MempoolType, RingOver
  <2> QED BY <1>1, <2>2, <2>3, <2>4 DEF RingOver
<1> HIDE DEF f
<1> QED BY <1>1, <1>3, <1>4 DEF f

\* remove_account takes the account out of the ring with swap_remove: the ring
\* holds the others, the index is repaired and the cursor stays inside.
LEMMA RemoveLemma ==
  ASSUME NEW m, MempoolType(m), NEW B \in SUBSET Accounts, RingOver(m, B), NEW a \in B
  PROVE  LET f == RemoveFromQueue(m, a) IN
         MempoolType(f) /\ SameEntries(f, m) /\ RingOver(f, B \ {a})
<1> DEFINE f == RemoveFromQueue(m, a)
           idx == m.positions[a]
           last == Len(m.queue) - 1
           moved == m.queue[last + 1]
<1>1. /\ idx \in Nat /\ idx < Len(m.queue) /\ m.queue[idx + 1] = a
      /\ Len(m.queue) \in Nat /\ last \in Nat /\ last + 1 = Len(m.queue)
      /\ m.cursor \in Nat
  BY LenProperties DEF MempoolType, RingOver
<1>2. /\ \A i \in 1 .. Len(m.queue) : /\ m.queue[i] \in B
                                      /\ m.positions[m.queue[i]] = i - 1
      /\ \A b \in B : /\ m.positions[b] \in Nat
                      /\ m.positions[b] + 1 \in 1 .. Len(m.queue)
                      /\ m.queue[m.positions[b] + 1] = b
  BY <1>1 DEF MempoolType, RingOver
<1>3. /\ DOMAIN f = DOMAIN m /\ SameEntries(f, m)
      /\ f.queue = [i \in 1 .. last |-> IF i = idx + 1 THEN moved ELSE m.queue[i]]
      /\ f.positions = [b \in B \ {a} |-> IF b = moved THEN idx ELSE m.positions[b]]
      /\ f.cursor = CursorAfterRemoval(m.cursor, idx, last)
  BY DEF RemoveFromQueue, MempoolType, RingOver, SameEntries
<1>4. moved \in B /\ m.positions[moved] = last
  BY <1>1, <1>2
<1> HIDE DEF f, idx, last, moved
<1>5. f.queue \in Seq(Accounts) /\ Len(f.queue) = last
  <2>1. \A i \in 1 .. last : (IF i = idx + 1 THEN moved ELSE m.queue[i]) \in Accounts
    BY <1>1, <1>2, <1>4
  <2> QED BY <1>1, <1>3, <2>1, IsASeq, LenProperties
<1>6. f.cursor \in Nat /\ (f.cursor < last \/ f.cursor = 0)
  BY <1>1, <1>3 DEF CursorAfterRemoval
<1>7. MempoolType(f)
  <2>1. \A b \in B \ {a} : f.positions[b] \in Nat
    BY <1>1, <1>2, <1>3
  <2> QED BY <1>3, <1>5, <1>6, <2>1 DEF MempoolType, SameEntries, Pending
<1>8. \A b \in B \ {a} : f.positions[b] < last /\ f.queue[f.positions[b] + 1] = b
  <2> SUFFICES ASSUME NEW b \in B \ {a}
               PROVE  f.positions[b] < last /\ f.queue[f.positions[b] + 1] = b
    OBVIOUS
  <2>1. CASE b = moved
    <3>1. idx # last
      BY <2>1, <1>1 DEF moved
    <3>2. f.positions[b] = idx /\ idx + 1 \in 1 .. last
      BY <2>1, <3>1, <1>1, <1>3
    <3>3. f.queue[idx + 1] = moved
      BY <3>2, <1>3
    <3> QED BY <2>1, <3>2, <3>3, <1>1
  <2>2. CASE b # moved
    <3>1. m.positions[b] # last /\ m.positions[b] # idx
      BY <2>2, <1>1, <1>2 DEF moved
    <3>2. f.positions[b] = m.positions[b]
      BY <2>2, <1>3
    <3>3. m.positions[b] \in Nat /\ m.positions[b] + 1 \in 1 .. last
      BY <3>1, <1>1, <1>2
    <3>4. f.queue[m.positions[b] + 1] = m.queue[m.positions[b] + 1]
      BY <3>1, <3>3, <1>1, <1>3
    <3> QED BY <3>2, <3>3, <3>4, <1>1, <1>2
  <2> QED BY <2>1, <2>2
<1>9. \A i \in 1 .. last : f.queue[i] \in B \ {a} /\ f.positions[f.queue[i]] = i - 1
  <2> SUFFICES ASSUME NEW i \in 1 .. last
               PROVE  f.queue[i] \in B \ {a} /\ f.positions[f.queue[i]] = i - 1
    OBVIOUS
  <2>1. CASE i = idx + 1
    <3>1. moved # a
      BY <2>1, <1>1, <1>4 DEF idx
    <3> QED BY <2>1, <3>1, <1>1, <1>3, <1>4
  <2>2. CASE i # idx + 1
    <3>1. /\ f.queue[i] = m.queue[i] /\ m.queue[i] \in B
          /\ m.positions[m.queue[i]] = i - 1
      BY <2>2, <1>1, <1>2, <1>3
    <3>2. m.queue[i] # a /\ m.queue[i] # moved
      BY <2>2, <3>1, <1>1, <1>4 DEF idx
    <3> QED BY <3>1, <3>2, <1>3
  <2> QED BY <2>1, <2>2
<1> QED BY <1>3, <1>5, <1>6, <1>7, <1>8, <1>9 DEF RingOver, f

-----------------------------------------------------------------------------
(* The methods preserve the whole invariant. *)

Limits(m) ==
  /\ m.total <= MaxTransactions
  /\ \A a \in Accounts : Cardinality(NoncesOf(m, a)) <= MaxBacklog

Good(m) == Core(m) /\ RingOver(m, Active(m)) /\ Limits(m)

\* The pending nonces of an account with entries have a lowest and a highest one.
LEMMA NoncesOfIsFinite ==
  ASSUME NEW m, NEW a
  PROVE  /\ IsFiniteSet(NoncesOf(m, a))
         /\ Cardinality(NoncesOf(m, a)) \in Nat
         /\ NoncesOf(m, a) \in SUBSET (0 .. MaxNonce)
         /\ NoncesOf(m, a) # {} => /\ Max(NoncesOf(m, a)) \in NoncesOf(m, a)
                                  /\ Min(NoncesOf(m, a)) \in NoncesOf(m, a)
<1>1. IsFiniteSet(Nonces)
  BY MempoolAssumption, FS_Interval, 0 \in Int, MaxNonce \in Int DEF Nonces
<1>2. NoncesOf(m, a) \in SUBSET Nonces
  BY DEF NoncesOf
<1>3. IsFiniteSet(NoncesOf(m, a)) /\ Cardinality(NoncesOf(m, a)) \in Nat
  BY <1>1, <1>2, FS_Subset, FS_CardinalityType
<1>4. NoncesOf(m, a) \in SUBSET (0 .. MaxNonce)
  BY <1>2 DEF Nonces
<1> QED BY <1>3, <1>4, MinExists, MaxExists, MempoolAssumption

\* Mempools with the same entries have the same accounts and meet the same limits.
LEMMA SameEntriesSameAccounts ==
  ASSUME NEW f, NEW m, SameEntries(f, m)
  PROVE  /\ Pending(f) = Pending(m)
         /\ \A a : NoncesOf(f, a) = NoncesOf(m, a)
         /\ Active(f) = Active(m)
         /\ Core(m) /\ MempoolType(f) => Core(f)
         /\ Limits(m) => Limits(f)
  BY DEF SameEntries, Pending, NoncesOf, Active, Core, OldestOf, InsertionTimes, Limits

\* What is left of an account when S is forgotten, if S holds only its entries.
LEMMA AccountsAfter ==
  ASSUME NEW f, NEW m, NEW a \in Accounts, NEW S,
         Pending(f) = Pending(m) \ S, \A t \in S : t[1] = a
  PROVE  /\ \A b \in Accounts \ {a} : NoncesOf(f, b) = NoncesOf(m, b)
         /\ NoncesOf(f, a) \subseteq NoncesOf(m, a)
         /\ NoncesOf(f, a) # {} => Active(f) = Active(m)
         /\ NoncesOf(f, a) = {} => Active(f) = Active(m) \ {a}
<1>1. \A b \in Accounts \ {a} : NoncesOf(f, b) = NoncesOf(m, b)
  <2> SUFFICES ASSUME NEW b \in Accounts \ {a}, NEW n \in Nonces
               PROVE  <<b, n>> \in Pending(f) <=> <<b, n>> \in Pending(m)
    BY DEF NoncesOf
  <2>1. <<b, n>>[1] = b
    OBVIOUS
  <2> QED BY <2>1
<1>2. NoncesOf(f, a) \subseteq NoncesOf(m, a)
  BY DEF NoncesOf
<1> QED BY <1>1, <1>2 DEF Active

\* Forgetting entries of one account, and the account itself when none is left.
LEMMA DropLemma ==
  ASSUME NEW m, Good(m), NEW a \in Accounts, NoncesOf(m, a) # {},
         NEW S, S \subseteq Pending(m), \A t \in S : t[1] = a
  PROVE  LET f == Forget(m, S) IN
         /\ NoncesOf(f, a) = {} => Good(RemoveFromQueue(f, a))
         /\ NoncesOf(f, a) # {} => Good(f)
<1> DEFINE f == Forget(m, S)
<1>1. /\ Core(f) /\ Pending(f) = Pending(m) \ S
      /\ f.queue = m.queue /\ f.positions = m.positions /\ f.cursor = m.cursor
      /\ f.total = m.total - Cardinality(S)
  BY ForgetLemma DEF Good
<1> HIDE DEF f
<1>2. /\ \A b \in Accounts \ {a} : NoncesOf(f, b) = NoncesOf(m, b)
      /\ NoncesOf(f, a) \subseteq NoncesOf(m, a)
      /\ NoncesOf(f, a) # {} => Active(f) = Active(m)
      /\ NoncesOf(f, a) = {} => Active(f) = Active(m) \ {a}
  BY <1>1, AccountsAfter
<1>3. Limits(f)
  <2>1. f.total <= MaxTransactions
    <3>1. IsFiniteSet(S)
      BY PendingIsFinite, FS_Subset, S \in SUBSET Pending(m) DEF Good, Core, MempoolType
    <3>2. Cardinality(S) \in Nat
      BY <3>1, FS_CardinalityType
    <3> QED BY <1>1, <3>2, MempoolAssumption DEF Good, Limits, Core, MempoolType
  <2>2. Cardinality(NoncesOf(f, a)) <= Cardinality(NoncesOf(m, a))
    BY <1>2, NoncesOfIsFinite, FS_Subset, NoncesOf(f, a) \in SUBSET NoncesOf(m, a)
  <2>3. Cardinality(NoncesOf(f, a)) <= MaxBacklog
    BY <2>2, NoncesOfIsFinite, MempoolAssumption DEF Good, Limits
  <2> QED BY <1>2, <2>1, <2>3 DEF Good, Limits
<1>4. RingOver(f, Active(m))
  BY <1>1 DEF Good, RingOver
<1>5. Active(m) \in SUBSET Accounts /\ a \in Active(m)
  BY DEF Active
<1>6. ASSUME NoncesOf(f, a) = {} PROVE Good(RemoveFromQueue(f, a))
  <2> DEFINE g == RemoveFromQueue(f, a)
  <2>1. MempoolType(g) /\ SameEntries(g, f) /\ RingOver(g, Active(m) \ {a})
    BY <1>1, <1>4, <1>5, RemoveLemma DEF Core
  <2> HIDE DEF g
  <2>2. Active(g) = Active(m) \ {a} /\ Core(g) /\ Limits(g)
    BY <1>1, <1>2, <1>3, <1>6, <2>1, SameEntriesSameAccounts
  <2>3. Good(g)
    BY <2>1, <2>2 DEF Good
  <2> QED BY <2>3 DEF g
<1>7. ASSUME NoncesOf(f, a) # {} PROVE Good(f)
  BY <1>1, <1>2, <1>3, <1>4, <1>7 DEF Good
<1> QED BY <1>6, <1>7 DEF f

\* retain keeps a good mempool good.
LEMMA RetainLemma ==
  ASSUME NEW m, Good(m), NEW a \in Accounts, NEW min
  PROVE  Good(Retain(m, a, min))
<1> DEFINE S == {<<a, n>> : n \in {x \in NoncesOf(m, a) : x < min}}
<1>1. ASSUME NEW t \in S PROVE t \in Pending(m) /\ t[1] = a
  <2>1. PICK x \in NoncesOf(m, a) : t = <<a, x>>
    OBVIOUS
  <2> QED BY <2>1 DEF NoncesOf
<1> HIDE DEF S
<1>2. NoncesOf(m, a) # {} => /\ NoncesOf(Forget(m, S), a) = {} =>
                                  Good(RemoveFromQueue(Forget(m, S), a))
                             /\ NoncesOf(Forget(m, S), a) # {} => Good(Forget(m, S))
  BY <1>1, DropLemma
<1> QED BY <1>2 DEF Retain, S

\* add keeps a good mempool good: the early returns, the replacement, the eviction
\* of the account's highest nonce and the insertion.
LEMMA AddLemma ==
  ASSUME NEW m, Good(m), NEW a \in Accounts, NEW n \in Nonces, NEW time \in Times
  PROVE  Good(Add(m, a, n, time))
<1> SUFFICES ASSUME Accepts(m, a, n) PROVE Good(Add(m, a, n, time))
  BY DEF Add
<1> DEFINE inserted == Insert(m, a, n, time)
           S == Trimmed(inserted, a)
           kept == Forget(inserted, S)
<1>1. /\ Core(inserted) /\ Pending(inserted) = Pending(m) \cup {<<a, n>>}
      /\ inserted.queue = m.queue /\ inserted.positions = m.positions
      /\ inserted.cursor = m.cursor /\ inserted.total = m.total + 1
  BY InsertLemma DEF Good, Accepts
<1> HIDE DEF inserted
<1>2. NoncesOf(inserted, a) = NoncesOf(m, a) \cup {n}
  BY <1>1 DEF NoncesOf
<1>3. \A b \in Accounts \ {a} : NoncesOf(inserted, b) = NoncesOf(m, b)
  BY <1>1 DEF NoncesOf
<1>4. S \subseteq Pending(inserted) /\ (\A t \in S : t[1] = a) /\ Cardinality(S) \in Nat
  <2>1. Max(NoncesOf(inserted, a)) \in NoncesOf(inserted, a)
    BY <1>2, NoncesOfIsFinite
  <2>2. <<a, Max(NoncesOf(inserted, a))>> \in Pending(inserted)
    BY <2>1 DEF NoncesOf
  <2>3. CASE S = {}
    BY <2>3, FS_EmptySet
  <2>4. CASE S = {<<a, Max(NoncesOf(inserted, a))>>}
    <3>1. <<a, Max(NoncesOf(inserted, a))>>[1] = a
      OBVIOUS
    <3>2. Cardinality(S) = 1
      BY <2>4, FS_Singleton
    <3> HIDE DEF S
    <3> QED BY <2>2, <2>4, <3>1, <3>2
  <2> QED BY <2>3, <2>4 DEF Trimmed
<1>5. Cardinality(NoncesOf(kept, a)) <= MaxBacklog
  <2>1. Cardinality(NoncesOf(inserted, a)) <= Cardinality(NoncesOf(m, a)) + 1
    <3>1. IsFiniteSet(NoncesOf(m, a)) /\ Cardinality(NoncesOf(m, a)) \in Nat
      BY NoncesOfIsFinite
    <3>2. Cardinality(NoncesOf(m, a) \cup {n}) =
            IF n \in NoncesOf(m, a) THEN Cardinality(NoncesOf(m, a))
                                    ELSE Cardinality(NoncesOf(m, a)) + 1
      BY <3>1, FS_AddElement
    <3> QED BY <1>2, <3>1, <3>2
  <2>2. Cardinality(NoncesOf(inserted, a)) <= MaxBacklog + 1
    BY <2>1, NoncesOfIsFinite, MempoolAssumption DEF Good, Limits
  <2>3. Pending(kept) = Pending(inserted) \ S
    BY <1>1, <1>4, ForgetLemma
  <2> HIDE DEF kept
  <2>4. CASE Cardinality(NoncesOf(inserted, a)) > MaxBacklog
    <3>1. S = {<<a, Max(NoncesOf(inserted, a))>>}
      BY <2>4 DEF Trimmed
    <3>2. NoncesOf(kept, a) = NoncesOf(inserted, a) \ {Max(NoncesOf(inserted, a))}
      BY <2>3, <3>1 DEF NoncesOf
    <3>3. Cardinality(NoncesOf(kept, a)) = Cardinality(NoncesOf(inserted, a)) - 1
      <4> DEFINE N == NoncesOf(inserted, a)
      <4>1. IsFiniteSet(N) /\ Max(N) \in N
        BY <1>2, NoncesOfIsFinite
      <4> HIDE DEF N
      <4>2. Cardinality(N \ {Max(N)}) = Cardinality(N) - 1
        BY <4>1, FS_RemoveElement
      <4> QED BY <3>2, <4>2 DEF N
    <3> QED BY <2>2, <3>3, NoncesOfIsFinite, MempoolAssumption
  <2>5. CASE ~(Cardinality(NoncesOf(inserted, a)) > MaxBacklog)
    <3>1. S = {}
      BY <2>5 DEF Trimmed
    <3>2. NoncesOf(kept, a) = NoncesOf(inserted, a)
      BY <2>3, <3>1 DEF NoncesOf
    <3> QED BY <2>5, <3>2, NoncesOfIsFinite, MempoolAssumption
  <2> QED BY <2>4, <2>5
<1> HIDE DEF S
<1>6. /\ Core(kept) /\ Pending(kept) = Pending(inserted) \ S
      /\ kept.queue = m.queue /\ kept.positions = m.positions
      /\ kept.cursor = m.cursor /\ kept.total = inserted.total - Cardinality(S)
  <2>1. /\ Core(kept) /\ Pending(kept) = Pending(inserted) \ S
        /\ kept.queue = inserted.queue /\ kept.positions = inserted.positions
        /\ kept.cursor = inserted.cursor
        /\ kept.total = inserted.total - Cardinality(S)
    BY <1>1, <1>4, ForgetLemma
  <2> HIDE DEF kept
  <2> QED BY <1>1, <2>1
<1> HIDE DEF kept
<1>7. \A b \in Accounts \ {a} : NoncesOf(kept, b) = NoncesOf(m, b)
  <2>1. \A b \in Accounts \ {a} : NoncesOf(kept, b) = NoncesOf(inserted, b)
    <3>1. Pending(kept) = Pending(inserted) \ S /\ \A t \in S : t[1] = a
      BY <1>4, <1>6
    <3>2. ASSUME NEW b \in Accounts \ {a}, NEW k \in Nonces
          PROVE  <<b, k>> \in Pending(kept) <=> <<b, k>> \in Pending(inserted)
      BY <3>1, <<b, k>>[1] = b
    <3> QED BY <3>2 DEF NoncesOf
  <2> QED BY <1>3, <2>1
<1>8. Limits(kept)
  <2>1. kept.total <= MaxTransactions
    <3>1. m.total \in Nat /\ m.total < MaxTransactions /\ inserted.total = m.total + 1
      BY <1>1 DEF Accepts, Good, Core, MempoolType
    <3> QED BY <1>4, <1>6, <3>1, MempoolAssumption
  <2> QED BY <2>1, <1>5, <1>7 DEF Good, Limits
<1>9. RingOver(kept, Active(m)) /\ Active(m) \in SUBSET Accounts
  BY <1>6 DEF Good, RingOver, Active
<1>10. CASE NoncesOf(kept, a) = {}
  <2> DEFINE g == RemoveFromQueue(kept, a)
  <2>1. Add(m, a, n, time) = g
    BY <1>10 DEF Add, inserted, S, kept
  <2>2. Active(kept) = Active(m) \ {a}
    BY <1>7, <1>10 DEF Active
  <2>3. MempoolType(g) /\ SameEntries(g, kept) /\ RingOver(g, Active(m) \ {a})
    <3>1. CASE a \in Active(m)
      BY <3>1, <1>6, <1>9, RemoveLemma DEF Core
    <3>2. CASE a \notin Active(m)
      <4>1. g = kept /\ Active(m) \ {a} = Active(m)
        BY <3>2, <1>9 DEF RemoveFromQueue, RingOver
      <4> QED BY <4>1, <1>6, <1>9 DEF SameEntries, Core
    <3> QED BY <3>1, <3>2
  <2> HIDE DEF g
  <2>4. Active(g) = Active(m) \ {a} /\ Core(g) /\ Limits(g)
    BY <1>6, <1>8, <2>2, <2>3, SameEntriesSameAccounts
  <2> QED BY <2>1, <2>3, <2>4 DEF Good
<1>11. CASE NoncesOf(kept, a) # {} /\ NoncesOf(m, a) = {}
  <2> DEFINE g == Enqueue(kept, a)
  <2>1. Add(m, a, n, time) = g
    BY <1>11 DEF Add, inserted, S, kept
  <2>2. Active(kept) = Active(m) \cup {a} /\ a \notin Active(m)
    BY <1>7, <1>11 DEF Active
  <2>3. MempoolType(g) /\ SameEntries(g, kept) /\ RingOver(g, Active(m) \cup {a})
    BY <1>6, <1>9, <2>2, EnqueueLemma DEF Core
  <2> HIDE DEF g
  <2>4. Active(g) = Active(m) \cup {a} /\ Core(g) /\ Limits(g)
    BY <1>6, <1>8, <2>2, <2>3, SameEntriesSameAccounts
  <2> QED BY <2>1, <2>3, <2>4 DEF Good
<1>12. CASE NoncesOf(kept, a) # {} /\ NoncesOf(m, a) # {}
  <2>1. Add(m, a, n, time) = kept
    BY <1>12 DEF Add, inserted, S, kept
  <2>2. Active(kept) = Active(m)
    BY <1>7, <1>12 DEF Active
  <2> QED BY <2>1, <2>2, <1>6, <1>8, <1>9 DEF Good
<1> QED BY <1>10, <1>11, <1>12

\* Moving the cursor to a place inside the ring, or resetting it, changes nothing else.
LEMMA CursorLemma ==
  ASSUME NEW m, Good(m), NEW c \in Nat, c < Len(m.queue) \/ c = 0
  PROVE  LET f == [m EXCEPT !.cursor = c] IN
         Good(f) /\ SameEntries(f, m) /\ f.queue = m.queue /\ f.cursor = c
<1> DEFINE f == [m EXCEPT !.cursor = c]
<1>1. /\ DOMAIN f = DOMAIN m /\ SameEntries(f, m) /\ f.cursor = c
      /\ f.queue = m.queue /\ f.positions = m.positions
  BY DEF Good, Core, MempoolType, SameEntries
<1> HIDE DEF f
<1>2. MempoolType(f)
  BY <1>1 DEF Good, Core, MempoolType, SameEntries, Pending
<1>3. RingOver(f, Active(m))
  BY <1>1 DEF Good, RingOver
<1>4. Active(f) = Active(m) /\ Core(f) /\ Limits(f)
  BY <1>1, <1>2, SameEntriesSameAccounts DEF Good
<1>5. Good(f)
  BY <1>3, <1>4 DEF Good
<1> QED BY <1>1, <1>5 DEF f

\* ensure_queue leaves a good mempool as it is: the ring is never empty while
\* entries are tracked.
LEMMA EnsureQueueLemma ==
  ASSUME NEW m, Good(m)
  PROVE  EnsureQueue(m) = m
<1>1. ASSUME m.queue = <<>> PROVE Active(m) = {}
  <2>1. \A a \in Active(m) : m.positions[a] \in Nat /\ m.positions[a] < 0
    BY <1>1 DEF Good, Core, MempoolType, RingOver
  <2> QED BY <2>1
<1> QED BY <1>1 DEF EnsureQueue

\* Where the next turn starts is inside a ring that is not empty.
LEMMA RingStart ==
  ASSUME NEW m, Good(m), m.queue # <<>>
  PROVE  InRing(m) \in 0 .. Len(m.queue) - 1 /\ Len(m.queue) \in Nat \ {0}
<1>1. Len(m.queue) \in Nat \ {0}
  BY EmptySeq, LenProperties DEF Good, Core, MempoolType
<1> QED BY <1>1 DEF Good, Core, MempoolType, RingOver, InRing

\* The nonce that pop_next and peek_batch take is pending.
LEMMA LowestIsPending ==
  ASSUME NEW m, NEW a \in Active(m)
  PROVE  /\ Lowest(m, a) \in Pending(m) /\ Lowest(m, a) \in Transactions
         /\ Lowest(m, a)[1] = a
<1>1. Min(NoncesOf(m, a)) \in NoncesOf(m, a)
  BY NoncesOfIsFinite DEF Active
<1> QED BY <1>1 DEF Lowest, NoncesOf, Active, Transactions

\* pop_next keeps a good mempool good.
LEMMA PopNextLemma ==
  ASSUME NEW m, Good(m), m.queue # <<>>
  PROVE  Good(PopNext(m))
<1> DEFINE ring == [m EXCEPT !.cursor = InRing(m)]
           a == ring.queue[ring.cursor + 1]
           S == {Lowest(ring, a)}
           kept == Forget(ring, S)
           next == (kept.cursor + 1) % Len(m.queue)
<1>1. InRing(m) \in 0 .. Len(m.queue) - 1 /\ Len(m.queue) \in Nat \ {0}
  BY RingStart
<1>2. Good(ring) /\ ring.queue = m.queue /\ ring.cursor = InRing(m)
  BY <1>1, CursorLemma
<1> HIDE DEF ring
<1>3. a \in Active(ring) /\ a \in Accounts
  BY <1>1, <1>2 DEF Good, RingOver, Active
<1>4. S \subseteq Pending(ring) /\ \A t \in S : t[1] = a
  BY <1>3, LowestIsPending
<1> HIDE DEF a, S
<1>5. /\ NoncesOf(kept, a) = {} => Good(RemoveFromQueue(kept, a))
      /\ NoncesOf(kept, a) # {} => Good(kept)
  BY <1>2, <1>3, <1>4, DropLemma DEF Active
<1>6. kept.queue = m.queue /\ kept.cursor \in Nat
  <2>1. /\ Core(kept) /\ kept.queue = ring.queue /\ kept.cursor = ring.cursor
    BY <1>2, <1>4, ForgetLemma DEF Good
  <2> HIDE DEF kept
  <2> QED BY <1>2, <2>1 DEF Core, MempoolType
<1> HIDE DEF kept
<1>7. next \in Nat /\ next < Len(m.queue)
  BY <1>1, <1>6
<1>8. NoncesOf(kept, a) # {} => Good([kept EXCEPT !.cursor = next])
  <2> HIDE DEF next
  <2> QED BY <1>5, <1>6, <1>7, CursorLemma
<1> QED BY <1>5, <1>8 DEF PopNext, ring, a, S, kept, next

\* peek_batch returns a sequence of transactions.
LEMMA PeekLemma ==
  ASSUME NEW m, Good(m), NEW count \in Nat
  PROVE  PeekBatch(m, count) \in Seq(Transactions)
<1> DEFINE size == Len(m.queue)
           bound == IF count < size THEN count ELSE size
<1>1. size \in Nat /\ bound \in Nat
  BY LenProperties DEF Good, Core, MempoolType
<1>2. ASSUME NEW i \in 1 .. bound
      PROVE  Lowest(m, m.queue[((InRing(m) + i - 1) % size) + 1]) \in Transactions
  <2>1. m.queue # <<>> /\ size > 0
    BY <1>1, <1>2, EmptySeq
  <2>2. InRing(m) \in 0 .. size - 1 /\ size \in Nat \ {0}
    BY <2>1, RingStart
  <2> DEFINE j == (InRing(m) + i - 1) % size
  <2> HIDE DEF size
  <2>3. InRing(m) + i - 1 \in Nat
    BY <1>1, <1>2, <2>2
  <2>4. j \in 0 .. size - 1
    BY <2>2, <2>3
  <2> HIDE DEF j
  <2>5. m.queue[j + 1] \in Active(m)
    BY <2>2, <2>4 DEF Good, RingOver, size
  <2> QED BY <2>5, LowestIsPending DEF j, size
<1> HIDE DEF bound
<1>3. [i \in 1 .. bound |-> Lowest(m, m.queue[((InRing(m) + i - 1) % size) + 1])]
        \in Seq(Transactions)
  BY <1>1, <1>2, IsASeq
<1> QED BY <1>3 DEF PeekBatch, bound

\* Refreshing the cached oldest time keeps a good mempool good.
LEMMA RefreshLemma ==
  ASSUME NEW m, Good(m)
  PROVE  Good(RefreshOldest(m))
<1> DEFINE f == RefreshOldest(m)
<1>1. /\ DOMAIN f = DOMAIN m /\ f.tracked = m.tracked /\ f.total = m.total
      /\ f.queue = m.queue /\ f.positions = m.positions /\ f.cursor = m.cursor
      /\ f.oldest = (IF m.total = 0 THEN None
                     ELSE IF m.oldest = None THEN Min(InsertionTimes(m)) ELSE m.oldest)
  BY DEF RefreshOldest, Good, Core, MempoolType
<1> HIDE DEF f
<1>2. /\ Pending(f) = Pending(m) /\ Active(f) = Active(m)
      /\ InsertionTimes(f) = InsertionTimes(m) /\ \A a : NoncesOf(f, a) = NoncesOf(m, a)
  BY <1>1 DEF Pending, Active, NoncesOf, InsertionTimes
<1>3. m.total # 0 => Min(InsertionTimes(m)) \in InsertionTimes(m)
  <2> SUFFICES ASSUME m.total # 0 PROVE Min(InsertionTimes(m)) \in InsertionTimes(m)
    OBVIOUS
  <2>1. Pending(m) # {}
    BY FS_EmptySet DEF Good, Core
  <2>2. InsertionTimes(m) \in SUBSET (0 .. MaxTime) /\ InsertionTimes(m) # {}
    BY <2>1 DEF InsertionTimes, Good, Core, MempoolType, Times
  <2> QED BY <2>2, MinExists, MempoolAssumption
<1>4. InsertionTimes(m) \subseteq Times
  BY DEF InsertionTimes, Good, Core, MempoolType
<1>5. OldestOf(f) /\ f.oldest \in Times \cup {None}
  BY <1>1, <1>2, <1>3, <1>4 DEF OldestOf, Good, Core
<1>6. MempoolType(f)
  BY <1>1, <1>2, <1>5 DEF MempoolType, Good, Core
<1>7. RingOver(f, Active(m))
  BY <1>1 DEF RingOver, Good
<1>8. Limits(f) /\ f.total = Cardinality(Pending(f))
  BY <1>1, <1>2 DEF Limits, Good, Core
<1> QED BY <1>2, <1>5, <1>6, <1>7, <1>8 DEF Good, Core, f

-----------------------------------------------------------------------------
(* The theorems. *)

\* The inductive invariant: the four safety invariants need each other.  The
\* count is exact because what is forgotten is really there; that the entry next
\* pops is there follows from the ring, which in turn only holds accounts with
\* entries.
IInv == Good(mempool) /\ now \in Times /\ batch \in Seq(Transactions)

\* The mempool that new builds is good.
LEMMA InitIInv == Init => IInv
<1> SUFFICES ASSUME Init PROVE IInv
  OBVIOUS
<1>1. mempool = EmptyMempool
  BY DEF Init
<1>2. Pending(mempool) = {} /\ mempool.total = 0 /\ mempool.oldest = None
  BY <1>1 DEF EmptyMempool, Pending
<1>3. (\A a : NoncesOf(mempool, a) = {}) /\ Active(mempool) = {}
  BY <1>2 DEF NoncesOf, Active
<1>4. MempoolType(mempool)
  BY <1>1, <1>2 DEF EmptyMempool, MempoolType, Transactions
<1>5. Core(mempool)
  BY <1>2, <1>4, FS_EmptySet DEF Core, OldestOf
<1>6. RingOver(mempool, Active(mempool))
  BY <1>1, <1>3 DEF RingOver, EmptyMempool
<1>7. Limits(mempool)
  BY <1>2, <1>3, FS_EmptySet, MempoolAssumption DEF Limits
<1> QED BY <1>5, <1>6, <1>7, MempoolAssumption DEF IInv, Good, Init, Times

\* Every call of the actor keeps the mempool good.
LEMMA NextIInv == IInv /\ [Next]_vars => IInv'
<1> SUFFICES ASSUME IInv, [Next]_vars PROVE IInv'
  OBVIOUS
<1>1. Good(mempool) /\ now \in Times /\ batch \in Seq(Transactions)
  BY DEF IInv
<1>2. ASSUME NEW a \in Accounts, NEW n \in Nonces, AddTx(a, n) PROVE IInv'
  <2>1. Good(Add(mempool, a, n, now))
    BY <1>1, AddLemma
  <2> QED BY <1>1, <1>2, <2>1 DEF AddTx, IInv
<1>3. ASSUME NEW a \in Accounts, NEW min, RetainFrom(a, min) PROVE IInv'
  <2>1. Good(Retain(mempool, a, min))
    BY <1>1, RetainLemma
  <2> QED BY <1>1, <1>3, <2>1 DEF RetainFrom, IInv
<1>4. CASE Peek
  <2>1. EnsureQueue(mempool) = mempool
    BY <1>1, EnsureQueueLemma
  <2>2. PeekBatch(mempool, PeekCount) \in Seq(Transactions)
    BY <1>1, PeekLemma, MempoolAssumption
  <2> QED BY <1>1, <1>4, <2>1, <2>2 DEF Peek, IInv
<1>5. CASE QueryOldestAge
  <2>1. Good(RefreshOldest(mempool))
    BY <1>1, RefreshLemma
  <2> QED BY <1>1, <1>5, <2>1 DEF QueryOldestAge, IInv
<1>6. CASE Tick
  BY <1>1, <1>6, MempoolAssumption DEF Tick, IInv, Times
<1>7. CASE NextTx
  <2>1. EnsureQueue(mempool) = mempool
    BY <1>1, EnsureQueueLemma
  <2>2. Good(PopNext(mempool))
    BY <1>1, <1>7, <2>1, PopNextLemma DEF NextTx
  <2> QED BY <1>1, <1>7, <2>1, <2>2 DEF NextTx, IInv
<1>8. CASE UNCHANGED vars
  BY <1>1, <1>8 DEF vars, IInv
<1> QED BY <1>2, <1>3, <1>4, <1>5, <1>6, <1>7, <1>8 DEF Next

\* The inductive invariant holds in every reachable state.
LEMMA IInvAlways == Spec => []IInv
  BY InitIInv, NextIInv, PTL DEF Spec

\* The mempool record keeps its types, and total_transactions never goes negative,
\* for any accounts, limits and clock.
THEOREM TypeCorrect == Spec => []TypeOK
<1>1. IInv => TypeOK
  BY DEF IInv, Good, Core, TypeOK
<1> QED BY IInvAlways, <1>1, PTL

\* total_transactions is always the number of tracked entries.
THEOREM CountCorrect == Spec => []CountIsExact
<1>1. IInv => CountIsExact
  BY DEF IInv, Good, Core, CountIsExact
<1> QED BY IInvAlways, <1>1, PTL

\* The account ring always holds exactly the accounts with entries, its index is
\* its inverse and the cursor is inside it.
THEOREM RingCorrect == Spec => []RingMatchesTracked
<1>1. IInv => RingMatchesTracked
  BY DEF IInv, Good, RingMatchesTracked
<1> QED BY IInvAlways, <1>1, PTL

\* max_backlog and max_transactions are never exceeded.
THEOREM LimitsCorrect == Spec => []WithinLimits
<1>1. IInv => WithinLimits
  BY DEF IInv, Good, Limits, WithinLimits
<1> QED BY IInvAlways, <1>1, PTL

\* min_inserted_at_ms is empty or the insertion time of an entry still pending.
THEOREM OldestCorrect == Spec => []OldestIsPending
<1>1. IInv => OldestIsPending
  BY DEF IInv, Good, Core, OldestOf, OldestIsPending
<1> QED BY IInvAlways, <1>1, PTL
=============================================================================
