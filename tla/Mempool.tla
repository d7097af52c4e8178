------------------------------- MODULE Mempool -------------------------------
(***************************************************************************)
(* The validator's transaction mempool (node/src/application/mempool.rs).  *)
(*                                                                         *)
(* The mempool is one record.  Each method of the Rust struct is an        *)
(* operator from a record to a record, so that a handler of the            *)
(* application actor can apply several of them in one step.                *)
(*   tracked    <<account, nonce>> |-> inserted_at_ms of every entry (the  *)
(*              code nests the same map by account);                       *)
(*   total      total_transactions, a counter kept beside tracked;         *)
(*   oldest     min_inserted_at_ms, a cache of the earliest insertion;     *)
(*   queue, positions, cursor                                              *)
(*              the ring of accounts with entries, its index by account,   *)
(*              and the place where the ring starts (0-based).             *)
(***************************************************************************)
EXTENDS Integers, Sequences, FiniteSets, FiniteSetsExt, SequencesExt

CONSTANTS
  Accounts,         \* the public keys that send transactions
  MaxNonce,         \* bound: nonces are 0 .. MaxNonce
  MaxBacklog,       \* max_backlog: entries kept for one account
  MaxTransactions,  \* max_transactions: entries kept in all
  MaxTime,          \* bound: the clock stops here
  PeekCount         \* the max_count that callers give peek_batch

ASSUME MempoolAssumption ==
  /\ IsFiniteSet(Accounts)
  /\ MaxNonce \in Nat
  /\ MaxBacklog \in Nat
  /\ MaxTransactions \in Nat
  /\ MaxTime \in Nat
  /\ PeekCount \in Nat

VARIABLES
  mempool,  \* the record described above
  now,      \* system_time_ms
  batch     \* the transactions the latest peek_batch returned, in order

vars == <<mempool, now, batch>>

Nonces == 0 .. MaxNonce
Times == 0 .. MaxTime
Transactions == Accounts \X Nonces
None == -1

-----------------------------------------------------------------------------
(* Reading the record. *)

Pending(m) == DOMAIN m.tracked
NoncesOf(m, a) == {n \in Nonces : <<a, n>> \in Pending(m)}
Active(m) == {a \in Accounts : NoncesOf(m, a) # {}}
InsertionTimes(m) == {m.tracked[t] : t \in Pending(m)}

-----------------------------------------------------------------------------
(* The ring of accounts. *)

\* ensure_queue, which calls rebuild_queue: the order is that of a HashMap.
EnsureQueue(m) ==
  IF m.queue = <<>> /\ Active(m) # {}
    THEN LET queue == SetToSeq(Active(m))
         IN  [m EXCEPT !.queue = queue,
                       !.positions = [a \in Active(m) |->
                                        (CHOOSE i \in 1 .. Len(queue) : queue[i] = a) - 1],
                       !.cursor = 0]
    ELSE m

Enqueue(m, a) ==
  IF a \in DOMAIN m.positions
    THEN m
    ELSE [m EXCEPT !.queue = Append(@, a),
                   !.positions = [b \in DOMAIN m.positions \cup {a} |->
                                    IF b = a THEN Len(m.queue) ELSE m.positions[b]]]

\* Where the cursor lands when entry idx of a ring of last + 1 accounts goes.
CursorAfterRemoval(cursor, idx, last) ==
  LET followed == IF cursor = last
                    THEN IF idx < last THEN idx ELSE 0
                    ELSE cursor
  IN  IF followed >= last THEN 0 ELSE followed

\* Mutant: the account that swap_remove moved keeps its old position.
RemoveWithoutReindex(m, a) ==
  IF a \notin DOMAIN m.positions
    THEN m
    ELSE LET last == Len(m.queue) - 1
         IN  [m EXCEPT
                !.queue = [i \in 1 .. last |-> IF i = m.positions[a] + 1
                                                 THEN m.queue[last + 1]
                                                 ELSE m.queue[i]],
                !.positions = [b \in DOMAIN m.positions \ {a} |-> m.positions[b]],
                !.cursor = CursorAfterRemoval(@, m.positions[a], last)]

\* swap_remove: the last account of the ring takes the place of the removed one.
RemoveFromQueue(m, a) ==
  IF a \notin DOMAIN m.positions
    THEN m
    ELSE LET idx   == m.positions[a]
             last  == Len(m.queue) - 1
             moved == m.queue[last + 1]
         IN  [m EXCEPT
                !.queue = [i \in 1 .. last |-> IF i = idx + 1 THEN moved ELSE m.queue[i]],
                !.positions = [b \in DOMAIN m.positions \ {a} |->
                                 IF b = moved THEN idx ELSE m.positions[b]],
                !.cursor = CursorAfterRemoval(@, idx, last)]

-----------------------------------------------------------------------------
(* The methods. *)

EmptyMempool ==
  [tracked |-> [t \in {} |-> 0], total |-> 0, oldest |-> None,
   queue |-> <<>>, positions |-> [a \in {} |-> 0], cursor |-> 0]

\* Forget the entries in S: the cached minimum is dropped when it belonged to one.
Forget(m, S) ==
  [m EXCEPT !.tracked = [t \in Pending(m) \ S |-> m.tracked[t]],
            !.total = @ - Cardinality(S),
            !.oldest = IF \E t \in S : m.tracked[t] = @ THEN None ELSE @]

Insert(m, a, n, time) ==
  [m EXCEPT !.tracked = [t \in Pending(m) \cup {<<a, n>>} |->
                           IF t = <<a, n>> THEN time ELSE m.tracked[t]],
            !.total = @ + 1,
            !.oldest = IF @ = None \/ time < @ THEN time ELSE @]

\* The entry that add trims: the furthest in the future, when there are too many.
Trimmed(m, a) ==
  LET entry == NoncesOf(m, a)
  IN  IF Cardinality(entry) > MaxBacklog THEN {<<a, Max(entry)>>} ELSE {}

Accepts(m, a, n) == m.total < MaxTransactions /\ <<a, n>> \notin Pending(m)

Add(m, a, n, time) ==
  LET inserted == Insert(m, a, n, time)
      kept     == Forget(inserted, Trimmed(inserted, a))
  IN  IF ~Accepts(m, a, n)        THEN m
      ELSE IF NoncesOf(kept, a) = {} THEN RemoveFromQueue(kept, a)
      ELSE IF NoncesOf(m, a) = {}    THEN Enqueue(kept, a)
      ELSE kept

Retain(m, a, min) ==
  LET kept == Forget(m, {<<a, n>> : n \in {x \in NoncesOf(m, a) : x < min}})
  IN  IF NoncesOf(m, a) = {}         THEN m
      ELSE IF NoncesOf(kept, a) = {} THEN RemoveFromQueue(kept, a)
      ELSE kept

Lowest(m, a) == <<a, Min(NoncesOf(m, a))>>
InRing(m) == IF m.cursor >= Len(m.queue) THEN 0 ELSE m.cursor

\* next, on a mempool whose ring is not empty.
PopNext(m) ==
  LET ring == [m EXCEPT !.cursor = InRing(m)]
      a    == ring.queue[ring.cursor + 1]
      kept == Forget(ring, {Lowest(ring, a)})
  IN  IF NoncesOf(kept, a) = {}
        THEN RemoveFromQueue(kept, a)
        ELSE [kept EXCEPT !.cursor = (@ + 1) % Len(m.queue)]

\* Mutant: the accounts_visited bound is missing, so the ring wraps.
PeekWrapping(m, count) ==
  LET size == Len(m.queue)
  IN  [i \in 1 .. (IF size = 0 THEN 0 ELSE count) |->
         Lowest(m, m.queue[((InRing(m) + i - 1) % size) + 1])]

\* peek_batch on a ring that EnsureQueue has filled; it does not move the cursor.
PeekBatch(m, count) ==
  LET size == Len(m.queue)
  IN  [i \in 1 .. (IF count < size THEN count ELSE size) |->
         Lowest(m, m.queue[((InRing(m) + i - 1) % size) + 1])]

\* oldest_age_ms first refreshes the cached minimum, then reads it.
RefreshOldest(m) ==
  [m EXCEPT !.oldest = IF m.total = 0 THEN None
                       ELSE IF @ = None THEN Min(InsertionTimes(m))
                       ELSE @]

-----------------------------------------------------------------------------
(* The mempool on its own: its methods called in any order. *)

Init == mempool = EmptyMempool /\ now = 0 /\ batch = <<>>

AddTx(a, n) ==
  /\ mempool' = Add(mempool, a, n, now)
  /\ UNCHANGED <<now, batch>>

RetainFrom(a, min) ==
  /\ mempool' = Retain(mempool, a, min)
  /\ UNCHANGED <<now, batch>>

NextTx ==
  LET m == EnsureQueue(mempool)
  IN  /\ m.queue # <<>>
      /\ mempool' = PopNext(m)
      /\ UNCHANGED <<now, batch>>

Peek ==
  LET m == EnsureQueue(mempool)
  IN  /\ mempool' = m
      /\ batch' = PeekBatch(m, PeekCount)
      /\ UNCHANGED now

QueryOldestAge ==
  /\ mempool' = RefreshOldest(mempool)
  /\ UNCHANGED <<now, batch>>

Tick ==
  /\ now < MaxTime
  /\ now' = now + 1
  /\ UNCHANGED <<mempool, batch>>

\* The application actor calls all but next.
Next ==
  \/ \E a \in Accounts, n \in Nonces : AddTx(a, n)
  \/ \E a \in Accounts, min \in Nonces \cup {MaxNonce + 1} : RetainFrom(a, min)
  \/ Peek
  \/ QueryOldestAge
  \/ Tick
  \/ NextTx

Spec == Init /\ [][Next]_vars

-----------------------------------------------------------------------------
(* Properties. *)

MempoolType(m) ==
  /\ DOMAIN m = {"tracked", "total", "oldest", "queue", "positions", "cursor"}
  /\ Pending(m) \subseteq Transactions
  /\ \A t \in Pending(m) : m.tracked[t] \in Times
  /\ m.total \in Nat
  /\ m.oldest \in Times \cup {None}
  /\ m.queue \in Seq(Accounts)
  /\ DOMAIN m.positions \subseteq Accounts
  /\ \A a \in DOMAIN m.positions : m.positions[a] \in Nat
  /\ m.cursor \in Nat

\* Types: the entries, the ring and its index hold accounts, nonces and times, and
\* total_transactions never goes below zero (the code saturates its decrements).
TypeOK ==
  /\ MempoolType(mempool)
  /\ now \in Times
  /\ batch \in Seq(Transactions)

\* total_transactions, which add, retain and next keep by hand on every path,
\* is the number of entries: drift would leak or lose capacity for good.
CountIsExact == mempool.total = Cardinality(Pending(mempool))

\* The ring of m holds each account of B exactly once and no other, and the
\* index is its inverse.
RingOver(m, B) ==
  /\ DOMAIN m.positions = B
  /\ \A a \in B : /\ m.positions[a] < Len(m.queue)
                  /\ m.queue[m.positions[a] + 1] = a
  /\ \A i \in 1 .. Len(m.queue) : /\ m.queue[i] \in B
                                   /\ m.positions[m.queue[i]] = i - 1
  /\ m.cursor < Len(m.queue) \/ m.cursor = 0

\* Through every swap_remove the ring holds exactly the accounts with entries and
\* the cursor stays inside it: the "stale queue entry" branches of next and
\* peek_batch are never taken.
RingMatchesTracked == RingOver(mempool, Active(mempool))

\* No account exceeds max_backlog and the mempool never exceeds max_transactions.
WithinLimits ==
  /\ mempool.total <= MaxTransactions
  /\ \A a \in Accounts : Cardinality(NoncesOf(mempool, a)) <= MaxBacklog

\* The cached minimum is the insertion time of an entry that is still pending,
\* so oldest_age_ms never reports the age of a transaction that has left.
OldestIsPending == mempool.oldest \in InsertionTimes(mempool) \cup {None}

\* peek_batch offers as many transactions as it may, of distinct accounts, each
\* the lowest nonce its account has.
PeekOffersEachAccountOnce ==
  \A count \in 0 .. Cardinality(Accounts) + 1 :
    LET offered == PeekBatch(EnsureQueue(mempool), count)
    IN  /\ Len(offered) = Min({count, Cardinality(Active(mempool))})
        /\ \A i, j \in DOMAIN offered : i # j => offered[i][1] # offered[j][1]
        /\ \A i \in DOMAIN offered :
             /\ offered[i] \in Pending(mempool)
             /\ \A n \in NoncesOf(mempool, offered[i][1]) : offered[i][2] <= n
=============================================================================
