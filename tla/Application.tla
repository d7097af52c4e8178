----------------------------- MODULE Application -----------------------------
(***************************************************************************)
(* The application actor of a validator (node/src/application/actor.rs),   *)
(* which joins the parts: it takes transactions from the stream into its   *)
(* mempool, proposes blocks, executes the blocks that consensus finalizes, *)
(* replays those it missed, and hands the proofs of each to the aggregator *)
(* before the block is acknowledged to the marshal.                        *)
(*                                                                         *)
(* A block is its list of transactions and a block's height is its place   *)
(* in chain.  Executing a block is one step here; StateTransition shows    *)
(* what it is made of and that a crash inside it leaves no other state.    *)
(***************************************************************************)
EXTENDS Integers, Sequences, FiniteSets, SequencesExt, Functions

CONSTANTS
  Accounts, MaxNonce,            \* as in Mempool and Layer
  MaxBacklog, MaxTransactions,   \* the limits of the mempool
  Rest,                          \* as in Layer
  Bodies,                        \* what blocks of other validators may hold
  MaxBlockTransactions,          \* MAX_BLOCK_TRANSACTIONS
  ProofQueue,                    \* proof_queue_size
  MaxHeight,                     \* bound: the height of the last block
  MaxFaults,                     \* bound: how many requests and calls fail
  MaxCrashes                     \* bound: how often the process stops

VARIABLES
  chain,      \* external: the notarized blocks, one on top of the other
  finalized,  \* external: how many of them are finalized
  acked,      \* external, on disk: the height that the marshal counts as processed
  state,      \* on disk: the height and the world of the last executed block
  committed,  \* committed_height
  mempool,    \* the record of Mempool
  cache,      \* next_nonce_cache: account |-> next nonce
  delivery,   \* where the block that the marshal delivers is: [stage, height]
  todo,       \* the heights that the Seeded handler has still to apply
  jobs,       \* the heights of the proof jobs, oldest first
  handed,     \* the heights whose proofs the aggregator got, in order
  proposal,   \* the proposal whose ancestry is looked up, or None
  built,      \* the block built for broadcast, or None
  faults, crashes

memory == <<committed, mempool, cache, delivery, todo, jobs, proposal, built>>
vars == <<chain, finalized, acked, state, memory, handed, faults, crashes>>

Pool == INSTANCE Mempool WITH MaxTime <- 0, PeekCount <- 2 * MaxBlockTransactions,
                              now <- 0, batch <- <<>>
Exec == INSTANCE Layer

None == [none |-> TRUE]
Idle == [stage |-> "idle", height |-> 0]
EmptyCache == [a \in {} |-> 0]

\* No job waits for a place in the queue; one beyond ProofQueue is in the actor's hands.
QueueHasRoom == Len(jobs) <= ProofQueue

\* The actor awaits nothing, and so takes the next message.
Free == todo = <<>> /\ QueueHasRoom

Init ==
  /\ chain = <<>>
  /\ finalized = 0
  /\ acked = 0
  /\ state = [height |-> 0, world |-> Exec!Genesis]
  /\ committed = 0
  /\ mempool = Pool!EmptyMempool
  /\ cache = EmptyCache
  /\ delivery = Idle
  /\ todo = <<>>
  /\ jobs = <<>>
  /\ handed = <<>>
  /\ proposal = None
  /\ built = None
  /\ faults = 0
  /\ crashes = 0

-----------------------------------------------------------------------------
(* Consensus: other validators' blocks, and finality. *)

Notarize(b) ==
  /\ Len(chain) < MaxHeight
  /\ chain' = Append(chain, b)
  /\ UNCHANGED <<finalized, acked, state, memory, handed, faults, crashes>>

Finalize ==
  /\ finalized < Len(chain)
  /\ finalized' = finalized + 1
  /\ UNCHANGED <<chain, acked, state, memory, handed, faults, crashes>>

-----------------------------------------------------------------------------
(* The stream of pending transactions and the nonce cache. *)

Cached(c, a, n) == [b \in DOMAIN c \cup {a} |-> IF b = a THEN n ELSE c[b]]

\* The next nonce of a, as the handler of pending transactions sees it.
NextNonce(a) == IF a \in DOMAIN cache THEN cache[a] ELSE state.world[a]

Admit(a, n) == IF n < NextNonce(a) THEN mempool ELSE Pool!Add(mempool, a, n, 0)

\* One transaction of a batch.
Receive(a, n) ==
  /\ Free
  /\ cache' = Cached(cache, a, NextNonce(a))
  /\ mempool' = Admit(a, n)
  /\ UNCHANGED <<chain, finalized, acked, state, committed, delivery, todo, jobs,
                 proposal, built, handed, faults, crashes>>

\* An entry expires or is evicted; the clock and the order of use say which.
Evict(a) ==
  /\ a \in DOMAIN cache
  /\ cache' = Restrict(cache, DOMAIN cache \ {a})
  /\ UNCHANGED <<chain, finalized, acked, state, committed, mempool, delivery, todo, jobs,
                 proposal, built, handed, faults, crashes>>

-----------------------------------------------------------------------------
(* Proposing. *)

\* Propose: a task fetches the blocks between what is committed now and the parent.
Propose ==
  /\ Free
  /\ proposal' = [from |-> committed, parent |-> Len(chain)]
  /\ UNCHANGED <<chain, finalized, acked, state, committed, mempool, cache, delivery, todo,
                 jobs, built, handed, faults, crashes>>

\* apply_transaction_nonce on nonces; a mismatch changes nothing.
ApplyNonce(nonces, tx) ==
  IF nonces[tx[1]] = tx[2] THEN [nonces EXCEPT ![tx[1]] = tx[2] + 1] ELSE nonces

\* Mutant: the blocks executed since the ancestry was asked for are applied again.
PendingNoncesSince(p) ==
  FoldLeft(LAMBDA w, b : FoldLeft(ApplyNonce, w, b), state.world,
           SubSeq(chain, p.from + 1, p.parent))

\* The nonces after the ancestry p, skipping what is committed by now.
PendingNonces(p) ==
  LET first == IF p.from < committed THEN committed ELSE p.from
  IN  FoldLeft(LAMBDA w, b : FoldLeft(ApplyNonce, w, b), state.world,
               SubSeq(chain, first + 1, p.parent))

\* One candidate: it is taken when there is room and its nonce is the expected one.
Take(acc, tx) ==
  IF Len(acc.txs) < MaxBlockTransactions /\ acc.nonces[tx[1]] = tx[2]
    THEN [txs |-> Append(acc.txs, tx), nonces |-> ApplyNonce(acc.nonces, tx)]
    ELSE acc

\* Ancestry: the block is built from what the mempool offers; peeking and the age
\* metric touch the mempool's ring and cached minimum.
Ancestry ==
  /\ Free
  /\ proposal # None
  /\ LET m          == Pool!EnsureQueue(mempool)
         candidates == Pool!PeekBatch(m, 2 * MaxBlockTransactions)
     IN  /\ mempool' = Pool!RefreshOldest(m)
         /\ built' = [height |-> proposal.parent + 1,
                      txs |-> FoldLeft(Take, [txs |-> <<>>, nonces |-> PendingNonces(proposal)],
                                       candidates).txs]
  /\ proposal' = None
  /\ UNCHANGED <<chain, finalized, acked, state, committed, cache, delivery, todo, jobs,
                 handed, faults, crashes>>

\* Broadcast: the block leaves, and is notarized if it still extends the chain.
Broadcast ==
  /\ Free
  /\ built # None
  /\ built' = None
  /\ \/ UNCHANGED chain
     \/ /\ built.height = Len(chain) + 1
        /\ Len(chain) < MaxHeight
        /\ chain' = Append(chain, built.txs)
  /\ UNCHANGED <<finalized, acked, state, committed, mempool, cache, delivery, todo, jobs,
                 proposal, handed, faults, crashes>>

-----------------------------------------------------------------------------
(* Executing finalized blocks. *)

\* The response is sent, or dropped with the task that held it.
Respond == delivery' = [delivery EXCEPT !.stage = "responded"]

\* report goes on: the marshal counts the block as processed.
Acknowledge ==
  /\ delivery.stage = "responded"
  /\ acked' = delivery.height
  /\ delivery' = Idle
  /\ UNCHANGED <<chain, finalized, state, committed, mempool, cache, todo, jobs, handed,
                 proposal, built, faults, crashes>>

Fault == faults < MaxFaults /\ faults' = faults + 1

\* Mutant: the marshal is not made to wait.
FinalizedUnawaited ==
  /\ Free
  /\ delivery = Idle
  /\ acked < finalized
  /\ delivery' = [stage |-> "seeding", height |-> acked + 1]
  /\ acked' = acked + 1
  /\ UNCHANGED <<chain, finalized, state, committed, mempool, cache, todo, jobs,
                 handed, proposal, built, faults, crashes>>

\* Finalized: the marshal delivers the next block, and a task asks for its seed.
Finalized ==
  /\ Free
  /\ delivery = Idle
  /\ acked < finalized
  /\ delivery' = [stage |-> "seeding", height |-> acked + 1]
  /\ UNCHANGED <<chain, finalized, acked, state, committed, mempool, cache, todo, jobs,
                 handed, proposal, built, faults, crashes>>

\* "failed to fetch seed": the task ends and the dropped response acknowledges.
SeedFails ==
  /\ delivery.stage = "seeding"
  /\ Fault
  /\ Respond
  /\ UNCHANGED <<chain, finalized, acked, state, committed, mempool, cache, todo, jobs,
                 handed, proposal, built, crashes>>

\* Mutant: the block is applied although lower ones are missing.
ToApplyOnly(h) == <<h>>

\* The heights that Seeded applies: all that are missing up to h, or h itself.
ToApply(h) ==
  IF h > state.height + 1
    THEN [i \in 1 .. h - state.height |-> state.height + i]
    ELSE <<h>>

Seeded ==
  /\ Free
  /\ delivery.stage = "seeding"
  /\ delivery' = [delivery EXCEPT !.stage = "applying"]
  /\ todo' = ToApply(delivery.height)
  /\ UNCHANGED <<chain, finalized, acked, state, committed, mempool, cache, jobs,
                 handed, proposal, built, faults, crashes>>

\* "failed to fetch ancestry for replay; skipping block", "failed to fetch seed during
\* replay" and "state transition failed": the rest of the replay is given up.  Out of
\* order, the state transition always fails ("non-sequential height").
ApplyFails ==
  /\ todo # <<>>
  /\ IF Head(todo) > state.height + 1 THEN UNCHANGED faults ELSE Fault
  /\ todo' = <<>>
  /\ Respond
  /\ UNCHANGED <<chain, finalized, acked, state, committed, mempool, cache, jobs,
                 handed, proposal, built, crashes>>

Result(h) == Exec!ExecuteBlock(state.world, chain[h])

\* Mutant: the mempool keeps what the block executed.
RetainNothing(nonces) == mempool

RetainAll(nonces) ==
  FoldLeft(LAMBDA m, a : Pool!Retain(m, a, nonces[a]), mempool, SetToSeq(DOMAIN nonces))

Remember(nonces) == [a \in DOMAIN cache \cup DOMAIN nonces |->
                       IF a \in DOMAIN nonces THEN nonces[a] ELSE cache[a]]

\* apply_block of the next height: executed, synced, and queued for its proofs.
ApplyNext ==
  LET h == Head(todo) IN
  /\ todo # <<>>
  /\ QueueHasRoom
  /\ h = state.height + 1
  /\ state' = [height |-> h, world |-> Result(h).world]
  /\ mempool' = RetainAll(Result(h).nonces)
  /\ cache' = Remember(Result(h).nonces)
  /\ committed' = IF h > committed THEN h ELSE committed
  /\ jobs' = Append(jobs, h)
  /\ todo' = Tail(todo)
  /\ delivery' = IF Tail(todo) = <<>> THEN [delivery EXCEPT !.stage = "proving"] ELSE delivery
  /\ UNCHANGED <<chain, finalized, acked, handed, proposal, built, faults, crashes>>

\* Mutant: a block that was executed before gets its proofs again.
ApplyExecutedAgain ==
  /\ todo # <<>>
  /\ QueueHasRoom
  /\ Head(todo) <= state.height
  /\ todo' = <<>>
  /\ jobs' = Append(jobs, Head(todo))
  /\ Respond
  /\ UNCHANGED <<chain, finalized, acked, state, committed, mempool, cache, handed, proposal,
                 built, faults, crashes>>

\* apply_block of a height that was executed before: a no-op, without proofs.
ApplyExecuted ==
  /\ todo # <<>>
  /\ Head(todo) <= state.height
  /\ todo' = <<>>
  /\ Respond
  /\ UNCHANGED <<chain, finalized, acked, state, committed, mempool, cache, jobs, handed, proposal,
                 built, faults, crashes>>

\* "failed to sync execution storage": the state has advanced, nothing else follows.
SyncFails ==
  LET h == Head(todo) IN
  /\ todo # <<>>
  /\ QueueHasRoom
  /\ h = state.height + 1
  /\ Fault
  /\ state' = [height |-> h, world |-> Result(h).world]
  /\ todo' = <<>>
  /\ Respond
  /\ UNCHANGED <<chain, finalized, acked, committed, mempool, cache, jobs, handed, proposal,
                 built, crashes>>

-----------------------------------------------------------------------------
(* The proof worker, and the end of the process. *)

\* The proofs of the oldest job reach the aggregator, which stores them and responds.
HandOver ==
  /\ jobs # <<>>
  /\ handed' = Append(handed, Head(jobs))
  /\ jobs' = Tail(jobs)
  /\ IF delivery = [stage |-> "proving", height |-> Head(jobs)]
       THEN Respond
       ELSE UNCHANGED delivery
  /\ UNCHANGED <<chain, finalized, acked, state, committed, mempool, cache, todo, proposal, built,
                 faults, crashes>>

\* What a new process finds.
Restarted ==
  /\ committed' = state.height
  /\ mempool' = Pool!EmptyMempool
  /\ cache' = EmptyCache
  /\ delivery' = Idle
  /\ todo' = <<>>
  /\ jobs' = <<>>
  /\ proposal' = None
  /\ built' = None

Crash ==
  /\ crashes < MaxCrashes
  /\ crashes' = crashes + 1
  /\ Restarted
  /\ UNCHANGED <<chain, finalized, acked, state, handed, faults>>

\* "failed to generate proofs; aborting engine": the worker responds, then all stops.
ProofFails ==
  /\ jobs # <<>>
  /\ Fault
  /\ acked' = IF delivery = [stage |-> "proving", height |-> Head(jobs)]
                THEN delivery.height ELSE acked
  /\ Restarted
  /\ UNCHANGED <<chain, finalized, state, handed, crashes>>

-----------------------------------------------------------------------------

Next ==
  \/ \E b \in Bodies : Notarize(b)
  \/ Finalize
  \/ \E tx \in Exec!Transactions : Receive(tx[1], tx[2])
  \/ \E a \in Accounts : Evict(a)
  \/ Propose \/ Ancestry \/ Broadcast
  \/ Finalized \/ SeedFails \/ Seeded \/ Acknowledge
  \/ ApplyFails \/ ApplyNext \/ ApplyExecuted
  \/ HandOver \/ ProofFails \/ Crash

Spec == Init /\ [][Next]_vars

\* With failures to sync as well.
FaultyNext == Next \/ SyncFails
FaultySpec == Init /\ [][FaultyNext]_vars

\* Seeds arrive, the actor handles its messages, and the proof worker works.
FairSpec ==
  /\ FaultySpec
  /\ WF_vars(Finalized) /\ WF_vars(Seeded) /\ WF_vars(Acknowledge)
  /\ WF_vars(ApplyNext) /\ WF_vars(ApplyExecuted)
  /\ WF_vars(HandOver)

-----------------------------------------------------------------------------
(* Properties. *)

Increasing(s) == \A i, j \in DOMAIN s : i < j => s[i] < s[j]

\* Types, with the proof queue within its limit and the block being delivered the next.
TypeOK ==
  /\ Len(chain) <= MaxHeight /\ finalized \in 0 .. Len(chain) /\ acked \in 0 .. finalized
  /\ state.height \in 0 .. finalized /\ committed \in 0 .. state.height
  /\ state.world \in [Accounts \cup {Rest} -> Nat]
  /\ DOMAIN cache \subseteq Accounts /\ \A a \in DOMAIN cache : cache[a] \in Nat
  /\ delivery \in {Idle} \cup [stage : {"seeding", "applying", "proving", "responded"}, height : {acked + 1}]
  /\ todo \in Seq(1 .. finalized)
  /\ Len(jobs) <= ProofQueue + 1
  /\ built # None => Len(built.txs) <= MaxBlockTransactions
  /\ faults \in 0 .. MaxFaults /\ crashes \in 0 .. MaxCrashes

\* "Transactions remain in mempool until finalized (via retain)": none that has been
\* executed, or that never can be, stays in the mempool.
NoStalePending == \A t \in Pool!Pending(mempool) : t[2] >= state.world[t[1]]

AfterChain == FoldLeft(LAMBDA w, b : Exec!ExecuteBlock(w, b).world, Exec!Genesis, chain)

\* Every transaction of a block this validator proposes is executed if the block extends
\* the chain, however far execution came while the proposal was prepared.
ProposalExecutes ==
  (built # None /\ built.height = Len(chain) + 1) =>
    Exec!ExecuteBlock(AfterChain, built.txs).outputs = built.txs

\* The aggregator gets proofs in the order of heights and at most once for each, over
\* redelivered blocks, replays and restarts.
ProofsInOrderOnce == Increasing(handed \o jobs)

\* As long as nothing fails, the marshal's save point is never ahead of the state,
\* whenever the process crashes.
SavePointIsExecuted == faults = 0 => acked <= state.height

\* Blocks that could not be executed when they were delivered are replayed: with one
\* more finalized block for every failure, execution catches up.
ExecutionCatchesUp ==
  \A h \in 1 .. MaxHeight : (finalized >= h + MaxFaults) ~> (state.height >= h)
=============================================================================
