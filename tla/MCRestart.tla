------------------------------ MODULE MCRestart -------------------------------
(* A validator that stops and starts again, for TLC: the storage of executed blocks      *)
(* (StateTransition), and the replay of finalized blocks by the application              *)
(* (Application, without transactions of its own).  They share no variable, so a         *)
(* behaviour of the run is one of a single part.                                         *)
EXTENDS StateTransition, SequencesExt

CONSTANTS Accounts, Rest, MaxNonce,
          MaxBlock,         \* bound: the transactions in a block
          ReplayHeight,     \* bound: the height of the last block that is replayed
          MaxLosses,        \* bound: how many requests and calls of the application fail
          MaxCrashes        \* bound: how often the application's process stops

VARIABLES part,  \* the part that moves
          notarized, finalized, acked, state, committed, mempool, cache, delivery, todo,
          jobs, handed, proposal, built, losses, crashes

replayVars == <<notarized, finalized, acked, state, committed, mempool, cache, delivery,
                todo, jobs, handed, proposal, built, losses, crashes>>

L == INSTANCE Layer

MCKeys == Accounts \cup {Rest}
MCKeyOrder == Append(SetToSeq(Accounts), Rest)
MCValues == 0 .. 2
MCOutputs == L!Transactions
MCBodies == UNION {[1 .. n -> L!Transactions] : n \in 0 .. MaxBlock}
MCGenesis == L!Genesis
MCExecute(world, transactions) == L!ExecuteBlock(world, transactions)

R == INSTANCE Application WITH
       Accounts <- {}, MaxNonce <- 0, Bodies <- {<<>>}, MaxBacklog <- 2,
       MaxTransactions <- 2, MaxBlockTransactions <- 1, ProofQueue <- 1,
       chain <- notarized, faults <- losses, MaxHeight <- ReplayHeight,
       MaxFaults <- MaxLosses

\* Every chain of stored blocks belongs to the first part only.
MCInit ==
  /\ Init /\ R!Init
  /\ \/ part = "storage"
     \/ part = "replay" /\ \A h \in DOMAIN chain : chain[h] = <<>>

MCNext ==
  /\ \/ part = "storage" /\ Next /\ UNCHANGED replayVars
     \/ part = "replay" /\ R!FaultyNext /\ UNCHANGED vars
  /\ UNCHANGED part

\* The fairness of each module, in the behaviours of its part.
MCFairness ==
  /\ WF_vars(part = "storage" /\ Step)
  /\ WF_vars(part = "storage" /\ \E h \in Heights : Begin(h) \/ Recover(h))
  /\ WF_replayVars(part = "replay" /\ R!Finalized)
  /\ WF_replayVars(part = "replay" /\ R!Seeded)
  /\ WF_replayVars(part = "replay" /\ R!Acknowledge)
  /\ WF_replayVars(part = "replay" /\ R!ApplyNext)
  /\ WF_replayVars(part = "replay" /\ R!ApplyExecuted)
  /\ WF_replayVars(part = "replay" /\ R!HandOver)

MCSpec == MCInit /\ [][MCNext]_<<part, vars, replayVars>> /\ MCFairness

-----------------------------------------------------------------------------
(* Properties. *)

\* The outputs of account a in the log.
OutputsOf(log, a) == SelectSeq(log, LAMBDA op : op # CommitOp /\ op[1] = a)

\* The log of the committed blocks holds each nonce of an account once and in order,
\* from 0 to the one before the account's stored nonce: no transaction is applied
\* twice or skipped, across crashes and recoveries.
EachNonceOnce ==
  \A a \in Accounts :
    LET own == OutputsOf(LedgerLog, a)
    IN  own = [i \in 1 .. disk.world[a] |-> <<a, i - 1>>]

StoredLedger ==
  INSTANCE Ledger WITH
    chain <- IF part = "storage" THEN chain ELSE <<>>,
    height <- disk.height, world <- disk.world, log <- LedgerLog

\* See StateTransition.ImplementsLedger, about the two commits and the recovery between
\* them; the ledger of the other part has no block.
StorageImplementsLedger == StoredLedger!Spec

\* See Application.ProofsInOrderOnce, about the proof queue.
ProofsInOrderOnce == R!ProofsInOrderOnce

\* See Application.SavePointIsExecuted, about acknowledging finalized blocks.
SavePointIsExecuted == R!SavePointIsExecuted

\* See Application.ExecutionCatchesUp, about the blocks that wait for their seed.
ExecutionCatchesUp == part = "replay" => R!ExecutionCatchesUp
=============================================================================
