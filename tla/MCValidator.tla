----------------------------- MODULE MCValidator ------------------------------
(* The parts of a validator that need no restart to be interesting, for TLC: the        *)
(* mempool (Mempool), the storage of executed blocks when its operations fail           *)
(* (StateTransition), the application when nothing stops it (Application), the stream   *)
(* that feeds it (BufferedMempool), and the instructions that move chips (Staking,      *)
(* Bridge and GlobalTable).  They share no variable, so a behaviour of the run is one   *)
(* of a single part.                                                                    *)
EXTENDS Mempool

CONSTANTS s1, s2, Rest, MaxBlock, MaxHeight, MaxFaults, CommitOp,
          e1, e2, e3, v1, p1, p2

VARIABLES part,  \* the part that moves
          chain, mem, disk, call, result, faults,
          notarized, finalized, acked, state, committed, pool, cache, delivery, todo, jobs,
          handed, proposal, built, losses, crashes,
          sequence, seq, stage, overlapped, buffer, expired, pc, replay, last_seen, given,
          seed_view, stakeable, staker, house, surplus, paid, lost,
          time, balances, daily, bridge, withdrawals, ledger,
          round, bets, last_settled, chips, net_pnl, bankroll, exposure, thrown_on

storageVars == <<chain, mem, disk, call, result, faults>>
applicationVars == <<notarized, finalized, acked, state, committed, pool, cache, delivery,
                     todo, jobs, handed, proposal, built, losses, crashes>>
streamVars == <<sequence, seq, stage, overlapped, buffer, expired, pc, replay, last_seen, given>>
stakingVars == <<seed_view, stakeable, staker, house, surplus, paid, lost>>
bridgeVars == <<time, balances, daily, bridge, withdrawals, ledger>>
tableVars == <<round, bets, last_settled, chips, net_pnl, bankroll, exposure, thrown_on>>

Senders == {s1, s2}
L == INSTANCE Layer WITH Accounts <- Senders, MaxNonce <- 1
ExecuteBlock(world, transactions) == L!ExecuteBlock(world, transactions)

T == INSTANCE StateTransition WITH
       Keys <- Senders \cup {Rest}, KeyOrder <- <<s1, s2, Rest>>, Values <- 0 .. 2,
       Outputs <- L!Transactions, InitialWorld <- L!Genesis, Execute <- ExecuteBlock,
       Bodies <- UNION {[1 .. n -> L!Transactions] : n \in 0 .. MaxBlock}

\* Blocks of other validators: empty, or in order and out of order at once.  One account
\* is enough: two meet only in the mempool's ring, which its own part explores.
OthersBodies == {<<>>, <<<<s1, 1>>, <<s1, 0>>>>}

A == INSTANCE Application WITH
       chain <- notarized, mempool <- pool, faults <- losses,
       Accounts <- {s1}, MaxNonce <- 2, MaxBacklog <- 2, MaxTransactions <- 2,
       Bodies <- OthersBodies, MaxBlockTransactions <- 1, ProofQueue <- 1,
       MaxFaults <- 2, MaxCrashes <- 0

B == INSTANCE BufferedMempool WITH
       Submissions <- {e1, e2, e3}, Subscribers <- {v1}, max_replay_size <- 2

Players == {p1, p2}

S == INSTANCE Staking WITH
       chips <- stakeable, STAKING_REWARD_SCALE <- 4, DEV_EPOCH_LENGTH_BLOCKS <- 1,
       Amounts <- {1}, Durations <- {1, 3}, Results <- {1}, StartingChips <- 1,
       MaxU128 <- 20, MaxView <- 3, MaxPnl <- 1

R == INSTANCE Bridge WITH
       now <- time, chips <- balances, Amounts <- {1, 2}, StartingChips <- 2,
       SECONDS_PER_DAY <- 2, bridge_daily_limit <- 3, bridge_daily_limit_per_account <- 2,
       bridge_min_withdraw <- 1, bridge_max_withdraw <- 2, bridge_delay_secs <- 1,
       MaxTime <- 3, MaxDeposits <- 1, MaxWithdrawals <- 4

G == INSTANCE GlobalTable WITH
       Amounts <- {1}, Rolls <- {6, 7, 11, 12}, StartingChips <- 2, Bankroll <- 240,
       max_exposure_bps <- 5000, max_player_exposure <- 60, max_single_bet <- 1,
       MaxRounds <- 2

\* Every chain of blocks belongs to the storage only.
MCInit ==
  /\ Init /\ T!Init /\ A!Init /\ B!Init /\ S!Init /\ R!Init /\ G!Init
  /\ \/ /\ part \in {"mempool", "application", "stream", "staking", "bridge", "table"}
        /\ \A h \in DOMAIN chain : chain[h] = <<>>
     \/ part = "storage"

\* The bounds on submissions, time and rounds end the parts that they bound.
AtBound ==
  /\ part \in {"stream", "staking", "bridge", "table"}
  /\ UNCHANGED <<vars, storageVars, applicationVars, streamVars, stakingVars, bridgeVars, tableVars>>

MCNext ==
  /\ UNCHANGED part
  /\ \/ /\ part = "mempool" /\ Next
        /\ UNCHANGED <<storageVars, applicationVars, streamVars, stakingVars, bridgeVars, tableVars>>
     \/ /\ part = "storage" /\ T!FaultyNext
        /\ UNCHANGED <<vars, applicationVars, streamVars, stakingVars, bridgeVars, tableVars>>
     \/ /\ part = "application" /\ A!Next
        /\ UNCHANGED <<vars, storageVars, streamVars, stakingVars, bridgeVars, tableVars>>
     \/ /\ part = "stream" /\ B!Next
        /\ UNCHANGED <<vars, storageVars, applicationVars, stakingVars, bridgeVars, tableVars>>
     \/ /\ part = "staking" /\ S!Next
        /\ UNCHANGED <<vars, storageVars, applicationVars, streamVars, bridgeVars, tableVars>>
     \/ /\ part = "bridge" /\ R!Next
        /\ UNCHANGED <<vars, storageVars, applicationVars, streamVars, stakingVars, tableVars>>
     \/ /\ part = "table" /\ G!Next
        /\ UNCHANGED <<vars, storageVars, applicationVars, streamVars, stakingVars, bridgeVars>>
     \/ AtBound

MCSpec ==
  MCInit /\ [][MCNext]_<<part, vars, storageVars, applicationVars, streamVars, stakingVars,
                        bridgeVars, tableVars>>

-----------------------------------------------------------------------------
(* The properties of the parts. *)

\* See StateTransition.RestartNeverWedges, about the order of the two commits.
RestartNeverWedges == part = "storage" => T!RestartNeverWedges

\* See StateTransition.StateMovesByBlocks, about a call repeated after a storage error.
StateMovesByBlocks == T!StateMovesByBlocks

\* See Application.NoStalePending, about mempool.retain after a block.
NoStalePending == part = "application" => A!NoStalePending

\* See Application.ProposalExecutes, about the nonces a proposal starts from.
ProposalExecutes == part = "application" => A!ProposalExecutes

\* See BufferedMempool.SerialEntriesGivenOnce, about the subscriber's recv.
SerialEntriesGivenOnce == part = "stream" => B!SerialEntriesGivenOnce

\* See Staking.StakesMatchHouse, about the totals that handle_stake and handle_unstake keep.
StakesMatchHouse == part = "staking" => S!StakesMatchHouse

\* See Staking.RewardsComeFromSurplus, about what handle_process_epoch gives out.
RewardsComeFromSurplus == part = "staking" => S!RewardsComeFromSurplus

\* See Bridge.BridgeBooksBalance, about the bridge's totals, ledger and daily counters.
BridgeBooksBalance == part = "bridge" => R!BridgeBooksBalance

\* See GlobalTable.TableBooksAgree, about the totals and exposures beside the bets.
TableBooksAgree == part = "table" => G!TableBooksAgree
=============================================================================
