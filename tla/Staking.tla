------------------------------- MODULE Staking --------------------------------
(***************************************************************************)
(* Staking (execution/src/layer/handlers/staking.rs): chips locked for a   *)
(* time give voting power, and at the end of an epoch the house's profit   *)
(* is shared by voting power, through an accumulator of rewards per unit   *)
(* of power scaled by STAKING_REWARD_SCALE.  Every action is one           *)
(* instruction of a block.  The players are registered; of a player        *)
(* without an entry the handlers change nothing.                           *)
(***************************************************************************)
EXTENDS Integers, FiniteSets, FiniteSetsExt

CONSTANTS Players,
          STAKING_REWARD_SCALE,     \* 10^18 in the code
          DEV_EPOCH_LENGTH_BLOCKS,  \* 100 in the code
          Amounts, Durations,       \* the arguments of Stake that are tried
          Results,                  \* what a game adds to the house's profit
          StartingChips,            \* the chips of a player who has not staked
          MaxU128,                  \* the largest u128; checked_mul fails above it
          MaxView,                  \* bound: the views that pass
          MaxPnl                    \* bound: the profit of an epoch, up or down

VARIABLES seed_view,  \* the view of the block that is executed
          chips,      \* the chips of each player
          staker,     \* the entry of each staker
          house,      \* the staking fields of HouseState
          surplus,    \* history: the profit that epochs have shared out
          paid,       \* history: the rewards that were claimed
          lost        \* history: chips taken by a stake that failed

vars == <<seed_view, chips, staker, house, surplus, paid, lost>>

Init ==
  /\ seed_view = 0
  /\ chips = [p \in Players |-> StartingChips]
  /\ staker = [p \in Players |-> [balance |-> 0, unlock_ts |-> 0, voting_power |-> 0,
                                  reward_debt |-> 0, unclaimed |-> 0]]
  /\ house = [epoch |-> 0, epoch_start |-> 0, net_pnl |-> 0, staked |-> 0,
              voting_power |-> 0, reward_per_power |-> 0, pool |-> 0, carry |-> 0]
  /\ surplus = 0 /\ paid = 0 /\ lost = 0

\* voting_power * reward_per_voting_power_x18, and whether it fits.
Debt(s) == s.voting_power * house.reward_per_power
Fits(s) == Debt(s) <= MaxU128

Pending(s) ==
  IF s.voting_power = 0 THEN 0 ELSE (Debt(s) - s.reward_debt) \div STAKING_REWARD_SCALE

\* settle_staker_rewards, when it does not fail.
Settled(s) ==
  [s EXCEPT !.unclaimed = @ + Pending(s),
            !.reward_debt = IF s.voting_power = 0 THEN 0 ELSE Debt(s)]

\* Mutant: the debt stays what it was.
SyncedNever(s) == s

\* sync_staker_reward_debt.
Synced(s) == [s EXCEPT !.reward_debt = Debt(s)]

\* The entry after a stake, before its debt is synced.  The lock is extended, never
\* shortened.
WithStake(s, amount, duration) ==
  [Settled(s) EXCEPT !.balance = @ + amount,
                     !.unlock_ts = IF @ > seed_view + duration THEN @ ELSE seed_view + duration,
                     !.voting_power = @ + amount * duration]

\* The player's entry is written before the rewards are settled: when the settling or
\* the sync of the debt overflows, the answer is an error and the chips stay taken.
Stake(p, amount, duration) ==
  LET s == WithStake(staker[p], amount, duration)
      ok == Fits(staker[p]) /\ Fits(s)
  IN  /\ chips[p] >= amount
      /\ chips' = [chips EXCEPT ![p] = @ - amount]
      /\ staker' = IF ok THEN [staker EXCEPT ![p] = Synced(s)] ELSE staker
      /\ house' = IF ok THEN [house EXCEPT !.staked = @ + amount,
                                           !.voting_power = @ + amount * duration]
                        ELSE house
      /\ lost' = IF ok THEN lost ELSE lost + amount
      /\ UNCHANGED <<seed_view, surplus, paid>>

\* Mutant: the house keeps the voting power.
UnstakeKeepingPower(p) ==
  LET s == staker[p]
  IN  /\ seed_view >= s.unlock_ts /\ s.balance # 0 /\ Fits(s)
      /\ chips' = [chips EXCEPT ![p] = @ + s.balance]
      /\ house' = [house EXCEPT !.staked = @ - s.balance]
      /\ staker' = [staker EXCEPT ![p] = [Settled(s) EXCEPT !.balance = 0,
                                            !.voting_power = 0, !.reward_debt = 0]]
      /\ UNCHANGED <<seed_view, surplus, paid, lost>>

Unstake(p) ==
  LET s == staker[p]
  IN  /\ seed_view >= s.unlock_ts /\ s.balance # 0 /\ Fits(s)
      /\ chips' = [chips EXCEPT ![p] = @ + s.balance]
      /\ house' = [house EXCEPT !.staked = @ - s.balance, !.voting_power = @ - s.voting_power]
      /\ staker' = [staker EXCEPT ![p] = [Settled(s) EXCEPT !.balance = 0,
                                            !.voting_power = 0, !.reward_debt = 0]]
      /\ UNCHANGED <<seed_view, surplus, paid, lost>>

\* An amount that the pool does not cover is refused as a whole.
ClaimRewards(p) ==
  LET s == staker[p]
      amount == s.unclaimed + Pending(s)
  IN  /\ Fits(s) /\ amount # 0 /\ house.pool >= amount
      /\ house' = [house EXCEPT !.pool = @ - amount]
      /\ chips' = [chips EXCEPT ![p] = @ + amount]
      /\ staker' = [staker EXCEPT ![p] = Synced([s EXCEPT !.unclaimed = 0])]
      /\ paid' = paid + amount
      /\ UNCHANGED <<seed_view, surplus, lost>>

\* The profit of the epoch that is shared out: none without voting power.
EpochSurplus == IF house.net_pnl > 0 /\ house.voting_power > 0 THEN house.net_pnl ELSE 0

\* What the accumulator grows by, rounded down, and what of the rewards that covers.
Increment(reward) == (reward * STAKING_REWARD_SCALE) \div house.voting_power
Distributed(reward) == (Increment(reward) * house.voting_power) \div STAKING_REWARD_SCALE

\* The house after sharing out reward; what rounding leaves is carried to the next epoch.
Shared(reward) ==
  IF house.voting_power = 0 \/ reward = 0 THEN house
  ELSE [house EXCEPT !.reward_per_power = @ + Increment(reward),
                     !.pool = @ + Distributed(reward),
                     !.carry = reward - Distributed(reward)]

ProcessEpoch ==
  /\ seed_view >= house.epoch_start + DEV_EPOCH_LENGTH_BLOCKS
  /\ house' = [Shared(EpochSurplus + house.carry) EXCEPT
                 !.epoch = @ + 1, !.epoch_start = seed_view, !.net_pnl = 0]
  /\ surplus' = surplus + EpochSurplus
  /\ UNCHANGED <<seed_view, chips, staker, paid, lost>>

\* update_house_pnl, which the games call.  Their stakes and payouts are not modelled:
\* a player's chips move here by staking only.
UpdateHousePnl(amount) ==
  /\ house.net_pnl + amount \in -MaxPnl .. MaxPnl
  /\ house' = [house EXCEPT !.net_pnl = @ + amount]
  /\ UNCHANGED <<seed_view, chips, staker, surplus, paid, lost>>

\* The next block.
NextView ==
  /\ seed_view < MaxView
  /\ seed_view' = seed_view + 1
  /\ UNCHANGED <<chips, staker, house, surplus, paid, lost>>

Next ==
  \/ \E p \in Players, a \in Amounts, d \in Durations : Stake(p, a, d)
  \/ \E p \in Players : Unstake(p) \/ ClaimRewards(p)
  \/ ProcessEpoch
  \/ \E amount \in Results : UpdateHousePnl(amount)
  \/ NextView

Spec == Init /\ [][Next]_vars

-----------------------------------------------------------------------------
(* Properties. *)

TypeOK ==
  /\ seed_view \in 0 .. MaxView
  /\ chips \in [Players -> Nat]
  /\ staker \in [Players -> [balance : Nat, unlock_ts : Nat, voting_power : Nat,
                             reward_debt : 0 .. MaxU128, unclaimed : Nat]]
  /\ house \in [epoch : Nat, epoch_start : Nat, net_pnl : -MaxPnl .. MaxPnl, staked : Nat,
                voting_power : Nat, reward_per_power : Nat, pool : Nat, carry : Nat]
  /\ {surplus, paid, lost} \subseteq Nat

Total(value(_)) == MapThenSumSet(value, Players)

\* What the players could claim if the pool covered it.
Owed == Total(LAMBDA p : staker[p].unclaimed + Pending(staker[p]))

\* The house's totals, by which rewards are shared, are the sums over the stakers after
\* any sequence of stakes, failed stakes and unstakes, and no chip appears or
\* disappears: what players hold, have staked or lost to a failed stake grows by the
\* rewards that were paid only.
StakesMatchHouse ==
  /\ house.staked = Total(LAMBDA p : staker[p].balance)
  /\ house.voting_power = Total(LAMBDA p : staker[p].voting_power)
  /\ Total(LAMBDA p : chips[p]) + house.staked + lost =
       StartingChips * Cardinality(Players) + paid

\* The profit that the epochs shared out is paid, in the pool or carried, to the last
\* chip, and what the players are owed exceeds the pool by less than one chip per
\* epoch, the most that rounding the accumulator and the pool apart can make.
RewardsComeFromSurplus ==
  /\ paid + house.pool + house.carry = surplus
  /\ Owed <= house.pool + (IF house.epoch = 0 THEN 0 ELSE house.epoch - 1)

\* What the stakers have earned can be claimed, together and at any time.  The carry
\* breaks it: what rounding leaves is in the accumulator already and is shared out again.
ClaimsAreCovered == Owed <= house.pool
=============================================================================
