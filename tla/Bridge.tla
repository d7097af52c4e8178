-------------------------------- MODULE Bridge --------------------------------
(***************************************************************************)
(* The bridge's instructions (execution/src/layer/handlers/bridge.rs): a   *)
(* player asks to withdraw chips to another chain, within limits per day,  *)
(* and an admin key credits deposits and finalizes withdrawals once their  *)
(* delay has passed, reporting the transactions of the other chain.        *)
(* Every action is one instruction that is not refused; the bridge is not  *)
(* paused, and the addresses and the ledger's entries are left out beyond  *)
(* the counts of LedgerState.                                              *)
(***************************************************************************)
EXTENDS Integers, Sequences, FiniteSets, FiniteSetsExt

CONSTANTS Players, Amounts, StartingChips,
          SECONDS_PER_DAY,
          bridge_daily_limit, bridge_daily_limit_per_account,
          bridge_min_withdraw, bridge_max_withdraw,  \* 0: no such limit
          bridge_delay_secs,
          MaxTime, MaxDeposits, MaxWithdrawals       \* bounds

VARIABLES now, chips,
          daily,        \* each player's bridge_daily_day and bridge_daily_withdrawn
          bridge,       \* BridgeState
          withdrawals,  \* the withdrawals by id
          ledger        \* the totals and the pending count of LedgerState

vars == <<now, chips, daily, bridge, withdrawals, ledger>>

Init ==
  /\ now = 0
  /\ chips = [p \in Players |-> StartingChips]
  /\ daily = [p \in Players |-> [day |-> 0, withdrawn |-> 0]]
  /\ bridge = [day |-> 0, withdrawn |-> 0, total_withdrawn |-> 0, total_deposited |-> 0]
  /\ withdrawals = <<>>
  /\ ledger = [deposits |-> 0, requests |-> 0, fulfilled |-> 0, pending |-> 0, next |-> 0]

CurrentDay == now \div SECONDS_PER_DAY

\* reset_bridge_daily_if_needed and reset_player_bridge_daily_if_needed, read only.
WithdrawnToday(d) == IF d.day = CurrentDay THEN d.withdrawn ELSE 0

Allowed(p, amount) ==
  /\ bridge_daily_limit # 0 /\ bridge_daily_limit_per_account # 0
  /\ amount >= bridge_min_withdraw
  /\ bridge_max_withdraw = 0 \/ amount <= bridge_max_withdraw
  /\ chips[p] >= amount
  /\ WithdrawnToday(bridge) + amount <= bridge_daily_limit
  /\ WithdrawnToday(daily[p]) + amount <= bridge_daily_limit_per_account

Withdraw(p, amount) ==
  /\ Len(withdrawals) < MaxWithdrawals
  /\ Allowed(p, amount)
  /\ chips' = [chips EXCEPT ![p] = @ - amount]
  /\ daily' = [daily EXCEPT ![p] = [day |-> CurrentDay, withdrawn |-> WithdrawnToday(@) + amount]]
  /\ bridge' = [bridge EXCEPT !.day = CurrentDay, !.withdrawn = WithdrawnToday(bridge) + amount,
                              !.total_withdrawn = @ + amount]
  /\ withdrawals' = Append(withdrawals, [player |-> p, amount |-> amount, requested |-> now,
                                         available |-> now + bridge_delay_secs,
                                         fulfilled |-> FALSE])
  /\ ledger' = [ledger EXCEPT !.requests = @ + amount, !.pending = @ + 1, !.next = @ + 1]
  /\ UNCHANGED now

Deposit(p, amount) ==
  /\ bridge.total_deposited + amount <= MaxDeposits
  /\ chips' = [chips EXCEPT ![p] = @ + amount]
  /\ bridge' = [bridge EXCEPT !.total_deposited = @ + amount]
  /\ ledger' = [ledger EXCEPT !.deposits = @ + amount, !.pending = @ + 1, !.next = @ + 1]
  /\ UNCHANGED <<now, daily, withdrawals>>

\* Mutant: a withdrawal that was finalized is finalized again.
FinalizableAgain(id) == now >= withdrawals[id].available

Finalizable(id) == ~withdrawals[id].fulfilled /\ now >= withdrawals[id].available

FinalizeWithdrawal(id) ==
  /\ Finalizable(id)
  /\ withdrawals' = [withdrawals EXCEPT ![id].fulfilled = TRUE]
  /\ ledger' = [ledger EXCEPT !.fulfilled = @ + withdrawals[id].amount,
                              !.pending = IF @ > 0 THEN @ - 1 ELSE 0, !.next = @ + 1]
  /\ UNCHANGED <<now, chips, daily, bridge>>

\* The time of the next block.
Tick ==
  /\ now < MaxTime
  /\ now' = now + 1
  /\ UNCHANGED <<chips, daily, bridge, withdrawals, ledger>>

Next ==
  \/ \E p \in Players, amount \in Amounts : Withdraw(p, amount) \/ Deposit(p, amount)
  \/ \E id \in DOMAIN withdrawals : FinalizeWithdrawal(id)
  \/ Tick

Spec == Init /\ [][Next]_vars

-----------------------------------------------------------------------------
(* Properties. *)

TypeOK ==
  /\ now \in 0 .. MaxTime
  /\ chips \in [Players -> Nat]
  /\ daily \in [Players -> [day : Nat, withdrawn : Nat]]
  /\ bridge \in [day : Nat, withdrawn : Nat, total_withdrawn : Nat, total_deposited : Nat]
  /\ withdrawals \in Seq([player : Players, amount : Nat, requested : Nat, available : Nat,
                          fulfilled : BOOLEAN])
  /\ ledger \in [deposits : Nat, requests : Nat, fulfilled : Nat, pending : Nat, next : Nat]

\* The sum of the amounts of the withdrawals ids.
Amount(ids) == MapThenSumSet(LAMBDA id : withdrawals[id].amount, ids)

Fulfilled == {id \in DOMAIN withdrawals : withdrawals[id].fulfilled}

\* On no day do the withdrawals that were asked for, of all players or of one, exceed
\* the limit.
WithinDailyLimits(day) ==
  LET ids == {id \in DOMAIN withdrawals : withdrawals[id].requested \div SECONDS_PER_DAY = day}
  IN  /\ Amount(ids) <= bridge_daily_limit
      /\ \A p \in Players : Amount({id \in ids : withdrawals[id].player = p})
                              <= bridge_daily_limit_per_account

\* The chips that left and came are the bridge's totals, the ledger repeats them, and it
\* counts as pending every deposit and every withdrawal that is not fulfilled.  No
\* withdrawal is fulfilled twice or before its delay, and the daily limits hold on every
\* day, though each counter remembers one day and is reset only when it is next used.
BridgeBooksBalance ==
  /\ MapThenSumSet(LAMBDA p : chips[p], Players) + bridge.total_withdrawn =
       StartingChips * Cardinality(Players) + bridge.total_deposited
  /\ bridge.total_withdrawn = Amount(DOMAIN withdrawals)
  /\ ledger.requests = bridge.total_withdrawn /\ ledger.deposits = bridge.total_deposited
  /\ ledger.fulfilled = Amount(Fulfilled)
  /\ ledger.next = ledger.pending + 2 * Cardinality(Fulfilled)
  /\ \A id \in Fulfilled : now >= withdrawals[id].available
  /\ \A day \in 0 .. CurrentDay : WithinDailyLimits(day)
=============================================================================
