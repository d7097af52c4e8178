----------------------------- MODULE GlobalTable ------------------------------
(***************************************************************************)
(* The shared craps table (execution/src/layer/handlers/casino.rs, the     *)
(* handle_global_table_* functions): an admin key moves a round through    *)
(* its phases, players bet while it is open and each settles for itself    *)
(* after the roll.  Every action is one instruction that is not refused.   *)
(*                                                                         *)
(* Dice are their total.  Players place Pass and Field bets, have no       *)
(* modifiers or super mode active and stay below their gaming limits; bets *)
(* of one kind are kept as their sum, which is all that payouts use.  The  *)
(* windows are positive, so the clock matters only by whether the phase's  *)
(* window is over.                                                         *)
(***************************************************************************)
EXTENDS Integers, FiniteSetsExt

CONSTANTS Players, Amounts,
          Rolls,                 \* the totals of two dice that are tried
          StartingChips,
          Bankroll,              \* the house's bankroll at first
          max_exposure_bps, max_player_exposure, max_single_bet,
          MaxRounds              \* bound: the rounds that are opened

CRAPS_MAX_PAYOUT_MULTIPLIER == 30
Kinds == {"pass", "field"}
NoSession == -1

VARIABLES round,          \* GlobalTableRound; roll is what its roll_seed throws
          bets,           \* the bets in each player's table session
          last_settled,   \* last_settled_round of it, or NoSession
          chips, net_pnl,
          bankroll,       \* HouseBankroll: funds and exposure
          exposure,       \* PlayerExposure of each player
          thrown_on       \* history: the point when the last roll was thrown

vars == <<round, bets, last_settled, chips, net_pnl, bankroll, exposure, thrown_on>>

NoBets == [k \in Kinds |-> 0]

Init ==
  /\ round = [id |-> 0, phase |-> "cooldown", over |-> TRUE, point |-> 0, roll |-> 0,
              totals |-> NoBets]
  /\ bets = [p \in Players |-> NoBets]
  /\ last_settled = [p \in Players |-> NoSession]
  /\ chips = [p \in Players |-> StartingChips]
  /\ net_pnl = 0
  /\ bankroll = [funds |-> Bankroll, exposure |-> 0]
  /\ exposure = [p \in Players |-> 0]
  /\ thrown_on = 0

Minus(a, b) == IF a > b THEN a - b ELSE 0   \* saturating_sub
Sum(f) == MapThenSumSet(LAMBDA x : f[x], DOMAIN f)

Enter(phase) == [round EXCEPT !.phase = phase, !.over = FALSE]

\* The first round opens whatever the phase.
OpenRound ==
  /\ round.id < MaxRounds
  /\ round.id = 0 \/ (round.phase = "cooldown" /\ round.over)
  /\ round' = [Enter("betting") EXCEPT !.id = @ + 1, !.roll = 0]
  /\ UNCHANGED <<bets, last_settled, chips, net_pnl, bankroll, exposure, thrown_on>>

\* check_bet_exposure.
WithinExposure(p, amount) ==
  LET added == amount * CRAPS_MAX_PAYOUT_MULTIPLIER
  IN  /\ amount <= max_single_bet
      /\ exposure[p] + added <= max_player_exposure
      /\ bankroll.exposure + added <= (bankroll.funds * max_exposure_bps) \div 10000

\* A player without a session gets one as if they had settled the round before.
CanBet(p) == last_settled[p] \in {NoSession, round.id - 1}

\* The sync of the session to the table changes nothing that a Pass or Field bet reads.
SubmitBets(p, kind, amount) ==
  /\ round.phase = "betting" /\ ~round.over
  /\ CanBet(p) /\ WithinExposure(p, amount) /\ chips[p] >= amount
  /\ chips' = [chips EXCEPT ![p] = @ - amount]
  /\ net_pnl' = net_pnl + amount
  /\ bets' = [bets EXCEPT ![p][kind] = @ + amount]
  /\ last_settled' = [last_settled EXCEPT ![p] = round.id - 1]
  /\ round' = [round EXCEPT !.totals[kind] = @ + amount]
  /\ bankroll' = [bankroll EXCEPT !.exposure = @ + amount * CRAPS_MAX_PAYOUT_MULTIPLIER]
  /\ exposure' = [exposure EXCEPT ![p] = @ + amount * CRAPS_MAX_PAYOUT_MULTIPLIER]
  /\ UNCHANGED thrown_on

\* The seed of the block fixes the roll.
Lock(roll) ==
  /\ round.phase = "betting" /\ round.over
  /\ round' = [Enter("locked") EXCEPT !.roll = roll]
  /\ UNCHANGED <<bets, last_settled, chips, net_pnl, bankroll, exposure, thrown_on>>

\* update_phase: the point after a roll; 0 is the come-out.
PointAfter(point, roll) ==
  IF point = 0 THEN IF roll \in {2, 3, 7, 11, 12} THEN 0 ELSE roll
  ELSE IF roll \in {point, 7} THEN 0 ELSE point

\* The table rolls in a session of its own.
Reveal ==
  /\ round.phase = "locked" /\ round.over
  /\ round' = [Enter("payout") EXCEPT !.point = PointAfter(@, round.roll)]
  /\ thrown_on' = round.point
  /\ UNCHANGED <<bets, last_settled, chips, net_pnl, bankroll, exposure>>

\* process_roll for the two kinds: what each bet returns, its stake included, and
\* whether it stays.
PassReturn(amount, point, roll) ==
  IF roll \in (IF point = 0 THEN {7, 11} ELSE {point}) THEN 2 * amount ELSE 0
PassStays(point, roll) ==
  roll \notin (IF point = 0 THEN {2, 3, 7, 11, 12} ELSE {point, 7})
FieldReturn(amount, roll) ==
  amount * (IF roll = 12 THEN 4 ELSE IF roll = 2 THEN 3
            ELSE IF roll \in {3, 4, 9, 10, 11} THEN 2 ELSE 0)

Returned(b, point, roll) == PassReturn(b["pass"], point, roll) + FieldReturn(b["field"], roll)
Staying(b, point, roll) == [NoBets EXCEPT !["pass"] = IF PassStays(point, roll) THEN b["pass"] ELSE 0]

\* Mutant: the bets that stay are taken off as well.
TotalsAfterAll(before, after) == [k \in Kinds |-> Minus(round.totals[k], before[k])]

\* apply_bet_totals_delta: settling adds no bet.
TotalsAfter(before, after) ==
  [k \in Kinds |-> Minus(round.totals[k], before[k] - after[k])]

\* The session is synced to the table as it is after the roll, and then rolls the same
\* dice again.
Settle(p) ==
  LET after == Staying(bets[p], round.point, round.roll)
      payout == Returned(bets[p], round.point, round.roll)
      released == Sum(bets[p]) * CRAPS_MAX_PAYOUT_MULTIPLIER
  IN  /\ round.phase \in {"payout", "cooldown"} /\ round.id > 0
      /\ last_settled[p] # NoSession /\ last_settled[p] + 1 = round.id
      /\ chips' = [chips EXCEPT ![p] = @ + payout]
      /\ net_pnl' = net_pnl - payout
      /\ bets' = [bets EXCEPT ![p] = after]
      /\ last_settled' = [last_settled EXCEPT ![p] = round.id]
      /\ round' = [round EXCEPT !.totals = TotalsAfter(bets[p], after)]
      /\ bankroll' = [funds |-> Minus(bankroll.funds, payout),
                      exposure |-> Minus(bankroll.exposure, released)]
      /\ exposure' = [exposure EXCEPT ![p] = Minus(@, released)]
      /\ UNCHANGED thrown_on

Finalize ==
  /\ round.phase = "payout" /\ round.over
  /\ round' = Enter("cooldown")
  /\ UNCHANGED <<bets, last_settled, chips, net_pnl, bankroll, exposure, thrown_on>>

\* Enough blocks pass for the phase's window to be over.
WindowEnds ==
  /\ round.id > 0 /\ ~round.over
  /\ round' = [round EXCEPT !.over = TRUE]
  /\ UNCHANGED <<bets, last_settled, chips, net_pnl, bankroll, exposure, thrown_on>>

Next ==
  \/ OpenRound \/ Reveal \/ Finalize \/ WindowEnds
  \/ \E roll \in Rolls : Lock(roll)
  \/ \E p \in Players : Settle(p) \/ \E k \in Kinds, a \in Amounts : SubmitBets(p, k, a)

Spec == Init /\ [][Next]_vars

-----------------------------------------------------------------------------
(* Properties. *)

TypeOK ==
  /\ round \in [id : 0 .. MaxRounds, phase : {"betting", "locked", "payout", "cooldown"},
                over : BOOLEAN, point : Rolls \cup {0}, roll : Rolls \cup {0},
                totals : [Kinds -> Nat]]
  /\ bets \in [Players -> [Kinds -> Nat]]
  /\ last_settled \in [Players -> NoSession .. MaxRounds]
  /\ chips \in [Players -> Nat] /\ net_pnl \in Int
  /\ bankroll \in [funds : Nat, exposure : Nat] /\ exposure \in [Players -> Nat]
  /\ thrown_on \in Rolls \cup {0}

\* The books of the table agree after any order of bets, settlements and rounds that
\* some players miss: the totals shown are the sums of the bets that stand, chips move
\* only between players and the house, and the house's exposure, by which new bets are
\* limited, never exceeds what the exposures of the players sum to.
TableBooksAgree ==
  /\ \A k \in Kinds : round.totals[k] = MapThenSumSet(LAMBDA p : bets[p][k], Players)
  /\ Sum(chips) + net_pnl = StartingChips * Sum([p \in Players |-> 1])
  /\ bankroll.exposure <= Sum(exposure)

\* What a player is paid is what their bets win by the point that the roll was thrown
\* on: "Point established - bet stays", "Seven out - lose" (craps.rs:1364 and 1379).
SettlesByThePoint ==
  [][\A p \in Players :
       last_settled[p] # NoSession /\ last_settled'[p] # last_settled[p] =>
         chips'[p] - chips[p] = Returned(bets[p], thrown_on, round.roll)]_vars
=============================================================================
