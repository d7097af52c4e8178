SPECIFICATION Spec
CONSTANTS
  Players = {p1, p2}
  Amounts = {1}
  Rolls = {6, 7, 11, 12}
  StartingChips = 2
  Bankroll = 300
  max_exposure_bps = 5000
  max_player_exposure = 60
  max_single_bet = 1
  MaxRounds = 2
PROPERTY SettlesByThePoint
CHECK_DEADLOCK FALSE
