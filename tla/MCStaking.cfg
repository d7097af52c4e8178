SPECIFICATION Spec
CONSTANTS
  Players = {p1, p2}
  STAKING_REWARD_SCALE = 4
  DEV_EPOCH_LENGTH_BLOCKS = 1
  Amounts = {1}
  Durations = {1, 3}
  Results = {1}
  StartingChips = 1
  MaxU128 = 20
  MaxView = 3
  MaxPnl = 1
INVARIANT ClaimsAreCovered
CHECK_DEADLOCK FALSE
