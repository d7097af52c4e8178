SPECIFICATION MCSpec
CONSTANTS
  None = None
  Keys = {k1, k2}
  Addresses = {e1, e2}
  TTL = 1
  Cooldown = 2
  MaxChallenges = 2
  MaxTime = 2
  u1 = u1
  u2 = u2
  Subscriptions = {s1}
  Prices = {p1, p2}
  BatchSize = 1
  MaxCheckouts = 2
  MaxChanges = 2
  MaxFailures = 1
  Replicas = {r1, r2}
  Players = {q1}
  MaxNonce = 6
INVARIANTS OneActiveLinkPerAddress ChallengeUsedOnce
PROPERTIES AddressChangesAreSpaced EntitlementsConverge LimitsAreSet
CHECK_DEADLOCK FALSE
