SPECIFICATION FaultySpec
CONSTANTS
  a1 = a1
  Accounts = {a1}
  Rest = rest
  MaxNonce = 1
  MaxBacklog = 2
  MaxTransactions = 2
  Bodies <- MCSmallBodies
  MaxBlockTransactions = 1
  ProofQueue = 1
  MaxHeight = 2
  MaxFaults = 1
  MaxCrashes = 0
INVARIANT
  NoStalePending
