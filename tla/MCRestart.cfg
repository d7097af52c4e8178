SPECIFICATION MCSpec
CONSTANTS
  Accounts = {a1, a2}
  Rest = Rest
  MaxNonce = 1
  MaxBlock = 2
  MaxHeight = 2
  MaxFaults = 2
  ReplayHeight = 4
  MaxLosses = 2
  MaxCrashes = 1
  CommitOp = CommitOp
  Keys <- MCKeys
  KeyOrder <- MCKeyOrder
  Values <- MCValues
  Outputs <- MCOutputs
  Bodies <- MCBodies
  InitialWorld <- MCGenesis
  Execute <- MCExecute
INVARIANTS AppliedRangeIsTheBlock EachNonceOnce ProofsInOrderOnce SavePointIsExecuted
PROPERTIES StorageImplementsLedger ExecutionCatchesUp
