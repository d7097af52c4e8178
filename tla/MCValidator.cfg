SPECIFICATION MCSpec
CONSTANTS
  Accounts = {a1, a2, a3}
  MaxNonce = 2
  MaxBacklog = 2
  MaxTransactions = 3
  MaxTime = 1
  PeekCount = 1
  s1 = s1
  s2 = s2
  Rest = Rest
  MaxBlock = 2
  MaxHeight = 2
  MaxFaults = 2
  CommitOp = CommitOp
  e1 = e1
  e2 = e2
  e3 = e3
  v1 = v1
  p1 = p1
  p2 = p2
INVARIANTS
  RingMatchesTracked PeekOffersEachAccountOnce RestartNeverWedges NoStalePending
   SerialEntriesGivenOnce StakesMatchHouse RewardsComeFromSurplus
  BridgeBooksBalance TableBooksAgree
PROPERTIES StateMovesByBlocks
