SPECIFICATION MCSpec
CONSTANTS
  Handlers = {h1, h2}
  NoHandler = NoHandler
  CHAIN_RESET_THRESHOLD = 2
  MaxNonce = 3
  c1 = c1
  c2 = c2
  c3 = c3
  maxConnectionsPerIp = 1
  maxTotalSessions = 2
INVARIANTS NonceAtMostOneAhead  SessionsHoldPlaces
PROPERTIES  MessagesAreAnswered SessionsEnd
CHECK_DEADLOCK FALSE
