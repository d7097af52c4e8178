SPECIFICATION MCSpec
CONSTANTS
  None = None
  MaxCalls = 2
  MaxFailures = 1
  MAX_RECONNECT_ATTEMPTS = 1
  MAX_QUEUE_SIZE = 1
  MaxMessages = 2
  MaxRequests = 2
  MaxCloses = 2
INVARIANTS BrowserNonceAtMostOneAhead MessageSettledOnce
   
CHECK_DEADLOCK FALSE
