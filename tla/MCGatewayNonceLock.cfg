SPECIFICATION Spec
CONSTANTS
  Handlers = {h1, h2, h3}
  h1 = h1
  h2 = h2
  h3 = h3
  NoHandler = NoHandler
  CHAIN_RESET_THRESHOLD = 2
  MaxNonce = 2
SYMMETRY Symmetry
INVARIANT Serialized
