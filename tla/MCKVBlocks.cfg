SPECIFICATION Spec
CONSTANTS
  r1 = r1
  r2 = r2
  r3 = r3
  Blocks = {b1, b2, b3, b4}
  Requests <- Reqs
  Tokens <- Toks
  Prompt <- Prompts
  Pinned <- Pins
  block_size = 2
  None = None
SYMMETRY Symmetry
CHECK_DEADLOCK FALSE
INVARIANTS FreeQueueExact RefCountExact BlocksKeepTheirTokens PinnedPrefixStays UnpinGivesAllBack
