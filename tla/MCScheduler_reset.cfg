\* reset_prefix_cache with batches in flight and deferred frees.
CONSTANTS
  ra = ra
  rb = rb
  rc = rc
  Requests = {ra, rb}
  b1 = b1
  b2 = b2
  b3 = b3
  b4 = b4
  Blocks = {b1, b2, b3}
  BlockSize = 2
  PromptLen <- MCPromptLen
  MaxTokens <- MCMaxTokens
  MaxModelLen = 6
  TokenBudget = 4
  MaxNumSeqs = 2
  PPSize = 1
  NumSpec = 0
  NumLookahead = 0
  Policy = "fcfs"
  Rank <- MCRank
  DeferBlockFree = TRUE
  RequiresKVDelivery = FALSE
  ReserveFullISL = TRUE
  WatermarkBlocks = 0
  MaxResets = 1
SPECIFICATION Spec
INVARIANTS
  ResetSucceeds
CHECK_DEADLOCK FALSE
