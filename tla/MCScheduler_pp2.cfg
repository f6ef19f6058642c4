\* Two requests that outgrow the pool together, three batches in flight, drafts
\* that may be rejected, a reset.
CONSTANTS
  ra = ra
  rb = rb
  rc = rc
  Requests = {ra, rb}
  b1 = b1
  b2 = b2
  b3 = b3
  b4 = b4
  Blocks = {b1, b2, b3, b4}
  BlockSize = 2
  PromptLen <- MCPromptLen
  MaxTokens <- MCMaxTokens3
  MaxModelLen = 6
  TokenBudget = 4
  MaxNumSeqs = 2
  PPSize = 2
  NumSpec = 1
  NumLookahead = 1
  Policy = "fcfs"
  Rank <- MCRank
  DeferBlockFree = TRUE
  RequiresKVDelivery = FALSE
  ReserveFullISL = TRUE
  WatermarkBlocks = 0
  MaxResets = 1
SPECIFICATION FairSpec
INVARIANTS
  TypeOK
  CountersMatchBatches
  ComputedAhead
  DeliveredInOrder
  BlocksPartitioned
  OnlyRunningHold
PROPERTIES
  NoOutputAfterFinish
  LeaseSpec
  EveryRequestFinishes
  DeferredFreesDrain
CHECK_DEADLOCK FALSE
