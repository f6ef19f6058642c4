\* The priority policy, blocks freed at once: a victim may be in the same step.
CONSTANTS
  ra = ra
  rb = rb
  rc = rc
  Requests = {ra, rb, rc}
  b1 = b1
  b2 = b2
  b3 = b3
  b4 = b4
  Blocks = {b1, b2, b3}
  BlockSize = 2
  PromptLen <- MCPromptLen
  MaxTokens <- MCMaxTokens
  MaxModelLen = 6
  TokenBudget = 4
  MaxNumSeqs = 3
  PPSize = 2
  NumSpec = 0
  NumLookahead = 0
  Policy = "priority"
  Rank <- MCRank
  DeferBlockFree = FALSE
  RequiresKVDelivery = FALSE
  ReserveFullISL = TRUE
  WatermarkBlocks = 0
  MaxResets = 0
SPECIFICATION FairSpec
INVARIANTS
  QueuesMatchStatus
  PreemptionKeepsLoop
  DeliveredInOrder
PROPERTIES
  EveryRequestFinishes
CHECK_DEADLOCK FALSE
