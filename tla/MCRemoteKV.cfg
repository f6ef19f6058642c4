\* Two requests on three blocks.
CONSTANTS
  ra = ra
  rb = rb
  Requests = {ra, rb}
  NumBlocks = 3
  BlockSize = 2
  PromptLen <- MCPromptLen
  MaxTokens <- MCMaxTokens
  ExtTokens <- MCExtTokens
  RetriesFailed = FALSE
  TokenBudget = 2
  MaxNumSeqs = 2
  MaxFailures = 2
SPECIFICATION Spec
INVARIANTS
  TransfersKeepBlocks
  DelayedFreeHasReport
PROPERTIES
  SampledFromValidKV
  EveryLoadFinishes
CHECK_DEADLOCK FALSE
