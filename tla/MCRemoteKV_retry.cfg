\* A connector that offers a failed load again.
CONSTANTS
  ra = ra
  rb = rb
  Requests = {ra, rb}
  NumBlocks = 3
  BlockSize = 2
  PromptLen <- MCPromptLen
  MaxTokens <- MCMaxTokens
  ExtTokens <- MCExtTokens
  RetriesFailed = TRUE
  TokenBudget = 2
  MaxNumSeqs = 2
  MaxFailures = 1
SPECIFICATION Spec
PROPERTIES
  EveryLoadFinishes
CHECK_DEADLOCK FALSE
