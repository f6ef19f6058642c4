\* The priority policy: a victim scheduled in the same step leaves the batch.
CONSTANTS
  ra = ra
  rb = rb
  rc = rc
  Requests = {ra, rb}
  b1 = b1
  b2 = b2
  b3 = b3
  b4 = b4
  Blocks = {b1, b2, b3}
  BlockSize = 2
  Token = {0}
  Prompt <- MCPrompt
  MaxTokens <- MCMaxTokens
  MaxModelLen = 6
  NumSpec = 0
  NumLookahead = 0
  Priority = TRUE
  Rank <- MCRank
  DeferBlockFree = FALSE
  MaxInFlight = 1
  MaxResets = 0
SPECIFICATION Spec
INVARIANTS
  CacheIntegrity
CHECK_DEADLOCK FALSE
