\* A common prefix, diverging output, drafts that may be rejected.
CONSTANTS
  ra = ra
  rb = rb
  rc = rc
  Requests = {ra, rb}
  b1 = b1
  b2 = b2
  b3 = b3
  b4 = b4
  Blocks = {b1, b2, b3}
  BlockSize = 2
  Token = {0, 1}
  Prompt <- MCPrompt
  MaxTokens <- MCMaxTokens
  MaxModelLen = 6
  NumSpec = 1
  NumLookahead = 1
  Priority = FALSE
  Rank <- MCRank
  DeferBlockFree = TRUE
  MaxInFlight = 2
  MaxResets = 1
SPECIFICATION Spec
INVARIANTS
  TypeOK
  RefCountsExact
  HashMapExact
  CacheIntegrity
  ReadsOwnTokens
  WritesOwnBlocks
  CachedOnce
  PrefixClosed
  CheckedAllocationSucceeds
CHECK_DEADLOCK FALSE
