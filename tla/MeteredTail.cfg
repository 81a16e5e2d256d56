SPECIFICATION MeteredSpec
CONSTANTS
  Request = {1}
  Token = {1}
  Prompts <- OnePrompt
  MaxNewTokens = 22
  BlockTokens = 23
  TotalBlocks = 1
  PrefixCacheEnabled = FALSE
  Arrivals = {0}
  Durations = {1, 30}
  TtftSlo = 2
  TpotSlo = 1
  TokenBudget = 1
  ChunkTokens = 1
  MaxActive = 1
  DecodeFirst = TRUE
INVARIANTS
  P95IsStricterThanMean
