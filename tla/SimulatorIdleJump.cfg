SPECIFICATION SimSpec
CONSTANTS
  Request = {1, 2, 3}
  Token = {1}
  Prompts <- ShortPrompts
  MaxNewTokens = 1
  BlockTokens = 2
  TotalBlocks = 3
  PrefixCacheEnabled = FALSE
  Arrivals = {0, 5}
  Durations = {1}
  TtftSlo = 4
  TokenBudget = 2
  ChunkTokens = 2
  MaxActive = 1
  DecodeFirst = TRUE
PROPERTIES
  JumpsSkipNobody
