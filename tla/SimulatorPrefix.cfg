SPECIFICATION SimSpec
CONSTANTS
  Request = {1, 2, 3}
  Token = {1, 2, 3}
  Prompts <- SharedPrompts
  MaxNewTokens = 2
  BlockTokens = 1
  TotalBlocks = 4
  PrefixCacheEnabled = TRUE
  Arrivals = {0, 2}
  Durations = {0, 2}
  TtftSlo = 2
  TokenBudget = 2
  ChunkTokens = 1
  MaxActive = 3
  DecodeFirst = FALSE
INVARIANTS
  SimTypeOK
  NobodyWaitsWithoutReason
  PromptsComputedOnce
  EndsDrained
PROPERTIES
  RotationAdvances
  NobodyWaitsForNobody
  RunTerminates
