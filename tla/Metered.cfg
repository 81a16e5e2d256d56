SPECIFICATION MeteredSpec
CONSTANTS
  Request = {1, 2, 3}
  Token = {1}
  Prompts <- MeteredPrompts
  MaxNewTokens = 3
  BlockTokens = 2
  TotalBlocks = 2
  PrefixCacheEnabled = FALSE
  Arrivals = {0, 2}
  Durations = {1, 3}
  TtftSlo = 2
  TpotSlo = 2
  TokenBudget = 2
  ChunkTokens = 2
  MaxActive = 2
  DecodeFirst = TRUE
INVARIANTS
  DecidedInOrder
  AdmittedWithinSlo
  WorkStaysValid
  TimestampsMatchPhases
  RequestsAreAccountedFor
  GapsTelescope
  RatiosStayWithinOne
  PeaksMatchTheRequests
PROPERTIES
  IterationsUseTheBudget
