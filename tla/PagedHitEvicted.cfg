SPECIFICATION Spec
CONSTANTS
  Request = {r1, r2}
  r1 = r1
  r2 = r2
  Token = {1, 2, 3}
  Prompts <- OverlappingPrompts
  MaxNewTokens = 2
  BlockTokens = 1
  TotalBlocks = 2
  PrefixCacheEnabled = TRUE
SYMMETRY RequestSymmetry
PROPERTIES
  EvictedPagesAreUnreferenced
