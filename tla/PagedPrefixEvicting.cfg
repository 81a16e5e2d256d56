SPECIFICATION Spec
CONSTANTS
  Request = {r1, r2, r3}
  r1 = r1
  r2 = r2
  r3 = r3
  Token = {1, 2, 3}
  Prompts <- AllOrNothingPrompts
  MaxNewTokens = 2
  BlockTokens = 2
  TotalBlocks = 4
  PrefixCacheEnabled = TRUE
SYMMETRY RequestSymmetry
INVARIANTS
  PagesConserved
  CachedPagesMatch
  RefsCountHolders
PROPERTIES
  EvictedPagesAreUnreferenced
  ImplementsPool
  AppendsWritePrivatePages
