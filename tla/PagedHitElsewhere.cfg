SPECIFICATION Spec
CONSTANTS
  Request = {r1, r2}
  r1 = r1
  r2 = r2
  Token = {1, 2, 3}
  Prompts <- SuffixPrompts
  MaxNewTokens = 2
  BlockTokens = 1
  TotalBlocks = 3
  PrefixCacheEnabled = TRUE
SYMMETRY RequestSymmetry
INVARIANTS
  HitsArePrefixes
