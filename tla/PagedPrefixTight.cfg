SPECIFICATION Spec
CONSTANTS
  Request = {r1, r2, r3}
  r1 = r1
  r2 = r2
  r3 = r3
  Token = {1, 2, 3}
  Prompts <- BoundaryPrompts
  MaxNewTokens = 3
  BlockTokens = 2
  TotalBlocks = 3
  PrefixCacheEnabled = TRUE
SYMMETRY RequestSymmetry
INVARIANTS
  TypeOK
  TablesInShape
  ReservationsHonoured
  PrefillNeverFails
  NoBlockLost
  DrainedCacheAdmits
