SPECIFICATION Spec
CONSTANTS
  Request = {r1, r2, r3, r4}
  r1 = r1
  r2 = r2
  r3 = r3
  r4 = r4
  PromptSizes = {0, 2, 3, 9}
  MaxNewTokens = 2
  BlockTokens = 2
  TotalBlocks = 5
SYMMETRY RequestSymmetry
INVARIANTS
  OwnershipExact
  AppendsAlwaysFit
  AdmitsWhatTheLargestRunHolds
