SPECIFICATION Spec
CONSTANTS
  MaxRequests = 4
  PrefixGroups = 1
  SharedPrefixTokens = 300
  Gaps <- MCGaps
  Lengths <- MCLengths
  Contents = {c1, c2}
SYMMETRY Symmetry
INVARIANTS
  WorkloadIsRunnable
  GroupsShareTheirPrefix
  SummarySeesTheOrder
