SPECIFICATION Spec
CONSTANTS
  Launches <- MCLaunches
  WarpSize = 4
  TileSize = 2
  Spread = 16
  MinusInfinity = MinusInfinity
  Query <- MCQuery
  Key <- MCKey
  Value <- MCValue
INVARIANTS
  KernelIsAttention
  AccessesInBounds
