SPECIFICATION Spec
CONSTANTS
  TileTypeLists <- SmallTypeLists
  TileTypeCount = 3
  ManyHeads = 1
  Concurrency = 2
  MaxDepth = 6
  CountLimit = 15
  Beyond <- NoEntry
INVARIANTS AbortsIfCutOrEmpty StoresDirectPaths ScanIsStored
