SPECIFICATION FairSpec
CONSTANTS
  GroupSize = 3
  TileCount = 7
  Stubs <- MCStubs
  Placements <- MCPlacements
  StartTile <- MCStartTile
  Source <- MCSource
  FirstTiles <- MCFirstTiles
  PipTiles <- MCPipTiles
  Closed = {5, 6}
  Distance <- MCDistance
  HugeVal = 1000
INVARIANTS EachStubOnce ThreadsAgree PhasesApart PathsAreSequential
PROPERTY EveryThreadEnds
