SPECIFICATION FairSpec
CONSTANTS
  None = None
  Nets <- MazeNets
  Nodes <- MazeNodes
  Pips <- MazePips
  Node0 <- MazeNode0
  Node1 <- MazeNode1
  Out <- MazeOut
  Sources <- MazeSources
  SourcePips <- MazeSourcePips
  Stubs <- MazeStubs
  NetOf <- MazeNetOf
  StubNode <- MazeStubNode
  SiteLess <- MazeSiteLess
  Bias <- MazeBias
  HeightCost = 1
  Orders <- MazeOrders
  Inputs <- MazeInputs
  BeamWidth = 4
  InsertWidth = 3
  CounterMax = 3
  SeriesMax = 3
  RestartMax = 2
INVARIANTS HistoryForest BeamForest FrontIsCheapest DeadEndIsReal
PROPERTY Terminates
