SPECIFICATION Spec
CONSTANTS
  None = None
  Nets <- ConflictNets
  Nodes <- ConflictNodes
  Pips <- ConflictPips
  Node0 <- ConflictNode0
  Node1 <- ConflictNode1
  Out <- ConflictOut
  Sources <- ConflictSources
  SourcePips <- ConflictSourcePips
  Stubs <- ConflictStubs
  NetOf <- ConflictNetOf
  StubNode <- ConflictStubNode
  SiteLess = {}
  Bias <- ConflictBias
  HeightCost = 1
  Orders <- ConflictOrders
  Inputs <- ConflictInputs
  BeamWidth = 3
  InsertWidth = 2
  CounterMax = 3
  SeriesMax = 2
  RestartMax = 2
INVARIANT FullyRoutedAreWritten
