SPECIFICATION FairSpec
CONSTANTS
  NetCount = 4
  Nodes <- MCNodes
  Pips <- MCPips
  Root <- MCRoot
  ZeroPip <- MCZeroPip
  None = 99
  Id <- MCId
  NodeIn <- MCNodeIn
  NodeOut <- MCNodeOut
  NodeToPips <- MCNodeToPips
  SourceCount <- MCSourceCount
  Sources <- MCSources
  Stubs <- MCStubs
  StubList <- MCStubList
  StubNode <- MCStubNode
  Dist <- MCDist
  CostLimit = 4
  MaxAttempts = 4
  Inputs <- MCInputs
INVARIANTS
  AbortForCause
  SearchForest
  GivesUpForCause
  OutputWhole
PROPERTIES
  TreeRoutingSpec
  Terminates
