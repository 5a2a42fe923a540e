SPECIFICATION Spec
CONSTANTS
  Netlists <- MCNetlists
  Contexts <- MCContexts
  Nodes <- MCNodes
  PipCount <- MCPipCount
  Threads = 2
  BeamWidth = 2
  GroupSize = 2
  LargestCount = 8
  None = NoNode
  NoNode = NoNode
INVARIANTS StubsIndexed MadeAsItShould HistoriesReadBack
