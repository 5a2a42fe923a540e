SPECIFICATION Spec
CONSTANTS
  Nets <- MCNets
  SlotCount <- MCSlotCount
  Tile <- MCTile
  Nodes <- MCNodes
  NodeWires <- MCNodeWires
  NodeOf <- MCNodeOf
  Netlists <- MCNetlists
  Startable <- MCStartable
  Scan <- MCScan
  PathSlots <- MCPathSlots
  Stored <- MCStored
  InRange <- MCInRange
  NoNet = NoNet
  NoPath = NoPath
  NoSlot = NoSlot
INVARIANTS PathsDisjoint UnroutedForCause RoutedInRange
