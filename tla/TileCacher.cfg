SPECIFICATION FairSpec
CONSTANTS
  t1 = t1  t2 = t2  t3 = t3  l1 = l1  l2 = l2
  Tile <- MCTile
  Loader <- MCLoader
  NoTile = NoTile
  MaxLoads = 2
CHECK_DEADLOCK FALSE
INVARIANTS
  InOrder
  QueueServed
  OneLateWrite
PROPERTIES
  ImplementsWriter
  TilesAreHandled
