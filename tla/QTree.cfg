SPECIFICATION TreeSpec
CONSTANTS
  Number = {i1, i2}
  Rect <- MCRect
  Query <- MCQuery
  FirstExtent <- MCFirstExtent
  MAX_LEAF_NODES = 2
  MaxSteps = 5
SYMMETRY Numbers
INVARIANTS Nested QueriesAreExact HangsOnlyOnLine
PROPERTY ImplementsIndex
CHECK_DEADLOCK FALSE
