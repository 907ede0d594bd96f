SPECIFICATION Spec
CONSTANTS
  t1 = t1  t2 = t2  t3 = t3
  p1 = p1  p2 = p2  a = a  b = b
  Task <- MCTask
  View <- MCView
  NoView = NoView
  PoolSize = 2
  MaxGen = 3
SYMMETRY MCSymmetry
CHECK_DEADLOCK FALSE
INVARIANTS
  TypeOK
  CoveredUnlessCollided
  ListedUnlessCollided
  ListDrains
