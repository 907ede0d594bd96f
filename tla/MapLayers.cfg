SPECIFICATION Spec
CONSTANTS
  roads = roads
  towns = towns
  photo = photo
  r1 = r1
  r2 = r2
  t1 = t1
  Source = {roads, towns, photo}
  FirstShapes <- MCFirstShapes
  Image = {photo}
  New = New
  NULL = NULL
  MaxDepth = 2
  MaxCalls = 7
INVARIANTS ListsAgree LockBalanced
PROPERTIES ImplementsStack 
CHECK_DEADLOCK FALSE
