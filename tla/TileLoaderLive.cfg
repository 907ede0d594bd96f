SPECIFICATION FairSpec
CONSTANTS
  t1 = t1  t2 = t2  t3 = t3
  p1 = p1  p2 = p2  a = a  b = b
  Task <- MCTask
  View <- MCPan
  NoView = NoView
  PoolSize = 1
  MaxGen = 2
CHECK_DEADLOCK FALSE
PROPERTIES
  TasksComplete
  StopTerminates
